----------------------------- MODULE ArgsManager -----------------------------
(***************************************************************************)
(* The configuration store of src/util/system.cpp (class ArgsManager) as  *)
(* seen by one node process: ParseParameters, ReadConfigFiles (with       *)
(* ReadConfigStream, GetConfigOptions and the -includeconf logic),        *)
(* SelectConfigNetwork, ForceSetArg/SoftSetArg/ClearForced, GetDataDir    *)
(* and its path cache, and the lookups GetSetting/GetChainName they rely  *)
(* on.  Every public method takes cs_args (a recursive mutex) for its     *)
(* whole body, and the start-up code calls them from one thread, so each  *)
(* method is one step.  A failed ParseParameters or ReadConfigFiles makes *)
(* the process exit with an error; it can then be started again.          *)
(*                                                                         *)
(* Data abstraction: argument names, values and file names are short      *)
(* strings from small sets; a command-line token or config-file line is   *)
(* a record that already tells apart the pieces the code finds by         *)
(* searching for '=', '.', '[', ']' and '#'; the "no" prefix of a key is  *)
(* still stripped by InterpretKey.  Log and warning texts are left out.   *)
(***************************************************************************)
EXTENDS Integers, Sequences, FiniteSets

CONSTANTS
    Names,            \* registered argument names (AddArg), without '-'
    Flags,            \* Flags[n]: subset of {"DISALLOW_NEGATION", "DISALLOW_ELISION",
                      \* "SENSITIVE", "NETWORK_ONLY"}
    Commands,         \* registered commands (AddCommand)
    AcceptAnyCommand, \* m_accept_any_command: no command was registered
    Dirs,             \* strings that name existing directories
    FileNames,        \* file names a configuration can refer to
    FileSystems,      \* possible disk contents: [FileNames -> Seq(Line) \cup {Missing}]
    Missing,          \* a file that does not exist
    Argvs,            \* command lines the process can be started with
    ForceNames,       \* arguments start-up code sets by hand
    ForceValues,      \* values it passes to ForceSetArg/SoftSetArg
    IgnoreArgs,       \* values callers pass for ignore_invalid_keys
    Getters,          \* which of GetDataDirNet, GetBlocksDirPath start-up calls
    MaxParses         \* bound on ParseParameters calls per process run

ASSUME {"includeconf", "testnet", "regtest", "datadir", "conf"} \subseteq Names
ASSUME Flags \in [Names -> SUBSET {"DISALLOW_NEGATION", "DISALLOW_ELISION", "SENSITIVE",
                                   "NETWORK_ONLY"}]
ASSUME MaxParses \in Nat \ {0}
ASSUME IgnoreArgs \subseteq BOOLEAN /\ IgnoreArgs # {}
ASSUME Getters \subseteq {"net", "blocks"}

CONF_FILENAME == "globe.conf"           \* GLOBE_CONF_FILENAME
SETTINGS_FILENAME == "settings.json"    \* GLOBE_SETTINGS_FILENAME
DefaultDir == "<default datadir>"       \* GetDefaultDataDir()
NoPath == "<empty path>"                \* fs::path{}
Chains == {"main", "test", "regtest"}   \* CBaseChainParams ids
Sections == {""} \cup Chains            \* "" is the default section

(* CBaseChainParams::DataDir(): the subdirectory of the selected chain. *)
ChainDir(chain) == CASE chain = "test" -> "testnet3" [] chain = "regtest" -> "regtest"
                     [] OTHER -> ""

-----------------------------------------------------------------------------
(***************************************************************************)
(* Command-line tokens and config-file lines.                             *)
(***************************************************************************)
OptTok(sec, w, v) == [kind |-> "opt", sec |-> sec, word |-> w, val |-> v]
WordTok(w) == [kind |-> "word", word |-> w]        \* first char not '-'
StdinTok == [kind |-> "stdin"]                     \* the lone "-"
NoVal == "<no '='>"                                \* key without "=value"

Header(s) == [kind |-> "header", sec |-> s]        \* "[s]"
OptLine(sec, w, v) == [kind |-> "opt", sec |-> sec, word |-> w, val |-> v]
BadLine == [kind |-> "bad"]    \* leading '-', no '=', or '#' in rpcpassword

(***************************************************************************)
(* util::SettingsValue: null, a boolean or a string.                      *)
(***************************************************************************)
Null == [t |-> "null"]
B(b) == [t |-> "bool", b |-> b]
S(s) == [t |-> "str", s |-> s]
Err == [t |-> "error"]         \* std::nullopt with an error message

(* LocaleIndependentAtoi: leading decimal digits, 0 for anything else. *)
Atoi(s) == CASE s = "1" -> 1 [] s = "2" -> 2 [] OTHER -> 0

InterpretBool(s) == s = "" \/ Atoi(s) # 0

(***************************************************************************)
(* InterpretKey: strip a leading "no", which negates the key.  (Sections  *)
(* were split off the key already, see the token records.)               *)
(***************************************************************************)
InterpretKey(sec, w) ==
    IF \E n \in Names : w = "no" \o n
    THEN [section |-> sec, name |-> CHOOSE n \in Names : w = "no" \o n,
          negated |-> TRUE]
    ELSE [section |-> sec, name |-> w, negated |-> FALSE]

(* InterpretValue: a negated key gives false (true for "-nofoo=0"). *)
InterpretValue(key, value, flags) ==
    IF key.negated
    THEN IF "DISALLOW_NEGATION" \in flags THEN Err
         ELSE IF value # NoVal /\ ~InterpretBool(value) THEN B(TRUE)
         ELSE B(FALSE)
    ELSE IF value = NoVal /\ "DISALLOW_ELISION" \in flags THEN Err
    ELSE S(IF value = NoVal THEN "" ELSE value)

-----------------------------------------------------------------------------
(***************************************************************************)
(* util::SettingsSpan over the values given to one setting by one source: *)
(* the values after the last negation.                                    *)
(***************************************************************************)
NegatedCount(vals) ==
    LET negs == {i \in 1..Len(vals) : vals[i] = B(FALSE)}
    IN IF negs = {} THEN 0 ELSE CHOOSE i \in negs : \A j \in negs : j <= i

Span(vals) == SubSeq(vals, NegatedCount(vals) + 1, Len(vals))
LastNegated(vals) == Len(vals) > 0 /\ vals[Len(vals)] = B(FALSE)

(***************************************************************************)
(* util::GetSetting: the first source that says something wins; sources   *)
(* in order forced, command line, settings.json, config network section,  *)
(* config default section.  Config sections take the first value, other  *)
(* sources the last one, except when looking up a chain name.  Chain-name *)
(* lookups skip negated sources.  When asked to, the default section is   *)
(* skipped, unless its last value is a negation.                          *)
(***************************************************************************)
Sources(st, section, name, ignoreDefault) ==
    <<[cfg |-> FALSE, vals |-> st.forced[name]],
      [cfg |-> FALSE, vals |-> st.cmdline[name]],
      [cfg |-> FALSE, vals |-> st.rw[name]]>>
    \o (IF section = "" THEN <<>>
        ELSE <<[cfg |-> TRUE, vals |-> st.ro[section][name]]>>)
    \o (IF ignoreDefault /\ ~LastNegated(st.ro[""][name]) THEN <<>>
        ELSE <<[cfg |-> TRUE, vals |-> st.ro[""][name]]>>)

MergeFirst(srcs, chainName) ==
    LET Decides(src) ==
            ~(chainName /\ LastNegated(src.vals))
            /\ (Span(src.vals) # <<>> \/ LastNegated(src.vals))
        ValueOf(src) ==
            IF Span(src.vals) = <<>> THEN B(FALSE)
            ELSE IF src.cfg /\ ~chainName THEN Span(src.vals)[1]
            ELSE Span(src.vals)[Len(Span(src.vals))]
        deciding == {i \in 1..Len(srcs) : Decides(srcs[i])}
    IN IF deciding = {} THEN Null
       ELSE ValueOf(srcs[CHOOSE i \in deciding : \A j \in deciding : i <= j])

(* AddArg: the arguments registered with ArgsManager::NETWORK_ONLY. *)
NetworkOnlyArgs == {n \in Names : "NETWORK_ONLY" \in Flags[n]}

(* Mutant: the default section is skipped for every argument off main. *)
UseDefaultSectionForMainOnly(network, name) == network = "main"

(* UseDefaultSection: the default section counts on main, or for an       *)
(* argument that is not network-only.  Before SelectConfigNetwork the     *)
(* network is "", which is not main.                                      *)
UseDefaultSection(network, name) ==
    network = "main" \/ name \notin NetworkOnlyArgs

GetSetting(st, network, name) ==
    MergeFirst(Sources(st, network, name, ~UseDefaultSection(network, name)), FALSE)

(***************************************************************************)
(* util::OnlyHasDefaultSectionSetting: the default section of the config *)
(* gives the argument a value, and every other source's span is empty     *)
(* (no values, or the last one negated).                                  *)
(***************************************************************************)
OnlyHasDefaultSectionSetting(st, section, name) ==
    LET srcs == Sources(st, section, name, FALSE)
    IN /\ Span(srcs[Len(srcs)].vals) # <<>>
       /\ \A i \in 1..Len(srcs) - 1 : Span(srcs[i].vals) = <<>>

(* GetUnsuitableSectionOnlyArgs: nothing before a network is selected or  *)
(* on main; else the network-only arguments set only in the default      *)
(* section, which init warns about.                                       *)
GetUnsuitableSectionOnlyArgs(st, network) ==
    IF network \in {"", "main"} THEN {}
    ELSE {n \in NetworkOnlyArgs : OnlyHasDefaultSectionSetting(st, network, n)}

IsArgSet(st, network, name) == GetSetting(st, network, name) # Null
IsArgNegated(st, network, name) == GetSetting(st, network, name) = B(FALSE)

(* SettingToString, as used by GetArg. *)
GetArg(st, network, name, default) ==
    LET v == GetSetting(st, network, name)
    IN CASE v = Null -> default
         [] v = B(FALSE) -> "0"
         [] v = B(TRUE) -> "1"
         [] OTHER -> v.s

(***************************************************************************)
(* GetChainName: at most one of -regtest, -testnet may be set; the        *)
(* lookup ignores sections and takes the last config value.               *)
(***************************************************************************)
GetNet(st, name) ==
    LET v == MergeFirst(Sources(st, "", name, FALSE), TRUE)
    IN IF v = Null THEN FALSE ELSE IF v.t = "bool" THEN v.b ELSE InterpretBool(v.s)

Throw == "<std::runtime_error>"

GetChainName(st) ==
    LET reg == GetNet(st, "regtest")
        tst == GetNet(st, "testnet")
    IN IF reg /\ tst THEN Throw
       ELSE IF reg THEN "regtest" ELSE IF tst THEN "test" ELSE "main"

(***************************************************************************)
(* GetPathArg("-datadir") and the path GetDataDir computes from it: a     *)
(* named directory that does not exist yields the empty path (not cached).*)
(***************************************************************************)
DataDirArg(st, network) ==
    IF IsArgNegated(st, network, "datadir") THEN ""
    ELSE GetArg(st, network, "datadir", "")

(* Mutant: the is_directory check of GetDataDir is lost. *)
DataDirOfUnchecked(st, network) ==
    LET d == DataDirArg(st, network)
    IN IF d = "" THEN DefaultDir ELSE d

DataDirOf(st, network) ==
    LET d == DataDirArg(st, network)
    IN IF d = "" THEN DefaultDir ELSE IF d \in Dirs THEN d ELSE NoPath

-----------------------------------------------------------------------------
(***************************************************************************)
(* ParseParameters: clear the command-line options (m_command is NOT      *)
(* cleared), then walk argv.  "-" stops; the first non-dash word starts   *)
(* the command (it must be registered unless any command is accepted)     *)
(* and everything after it is pushed onto m_command; an option must be    *)
(* registered and carry no section; its value goes through                *)
(* InterpretValue.  Finally a non-negated -includeconf is refused.        *)
(***************************************************************************)
RECURSIVE ParseArgs(_, _, _, _)
ParseArgs(argv, i, cl, cmd) ==
    IF i > Len(argv) \/ argv[i].kind = "stdin"
    THEN [ok |-> TRUE, cl |-> cl, cmd |-> cmd]
    ELSE LET t == argv[i] IN
    IF t.kind = "word"
    THEN IF ~AcceptAnyCommand /\ cmd = <<>> /\ t.word \notin Commands
         THEN [ok |-> FALSE, cl |-> cl, cmd |-> cmd]
         ELSE [ok |-> TRUE, cl |-> cl, cmd |-> cmd \o SubSeq(argv, i, Len(argv))]
    ELSE LET key == InterpretKey(t.sec, t.word)
             val == IF key.name \in Names
                    THEN InterpretValue(key, t.val, Flags[key.name]) ELSE Err
         IN IF key.name \notin Names \/ key.section # "" \/ val = Err
            THEN [ok |-> FALSE, cl |-> cl, cmd |-> cmd]
            ELSE ParseArgs(argv, i + 1,
                           [cl EXCEPT ![key.name] = Append(@, val)], cmd)

(* Mutant: the final check against a command-line -includeconf is lost. *)
ParseParametersAcceptingIncludeconf(argv, command) ==
    ParseArgs(argv, 1, [n \in Names |-> <<>>], command)

ParseParametersResult(argv, command) ==
    LET r == ParseArgs(argv, 1, [n \in Names |-> <<>>], command)
    IN [r EXCEPT !.ok = @ /\ Span(r.cl["includeconf"]) = <<>>]

(***************************************************************************)
(* GetConfigOptions: one pass over the lines, remembering the last        *)
(* "[section]" header as a prefix.  A key that still contains a '.'       *)
(* inside a section ("[test]" then "main.x=1") becomes a name with a dot, *)
(* which is never registered.  The first bad line fails the whole file;  *)
(* options are applied only after the whole file parsed.                  *)
(***************************************************************************)
UnknownName == "<unregistered>"

RECURSIVE ConfigOptions(_, _, _)
ConfigOptions(lines, prefix, opts) ==
    IF lines = <<>> THEN [ok |-> TRUE, opts |-> opts]
    ELSE LET l == Head(lines) IN
    CASE l.kind = "header" -> ConfigOptions(Tail(lines), l.sec, opts)
      [] l.kind = "opt" ->
           LET o == IF prefix = "" THEN [sec |-> l.sec, word |-> l.word, val |-> l.val]
                    ELSE IF l.sec = "" THEN [sec |-> prefix, word |-> l.word, val |-> l.val]
                    ELSE [sec |-> prefix, word |-> UnknownName, val |-> l.val]
           IN ConfigOptions(Tail(lines), prefix, Append(opts, o))
      [] OTHER -> [ok |-> FALSE, opts |-> opts]

(***************************************************************************)
(* ReadConfigStream: apply the options in order to ro_config.  An         *)
(* unregistered key is skipped or fails the read; a value InterpretValue  *)
(* refuses fails it.  Options before a failure stay applied.              *)
(***************************************************************************)
RECURSIVE ApplyOptions(_, _, _)
ApplyOptions(st, opts, ignore_invalid_keys) ==
    IF opts = <<>> THEN [ok |-> TRUE, st |-> st]
    ELSE LET o   == Head(opts)
             key == InterpretKey(o.sec, o.word)
         IN IF key.name \notin Names
            THEN IF ignore_invalid_keys THEN ApplyOptions(st, Tail(opts), ignore_invalid_keys)
                 ELSE [ok |-> FALSE, st |-> st]
            ELSE LET v == InterpretValue(key, o.val, Flags[key.name])
                 IN IF v = Err THEN [ok |-> FALSE, st |-> st]
                    ELSE ApplyOptions([st EXCEPT !.ro[key.section][key.name] = Append(@, v)],
                                      Tail(opts), ignore_invalid_keys)

ReadConfigStream(st, lines, ignore_invalid_keys) ==
    LET p == ConfigOptions(lines, "", <<>>)
    IN IF ~p.ok THEN [ok |-> FALSE, st |-> st]
       ELSE ApplyOptions(st, p.opts, ignore_invalid_keys)

-----------------------------------------------------------------------------
(***************************************************************************)
(* The add_includes lambda of ReadConfigFiles: the -includeconf values of *)
(* one section from index max(skip, negated()) on, as file names, and the *)
(* number of values.  get_str() on a value that is not a string throws.   *)
(***************************************************************************)
(* Mutant: the values before the last negation are not skipped. *)
AddIncludesFromSkip(st, net, skip) ==
    LET vals == st.ro[net]["includeconf"]
        tail == SubSeq(vals, skip + 1, Len(vals))
    IN [n     |-> Len(vals),
        bad   |-> \E i \in 1..Len(tail) : tail[i].t # "str",
        names |-> [i \in 1..Len(tail) |-> IF tail[i].t = "str" THEN tail[i].s ELSE ""]]

AddIncludes(st, net, skip) ==
    LET vals == st.ro[net]["includeconf"]
        from == IF skip > NegatedCount(vals) THEN skip ELSE NegatedCount(vals)
        tail == SubSeq(vals, from + 1, Len(vals))
    IN [n     |-> Len(vals),
        bad   |-> \E i \in 1..Len(tail) : tail[i].t # "str",
        names |-> [i \in 1..Len(tail) |-> IF tail[i].t = "str" THEN tail[i].s ELSE ""]]

(* The stream GetConfigFile(name) opens: the empty path names the data    *)
(* directory, which opens as a stream without lines.                     *)
Stream(fs, name) ==
    IF name = NoPath THEN <<>>
    ELSE IF name \in FileNames THEN fs[name] ELSE Missing

(* The included files, read in order; a missing one is an error. *)
RECURSIVE ReadIncludes(_, _, _, _)
ReadIncludes(st, names, fs, ignore_invalid_keys) ==
    IF names = <<>> THEN [ok |-> TRUE, st |-> st]
    ELSE IF Stream(fs, Head(names)) = Missing THEN [ok |-> FALSE, st |-> st]
    ELSE LET r == ReadConfigStream(st, Stream(fs, Head(names)), ignore_invalid_keys)
         IN IF ~r.ok THEN r ELSE ReadIncludes(r.st, Tail(names), fs, ignore_invalid_keys)

(***************************************************************************)
(* When an included file switched the chain, ReadConfigFiles also warns   *)
(* about every -includeconf of the new chain's section.                   *)
(***************************************************************************)
(* Mutant: no second look at the includes when the chain changed. *)
FinalChainIncludesNever(st, chain, final) ==
    [n |-> 0, bad |-> FALSE, names |-> <<>>]

FinalChainIncludes(st, chain, final) ==
    IF final # chain THEN AddIncludes(st, final, 0)
    ELSE [n |-> 0, bad |-> FALSE, names |-> <<>>]

(* The outcome of ReadConfigFiles: status, settings, gArgs' path cache,   *)
(* files read, files warned about, and the chain the includes were read  *)
(* for ("" when includes were not processed).                             *)
ConfigResult(status, s, c, cl, rd, wn, ch) ==
    [status |-> status, st |-> s, cache |-> c, cleared |-> cl, read |-> rd,
     warned |-> wn, chain |-> ch]

(* Mutant: the path caches are kept, as if the gArgs.ClearPathCache()    *)
(* call were missing.                                                     *)
ReadConfigFilesEndKeepingCache(s, network, cache, rd, wn, ch) ==
    ConfigResult(IF DataDirOf(s, network) = NoPath THEN "error" ELSE "ok",
                 s, cache, FALSE, rd, wn, ch)

(* The end of ReadConfigFiles: gArgs.ClearPathCache() drops the caches   *)
(* (the one filled while opening the file, and the data directory may    *)
(* have changed in the file), then CheckDataDirOption().  The early      *)
(* returns before it leave the caches as they are.                       *)
ReadConfigFilesEnd(s, network, cache, rd, wn, ch) ==
    ConfigResult(IF DataDirOf(s, network) = NoPath THEN "error" ELSE "ok",
                 s, NoPath, TRUE, rd, wn, ch)

(***************************************************************************)
(* ReadConfigFiles(error, ignore_invalid_keys) follows the C++ in stages, *)
(* each taking the values computed by the one before.  ctx holds what     *)
(* does not change during the call: the network, the disk, the flag, the *)
(* -conf path and gArgs' path cache as GetConfigFile left it.  Result:    *)
(* status ok, error, throw (GetChainName's runtime_error), badcast        *)
(* (UniValue's get_str on a non-string) or assert; the new settings and  *)
(* cache; the files read and warned about.                                *)
(***************************************************************************)
Out(ctx, status, s, rd, wn, ch) == ConfigResult(status, s, ctx.cache, FALSE, rd, wn, ch)
Finish(ctx, s, rd, wn, ch) == ReadConfigFilesEnd(s, ctx.net, ctx.cache, rd, wn, ch)

(* After the last GetChainName: warn about the new chain's includes too. *)
ReadConfigWarnFinal(ctx, st2, read, wn12, chain, final) ==
    IF final = Throw THEN Out(ctx, "throw", st2, read, {}, "")
    ELSE LET w3 == FinalChainIncludes(st2, chain, final)
             wn == wn12 \o w3.names
    IN IF w3.bad THEN Out(ctx, "badcast", st2, read, {}, "")
    ELSE Finish(ctx, st2, read, {wn[i] : i \in 1..Len(wn)}, final)

(* After the included files: collect the -includeconf values they added. *)
ReadConfigWarn(ctx, st2, read, chain, w1, w2) ==
    IF w1.bad \/ w2.bad THEN Out(ctx, "badcast", st2, read, {}, "")
    ELSE ReadConfigWarnFinal(ctx, st2, read, w1.names \o w2.names, chain,
                             GetChainName(st2))

(* Reading the included files, in order. *)
ReadConfigIncluded(ctx, chain, a1, a2, read, r2) ==
    IF ~r2.ok THEN Out(ctx, "error", r2.st, read, {}, "")
    ELSE ReadConfigWarn(ctx, r2.st, read, chain,
                        AddIncludes(r2.st, chain, a1.n), AddIncludes(r2.st, "", a2.n))

(* add_includes(chain_id) and add_includes({}) name the files to read. *)
ReadConfigIncludes(ctx, st1, chain, a1, a2) ==
    IF a1.bad \/ a2.bad THEN Out(ctx, "badcast", st1, {ctx.conf}, {}, "")
    ELSE ReadConfigIncluded(ctx, chain, a1, a2,
                            {ctx.conf} \cup {(a1.names \o a2.names)[i] :
                                             i \in 1..Len(a1.names \o a2.names)},
                            ReadIncludes(st1, a1.names \o a2.names, ctx.fs, ctx.ign))

(* The chain the includes are read for. *)
ReadConfigChain(ctx, st1, chain) ==
    IF chain = Throw THEN Out(ctx, "throw", st1, {ctx.conf}, {}, "")
    ELSE ReadConfigIncludes(ctx, st1, chain,
                            AddIncludes(st1, chain, 0), AddIncludes(st1, "", 0))

(* After ReadConfigStream of the -conf file: a command-line -includeconf  *)
(* (asserted negated) turns the includes off.                             *)
ReadConfigMain(ctx, st, r1) ==
    IF ~r1.ok THEN Out(ctx, "error", r1.st, {}, {}, "")
    ELSE IF st.cmdline["includeconf"] # <<>>
    THEN IF LastNegated(st.cmdline["includeconf"])
         THEN Finish(ctx, r1.st, {ctx.conf}, {}, "")
         ELSE Out(ctx, "assert", r1.st, {ctx.conf}, {}, "")
    ELSE ReadConfigChain(ctx, r1.st, GetChainName(r1.st))

(* Opening the -conf file: a missing file is an error only when -conf was *)
(* given.                                                                  *)
ReadConfigOpen(ctx, st, st0) ==
    IF Stream(ctx.fs, ctx.conf) = Missing
    THEN IF IsArgSet(st0, ctx.net, "conf") THEN Out(ctx, "error", st0, {}, {}, "")
         ELSE Finish(ctx, st0, {}, {}, "")
    ELSE ReadConfigMain(ctx, st, ReadConfigStream(st0, Stream(ctx.fs, ctx.conf), ctx.ign))

(* GetPathArg("-conf", GLOBE_CONF_FILENAME). *)
ConfPath(st0, network) ==
    IF IsArgNegated(st0, network, "conf") THEN NoPath
    ELSE IF GetArg(st0, network, "conf", "") = "" THEN CONF_FILENAME
    ELSE GetArg(st0, network, "conf", "")

(* Clear ro_config; GetConfigFile fills gArgs' path cache if it is empty. *)
ReadConfigStart(st, network, cache, fs, ignore_invalid_keys, st0) ==
    ReadConfigOpen([net |-> network, fs |-> fs, ign |-> ignore_invalid_keys,
                    conf |-> ConfPath(st0, network),
                    cache |-> IF cache # NoPath THEN cache ELSE DataDirOf(st0, network)],
                   st, st0)

ReadConfigFiles(st, network, cache, fs, ignore_invalid_keys) ==
    ReadConfigStart(st, network, cache, fs, ignore_invalid_keys,
                    [st EXCEPT !.ro = [s \in Sections |-> [n \in Names |-> <<>>]]])

-----------------------------------------------------------------------------
(***************************************************************************)
(* State of one process's ArgsManager and the disk it reads.              *)
(***************************************************************************)
VARIABLES
    settings,     \* m_settings: forced, cmdline, rw, ro (values per name)
    network,      \* m_network ("" until SelectConfigNetwork)
    pathCache,    \* m_cached_datadir_path (NoPath when empty)
    netCache,     \* m_cached_network_datadir_path
    blocksCache,  \* m_cached_blocks_path
    command,      \* m_command: the command and its arguments
    fs,           \* configuration files on disk
    phase,        \* "running", or "exited" after a fatal start-up error
    parses,       \* ParseParameters calls in this run
    lastRead,     \* outcome of the last ReadConfigFiles (history)
    handSet       \* an argument was set by hand since the last ClearPathCache

vars == <<settings, network, pathCache, netCache, blocksCache, command, fs,
          phase, parses, lastRead, handSet>>

(* A path under a data directory: base/sub (sub is "" for main). *)
SubDir(base, chain) == [base |-> base, sub |-> ChainDir(chain)]
NoSubDir == [base |-> NoPath, sub |-> NoPath]      \* an empty path cache

NoNames == [n \in Names |-> <<>>]
EmptySettings ==
    [forced |-> NoNames, cmdline |-> NoNames, rw |-> NoNames,
     ro |-> [s \in Sections |-> NoNames]]
NoRead == [status |-> "none", read |-> {}, warned |-> {}, chain |-> ""]

TypeOK ==
    /\ settings.forced \in [Names -> Seq([t : {"str"}, s : STRING])]
    /\ \A s \in Sections : DOMAIN settings.ro[s] = Names
    /\ network \in {""} \cup Chains
    /\ pathCache \in {NoPath, DefaultDir} \cup Dirs
    /\ netCache \in {NoSubDir} \cup {SubDir(d, c) : d \in {DefaultDir} \cup Dirs, c \in Chains}
    /\ blocksCache \in {NoSubDir} \cup {SubDir(d, c) : d \in {NoPath, DefaultDir} \cup Dirs, c \in Chains}
    /\ fs \in FileSystems
    /\ phase \in {"running", "exited"}
    /\ parses \in 0..MaxParses
    /\ lastRead.status \in {"none", "ok", "error", "throw", "badcast", "assert"}
    /\ handSet \in BOOLEAN

StartState ==
    /\ settings = EmptySettings
    /\ network = ""
    /\ pathCache = NoPath
    /\ netCache = NoSubDir
    /\ blocksCache = NoSubDir
    /\ command = <<>>
    /\ phase = "running"
    /\ parses = 0
    /\ lastRead = NoRead
    /\ handSet = FALSE

Init == StartState /\ fs \in FileSystems

(* ParseParameters(argc, argv, error); a failure ends the run. *)
ParseParameters(argv) ==
    LET r == ParseParametersResult(argv, command) IN
    /\ phase = "running" /\ parses < MaxParses
    /\ settings' = [settings EXCEPT !.cmdline = r.cl]
    /\ command' = r.cmd
    /\ phase' = IF r.ok THEN "running" ELSE "exited"
    /\ parses' = parses + 1
    /\ handSet' = TRUE
    /\ UNCHANGED <<network, pathCache, netCache, blocksCache, fs, lastRead>>

(* ReadConfigFiles, called once the command line parsed successfully;    *)
(* any result but ok ends the run.                                        *)
ApplyReadConfig(r) ==
    /\ settings' = r.st
    /\ pathCache' = r.cache
    /\ lastRead' = [status |-> r.status, read |-> r.read, warned |-> r.warned,
                     chain |-> r.chain]
    /\ phase' = IF r.status = "ok" THEN "running" ELSE "exited"
    /\ netCache' = IF r.cleared THEN NoSubDir ELSE netCache
    /\ blocksCache' = IF r.cleared THEN NoSubDir ELSE blocksCache
    /\ handSet' = FALSE
    /\ UNCHANGED <<network, command, fs, parses>>

ReadConfig(ignore_invalid_keys) ==
    /\ phase = "running" /\ parses > 0
    /\ ApplyReadConfig(ReadConfigFiles(settings, network, pathCache, fs, ignore_invalid_keys))

(* SelectParams(GetChainName()) -> SelectConfigNetwork(chain). *)
SelectConfigNetwork ==
    LET chain == GetChainName(settings) IN
    /\ phase = "running" /\ parses > 0
    /\ network' = IF chain = Throw THEN network ELSE chain
    /\ phase' = IF chain = Throw THEN "exited" ELSE "running"
    /\ handSet' = TRUE
    /\ UNCHANGED <<settings, pathCache, netCache, blocksCache, command, fs, parses, lastRead>>

(***************************************************************************)
(* ReadSettingsFile: GetSettingsPath resolves settings.json in            *)
(* GetDataDirNet() (filling that cache); rw_settings is cleared, then    *)
(* util::ReadSettings loads the file: a missing file is empty, a file it *)
(* cannot parse fails InitSettings and the node exits.  Keys that are not *)
(* registered are only logged ("Ignoring unknown rw_settings value").     *)
(***************************************************************************)
ReadSettingsFile ==
    LET c  == Stream(fs, SETTINGS_FILENAME)
        dd == DataDirOf(settings, network)
        ok == c = Missing \/ \A i \in 1..Len(c) : c[i].kind = "opt"
        rw == [n \in Names |->
                 IF c # Missing /\ \E i \in 1..Len(c) : c[i].word = n
                 THEN <<S((CHOOSE l \in {c[i] : i \in 1..Len(c)} : l.word = n).val)>>
                 ELSE <<>>]
    IN
    /\ phase = "running" /\ network # ""
    /\ netCache' = IF netCache = NoSubDir /\ dd # NoPath THEN SubDir(dd, network) ELSE netCache
    /\ settings' = [settings EXCEPT !.rw = IF ok THEN rw ELSE NoNames]
    /\ phase' = IF ok THEN "running" ELSE "exited"
    /\ UNCHANGED <<network, pathCache, blocksCache, command, fs, parses, lastRead,
                   handSet>>

(***************************************************************************)
(* LogArgs changes no state; what it writes is a function of the state.  *)
(* LogClearNames(st): the names whose values it prints in clear.          *)
(* logArgsPrefix over each config section and over the command line      *)
(* prints registered arguments, "****" for a SENSITIVE one; the loop over *)
(* rw_settings prints every value with setting.second.write().           *)
(***************************************************************************)
Given(vals) == vals # <<>>

LogClearNames(st) ==
    {n \in Names : "SENSITIVE" \notin Flags[n] /\ \E sec \in Sections : Given(st.ro[sec][n])}
    \cup {n \in Names : Given(st.rw[n])}
    \cup {n \in Names : "SENSITIVE" \notin Flags[n] /\ Given(st.cmdline[n])}

(* GetDataDir(false): fill the cache unless -datadir names no directory. *)
GetDataDir ==
    /\ phase = "running"
    /\ pathCache = NoPath
    /\ DataDirOf(settings, network) # NoPath
    /\ pathCache' = DataDirOf(settings, network)
    /\ UNCHANGED <<settings, network, netCache, blocksCache, command, fs,
                   phase, parses, lastRead, handSet>>

(* GetDataDir(true), GetDataDirNet(): the same computation, then the      *)
(* subdirectory of the selected chain (BaseParams() asserts that one was *)
(* selected), cached separately.                                           *)
GetDataDirNet ==
    /\ phase = "running" /\ network # ""
    /\ netCache = NoSubDir
    /\ DataDirOf(settings, network) # NoPath
    /\ netCache' = SubDir(DataDirOf(settings, network), network)
    /\ UNCHANGED <<settings, network, pathCache, blocksCache, command, fs,
                   phase, parses, lastRead, handSet>>

(***************************************************************************)
(* GetBlocksDirPath() without -blocksdir: GetDataDirBase() (which fills,  *)
(* or returns, the data-directory cache and may return the empty path),  *)
(* then the chain's subdirectory and "blocks", cached even when the base  *)
(* was empty.                                                              *)
(***************************************************************************)
GetBlocksDirPath ==
    LET base == IF pathCache # NoPath THEN pathCache ELSE DataDirOf(settings, network) IN
    /\ phase = "running" /\ network # ""
    /\ blocksCache = NoSubDir
    /\ pathCache' = base
    /\ blocksCache' = SubDir(base, network)
    /\ UNCHANGED <<settings, network, netCache, command, fs, phase, parses,
                   lastRead, handSet>>

(* Mutant: a cache added later is forgotten by ClearPathCache. *)
ClearPathCacheKeepingBlocks ==
    /\ phase = "running"
    /\ pathCache' = NoPath
    /\ netCache' = NoSubDir
    /\ handSet' = FALSE
    /\ UNCHANGED <<settings, network, blocksCache, command, fs, phase, parses, lastRead>>

ClearPathCache ==
    /\ phase = "running"
    /\ pathCache' = NoPath
    /\ netCache' = NoSubDir
    /\ blocksCache' = NoSubDir
    /\ handSet' = FALSE
    /\ UNCHANGED <<settings, network, command, fs, phase, parses, lastRead>>

(* ForceSetArg(-n, v): forced_settings[n] = v. *)
ForceSetArg(n, v) ==
    /\ phase = "running"
    /\ settings' = [settings EXCEPT !.forced[n] = <<S(v)>>]
    /\ handSet' = TRUE
    /\ UNCHANGED <<network, pathCache, netCache, blocksCache, command, fs, phase, parses, lastRead>>

(* SoftSetArg(-n, v): ForceSetArg only if the argument is not set. *)
SoftSetArg(n, v) ==
    /\ phase = "running"
    /\ ~IsArgSet(settings, network, n)
    /\ ForceSetArg(n, v)

ClearForced(n) ==
    /\ phase = "running"
    /\ settings' = [settings EXCEPT !.forced[n] = <<>>]
    /\ handSet' = TRUE
    /\ UNCHANGED <<network, pathCache, netCache, blocksCache, command, fs, phase, parses, lastRead>>

(* After a fatal start-up error the operator starts the node again; the   *)
(* configuration files on disk are unchanged.                             *)
Restart ==
    /\ phase = "exited"
    /\ settings' = EmptySettings
    /\ network' = ""
    /\ pathCache' = NoPath
    /\ netCache' = NoSubDir
    /\ blocksCache' = NoSubDir
    /\ command' = <<>>
    /\ phase' = "running"
    /\ parses' = 0
    /\ lastRead' = NoRead
    /\ handSet' = FALSE
    /\ UNCHANGED <<fs>>

Next ==
    \/ \E argv \in Argvs : ParseParameters(argv)
    \/ \E ign \in IgnoreArgs : ReadConfig(ign)
    \/ SelectConfigNetwork
    \/ GetDataDir
    \/ ReadSettingsFile
    \/ "net" \in Getters /\ GetDataDirNet
    \/ "blocks" \in Getters /\ GetBlocksDirPath
    \/ ClearPathCache
    \/ \E n \in ForceNames, v \in ForceValues : ForceSetArg(n, v) \/ SoftSetArg(n, v)
    \/ \E n \in ForceNames : ClearForced(n)
    \/ Restart

Spec == Init /\ [][Next]_vars

-----------------------------------------------------------------------------
(***************************************************************************)
(* ParseParameters refuses a non-negated -includeconf, so the assert in   *)
(* ReadConfigFiles (the command line's -includeconf is last-negated)      *)
(* never fails, whatever the command line and the config files.          *)
(***************************************************************************)
IncludeconfAssertHolds == lastRead.status # "assert"

(***************************************************************************)
(* ReadConfigFiles never dies on UniValue's "not a string" exception: the *)
(* -includeconf values it turns into file names with get_str() are        *)
(* strings.  (InterpretValue's comment says "-nofoo=0" is supported.)     *)
(***************************************************************************)
NoIncludeconfBadCast == lastRead.status # "badcast"

(***************************************************************************)
(* Included files are read once and cannot include more: after a          *)
(* successful ReadConfigFiles that processed includes, every file still   *)
(* named by -includeconf (after its last negation) in the default section *)
(* or in the section of the chain finally selected was either read or     *)
(* warned about; none is ignored silently, even when an included file     *)
(* switched the chain.                                                      *)
(***************************************************************************)
Listed(vals) == {Span(vals)[i].s : i \in {j \in 1..Len(Span(vals)) : Span(vals)[j].t = "str"}}

IncludesReadOrWarned ==
    lastRead.status = "ok" /\ lastRead.chain # "" =>
        \A sec \in {"", lastRead.chain} :
            Listed(settings.ro[sec]["includeconf"]) \subseteq lastRead.read \cup lastRead.warned

(***************************************************************************)
(* The path caches are never stale after reading the config: unless an   *)
(* argument was set by hand (or the network selected) since the last      *)
(* ClearPathCache, each cached path (data directory, network data         *)
(* directory, blocks directory) is the one -datadir and the chain name    *)
(* now.  ReadConfigFiles fills the data-directory cache itself            *)
(* (GetConfigFile) before the file can change -datadir, and the blocks    *)
(* directory is built on that cache.                                      *)
(***************************************************************************)
DataDirCacheCoherent ==
    phase = "running" /\ ~handSet =>
        /\ pathCache \in {NoPath, DataDirOf(settings, network)}
        /\ netCache \in {NoSubDir, SubDir(DataDirOf(settings, network), network)}
        /\ blocksCache \in {NoSubDir, SubDir(DataDirOf(settings, network), network)}

(***************************************************************************)
(* An argument registered SENSITIVE (rpcpassword, rpcauth, ...) never     *)
(* reaches the log in clear: whenever LogArgs is called, it masks its     *)
(* value as "****", wherever the value came from.                         *)
(***************************************************************************)
NoSensitiveLogged == \A n \in LogClearNames(settings) : "SENSITIVE" \notin Flags[n]

(***************************************************************************)
(* Once SelectConfigNetwork has chosen a network, no value in the config  *)
(* file's default section is dropped silently: when an argument's lookup  *)
(* (GetSetting, which skips the default section for a network-only       *)
(* argument off main) finds nothing although that section sets it,        *)
(* GetUnsuitableSectionOnlyArgs names it, so init warns about it.         *)
(***************************************************************************)
IgnoredConfigWarned ==
    network # "" =>
        \A n \in Names :
            Span(settings.ro[""][n]) # <<>> /\ GetSetting(settings, network, n) = Null
                => n \in GetUnsuitableSectionOnlyArgs(settings, network)

=============================================================================
