\* One start-up: parse once, read the config any number of times, select
\* the network, fill and clear the data-directory cache, set arguments by
\* hand; every disk of MCFileSystems, with -port (network-only) set in the
\* default section, in [test], or negated on the command line.
CONSTANTS
    Names <- MCNamesNet
    Flags <- MCFlagsNet
    Commands = {"info"}
    AcceptAnyCommand = FALSE
    Dirs = {"d"}
    FileNames <- MCFileNames
    FileSystems <- MCFileSystemsNet
    Missing = Missing
    Argvs <- MCArgvsNet
    ForceNames = {}
    ForceValues = {"d"}
    Getters = {}
    MaxParses = 1
    IgnoreArgs = {FALSE}
SPECIFICATION Spec
INVARIANT IncludeconfAssertHolds
INVARIANT NoIncludeconfBadCast
INVARIANT IncludesReadOrWarned
INVARIANT IgnoredConfigWarned
