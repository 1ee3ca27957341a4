\* A node whose settings.json holds the RPC password (a user edited it, or
\* copied it from globe.conf): LogArgs at start-up.
CONSTANTS
    Names <- MCNames
    Flags <- MCFlags
    Commands = {"info"}
    AcceptAnyCommand = FALSE
    Dirs = {"d", "x"}
    FileNames <- MCFileNames
    FileSystems <- MCFileSystemsSensitive
    Missing = Missing
    Argvs <- MCArgvs
    ForceNames = {}
    ForceValues = {}
    Getters = {}
    MaxParses = 1
    IgnoreArgs = {FALSE}
SPECIFICATION Spec
INVARIANT NoSensitiveLogged
