\* Disks whose globe.conf may also hold the double negative
\* "noincludeconf=0"; checks that ReadConfigFiles never dies on get_str().
CONSTANTS
    Names <- MCNames
    Flags <- MCFlags
    Commands = {"info"}
    AcceptAnyCommand = FALSE
    Dirs = {"d"}
    FileNames <- MCFileNames
    FileSystems <- MCFileSystemsDoubleNeg
    Missing = Missing
    Argvs <- MCArgvs
    ForceNames = {}
    ForceValues = {}
    Getters = {}
    MaxParses = 1
    IgnoreArgs = {FALSE}
SPECIFICATION Spec
INVARIANT NoIncludeconfBadCast
