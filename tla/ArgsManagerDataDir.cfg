\* One start-up in which -datadir is also set by hand (ForceSetArg,
\* SoftSetArg, ClearForced) and the path cache is filled and cleared in
\* every order, over disks whose files can move the data directory.
CONSTANTS
    Names <- MCNames
    Flags <- MCFlags
    Commands = {"info"}
    AcceptAnyCommand = FALSE
    Dirs = {"d", "x"}
    FileNames <- MCFileNames
    FileSystems <- MCFileSystemsSmall
    Missing = Missing
    Argvs <- MCArgvsDataDir
    ForceNames = {"datadir"}
    ForceValues = {"d", "y"}
    Getters = {"net", "blocks"}
    MaxParses = 1
    IgnoreArgs = {FALSE, TRUE}
SPECIFICATION Spec
INVARIANT TypeOK
INVARIANT DataDirCacheCoherent
