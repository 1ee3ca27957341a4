--------------------------- MODULE MCArgsManager ---------------------------
(***************************************************************************)
(* Instances of ArgsManager for TLC: the registered arguments the config  *)
(* logic reacts to, a few command lines, and every disk whose globe.conf  *)
(* has at most two lines and whose included files at most one, over line *)
(* alphabets that reach every branch of ReadConfigFiles.                  *)
(***************************************************************************)
EXTENDS ArgsManager

MCNames == {"includeconf", "testnet", "regtest", "datadir", "conf", "rpcpassword"}
MCFlags == [n \in MCNames |-> IF n = "rpcpassword" THEN {"SENSITIVE"} ELSE {}]
(* ... plus -port, registered NETWORK_ONLY as in the node. *)
MCNamesNet == MCNames \cup {"port"}
MCFlagsNet == [n \in MCNamesNet |-> CASE n = "rpcpassword" -> {"SENSITIVE"}
                                      [] n = "port" -> {"NETWORK_ONLY"}
                                      [] OTHER -> {}]
MCFileNames == {CONF_FILENAME, SETTINGS_FILENAME, "a", "b"}

MCArgvs ==
    { <<>>,
      <<OptTok("", "testnet", NoVal)>>,
      <<OptTok("", "datadir", "d")>>,
      <<OptTok("", "conf", "a")>>,
      <<OptTok("", "noconf", NoVal)>>,
      <<OptTok("", "includeconf", "a")>>,
      <<OptTok("", "includeconf", "a"), OptTok("", "noincludeconf", NoVal)>>,
      <<OptTok("", "rpcpassword", "p")>>,
      <<OptTok("", "bogus", NoVal)>> }

(* ... plus a command line that negates -port. *)
MCArgvsNet == MCArgvs \cup {<<OptTok("", "noport", NoVal)>>}

(* The command lines that bear on the data directory, the network, the   *)
(* password and invalid keys; the include cases are left to MCArgvs.     *)
MCArgvsDataDir ==
    { <<>>,
      <<OptTok("", "testnet", NoVal)>>,
      <<OptTok("", "datadir", "d")>>,
      <<OptTok("", "conf", "a")>>,
      <<OptTok("", "rpcpassword", "p")>>,
      <<OptTok("", "bogus", NoVal)>> }

(* Lines of globe.conf. *)
MainLines ==
    { OptLine("", "includeconf", "a"),
      OptLine("test", "includeconf", "b"),
      Header("test"),
      OptLine("", "testnet", "1"),
      OptLine("", "noincludeconf", "1"),
      OptLine("", "datadir", "d"),
      BadLine }

(* Lines of an included file. *)
IncludedLines ==
    { OptLine("", "testnet", "1"),
      OptLine("", "includeconf", "b"),
      OptLine("", "noincludeconf", "1") }

(* ... plus the double negative "noincludeconf=0". *)
DoubleNegLine == OptLine("", "noincludeconf", "0")

UpTo2(L) == {<<>>} \cup {<<l>> : l \in L} \cup {<<l, m>> : l \in L, m \in L}
UpTo1(L) == {<<>>} \cup {<<l>> : l \in L}

DisksOver(M, I) ==
    { [f \in MCFileNames |-> CASE f = CONF_FILENAME -> m [] f = "a" -> a
                             [] f = "b" -> b [] OTHER -> Missing] :
        m \in UpTo2(M),
        a \in UpTo1(I) \cup {Missing},
        b \in {Missing, <<OptLine("", "regtest", "1")>>} }

MCFileSystems == DisksOver(MainLines, IncludedLines)
MCFileSystemsNet == DisksOver(MainLines \cup {OptLine("", "port", "1")}, IncludedLines)
MCFileSystemsDoubleNeg == DisksOver(MainLines \cup {DoubleNegLine}, IncludedLines)

(* Fewer disks for the runs that also set arguments by hand; settings.json *)
(* missing, unreadable or holding a setting.                              *)
MCFileSystemsSmall ==
    { [f \in MCFileNames |-> CASE f = CONF_FILENAME -> m [] f = "a" -> a
                             [] f = SETTINGS_FILENAME -> j [] OTHER -> Missing] :
        m \in UpTo1(MainLines \cup {OptLine("", "datadir", "x")}),
        a \in {Missing, <<OptLine("", "datadir", "d")>>},
        j \in {Missing, <<BadLine>>, <<OptLine("", "testnet", "1")>>} }

(* A settings.json holding the RPC password, beside a config file that   *)
(* holds it too.                                                           *)
MCFileSystemsSensitive ==
    { [f \in MCFileNames |-> CASE f = CONF_FILENAME -> m
                             [] f = SETTINGS_FILENAME -> <<OptLine("", "rpcpassword", "p")>>
                             [] OTHER -> Missing] :
        m \in {<<>>, <<OptLine("", "rpcpassword", "p")>>} }
=============================================================================
