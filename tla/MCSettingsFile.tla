--------------------------- MODULE MCSettingsFile ---------------------------
(* SettingsFile for TLC: two non-empty settings maps besides the empty one. *)
EXTENDS SettingsFile

MCValues == {"empty", "v1", "v2"}
=============================================================================
