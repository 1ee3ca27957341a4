---------------------------- MODULE SettingsStore ----------------------------
(***************************************************************************)
(* What the settings file promises the node, with the files left out: a    *)
(* running node has its settings in memory (live); a save makes them the  *)
(* stored settings (saved) in one step; a start loads the stored settings; *)
(* dying loses only what was not saved.  SettingsFile refines this         *)
(* specification: writing the temporary file and renaming it over         *)
(* settings.json must look, from outside, like one atomic save.            *)
(***************************************************************************)
CONSTANTS
    Values,     \* possible settings maps
    Empty       \* the empty map

VARIABLES
    live,       \* the settings of the running node (Empty when it is down)
    saved,      \* the settings a start would load
    up          \* the node is running

vars == <<live, saved, up>>

Init ==
    /\ live = Empty
    /\ saved \in Values
    /\ up = FALSE

(* A start reads the stored settings. *)
Load ==
    /\ ~up
    /\ up' = TRUE
    /\ live' = saved
    /\ UNCHANGED saved

(* The running node changes its settings in memory. *)
Set(v) ==
    /\ up
    /\ live' = v
    /\ UNCHANGED <<saved, up>>

(* A save stores the settings in memory as they are, all at once. *)
Save ==
    /\ up
    /\ saved' = live
    /\ UNCHANGED <<live, up>>

(* The node stops or dies; what it had not saved is lost. *)
Stop ==
    /\ up
    /\ up' = FALSE
    /\ live' = Empty
    /\ UNCHANGED saved

Next == Load \/ (\E v \in Values : Set(v)) \/ Save \/ Stop

Spec == Init /\ [][Next]_vars
====
