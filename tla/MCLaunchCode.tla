----------------------------- MODULE MCLaunchCode -----------------------------
(***************************************************************************)
(* Two selection lines, three programs two of which share a code.          *)
(***************************************************************************)
EXTENDS LaunchCode

MCFiles == {[prog |-> "a", code |-> {1}], [prog |-> "b", code |-> {1, 2}], [prog |-> "c", code |-> {1, 2}]}
MCModes == {"LOCAL_TRIGGER_U", "LAUNCH_CODE_U", "MACRO_TRIGGER_U"}
MCSwitches == {<<"uio_all", 0>>, UI_SELECTION_STROBE}
=============================================================================
