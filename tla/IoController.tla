----------------------------- MODULE IoController -----------------------------
(***************************************************************************)
(* Simulated input and output lines (forsight_io_controller.cpp).  A line  *)
(* is <<class, number>>; <<"rio_all", 0>> and the like switch a whole class*)
(* to simulation.  A configuration c gives a name its simulation flag and  *)
(* its value.  Every flag of io_emulator.json is true.  Real lines are not *)
(* reached in this build: they read as -1 and writing one changes nothing. *)
(***************************************************************************)
EXTENDS Integers

forgesight_io_config_get_value(c, name, key) == IF name \in DOMAIN c THEN c[name][key] ELSE 0

\* A name that is not in the configuration is added.  Its flag is written true and
\* counts as not set until the file is read again (a cJSON bool made here has number 0).
forgesight_io_config_set_value(c, name, key, v) ==
  IF name \in DOMAIN c
  THEN [c EXCEPT ![name][key] = v]
  ELSE [n \in DOMAIN c \cup {name} |-> IF n = name THEN [emltFlag |-> 0, value |-> v] ELSE c[n]]

\* SI, SO, UI and UO lines go by the switch of the RI and RO lines.
AllOf(class) ==
  CASE class \in {"ai", "ao"} -> <<"aio_all", 0>>
    [] class \in {"di", "do"} -> <<"dio_all", 0>>
    [] OTHER -> <<"rio_all", 0>>

Emulated(c, name) ==
  \/ forgesight_io_config_get_value(c, AllOf(name[1]), "emltFlag") = 1
  \/ forgesight_io_config_get_value(c, name, "emltFlag") = 1

forgesight_get_io_status(c, name) ==
  IF Emulated(c, name) THEN forgesight_io_config_get_value(c, name, "value") ELSE -1

forgesight_set_io_status(c, name, v) ==
  IF Emulated(c, name) THEN forgesight_io_config_set_value(c, name, "value", v) ELSE c

forgesight_mod_io_emulate_status(c, name, v) ==
  forgesight_io_config_set_value(c, name, "emltFlag", v)

forgesight_mod_io_emulate_value(c, name, v) ==
  forgesight_io_config_set_value(c, name, "value", v)

=============================================================================
