----------------------------- MODULE MCControl ------------------------------
(* Command sets for Control.                                                *)
EXTENDS Control

\* The commands which are answered without waiting for an event.
PromptCommands == {"get_var", "set_panel", "new_set", "set_scanning"}
=============================================================================
