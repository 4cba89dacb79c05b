----------------------------- MODULE MCHotReload -----------------------------
(* Small instances of HotReload for TLC.                                     *)
EXTENDS HotReload

CONSTANTS launch, widget    \* the main script and a module it requires
=============================================================================
