---------------------------- MODULE MCBatchedSync ----------------------------
(* Small instances of BatchedSync for TLC.                                   *)
EXTENDS BatchedSync, TLC

CONSTANTS text, spine, slot1, slot2     \* two widgets and their panel slots
=============================================================================
