----------------------------- MODULE MCBoardMem -----------------------------
(* BoardMem for TLC.                                                       *)
EXTENDS BoardMem

=============================================================================
