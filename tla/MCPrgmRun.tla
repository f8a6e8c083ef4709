----------------------------- MODULE MCPrgmRun -----------------------------
(* PrgmRun for TLC.                                                        *)
EXTENDS PrgmRun

=============================================================================
