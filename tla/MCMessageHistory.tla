-------------------------- MODULE MCMessageHistory --------------------------
(* Small systems for TLC: every parameter is given a value in the cfg.     *)
EXTENDS MessageHistoryProperties
=============================================================================
