---------------------------- MODULE MCTimedEvent ----------------------------
(* Small timers for TLC: every parameter is a bound set in the cfg.        *)
EXTENDS TimedEventProperties
=============================================================================
