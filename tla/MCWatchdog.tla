----------------------------- MODULE MCWatchdog -----------------------------
(* Small dashboards for TLC: who connects under a name once more.          *)
EXTENDS WatchdogProperties

\* One connection of the poller, two under every letter.
LettersTwice == [s \in Senders |-> IF s = UI THEN 1 ELSE 2]
=============================================================================
