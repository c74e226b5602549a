---------------------------- MODULE MCHostTimers ----------------------------
(* HostTimers for TLC: two addresses.                                      *)
EXTENDS HostTimers

CONSTANTS a1, a2

MCAddrs == {a1, a2}

\* Addresses are alike: the first to be added is a1.
FirstIsA1 == changes = 1 => a1 \in nl \cup usa

=============================================================================
