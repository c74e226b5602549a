---------------------------- MODULE MCLogParser -----------------------------
(* LogRecovery for TLC: two names and the root, a record's name that is    *)
(* like any other and one that begins with an address.                     *)
EXTENDS LogRecovery, TLC

CONSTANTS d1, d2, name, reverse, a1, a2

MCHosts == {d1, d2, Root}
MCOwners == {name, reverse}
MCAddrs == {a1, a2}
MCLeading == reverse :> a1

\* What the service logs once the journal has been read, the parser does not see.
Taken == pc # "getLogs" => upto = Len(log)

\* The parser does not look at what is behind the arrow of a line of this
\* commit: one address stands for all of them.
BehindArrow ==
    \A i \in 1 .. Len(log) : log[i].text[Len(log[i].text) - 1] = "->" =>
       log[i].text[Len(log[i].text)] = a2

Symmetry ==
    Permutations({d1, d2}) \cup Permutations(Handlers) \cup Permutations(Pairs)

=============================================================================
