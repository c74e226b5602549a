----------------------------- MODULE MCDnsProxy -----------------------------
(* DnsProxy for TLC: a domain d1 whose answer carries an additional record *)
(* for d2, which does not answer itself; a pattern p1 that occurs in d1 as *)
(* typed, and in d2 when its case is ignored; and a pattern p2 that occurs *)
(* in d1 when its case is ignored.                                         *)
EXTENDS DnsProxy, TLC

CONSTANTS p1, p2, d1, d2, i1, i2

MCMatches ==
    {<<p1, d1>>, <<p2, d1>>, <<p1, d2>>} \cap (Patterns \X Domains)

MCMentions == {<<p1, d1>>} \cap (Patterns \X Domains)

MCResponses ==
    [d \in Domains |->
        IF d = d1 THEN {[answer |-> {<<d1, i1>>}, extra |-> {<<d2, i2>>}]}
                  ELSE {}]

\* Beside requests: a command; a command and a fault; and two commands on
\* files that list one pattern or none. While nothing was resolved, as many
\* commands and faults as the constants allow.
Bounded ==
    \/ seen = {} /\ \A h \in Handlers : handler[h] = NoRequest
    \/ commands + faults <= 1
    \/ commands = 1 /\ faults = 1
    \/ commands = 2 /\ faults = 0
       /\ (seen = {} \/ Cardinality(listed["nl"] \cup listed["usa"]) <= 1)

=============================================================================
