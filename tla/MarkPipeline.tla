---------------------------- MODULE MarkPipeline ----------------------------
(* The marks the mangle table gives to packets, which choose their tunnel  *)
(* (src/pg.louso.ru/etc/iptables/rules.v4:10-51), while the service and    *)
(* its bot change the two sets.                                            *)
(*                                                                         *)
(* A packet of a client (wg200) or of a LAN passes PREROUTING, one of the  *)
(* host itself OUTPUT, and each of them POSTROUTING; the kernel keeps a    *)
(* mark with the connection, which some of the rules save and restore.     *)
(* Only packets in the direction the connection was opened are modelled.   *)
EXTENDS Integers

CONSTANTS
    Addrs,          \* destination addresses
    Skipped,        \* those among them that rules 38-40 return for
    Conns,          \* connections
    From,           \* where each is opened: wg200, a LAN or the host
    Dest            \* the address each goes to

ASSUME ConnsAssumption ==
    /\ From \in [Conns -> {"wg200", "lan", "host"}]
    /\ Dest \in [Conns -> Addrs]

VARIABLES
    nl,             \* the set nl_proxy
    usa,            \* the set usa_proxy
    state,          \* what conntrack knows of a connection
    connmark,       \* its connection mark
    mark,           \* the mark of its last packet
    moved           \* ghost: its address changed sets after that packet

vars == <<nl, usa, state, connmark, mark, moved>>

Kernel == INSTANCE KernelSets

TypeOK ==
    /\ nl \subseteq Addrs
    /\ usa \subseteq Addrs
    /\ state \in [Conns -> {"none", "new", "established"}]
    /\ connmark \in [Conns -> 0 .. 2]
    /\ mark \in [Conns -> 0 .. 2]
    /\ moved \in [Conns -> BOOLEAN]

Init ==
    /\ nl = {}
    /\ usa = {}
    /\ state = [c \in Conns |-> "none"]
    /\ connmark = [c \in Conns |-> 0]
    /\ mark = [c \in Conns |-> 0]
    /\ moved = [c \in Conns |-> FALSE]

-----------------------------------------------------------------------------
(* The chains.                                                             *)

\* Mutant: the two rules add their bits up.
SetMarksAdds(a, m) ==
    m + (IF a \in nl THEN 1 ELSE 0) + (IF a \in usa THEN 2 ELSE 0)

\* A rule for nl_proxy and one for usa_proxy, the later one wins.
SetMarks(a, m) ==
    IF a \in usa THEN 2 ELSE IF a \in nl THEN 1 ELSE m

\* Mutant: no connection mark is restored.
RestoreNever(c, m) == m

\* Rule 37, of established connections.
Restore(c, m) == IF state[c] = "established" THEN connmark[c] ELSE m

\* Mutant: the mark is restored last.
DnsproxyPreroutingRestoresLast(c, m) ==
    IF From[c] = "wg200" /\ Dest[c] \notin Skipped
    THEN Restore(c, SetMarks(Dest[c], m))
    ELSE Restore(c, m)

\* DNSPROXY_PREROUTING
DnsproxyPrerouting(c, m) ==
    IF From[c] = "wg200" /\ Dest[c] \notin Skipped
    THEN SetMarks(Dest[c], Restore(c, m))
    ELSE Restore(c, m)

\* Rules 10-13 give the packet the connection's mark, the saves among them
\* change nothing; MANGLE_MARK_ROUTES and rules 15-20 the mark of its set.
Prerouting(c) == DnsproxyPrerouting(c, SetMarks(Dest[c], connmark[c]))

\* Rules 26-30 mark by the sets, save that mark and restore the
\* connection's, and MANGLE_MARK_ROUTES and DNSPROXY_OUTPUT mark by the
\* sets again.
Output(c) == SetMarks(Dest[c], connmark[c])

PacketMark(c) == IF From[c] = "host" THEN Output(c) ELSE Prerouting(c)

-----------------------------------------------------------------------------
(* Packets, replies and changes of the sets.                               *)

\* Mutant: rule 33 is missing, and the other saves are left.
PacketUnsaved(c) ==
    LET m == PacketMark(c)
    IN  /\ state' = [state EXCEPT ![c] = IF @ = "none" THEN "new" ELSE @]
        /\ mark' = [mark EXCEPT ![c] = m]
        /\ connmark' = [connmark EXCEPT
                          ![c] = IF m # 0 /\ From[c] # "lan" THEN m ELSE @]
        /\ moved' = [moved EXCEPT ![c] = FALSE]
        /\ UNCHANGED <<nl, usa>>

\* In POSTROUTING every packet's mark is saved.
Packet(c) ==
    LET m == PacketMark(c)
    IN  /\ state' = [state EXCEPT ![c] = IF @ = "none" THEN "new" ELSE @]
        /\ mark' = [mark EXCEPT ![c] = m]
        /\ connmark' = [connmark EXCEPT ![c] = m]
        /\ moved' = [moved EXCEPT ![c] = FALSE]
        /\ UNCHANGED <<nl, usa>>

Answered(c) ==
    /\ state[c] = "new"
    /\ state' = [state EXCEPT ![c] = "established"]
    /\ UNCHANGED <<nl, usa, connmark, mark, moved>>

Close(c) ==
    /\ state[c] # "none"
    /\ state' = [state EXCEPT ![c] = "none"]
    /\ connmark' = [connmark EXCEPT ![c] = 0]
    /\ UNCHANGED <<nl, usa, mark, moved>>

\* ipset add or del of one address, by a handler or the bot
SetsChange(a) ==
    /\ Kernel!Change(a)
    /\ <<nl, usa>>' # <<nl, usa>>
    /\ moved' = [c \in Conns |-> moved[c] \/ Dest[c] = a]
    /\ UNCHANGED <<state, connmark, mark>>

Next ==
    \/ \E c \in Conns : Packet(c) \/ Answered(c) \/ Close(c)
    \/ \E a \in Addrs : SetsChange(a)

Spec == Init /\ [][Next]_vars

-----------------------------------------------------------------------------
(* Properties.                                                             *)

(* An established connection of a LAN keeps the tunnel it was opened       *)
(* through (rule 37), whatever the bot does with its address: a change of  *)
(* tunnel would change the address its peer sees.                          *)
LANSticky ==
    [][\A c \in Conns :
          From[c] = "lan" /\ state[c] = "established" => mark'[c] = mark[c]
      ]_vars

(* The packets of clients and of the host follow the sets at once while    *)
(* their address is in one, also those of connections opened before it was *)
(* moved there: no restore comes after the last rule that looks at the     *)
(* sets (rules 26-36, 37-43).  With the address in none a new connection   *)
(* goes directly; but one that is open when /remove takes the address out  *)
(* stays in the tunnel of its last packet until it closes, for the rules   *)
(* that restore its mark (10, 13, 30) have none after them that clears it. *)
FollowsSets ==
    [][\A c \in Conns :
          /\ Packet(c)
          /\ From[c] = "host" \/ (From[c] = "wg200" /\ Dest[c] \notin Skipped)
          => mark'[c] =
                SetMarks(Dest[c], IF state[c] = "none" THEN 0 ELSE mark[c])
      ]_vars

(* As long as its address stays in the sets it is in, a connection does    *)
(* not change its tunnel: not when it becomes established, and not because *)
(* some rule saves what another does not restore.                          *)
OneExit ==
    [][\A c \in Conns :
          state[c] # "none" /\ mark'[c] # mark[c] => moved[c]
      ]_vars

(* README.md:52 `nl_proxy -> traffic marked 0x1', said of LANs as well     *)
(* (README.md:56): packets to an address of nl_proxy alone have mark 1.    *)
MarkFollowsSet ==
    [][\A c \in Conns :
          Packet(c) /\ Dest[c] \in nl \ usa => mark'[c] = 1
      ]_vars

=============================================================================
