----------------------------- MODULE KernelSets -----------------------------
(* What the kernel's sets nl_proxy and usa_proxy promise to those who only *)
(* read them: the packets, the copy to the routers, the bot's display.     *)
(*                                                                         *)
(* The DNS handlers and the bot change them by `ipset add' and `ipset del' *)
(* of one address, in one set at a time and in an order of their own, so a *)
(* reader sees an address that moves in both sets for a moment.  A restart *)
(* of the server's process leaves the sets as they are.                    *)
CONSTANT Addrs

VARIABLES
    nl,             \* the set nl_proxy
    usa             \* the set usa_proxy

Init ==
    /\ nl = {}
    /\ usa = {}

Add(a) ==
    \/ nl' = nl \cup {a} /\ UNCHANGED usa
    \/ usa' = usa \cup {a} /\ UNCHANGED nl

Delete(a) ==
    \/ nl' = nl \ {a} /\ UNCHANGED usa
    \/ usa' = usa \ {a} /\ UNCHANGED nl

Change(a) == Add(a) \/ Delete(a)

Next == \E a \in Addrs : Change(a)

Spec == Init /\ [][Next]_<<nl, usa>>

=============================================================================
