---------------------------- MODULE PatternLists ----------------------------
(* What the pattern files /root/site_nl and /root/site_usa promise: two    *)
(* lists on which a command of the bot acts as a whole, never sharing a    *)
(* pattern but one that could not be taken out of a list, and losing       *)
(* patterns only to the command that names them - or all at once, when a   *)
(* rewrite of the file is cut short.                                       *)
EXTENDS Naturals

CONSTANT Patterns       \* the lines of the files

Routes == {"nl", "usa"}

OtherRoute(r) == IF r = "nl" THEN "usa" ELSE "nl"

VARIABLES
    lists,              \* per route, the patterns listed for it
    stuck               \* the patterns that could not be taken out of a list

listsVars == <<lists, stuck>>

Init ==
    /\ lists = [r \in Routes |-> {}]
    /\ stuck = {}

Unlist(r, p) ==
    /\ lists' = [lists EXCEPT ![r] = @ \ {p}]
    /\ stuck' = stuck \ {p}

Stick(p) ==
    /\ stuck' = stuck \cup {p}
    /\ UNCHANGED lists

List(r, p) ==
    /\ p \notin lists[OtherRoute(r)] \/ p \in stuck
    /\ lists' = [lists EXCEPT ![r] = @ \cup {p}]
    /\ UNCHANGED stuck

Lose(r) ==
    /\ lists' = [lists EXCEPT ![r] = {}]
    /\ UNCHANGED stuck

Next ==
    \/ \E r \in Routes, p \in Patterns : Unlist(r, p) \/ List(r, p)
    \/ \E p \in Patterns : Stick(p)
    \/ \E r \in Routes : Lose(r)

Spec == Init /\ [][Next]_listsVars

=============================================================================
