---------------------------- MODULE MikrotikSync ----------------------------
(* The copy of the two sets to the routers at home and at the dacha        *)
(* (src/scripts/sync-mikrotik-address-lists.sh, every ten minutes from     *)
(* pg-sync-mikrotik.timer).                                                *)
(*                                                                         *)
(* One run saves nl_proxy, then usa_proxy, to two files, and lets one      *)
(* router after the other import a script made of them: it empties both    *)
(* lists, fills them again and replaces the mangle rules and the route.    *)
(* The service changes the sets meanwhile, and a connection may be lost at *)
(* any command of the import.                                              *)
EXTENDS Integers, Sequences

CONSTANTS
    Addrs,          \* addresses
    MaxChanges      \* bound on the changes of the two sets

ASSUME MaxChangesAssumption == MaxChanges \in Nat

\* MIKROTIK_ROUTERS of mikrotik-sync.conf
Order == <<"home", "dacha">>
Routers == {"home", "dacha"}

VARIABLES
    nl,             \* the set nl_proxy
    usa,            \* the set usa_proxy
    nlTmp,          \* NL_TMP
    usaTmp,         \* USA_TMP
    nlList,         \* the address list pg-proxy-nl of each router
    usaList,        \* the address list pg-proxy-usa of each router
    marks,          \* whether a router has the mangle rules
    route,          \* whether a router has the route for the mark
    online,         \* whether a router is configured and answers
    pc,             \* where the script is
    at,             \* which router it works on
    changes,        \* number of changes of the sets
    kept,           \* ghost: addresses this run has no excuse to miss
    seen            \* ghost: addresses this run may have found

sets == <<nl, usa, changes>>
files == <<nlTmp, usaTmp>>
routers == <<nlList, usaList, marks, route>>
ghosts == <<kept, seen>>
vars == <<sets, files, routers, online, pc, at, ghosts>>

Kernel == INSTANCE KernelSets

Importing ==
    {"removeNL", "removeUSA", "addNL", "addUSA", "mangle", "route"}

TypeOK ==
    /\ nl \subseteq Addrs
    /\ usa \subseteq Addrs
    /\ nlTmp \subseteq Addrs
    /\ usaTmp \subseteq Addrs
    /\ nlList \in [Routers -> SUBSET Addrs]
    /\ usaList \in [Routers -> SUBSET Addrs]
    /\ marks \in [Routers -> BOOLEAN]
    /\ route \in [Routers -> BOOLEAN]
    /\ online \in [Routers -> BOOLEAN]
    /\ pc \in {"wait", "fetchNL", "fetchUSA", "scp", "imported"} \cup Importing
    /\ at \in 1 .. Len(Order)
    /\ changes \in 0 .. MaxChanges
    /\ kept \subseteq Addrs
    /\ seen \subseteq Addrs

Init ==
    /\ nl = {}
    /\ usa = {}
    /\ nlTmp = {}
    /\ usaTmp = {}
    /\ nlList = [r \in Routers |-> {}]
    /\ usaList = [r \in Routers |-> {}]
    /\ marks = [r \in Routers |-> FALSE]
    /\ route = [r \in Routers |-> FALSE]
    /\ online = [r \in Routers |-> TRUE]
    /\ pc = "wait"
    /\ at = 1
    /\ changes = 0
    /\ kept = {}
    /\ seen = {}

Router == Order[at]

-----------------------------------------------------------------------------
(* The service and the network.                                            *)

\* What neither file will hold of what this step deletes: an address is safe
\* in the other set, unless that one is saved already and did not have it.
Dropped ==
    LET inNL == IF pc = "fetchUSA" THEN nl \cap nlTmp ELSE nl
    IN  (nl \ (nl' \cup usa)) \cup (usa \ (usa' \cup inNL))

\* ipset add or del of one address, by a handler or a command of the bot
SetsChange(a) ==
    /\ Kernel!Change(a)
    /\ <<nl, usa>>' # <<nl, usa>>
    /\ changes < MaxChanges
    /\ changes' = changes + 1
    /\ seen' = seen \cup nl' \cup usa'
    /\ kept' = kept \ Dropped
    /\ UNCHANGED <<files, routers, online, pc, at>>

LinkChanges(r) ==
    /\ online' = [online EXCEPT ![r] = ~@]
    /\ UNCHANGED <<sets, files, routers, pc, at, ghosts>>

-----------------------------------------------------------------------------
(* One run of the script.                                                  *)

Timer ==
    /\ pc = "wait"
    /\ pc' = "fetchNL"
    /\ UNCHANGED <<sets, files, routers, online, at, ghosts>>

\* fetch_ipset nl_proxy
FetchNL ==
    /\ pc = "fetchNL"
    /\ nlTmp' = nl
    /\ kept' = nl \cup usa
    /\ seen' = nl \cup usa
    /\ pc' = "fetchUSA"
    /\ UNCHANGED <<sets, usaTmp, routers, online, at>>

\* Mutant: both sets go to one file.
FetchUSAToNL ==
    /\ pc = "fetchUSA"
    /\ nlTmp' = usa
    /\ pc' = "scp"
    /\ at' = 1
    /\ UNCHANGED <<sets, usaTmp, routers, online, ghosts>>

\* fetch_ipset usa_proxy
FetchUSA ==
    /\ pc = "fetchUSA"
    /\ usaTmp' = usa
    /\ pc' = "scp"
    /\ at' = 1
    /\ UNCHANGED <<sets, nlTmp, routers, online, ghosts>>

\* Mutant: the loop goes one too far.
NextRouterOneMore ==
    IF at <= Len(Order)
    THEN pc' = "scp" /\ at' = at + 1
    ELSE pc' = "wait" /\ UNCHANGED at

NextRouter ==
    IF at < Len(Order)
    THEN pc' = "scp" /\ at' = at + 1
    ELSE pc' = "wait" /\ UNCHANGED at

\* generate_rsc and scp
Upload ==
    /\ pc = "scp"
    /\ online[Router]
    /\ pc' = "removeNL"
    /\ UNCHANGED <<sets, files, routers, online, at, ghosts>>

\* Mutant: a router that cannot be reached ends the run.
SkipAll ==
    /\ pc = "scp"
    /\ ~online[Router]
    /\ pc' = "wait"
    /\ UNCHANGED <<sets, files, routers, online, at, ghosts>>

\* no host, no mark, or scp fails: continue
Skip ==
    /\ pc = "scp"
    /\ ~online[Router]
    /\ NextRouter
    /\ UNCHANGED <<sets, files, routers, online, ghosts>>

RemoveNL ==
    /\ pc = "removeNL"
    /\ nlList' = [nlList EXCEPT ![Router] = {}]
    /\ pc' = "removeUSA"
    /\ UNCHANGED <<sets, files, usaList, marks, route, online, at, ghosts>>

\* Mutant: the first line twice.
RemoveUSANot ==
    /\ pc = "removeUSA"
    /\ nlList' = [nlList EXCEPT ![Router] = {}]
    /\ pc' = "addNL"
    /\ UNCHANGED <<sets, files, usaList, marks, route, online, at, ghosts>>

RemoveUSA ==
    /\ pc = "removeUSA"
    /\ usaList' = [usaList EXCEPT ![Router] = {}]
    /\ pc' = "addNL"
    /\ UNCHANGED <<sets, files, nlList, marks, route, online, at, ghosts>>

\* The lines that add an address; the session may end after any of them.
AddNL ==
    /\ pc = "addNL"
    /\ nlList' = [nlList EXCEPT ![Router] = @ \cup nlTmp]
    /\ pc' = "addUSA"
    /\ UNCHANGED <<sets, files, usaList, marks, route, online, at, ghosts>>

AddUSA ==
    /\ pc = "addUSA"
    /\ usaList' = [usaList EXCEPT ![Router] = @ \cup usaTmp]
    /\ pc' = "mangle"
    /\ UNCHANGED <<sets, files, nlList, marks, route, online, at, ghosts>>

Mangle ==
    /\ pc = "mangle"
    /\ marks' = [marks EXCEPT ![Router] = TRUE]
    /\ pc' = "route"
    /\ UNCHANGED <<sets, files, nlList, usaList, route, online, at, ghosts>>

AddRoute ==
    /\ pc = "route"
    /\ route' = [route EXCEPT ![Router] = TRUE]
    /\ pc' = "imported"
    /\ UNCHANGED <<sets, files, nlList, usaList, marks, online, at, ghosts>>

\* The connection is lost in the middle of the import: of a group of lines
\* only some were executed.
Cut ==
    /\ pc \in Importing
    /\ ~online[Router]
    /\ \/ /\ pc \in {"addNL", "addUSA"}
          /\ \E part \in SUBSET (IF pc = "addNL" THEN nlTmp ELSE usaTmp) :
                IF pc = "addNL"
                THEN /\ nlList' = [nlList EXCEPT ![Router] = @ \cup part]
                     /\ UNCHANGED usaList
                ELSE /\ usaList' = [usaList EXCEPT ![Router] = @ \cup part]
                     /\ UNCHANGED nlList
          /\ UNCHANGED <<marks, route>>
       \/ /\ pc = "mangle"
          /\ marks' = [marks EXCEPT ![Router] = FALSE]
          /\ UNCHANGED <<nlList, usaList, route>>
       \/ /\ pc = "route"
          /\ route' = [route EXCEPT ![Router] = FALSE]
          /\ UNCHANGED <<nlList, usaList, marks>>
       \/ UNCHANGED routers
    /\ NextRouter
    /\ UNCHANGED <<sets, files, online, ghosts>>

Done ==
    /\ pc = "imported"
    /\ NextRouter
    /\ UNCHANGED <<sets, files, routers, online, ghosts>>

Import ==
    RemoveNL \/ RemoveUSA \/ AddNL \/ AddUSA \/ Mangle \/ AddRoute

Script == Timer \/ FetchNL \/ FetchUSA \/ Upload \/ Skip \/ Import \/ Done

Next ==
    \/ \E a \in Addrs : SetsChange(a)
    \/ \E r \in Routers : LinkChanges(r)
    \/ Script
    \/ Cut

Spec == Init /\ [][Next]_vars

(* The timer fires every ten minutes, and a run goes on: every ssh has a   *)
(* ConnectTimeout, and an import is a finite script.                       *)
FairSpec == Spec /\ WF_vars(Script)

-----------------------------------------------------------------------------
(* Properties.                                                             *)

(* A router that has imported the script sends every address that was in   *)
(* one of the sets all the time since the run began, although the two sets *)
(* are saved one after the other while addresses move (:96-97); but not    *)
(* one that moved from usa_proxy to nl_proxy between the two, for each set *)
(* was saved while the address was in the other.                           *)
NoneForgotten ==
    pc = "imported" =>
       /\ kept \subseteq nlList[Router] \cup usaList[Router]
       /\ marks[Router] /\ route[Router]

(* It sends no other: README.md:165 `only those IPs that the bot assigns   *)
(* to NL/USA', as they were during the run.  What an earlier run, or one   *)
(* that was cut, left in the lists is gone (:69-70).                       *)
OnlyTheBots ==
    pc = "imported" => nlList[Router] \cup usaList[Router] \subseteq seen

InSync(r) ==
    /\ nlList[r] = nl /\ usaList[r] = usa
    /\ marks[r] /\ route[r]

(* A router that answers from some time on has the two sets again and      *)
(* again once they do not change any more, whatever was cut before and     *)
(* whatever becomes of the other router (:99-135).  (The bound MaxChanges  *)
(* makes the sets quiet in the end.)                                       *)
EventuallySynced ==
    \A r \in Routers : <>[]online[r] => []<>InSync(r)

=============================================================================
