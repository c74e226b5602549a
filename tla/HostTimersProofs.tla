-------------------------- MODULE HostTimersProofs --------------------------
(* TypeOK, NoneForgotten and OnlyTheBots of MikrotikSync for any addresses *)
(* and any number of changes, ActiveMeansRouted of WgMonitor for any       *)
(* number of failures, and both of the two timers together.                *)
EXTENDS HostTimers, TLAPS

(* What a run has fetched, and how much of it the router has, at every     *)
(* step.                                                                   *)
FilesAhead == pc = "fetchUSA" =>
    /\ kept \subseteq nlTmp \cup usa
    /\ nlTmp \cup nl \cup usa \subseteq seen

FilesComplete == pc \in {"scp", "imported"} \cup Importing =>
    /\ kept \subseteq nlTmp \cup usaTmp
    /\ nlTmp \cup usaTmp \subseteq seen

NLListed == pc \in {"addUSA", "mangle", "route", "imported"} =>
    nlList[Router] = nlTmp

USAListed == pc \in {"mangle", "route", "imported"} =>
    usaList[Router] = usaTmp

Emptied ==
    /\ pc \in {"removeUSA", "addNL"} => nlList[Router] = {}
    /\ pc \in {"addNL", "addUSA"} => usaList[Router] = {}

Marked ==
    /\ pc \in {"route", "imported"} => marks[Router]
    /\ pc = "imported" => route[Router]

Inv ==
    /\ TypeOK
    /\ FilesAhead /\ FilesComplete
    /\ Emptied /\ NLListed /\ USAListed /\ Marked

-----------------------------------------------------------------------------

(* Whatever the place in the list, Router is one of the routers            *)
(* (mikrotik-sync.conf:9).                                                 *)
LEMMA RouterType == TypeOK => Router \in Routers
  BY DEF TypeOK, Router, Routers, Order

(* Going to the next router starts with an upload or ends the run.         *)
LEMMA NextRouterType ==
  ASSUME TypeOK, NextRouter
  PROVE  pc' \in {"scp", "wait"} /\ at' \in 1 .. Len(Order)
  BY DEF TypeOK, NextRouter, Order

LEMMA InitInv == Init => Inv
  BY MaxChangesAssumption
     DEF Init, Inv, TypeOK, FilesAhead, FilesComplete, Emptied, NLListed,
         USAListed, Marked, Importing, Routers, Order

LEMMA StepType == TypeOK /\ [Next]_vars => TypeOK'
<1> SUFFICES ASSUME TypeOK, [Next]_vars PROVE TypeOK'
  OBVIOUS
<1> USE MaxChangesAssumption
<1> USE DEF sets, files, routers, ghosts
<1>r. Router \in Routers
  BY RouterType
<1>1. ASSUME NEW a \in Addrs, SetsChange(a) PROVE TypeOK'
  BY <1>1 DEF TypeOK, SetsChange, Kernel!Change, Kernel!Add, Kernel!Delete
<1>2. CASE \E r \in Routers : LinkChanges(r)
  BY <1>2 DEF TypeOK, LinkChanges
<1>3. CASE Timer \/ FetchNL \/ FetchUSA \/ Upload
  BY <1>3 DEF TypeOK, Timer, FetchNL, FetchUSA, Upload, Importing, Order
<1>4. CASE Skip \/ Done
  BY <1>4, NextRouterType DEF TypeOK, Skip, Done
<1>5. CASE Import
  BY <1>5, <1>r DEF TypeOK, Import, RemoveNL, RemoveUSA, AddNL, AddUSA,
                    Mangle, AddRoute, Importing
<1>6. CASE Cut
  <2>1. pc' \in {"scp", "wait"} /\ at' \in 1 .. Len(Order)
    BY <1>6, NextRouterType DEF Cut
  <2>2. nlTmp \subseteq Addrs /\ usaTmp \subseteq Addrs
    BY DEF TypeOK
  <2>3. /\ nlList' \in [Routers -> SUBSET Addrs]
        /\ usaList' \in [Routers -> SUBSET Addrs]
    BY <1>6, <1>r, <2>2 DEF TypeOK, Cut
  <2>4. marks' \in [Routers -> BOOLEAN] /\ route' \in [Routers -> BOOLEAN]
    BY <1>6, <1>r DEF TypeOK, Cut
  <2>5. UNCHANGED <<sets, files, online, ghosts>>
    BY <1>6 DEF Cut
  <2> QED
    BY <2>1, <2>2, <2>3, <2>4, <2>5 DEF TypeOK
<1>7. CASE UNCHANGED vars
  BY <1>7 DEF TypeOK, vars
<1> QED
  BY <1>1, <1>2, <1>3, <1>4, <1>5, <1>6, <1>7 DEF Next, Script

(* A change of the sets keeps what the run relies on: an address in        *)
(* neither file any more is not kept.                                      *)
LEMMA SetsChangeInv ==
  ASSUME Inv, NEW a \in Addrs, SetsChange(a)
  PROVE  Inv'
<1> USE DEF sets, files, routers, ghosts
<1>1. TypeOK'
  BY StepType DEF Inv, Next
<1>2. UNCHANGED <<files, routers, online, pc, at>>
  BY DEF SetsChange
<1>3. Emptied' /\ NLListed' /\ USAListed' /\ Marked'
  BY <1>2 DEF Inv, Emptied, NLListed, USAListed, Marked, Router
<1>4. FilesComplete'
  BY <1>2 DEF Inv, FilesComplete, SetsChange, Importing
<1>5. FilesAhead'
  BY <1>2 DEF Inv, FilesAhead, SetsChange, Dropped, Kernel!Change,
     Kernel!Add, Kernel!Delete
<1> QED
  BY <1>1, <1>3, <1>4, <1>5 DEF Inv

LEMMA ScriptInv ==
  Inv /\ (Timer \/ FetchNL \/ FetchUSA \/ Upload \/ Skip \/ Done) => Inv'
<1> SUFFICES ASSUME Inv,
                    Timer \/ FetchNL \/ FetchUSA \/ Upload \/ Skip \/ Done
             PROVE  Inv'
  OBVIOUS
<1> USE DEF sets, files, routers, ghosts
<1>1. TypeOK'
  BY StepType DEF Inv, Next, Script
<1>2. pc' \in {"fetchNL", "fetchUSA", "scp", "wait", "removeNL"}
  BY NextRouterType DEF Inv, Timer, FetchNL, FetchUSA, Upload, Skip, Done
<1>3. Emptied' /\ NLListed' /\ USAListed' /\ Marked'
  BY <1>2 DEF Emptied, NLListed, USAListed, Marked
<1>4. FilesAhead'
  BY NextRouterType DEF Inv, FilesAhead, Timer, FetchNL, FetchUSA, Upload,
                        Skip, Done
<1>5. FilesComplete'
  BY NextRouterType DEF Inv, FilesAhead, FilesComplete, Timer, FetchNL,
                        FetchUSA, Upload, Skip, Done, Importing
<1> QED
  BY <1>1, <1>3, <1>4, <1>5 DEF Inv

LEMMA ImportInv == Inv /\ (Import \/ Cut) => Inv'
<1> SUFFICES ASSUME Inv, Import \/ Cut PROVE Inv'
  OBVIOUS
<1> USE DEF sets, files, routers, ghosts
<1>1. TypeOK'
  BY StepType DEF Inv, Next, Script
<1>r. Router \in Routers
  BY RouterType DEF Inv
<1>2. CASE Import
  <2>1. Router' = Router
    BY <1>2 DEF Import, RemoveNL, RemoveUSA, AddNL, AddUSA, Mangle, AddRoute,
                Router
  <2>2. FilesAhead' /\ FilesComplete'
    BY <1>2 DEF Inv, FilesAhead, FilesComplete, Import, RemoveNL, RemoveUSA,
                AddNL, AddUSA, Mangle, AddRoute, Importing
  <2>3. Emptied'
    BY <1>2, <1>r, <2>1 DEF Inv, TypeOK, Emptied, Import, RemoveNL,
       RemoveUSA, AddNL, AddUSA, Mangle, AddRoute
  <2>4. NLListed'
    BY <1>2, <1>r, <2>1 DEF Inv, TypeOK, Emptied, NLListed, Import, RemoveNL,
       RemoveUSA, AddNL, AddUSA, Mangle, AddRoute
  <2>5. USAListed'
    BY <1>2, <1>r, <2>1 DEF Inv, TypeOK, Emptied, USAListed, Import,
       RemoveNL, RemoveUSA, AddNL, AddUSA, Mangle, AddRoute
  <2>6. Marked'
    BY <1>2, <1>r, <2>1 DEF Inv, TypeOK, Marked, Import, RemoveNL,
       RemoveUSA, AddNL, AddUSA, Mangle, AddRoute
  <2> QED
    BY <1>1, <2>2, <2>3, <2>4, <2>5, <2>6 DEF Inv
<1>3. CASE Cut
  <2>1. pc' \in {"scp", "wait"}
    BY <1>3, NextRouterType DEF Inv, Cut
  <2>2. FilesAhead' /\ FilesComplete'
    BY <1>3, <2>1 DEF Inv, FilesAhead, FilesComplete, Cut
  <2>3. Emptied' /\ NLListed' /\ USAListed' /\ Marked'
    BY <2>1 DEF Emptied, NLListed, USAListed, Marked
  <2> QED
    BY <1>1, <2>2, <2>3 DEF Inv
<1> QED
  BY <1>2, <1>3

LEMMA StutterInv ==
  Inv /\ (UNCHANGED vars \/ \E r \in Routers : LinkChanges(r)) => Inv'
<1> SUFFICES ASSUME Inv, UNCHANGED vars \/ \E r \in Routers : LinkChanges(r)
             PROVE  Inv'
  OBVIOUS
<1>1. TypeOK'
  BY StepType DEF Inv, Next
<1>2. UNCHANGED <<sets, files, routers, pc, at, ghosts>>
  BY DEF vars, LinkChanges
<1> QED
  BY <1>1, <1>2 DEF Inv, FilesAhead, FilesComplete, Emptied, NLListed,
     USAListed, Marked, Router, sets, files, routers, ghosts

(* The inductive invariant holds of every reachable state.                 *)
THEOREM InvHolds == Spec => []Inv
<1>1. Inv /\ [Next]_vars => Inv'
  BY SetsChangeInv, ScriptInv, ImportInv, StutterInv DEF Next, Script
<1> QED
  BY InitInv, <1>1, PTL DEF Spec

(* Every variable keeps its type.                                          *)
THEOREM TypeCorrect == Spec => []TypeOK
<1>1. Inv => TypeOK
  BY DEF Inv
<1> QED
  BY InvHolds, <1>1, PTL

(* A completed import has every address that was in a set throughout,      *)
(* whatever the bot did between and after the two fetches (:96-97).        *)
THEOREM ImportsForgetNone == Spec => []NoneForgotten
<1>1. Inv => NoneForgotten
  BY DEF Inv, FilesComplete, NLListed, USAListed, Marked, NoneForgotten
<1> QED
  BY InvHolds, <1>1, PTL

(* A completed import has no address that was in neither set during the    *)
(* run (:69-70).                                                           *)
THEOREM ImportsAddNone == Spec => []OnlyTheBots
<1>1. Inv => OnlyTheBots
  BY DEF Inv, FilesComplete, NLListed, USAListed, OnlyTheBots
<1> QED
  BY InvHolds, <1>1, PTL

(* A completed import is exactly the two files of the run, with the mangle *)
(* rules and the route: nothing an earlier run left, nothing of a run that *)
(* was cut in the middle (:66-79).                                         *)
ImportIsExact ==
    pc = "imported" =>
       /\ nlList[Router] = nlTmp /\ usaList[Router] = usaTmp
       /\ marks[Router] /\ route[Router]

THEOREM ImportsAreExact == Spec => []ImportIsExact
<1>1. Inv => ImportIsExact
  BY DEF Inv, NLListed, USAListed, Marked, ImportIsExact
<1> QED
  BY InvHolds, <1>1, PTL

-----------------------------------------------------------------------------
(* The progress of a run: EventuallySynced needs that a run ends, and that *)
(* what it has given to one router is not undone by the other's turn.      *)

(* How many steps of a run are left at most for the router it works on,    *)
(* and in all.                                                             *)
StepsAt(p) == IF p = "scp" THEN 8
              ELSE IF p = "removeNL" THEN 7
              ELSE IF p = "removeUSA" THEN 6
              ELSE IF p = "addNL" THEN 5
              ELSE IF p = "addUSA" THEN 4
              ELSE IF p = "mangle" THEN 3
              ELSE IF p = "route" THEN 2
              ELSE 1

StepsLeft == IF pc = "wait" THEN 0
             ELSE IF pc = "fetchNL" THEN 18
             ELSE IF pc = "fetchUSA" THEN 17
             ELSE StepsAt(pc) + 8 * (Len(Order) - at)

(* Every step of a run, also one that skips a router or loses it in the    *)
(* middle, brings the run nearer to its end, so each router that answers   *)
(* is reached after a bounded number of them, whatever happened to the     *)
(* other one (:99-135: continue, and `|| echo' instead of an exit).        *)
RunAdvances ==
    [][(Script \/ Cut) /\ pc # "wait" => StepsLeft' < StepsLeft]_vars

LEMMA AtIsOneOrTwo == TypeOK => at \in {1, 2} /\ Len(Order) = 2
  BY DEF TypeOK, Order

LEMMA StepsAtRange == \A p : StepsAt(p) \in 1 .. 8
  BY DEF StepsAt

LEMMA NextRouterAdvances ==
  ASSUME TypeOK, NextRouter, pc \in {"scp", "imported"} \cup Importing
  PROVE  StepsLeft' < StepsLeft
<1>1. StepsLeft = StepsAt(pc) + 8 * (2 - at)
  BY AtIsOneOrTwo DEF StepsLeft, Importing, Order
<1>2. StepsAt(pc) >= 1 /\ StepsAt(pc) \in Nat
  BY StepsAtRange
<1>3. CASE at = 1
  <2>1. pc' = "scp" /\ at' = 2
    BY <1>3, AtIsOneOrTwo DEF NextRouter, Order
  <2>2. StepsLeft' = 8
    BY <2>1, AtIsOneOrTwo DEF StepsLeft, StepsAt, Order
  <2> QED
    BY <1>1, <1>2, <1>3, <2>2
<1>4. CASE at = 2
  <2>1. pc' = "wait"
    BY <1>4, AtIsOneOrTwo DEF NextRouter, Order
  <2>2. StepsLeft' = 0
    BY <2>1 DEF StepsLeft
  <2> QED
    BY <1>1, <1>2, <1>4, <2>2
<1> QED
  BY <1>3, <1>4, AtIsOneOrTwo

THEOREM RunsEnd == Spec => RunAdvances
<1>1. ASSUME TypeOK, Script \/ Cut, pc # "wait"
      PROVE  StepsLeft' < StepsLeft
  <2>1. CASE Skip \/ Done \/ Cut
    <3>1. NextRouter /\ pc \in {"scp", "imported"} \cup Importing
      BY <2>1 DEF Skip, Done, Cut
    <3> QED
      BY <1>1, <3>1, NextRouterAdvances
  <2>2. CASE FetchNL
    BY <2>2 DEF FetchNL, StepsLeft
  <2>5. CASE FetchUSA
    <3>1. StepsLeft = 17
      BY <2>5 DEF FetchUSA, StepsLeft
    <3>2. pc' = "scp" /\ at' = 1
      BY <2>5 DEF FetchUSA
    <3>3. StepsLeft' = 16
      BY <1>1, <3>2, AtIsOneOrTwo DEF StepsLeft, StepsAt, Order
    <3> QED
      BY <3>1, <3>3
  <2>3. CASE Upload \/ Import
    <3>1. at' = at
      BY <2>3 DEF Upload, Import, RemoveNL, RemoveUSA, AddNL, AddUSA,
                  Mangle, AddRoute
    <3>2. /\ pc \notin {"wait", "fetchNL", "fetchUSA"}
          /\ pc' \notin {"wait", "fetchNL", "fetchUSA"}
          /\ StepsAt(pc') < StepsAt(pc)
      BY <2>3 DEF Upload, Import, RemoveNL, RemoveUSA, AddNL, AddUSA,
                  Mangle, AddRoute, StepsAt
    <3>3. StepsAt(pc) \in Nat /\ StepsAt(pc') \in Nat
      BY StepsAtRange
    <3> QED
      BY <1>1, <3>1, <3>2, <3>3, AtIsOneOrTwo DEF StepsLeft, Order
  <2>4. ~Timer
    BY <1>1 DEF Timer
  <2> QED
    BY <1>1, <2>1, <2>2, <2>3, <2>4, <2>5 DEF Script
<1>2. TypeOK /\ [Next]_vars
      => [(Script \/ Cut) /\ pc # "wait" => StepsLeft' < StepsLeft]_vars
  BY <1>1
<1> QED
  BY TypeCorrect, <1>2, PTL DEF Spec, RunAdvances

(* A router that has the two sets is put out of step only by a change of   *)
(* the sets, or by the import it is given itself: neither the run for the  *)
(* other router nor a link that fails takes anything from it (:99-135).    *)
OutOfSyncOnlyBy ==
    [][\A r \in Routers :
          InSync(r) /\ ~InSync(r)'
          => \/ <<nl, usa>>' # <<nl, usa>>
             \/ pc \in Importing /\ r = Router]_vars

THEOREM RoutersApart == Spec => OutOfSyncOnlyBy
<1>1. ASSUME TypeOK, Next, NEW r \in Routers, InSync(r), ~InSync(r)',
             <<nl, usa>>' = <<nl, usa>>
      PROVE  pc \in Importing /\ r = Router
  <2> USE DEF sets, files, routers, ghosts
  <2>1. ~UNCHANGED <<nlList, usaList, marks, route>>
    BY <1>1 DEF InSync
  <2>2. pc \in Importing
    BY <1>1, <2>1 DEF Next, Script, SetsChange, LinkChanges, Timer, FetchNL,
       FetchUSA, Upload, Skip, Done, Cut, Import, RemoveNL, RemoveUSA, AddNL,
       AddUSA, Mangle, AddRoute, Importing
  <2>3. Import \/ Cut
    BY <1>1, <2>1 DEF Next, Script, SetsChange, LinkChanges, Timer, FetchNL,
       FetchUSA, Upload, Skip, Done
  <2>4. ASSUME r # Router
        PROVE  /\ nlList'[r] = nlList[r] /\ usaList'[r] = usaList[r]
               /\ marks'[r] = marks[r] /\ route'[r] = route[r]
    BY <1>1, <2>3, <2>4 DEF TypeOK, Cut, Import, RemoveNL, RemoveUSA, AddNL,
       AddUSA, Mangle, AddRoute
  <2> QED
    BY <1>1, <2>2, <2>4 DEF InSync
<1>2. TypeOK /\ [Next]_vars
      => [\A r \in Routers :
             InSync(r) /\ ~InSync(r)'
             => \/ <<nl, usa>>' # <<nl, usa>>
                \/ pc \in Importing /\ r = Router]_vars
  BY <1>1
<1> QED
  BY TypeCorrect, <1>2, PTL DEF Spec, OutOfSyncOnlyBy

-----------------------------------------------------------------------------
(* The watchdog.                                                           *)

(* What proxy-route has passed by now has its route, or was removed since; *)
(* what it has still to do is nobody's promise.                            *)
Passed == IF unit = "usa" THEN {"wg-ipsec"}
          ELSE IF unit = "active" THEN Monitor!Ifaces ELSE {}

PassedRouted == \A i \in Passed : removed[i] \/ (exists[i] /\ table[i])

MonitorInv == Monitor!TypeOK /\ PassedRouted

LEMMA IfaceType == Monitor!TypeOK => Monitor!Iface \in Monitor!Ifaces
  BY DEF Monitor!TypeOK, Monitor!Iface, Monitor!Ifaces, Monitor!Order

(* The loop stays within INTERFACES, whatever check_iface returned         *)
(* (wg-monitor.sh:76-83).                                                  *)
LEMMA ReturnType ==
  ASSUME Monitor!TypeOK, NEW status, Monitor!Return(status)
  PROVE  step' \in {"show", "wait"} /\ iface' \in 1 .. Len(Monitor!Order)
  BY DEF Monitor!TypeOK, Monitor!Return, Monitor!Order

LEMMA NotifyType ==
  ASSUME Monitor!TypeOK, NEW m \in {"missing", "restored", "alarm"},
         Monitor!Notify(m)
  PROVE  notice' \in [Monitor!Ifaces ->
                        {"none", "missing", "restored", "alarm"}]
  BY DEF Monitor!TypeOK, Monitor!Notify

LEMMA RecreateType ==
  ASSUME Monitor!TypeOK, NEW i \in Monitor!Ifaces, Monitor!Recreate(i)
  PROVE  /\ exists' \in [Monitor!Ifaces -> BOOLEAN]
         /\ fresh' \in [Monitor!Ifaces -> BOOLEAN]
         /\ table' \in [Monitor!Ifaces -> BOOLEAN]
         /\ removed' \in [Monitor!Ifaces -> BOOLEAN]
         /\ failures' \in 0 .. MaxFailures
<1>1. failures' \in 0 .. MaxFailures
  BY MaxFailuresAssumption DEF Monitor!TypeOK, Monitor!Recreate
<1>2. exists' \in [Monitor!Ifaces -> BOOLEAN]
  BY DEF Monitor!TypeOK, Monitor!Recreate
<1> QED
  BY <1>1, <1>2 DEF Monitor!TypeOK, Monitor!Recreate

LEMMA MonitorInit == Monitor!Init => MonitorInv
  BY MaxFailuresAssumption
     DEF Monitor!Init, MonitorInv, Monitor!TypeOK, PassedRouted, Passed,
         Monitor!Ifaces, Monitor!Order

LEMMA MonitorType ==
  Monitor!TypeOK /\ [Monitor!Next]_monitorVars => Monitor!TypeOK'
<1> SUFFICES ASSUME Monitor!TypeOK, [Monitor!Next]_monitorVars
             PROVE  Monitor!TypeOK'
  OBVIOUS
<1> USE MaxFailuresAssumption DEF Monitor!monitor
<1>i. Monitor!Iface \in Monitor!Ifaces
  BY IfaceType
<1>1. CASE \E i \in Monitor!Ifaces :
             \/ Monitor!Handshake(i) \/ Monitor!Expire(i)
             \/ Monitor!PeerChanges(i)
  BY <1>1 DEF Monitor!TypeOK, Monitor!Handshake, Monitor!Expire,
     Monitor!PeerChanges
<1>2. CASE \E i \in Monitor!Ifaces : Monitor!Remove(i)
  BY <1>2 DEF Monitor!TypeOK, Monitor!Remove
<1>3. CASE Monitor!BootInterfaces
  <2>1. failures' \in 0 .. MaxFailures
    BY <1>3 DEF Monitor!TypeOK, Monitor!BootInterfaces
  <2>2. exists' \in [Monitor!Ifaces -> BOOLEAN]
    BY <1>3 DEF Monitor!BootInterfaces
  <2> QED
    BY <1>3, <2>1, <2>2 DEF Monitor!TypeOK, Monitor!BootInterfaces
<1>4. CASE Monitor!ProxyRoute
  BY <1>4 DEF Monitor!TypeOK, Monitor!ProxyRoute, Monitor!RouteReplace,
     Monitor!Ifaces
<1>5. CASE Monitor!Timer \/ Monitor!Show
  BY <1>5 DEF Monitor!TypeOK, Monitor!Timer, Monitor!Show, Monitor!Order
<1>6. CASE Monitor!RestartMissing \/ Monitor!RestartStale
  BY <1>6, <1>i, RecreateType DEF Monitor!TypeOK, Monitor!RestartMissing,
     Monitor!RestartStale
<1>7. CASE Monitor!ShowAgain
  BY <1>7, ReturnType, NotifyType DEF Monitor!TypeOK, Monitor!ShowAgain
<1>8. CASE Monitor!LatestHandshakes
  BY <1>8, ReturnType DEF Monitor!TypeOK, Monitor!LatestHandshakes
<1>9. CASE Monitor!Revived
  BY <1>9, ReturnType, NotifyType DEF Monitor!TypeOK, Monitor!Revived
<1>10. CASE UNCHANGED monitorVars
  BY <1>10 DEF Monitor!TypeOK, monitorVars
<1> QED
  BY <1>1, <1>2, <1>3, <1>4, <1>5, <1>6, <1>7, <1>8, <1>9, <1>10
     DEF Monitor!Next, Monitor!MonitorStep

(* An interface that is made anew counts as removed.                       *)
LEMMA RecreatePasses ==
  ASSUME MonitorInv, NEW i \in Monitor!Ifaces, Monitor!Recreate(i),
         unit' = unit
  PROVE  PassedRouted'
  BY DEF MonitorInv, Monitor!TypeOK, PassedRouted, Passed, Monitor!Ifaces,
     Monitor!Recreate

LEMMA PassedStep ==
  MonitorInv /\ [Monitor!Next]_monitorVars => PassedRouted'
<1> SUFFICES ASSUME MonitorInv, [Monitor!Next]_monitorVars
             PROVE  PassedRouted'
  OBVIOUS
<1> USE DEF Monitor!monitor
<1>i. Monitor!Iface \in Monitor!Ifaces
  BY IfaceType DEF MonitorInv
<1>1. CASE \E i \in Monitor!Ifaces : Monitor!Remove(i)
  BY <1>1 DEF MonitorInv, Monitor!TypeOK, PassedRouted, Passed,
     Monitor!Ifaces, Monitor!Remove
<1>2. CASE Monitor!BootInterfaces
  BY <1>2 DEF Monitor!BootInterfaces, PassedRouted, Passed
<1>3. CASE Monitor!ProxyRoute
  BY <1>3 DEF MonitorInv, Monitor!TypeOK, PassedRouted, Passed,
     Monitor!Ifaces, Monitor!ProxyRoute, Monitor!RouteReplace
<1>4. CASE Monitor!RestartMissing \/ Monitor!RestartStale
  BY <1>4, <1>i, RecreatePasses DEF Monitor!RestartMissing,
     Monitor!RestartStale
<1>5. CASE UNCHANGED <<exists, table, unit, removed>>
  BY <1>5 DEF MonitorInv, PassedRouted, Passed
<1> QED
  BY <1>1, <1>2, <1>3, <1>4, <1>5
     DEF Monitor!Next, Monitor!MonitorStep, Monitor!Handshake,
         Monitor!Expire, Monitor!PeerChanges, Monitor!Timer, Monitor!Show,
         Monitor!ShowAgain, Monitor!LatestHandshakes, Monitor!Revived,
         monitorVars

LEMMA MonitorInvHolds == Monitor!Spec => []MonitorInv
<1>1. MonitorInv /\ [Monitor!Next]_(Monitor!vars) => MonitorInv'
  BY MonitorType, PassedStep DEF MonitorInv, Monitor!vars, monitorVars
<1> QED
  BY MonitorInit, <1>1, PTL DEF Monitor!Spec

(* Once proxy-route has run, nobody gives a table its route back: what a   *)
(* restart or a removal of the interface has dropped is lost until the     *)
(* next boot (wg-monitor.sh:56 restarts the interface only, and the unit   *)
(* is a oneshot that stays active).  With ActiveMeansRouted: the tables of *)
(* an active unit lack exactly the routes of interfaces that were removed. *)
RoutesOnlyLost ==
    [][(unit \in {"active", "failed"})
       => \A i \in Monitor!Ifaces : table'[i] => table[i]]_(Monitor!vars)

THEOREM NobodyRestoresRoutes == Monitor!Spec => RoutesOnlyLost
<1>1. ASSUME MonitorInv, Monitor!Next, unit \in {"active", "failed"},
             NEW i \in Monitor!Ifaces, table'[i]
      PROVE  table[i]
  <2> USE DEF MonitorInv, Monitor!TypeOK
  <2>i. Monitor!Iface \in Monitor!Ifaces
    BY <1>1, IfaceType
  <2>1. CASE \E j \in Monitor!Ifaces : Monitor!Remove(j)
    BY <1>1, <2>1 DEF Monitor!Remove
  <2>2. CASE Monitor!RestartMissing \/ Monitor!RestartStale
    BY <1>1, <2>2, <2>i DEF Monitor!RestartMissing, Monitor!RestartStale,
       Monitor!Recreate
  <2>3. ~Monitor!ProxyRoute
    BY <1>1 DEF Monitor!ProxyRoute
  <2>4. CASE UNCHANGED table
    BY <1>1, <2>4
  <2> QED
    BY <1>1, <2>1, <2>2, <2>3, <2>4
       DEF Monitor!Next, Monitor!MonitorStep, Monitor!Handshake,
           Monitor!Expire, Monitor!PeerChanges, Monitor!BootInterfaces,
           Monitor!Timer, Monitor!Show, Monitor!ShowAgain,
           Monitor!LatestHandshakes, Monitor!Revived
<1>2. MonitorInv /\ [Monitor!Next]_(Monitor!vars)
      => [(unit \in {"active", "failed"})
          => \A i \in Monitor!Ifaces :
                table'[i] => table[i]]_(Monitor!vars)
  BY <1>1
<1> QED
  BY MonitorInvHolds, <1>2, PTL DEF Monitor!Spec, RoutesOnlyLost

(* How many steps a run of the monitor has left at most.                   *)
ChecksAt(p) == IF p = "show" THEN 6
               ELSE IF p = "missing" THEN 5
               ELSE IF p = "shown" THEN 4
               ELSE IF p = "handshakes" THEN 3
               ELSE IF p = "stale" THEN 2
               ELSE 1

ChecksLeft == IF step \in {"boot", "wait"} THEN 0
              ELSE ChecksAt(step) + 6 * (Len(Monitor!Order) - iface)

(* Every step of a run brings it nearer to its end, also those after a     *)
(* restart that failed: no failure of one tunnel keeps the monitor from    *)
(* the other (wg-monitor.sh:76-83).                                        *)
WatchAdvances ==
    [][Monitor!MonitorStep /\ step \notin {"boot", "wait"}
       => ChecksLeft' < ChecksLeft]_(Monitor!vars)

LEMMA IfaceIsOneOrTwo ==
  Monitor!TypeOK => iface \in {1, 2} /\ Len(Monitor!Order) = 2
  BY DEF Monitor!TypeOK, Monitor!Order

LEMMA ChecksAtRange == \A p : ChecksAt(p) \in 1 .. 6
  BY DEF ChecksAt

LEMMA ReturnAdvances ==
  ASSUME Monitor!TypeOK, NEW status, Monitor!Return(status),
         step \notin {"boot", "wait"}
  PROVE  ChecksLeft' < ChecksLeft
<1>1. ChecksLeft = ChecksAt(step) + 6 * (2 - iface)
  BY IfaceIsOneOrTwo DEF ChecksLeft, Monitor!Order
<1>2. ChecksAt(step) >= 1 /\ ChecksAt(step) \in Nat
  BY ChecksAtRange
<1>3. CASE iface = 1
  <2>1. step' = "show" /\ iface' = 2
    BY <1>3, IfaceIsOneOrTwo DEF Monitor!Return, Monitor!Order
  <2>2. ChecksLeft' = 6
    BY <2>1, IfaceIsOneOrTwo
     DEF ChecksLeft, ChecksAt, Monitor!Order
  <2> QED
    BY <1>1, <1>2, <1>3, <2>2
<1>4. CASE iface = 2
  <2>1. step' = "wait"
    BY <1>4, IfaceIsOneOrTwo DEF Monitor!Return, Monitor!Order
  <2>2. ChecksLeft' = 0
    BY <2>1 DEF ChecksLeft
  <2> QED
    BY <1>1, <1>2, <1>4, <2>2
<1> QED
  BY <1>3, <1>4, IfaceIsOneOrTwo

LEMMA OwnCheckAdvances ==
  ASSUME Monitor!TypeOK, iface' = iface, ChecksAt(step') < ChecksAt(step),
         step \notin {"boot", "wait"}, step' \notin {"boot", "wait"}
  PROVE  ChecksLeft' < ChecksLeft
<1>1. ChecksAt(step) \in Nat /\ ChecksAt(step') \in Nat
  BY ChecksAtRange
<1> QED
  BY <1>1, IfaceIsOneOrTwo DEF ChecksLeft, Monitor!Order

THEOREM WatchesEnd == Monitor!Spec => WatchAdvances
<1>1. ASSUME Monitor!TypeOK, Monitor!MonitorStep,
             step \notin {"boot", "wait"}
      PROVE  ChecksLeft' < ChecksLeft
  <2> USE DEF Monitor!monitor
  <2>1. CASE Monitor!Show \/ Monitor!RestartMissing \/ Monitor!RestartStale
    BY <1>1, <2>1, OwnCheckAdvances DEF Monitor!Show,
       Monitor!RestartMissing, Monitor!RestartStale, ChecksAt
  <2>2. CASE Monitor!ShowAgain
    <3>1. CASE exists[Monitor!Iface]
      BY <1>1, <2>2, <3>1, OwnCheckAdvances DEF Monitor!ShowAgain, ChecksAt
    <3>2. CASE ~exists[Monitor!Iface]
      BY <1>1, <2>2, <3>2, ReturnAdvances DEF Monitor!ShowAgain
    <3> QED
      BY <3>1, <3>2
  <2>3. CASE Monitor!LatestHandshakes
    <3>1. CASE fresh[Monitor!Iface]
      BY <1>1, <2>3, <3>1, ReturnAdvances DEF Monitor!LatestHandshakes
    <3>2. CASE ~fresh[Monitor!Iface]
      BY <1>1, <2>3, <3>2, OwnCheckAdvances
         DEF Monitor!LatestHandshakes, ChecksAt
    <3> QED
      BY <3>1, <3>2
  <2>4. CASE Monitor!Revived
    BY <1>1, <2>4, ReturnAdvances DEF Monitor!Revived
  <2> QED
    BY <1>1, <2>1, <2>2, <2>3, <2>4 DEF Monitor!MonitorStep, Monitor!Timer
<1>2. MonitorInv /\ [Monitor!Next]_(Monitor!vars)
      => [Monitor!MonitorStep /\ step \notin {"boot", "wait"}
          => ChecksLeft' < ChecksLeft]_(Monitor!vars)
  BY <1>1 DEF MonitorInv
<1> QED
  BY MonitorInvHolds, <1>2, PTL DEF Monitor!Spec, WatchAdvances

-----------------------------------------------------------------------------
(* The two together.                                                       *)

(* Each timer, whatever the turns, does what its own module says: so what  *)
(* is proved of MikrotikSync and of WgMonitor holds of the two together.   *)
THEOREM TimersIndependent == BothSpec => Spec /\ Monitor!Spec
<1>1. BothInit => Init /\ Monitor!Init
  BY DEF BothInit
<1>2. [BothNext]_allVars => [Next]_vars
  BY DEF BothNext, Sync, Watch, allVars
<1>3. [BothNext]_allVars => [Monitor!Next]_(Monitor!vars)
  BY DEF BothNext, Sync, Watch, allVars, monitorVars, Monitor!vars
<1> QED
  BY <1>1, <1>2, <1>3, PTL DEF BothSpec, Spec, Monitor!Spec

(* An active unit has set both routes, and they stay until their interface *)
(* is removed, whatever fails and in whatever order the monitor restarts   *)
(* them (proxy-route.service:10-16, wg-monitor.sh:30-83).                  *)
THEOREM RoutesAreSet == BothSpec => []ActiveMeansRouted
<1>1. MonitorInv => ActiveMeansRouted
  BY DEF MonitorInv, PassedRouted, Passed, ActiveMeansRouted,
     Monitor!ActiveMeansRouted
<1> QED
  BY TimersIndependent, MonitorInvHolds, <1>1, PTL

=============================================================================
