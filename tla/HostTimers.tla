----------------------------- MODULE HostTimers -----------------------------
(* The two timers of the server: MikrotikSync, every ten minutes, and      *)
(* WgMonitor, every five.  They share no variable, so each is explored     *)
(* while the other rests, and "timer" says which.                          *)
EXTENDS MikrotikSync

CONSTANT MaxFailures    \* bound on the interface starts that fail

ASSUME MaxFailuresAssumption == MaxFailures \in Nat

VARIABLES
    timer,          \* "sync" or "monitor"
    exists, fresh, reachable, table, unit, removed, step, iface, notice,
    failures        \* the variables of WgMonitor

Monitor == INSTANCE WgMonitor
              WITH route <- table, pc <- step, at <- iface

monitorVars == <<exists, fresh, reachable, table, unit, removed, step, iface,
                 notice, failures>>
allVars == <<timer, vars, monitorVars>>

-----------------------------------------------------------------------------

BothInit ==
    /\ Init
    /\ Monitor!Init
    /\ \/ timer = "sync" /\ \A i \in Monitor!Ifaces : reachable[i]
       \/ timer = "monitor"

Sync(A) == timer = "sync" /\ A /\ UNCHANGED <<timer, monitorVars>>

Watch(A) == timer = "monitor" /\ A /\ UNCHANGED <<timer, vars>>

BothNext == Sync(Next) \/ Watch(Monitor!Next)

(* The fairness of MikrotikSync and of WgMonitor, each while it is its     *)
(* turn.                                                                   *)
BothSpec ==
    /\ BothInit
    /\ [][BothNext]_allVars
    /\ WF_allVars(Sync(Script))
    /\ WF_allVars(Watch(Monitor!BootInterfaces))
    /\ WF_allVars(Watch(Monitor!ProxyRoute))
    /\ WF_allVars(Watch(Monitor!MonitorStep))
    /\ \A i \in Monitor!Ifaces : WF_allVars(Watch(Monitor!Handshake(i)))

-----------------------------------------------------------------------------

(* A router that answers is given the sets (:99-135); see MikrotikSync.    *)
RouterSynced == timer = "sync" => EventuallySynced

(* An active unit has set both routes, which stay until their interface    *)
(* is removed (proxy-route.service:10-16); see WgMonitor.                  *)
ActiveMeansRouted == Monitor!ActiveMeansRouted

(* A tunnel whose peer answers works again (wg-monitor.sh:76-83); see      *)
(* WgMonitor.                                                              *)
Recovers == timer = "monitor" => Monitor!Recovers

=============================================================================
