------------------------------ MODULE WgMonitor ------------------------------
(* The watchdog of the two tunnels and the routes it works on              *)
(* (src/pg.louso.ru/usr/local/bin/wg-monitor.sh, proxy-route.service).     *)
(*                                                                         *)
(* At boot systemd starts the interfaces and then, once, the unit          *)
(* proxy-route, which gives the table of each tunnel its default route.    *)
(* Every five minutes the monitor looks at one interface after the other,  *)
(* and restarts one that is missing or had no handshake for five minutes.  *)
(* The kernel drops the routes over an interface that is removed.          *)
EXTENDS Integers, Sequences

CONSTANT MaxFailures    \* bound on the interface starts that fail

\* INTERFACES; the tables nl and usa are those of the first and the second.
Order == <<"wg-ipsec", "wg-usa">>
Ifaces == {"wg-ipsec", "wg-usa"}

VARIABLES
    exists,         \* the interface exists
    fresh,          \* its last handshake is younger than the threshold
    reachable,      \* its peer answers
    route,          \* its table has a default route over it
    unit,           \* the state of proxy-route.service
    removed,        \* ghost: it was removed since the unit has run
    pc,             \* where the monitor is
    at,             \* which interface it looks at
    notice,         \* the last message about the interface
    failures        \* number of starts that failed

monitor == <<pc, at>>
vars == <<exists, fresh, reachable, route, unit, removed, pc, at, notice,
          failures>>

TypeOK ==
    /\ exists \in [Ifaces -> BOOLEAN]
    /\ fresh \in [Ifaces -> BOOLEAN]
    /\ reachable \in [Ifaces -> BOOLEAN]
    /\ route \in [Ifaces -> BOOLEAN]
    /\ unit \in {"activating", "nl", "usa", "active", "failed"}
    /\ removed \in [Ifaces -> BOOLEAN]
    /\ pc \in {"boot", "wait", "show", "missing", "shown", "handshakes",
               "stale", "restarted"}
    /\ at \in 1 .. Len(Order)
    /\ notice \in [Ifaces -> {"none", "missing", "restored", "alarm"}]
    /\ failures \in 0 .. MaxFailures

Init ==
    /\ exists = [i \in Ifaces |-> FALSE]
    /\ fresh = [i \in Ifaces |-> FALSE]
    /\ reachable \in [Ifaces -> BOOLEAN]
    /\ route = [i \in Ifaces |-> FALSE]
    /\ unit = "activating"
    /\ removed = [i \in Ifaces |-> FALSE]
    /\ pc = "boot"
    /\ at = 1
    /\ notice = [i \in Ifaces |-> "none"]
    /\ failures = 0

-----------------------------------------------------------------------------
(* The interfaces.                                                         *)

\* The device and everything that hangs on it goes; wg-quick up makes a new
\* one, without a handshake, and adds no route but to the peer's address.
Recreate(i) ==
    /\ \/ exists' = [exists EXCEPT ![i] = TRUE] /\ UNCHANGED failures
       \/ /\ failures < MaxFailures
          /\ failures' = failures + 1
          /\ exists' = [exists EXCEPT ![i] = FALSE]
    /\ fresh' = [fresh EXCEPT ![i] = FALSE]
    /\ route' = [route EXCEPT ![i] = FALSE]
    /\ removed' = [removed EXCEPT ![i] = TRUE]

Handshake(i) ==
    /\ exists[i] /\ reachable[i] /\ ~fresh[i]
    /\ fresh' = [fresh EXCEPT ![i] = TRUE]
    /\ UNCHANGED <<exists, reachable, route, unit, removed, monitor, notice,
                   failures>>

\* With a peer that answers there is a handshake every two minutes.
Expire(i) ==
    /\ fresh[i] /\ ~reachable[i]
    /\ fresh' = [fresh EXCEPT ![i] = FALSE]
    /\ UNCHANGED <<exists, reachable, route, unit, removed, monitor, notice,
                   failures>>

PeerChanges(i) ==
    /\ reachable' = [reachable EXCEPT ![i] = ~@]
    /\ UNCHANGED <<exists, fresh, route, unit, removed, monitor, notice,
                   failures>>

\* somebody takes the interface down
Remove(i) ==
    /\ exists[i]
    /\ failures < MaxFailures
    /\ failures' = failures + 1
    /\ exists' = [exists EXCEPT ![i] = FALSE]
    /\ fresh' = [fresh EXCEPT ![i] = FALSE]
    /\ route' = [route EXCEPT ![i] = FALSE]
    /\ removed' = [removed EXCEPT ![i] = TRUE]
    /\ notice' = [notice EXCEPT ![i] = "none"]
    /\ UNCHANGED <<reachable, unit, monitor>>

-----------------------------------------------------------------------------
(* Boot: the interfaces first (After=), then proxy-route.                  *)

BootInterfaces ==
    /\ pc = "boot"
    /\ unit = "activating"
    /\ \E up \in SUBSET Ifaces :
         /\ up # Ifaces => failures < MaxFailures
         /\ failures' = IF up = Ifaces THEN failures ELSE failures + 1
         /\ exists' = [i \in Ifaces |-> i \in up]
    /\ unit' = "nl"
    /\ UNCHANGED <<fresh, reachable, route, removed, monitor, notice>>

\* Mutant: the commands go on without `set -e'.
RouteReplaceAnyway(i, next) ==
    /\ route' = [route EXCEPT ![i] = exists[i]]
    /\ unit' = next
    /\ removed' = [removed EXCEPT ![i] = FALSE]

\* ip route replace default dev ... table ...; `set -e' ends the unit at the
\* first that fails.
RouteReplace(i, next) ==
    IF exists[i]
    THEN /\ route' = [route EXCEPT ![i] = TRUE]
         /\ removed' = [removed EXCEPT ![i] = FALSE]
         /\ unit' = next
    ELSE /\ unit' = "failed"
         /\ UNCHANGED <<route, removed>>

ProxyRoute ==
    /\ \/ unit = "nl" /\ RouteReplace("wg-ipsec", "usa")
       \/ unit = "usa" /\ RouteReplace("wg-usa", "active")
    /\ UNCHANGED <<exists, fresh, reachable, monitor, notice, failures>>

\* OnBootSec=2min, OnUnitActiveSec=5min
Timer ==
    /\ \/ pc = "boot" /\ unit # "activating"
       \/ pc = "wait"
    /\ pc' = "show"
    /\ at' = 1
    /\ UNCHANGED <<exists, fresh, reachable, route, unit, removed, notice,
                   failures>>

-----------------------------------------------------------------------------
(* check_iface.                                                            *)

Iface == Order[at]

\* Mutant: a failure ends the script.
ReturnAborts(status) ==
    IF at < Len(Order) /\ status = 0
    THEN pc' = "show" /\ at' = at + 1
    ELSE pc' = "wait" /\ UNCHANGED at

\* Mutant: the loop goes one too far.
ReturnOneMore(status) ==
    IF at <= Len(Order)
    THEN pc' = "show" /\ at' = at + 1
    ELSE pc' = "wait" /\ UNCHANGED at

\* The loop over INTERFACES goes on whatever check_iface returns.
Return(status) ==
    IF at < Len(Order)
    THEN pc' = "show" /\ at' = at + 1
    ELSE pc' = "wait" /\ UNCHANGED at

Notify(message) == notice' = [notice EXCEPT ![Iface] = message]

Show ==
    /\ pc = "show"
    /\ pc' = IF exists[Iface] THEN "handshakes" ELSE "missing"
    /\ UNCHANGED <<exists, fresh, reachable, route, unit, removed, at, notice,
                   failures>>

\* A restart that fails does not end the function: it is called in a
\* condition, where `set -e' is off.
RestartMissing ==
    /\ pc = "missing"
    /\ Recreate(Iface)
    /\ pc' = "shown"
    /\ UNCHANGED <<reachable, unit, at, notice>>

ShowAgain ==
    /\ pc = "shown"
    /\ IF exists[Iface]
       THEN pc' = "handshakes" /\ UNCHANGED <<at, notice>>
       ELSE Notify("missing") /\ Return(1)
    /\ UNCHANGED <<exists, fresh, reachable, route, unit, removed, failures>>

LatestHandshakes ==
    /\ pc = "handshakes"
    /\ IF fresh[Iface]
       THEN Return(0)
       ELSE pc' = "stale" /\ UNCHANGED at
    /\ UNCHANGED <<exists, fresh, reachable, route, unit, removed, notice,
                   failures>>

RestartStale ==
    /\ pc = "stale"
    /\ Recreate(Iface)
    /\ pc' = "restarted"
    /\ UNCHANGED <<reachable, unit, at, notice>>

\* three seconds later
Revived ==
    /\ pc = "restarted"
    /\ IF fresh[Iface]
       THEN Notify("restored") /\ Return(0)
       ELSE Notify("alarm") /\ Return(1)
    /\ UNCHANGED <<exists, fresh, reachable, route, unit, removed, failures>>

MonitorStep ==
    \/ Timer
    \/ Show \/ RestartMissing \/ ShowAgain
    \/ LatestHandshakes \/ RestartStale \/ Revived

Next ==
    \/ \E i \in Ifaces :
          Handshake(i) \/ Expire(i) \/ PeerChanges(i) \/ Remove(i)
    \/ BootInterfaces
    \/ ProxyRoute
    \/ MonitorStep

Spec == Init /\ [][Next]_vars

(* systemd boots and fires the timer; a peer that answers shakes hands.    *)
FairSpec ==
    /\ Spec
    /\ WF_vars(BootInterfaces)
    /\ WF_vars(ProxyRoute)
    /\ WF_vars(MonitorStep)
    /\ \A i \in Ifaces : WF_vars(Handshake(i))

-----------------------------------------------------------------------------
(* Properties.                                                             *)

(* When proxy-route is active, the packets marked for a tunnel go through  *)
(* it as long as its interface has not been removed: the unit has not      *)
(* passed over an interface that was not there (proxy-route.service:10-16).*)
ActiveMeansRouted ==
    unit = "active" =>
       \A i \in Ifaces : removed[i] \/ (exists[i] /\ route[i])

(* A tunnel whose peer answers from some time on works again and again,    *)
(* whatever the other one does: neither a failure nor an alarm about one   *)
(* keeps the monitor from the other (wg-monitor.sh:76-83).                 *)
Recovers ==
    \A i \in Ifaces : <>[]reachable[i] => []<>(exists[i] /\ fresh[i])

(* "✅ ...: туннель восстановлен" (wg-monitor.sh:68: the tunnel is         *)
(* restored): the packets marked for it go through it, as README.md:52-53  *)
(* says of them.                                                           *)
RestoredMeansRouted ==
    \A i \in Ifaces :
       notice[i] = "restored" /\ exists[i] /\ unit = "active" => route[i]

=============================================================================
