------------------------------- MODULE Saver --------------------------------
(* The asynchronous persistence of the DNS proxy (src/dnsproxy/main.go).   *)
(*                                                                         *)
(* DNS handlers record (domain, ip) pairs in the map ipMap under mapMu and *)
(* put addresses in the kernel's ipsets.  After each change they ask one   *)
(* background goroutine, over a bounded channel and without blocking, to   *)
(* save: ipMap to /root/map.json, the ipsets to /etc/ipset.conf.  The      *)
(* goroutine notes the requests and serves them at its next tick.  Both    *)
(* files are truncated and rewritten in place.  The Telegram bot changes   *)
(* the ipsets as well, and asks for no save.                               *)
EXTENDS Integers, Sequences

CONSTANTS
    Entries,        \* the pairs (domain, ip) of the history
    Members,        \* the pairs (ipset, ip) of the kernel sets
    Handlers,       \* the goroutines of the DNS server, one per request
    None,           \* "a handler is between two calls"
    Cap,            \* the capacity of the channel saveSignal (100 in main)
    MaxRestarts     \* bound on the number of crashes and reboots

ASSUME CapAssumption == Cap \in Nat \ {0}
ASSUME MaxRestartsAssumption == MaxRestarts \in Nat
ASSUME NoneAssumption == None \notin Entries \cup Members

VARIABLES
    ipMap,          \* Server.ipMap
    handler,        \* per handler: the call it is in and what it has added
    saveSignal,     \* Server.saveSignal, a channel
    jsonPending,    \* the local flags of backgroundSaver
    ipsetPending,
    saver,          \* the program counter of backgroundSaver
    data,           \* doSaveJSON: the marshalled copy of ipMap
    mapJson,        \* what the last complete write put in map.json
    jsonTorn,       \* map.json was truncated and not yet rewritten
    saved,          \* ghost: what this process has loaded or written of it
    ipsets,         \* the kernel's sets nl_proxy and usa_proxy
    ipsetConf,      \* what the last complete write put in ipset.conf
    confTorn,       \* ipset.conf was truncated and not yet rewritten
    restarts,       \* number of crashes and reboots so far
    abandoned,      \* ghost: entries whose request was dropped or failed
    unsignalled     \* ghost: the same for members, and the bot's changes

jsonVars == <<data, mapJson, jsonTorn, saved>>
confVars == <<ipsetConf, confTorn>>
flags == <<jsonPending, ipsetPending>>
vars == <<ipMap, handler, saveSignal, jsonPending, ipsetPending, saver, data,
          mapJson, jsonTorn, saved, ipsets, ipsetConf, confTorn, restarts,
          abandoned, unsignalled>>

Signals == {"SaveJSON", "SaveIPSet"}

SaverSteps == {"select", "confOpen", "confWrite",
               "jsonMarshal", "jsonOpen", "jsonWrite"}

Idle == [at |-> "idle", arg |-> None]

HandlerStates ==
    {Idle}
    \cup [at : {"signalJSON"}, arg : Entries]
    \cup [at : {"signalIPSet"}, arg : Members]

TypeOK ==
    /\ ipMap \subseteq Entries
    /\ handler \in [Handlers -> HandlerStates]
    /\ saveSignal \in Seq(Signals)
    /\ Len(saveSignal) <= Cap
    /\ jsonPending \in BOOLEAN
    /\ ipsetPending \in BOOLEAN
    /\ saver \in SaverSteps
    /\ data \subseteq Entries
    /\ mapJson \subseteq Entries
    /\ jsonTorn \in BOOLEAN
    /\ saved \subseteq Entries
    /\ ipsets \subseteq Members
    /\ ipsetConf \subseteq Members
    /\ confTorn \in BOOLEAN
    /\ restarts \in 0 .. MaxRestarts
    /\ abandoned \subseteq Entries
    /\ unsignalled \subseteq Members

-----------------------------------------------------------------------------
(* What a reader of the two files gets.                                    *)

ReadableJson == IF jsonTorn THEN {} ELSE mapJson

\* A member is stale when the saved sets and the kernel disagree about it,
\* or nothing complete is saved.
StaleMembers ==
    IF confTorn THEN Members
                ELSE (ipsets \ ipsetConf) \cup (ipsetConf \ ipsets)

InChannel(sig) == \E i \in 1 .. Len(saveSignal) : saveSignal[i] = sig

\* mapMu is held by the handler that has appended and not yet returned.
MapMuFree == \A h \in Handlers : handler[h].at # "signalJSON"

-----------------------------------------------------------------------------

Init ==
    /\ ipMap = {}
    /\ handler = [h \in Handlers |-> Idle]
    /\ saveSignal = <<>>
    /\ jsonPending = FALSE
    /\ ipsetPending = FALSE
    /\ saver = "select"
    /\ data = {}
    /\ mapJson = {}
    /\ jsonTorn = FALSE
    /\ saved = {}
    /\ ipsets = {}
    /\ ipsetConf = {}
    /\ confTorn = FALSE
    /\ restarts = 0
    /\ abandoned = {}
    /\ unsignalled = {}

(* addDomainIP up to the select: a pair already known returns at once.     *)
AddDomainIP(h, e) ==
    /\ handler[h] = Idle
    /\ MapMuFree
    /\ e \notin ipMap
    /\ ipMap' = ipMap \cup {e}
    /\ handler' = [handler EXCEPT ![h] = [at |-> "signalJSON", arg |-> e]]
    /\ UNCHANGED <<saveSignal, flags, saver, jsonVars, ipsets, confVars,
                   restarts, abandoned, unsignalled>>

\* Mutants: a channel one too long; a send that blocks on a full channel.
TrySendOneMore(sig) ==
    saveSignal' = IF Len(saveSignal) <= Cap THEN Append(saveSignal, sig)
                                            ELSE saveSignal

TrySendBlocking(sig) ==
    /\ Len(saveSignal) < Cap
    /\ saveSignal' = Append(saveSignal, sig)

\* select { case saveSignal <- sig: default: }
TrySend(sig) ==
    saveSignal' = IF Len(saveSignal) < Cap THEN Append(saveSignal, sig)
                                           ELSE saveSignal

(* The rest of addDomainIP, still under mapMu.                             *)
SignalJSON(h) ==
    /\ handler[h].at = "signalJSON"
    /\ TrySend("SaveJSON")
    /\ abandoned' = IF Len(saveSignal) < Cap
                    THEN abandoned ELSE abandoned \cup {handler[h].arg}
    /\ handler' = [handler EXCEPT ![h] = Idle]
    /\ UNCHANGED <<ipMap, flags, saver, jsonVars, ipsets, confVars,
                   restarts, unsignalled>>

(* addIPToNL and addIPToUSA: `ipset add -exist' succeeds on a known member *)
(* too; when it fails the function returns without a request.              *)
AddIP(h, m) ==
    /\ handler[h] = Idle
    /\ ipsets' = ipsets \cup {m}
    /\ handler' = [handler EXCEPT ![h] = [at |-> "signalIPSet", arg |-> m]]
    /\ UNCHANGED <<ipMap, saveSignal, flags, saver, jsonVars, confVars,
                   restarts, abandoned, unsignalled>>

SignalIPSet(h) ==
    /\ handler[h].at = "signalIPSet"
    /\ TrySend("SaveIPSet")
    /\ unsignalled' = IF Len(saveSignal) < Cap
                      THEN unsignalled ELSE unsignalled \cup {handler[h].arg}
    /\ handler' = [handler EXCEPT ![h] = Idle]
    /\ UNCHANGED <<ipMap, flags, saver, jsonVars, ipsets, confVars,
                   restarts, abandoned>>

(* The bot's addIPToIpset and removeIPFromIpset.                           *)
BotAdd(m) ==
    /\ m \notin ipsets
    /\ ipsets' = ipsets \cup {m}
    /\ unsignalled' = unsignalled \cup {m}
    /\ UNCHANGED <<ipMap, handler, saveSignal, flags, saver, jsonVars,
                   confVars, restarts, abandoned>>

BotDel(m) ==
    /\ m \in ipsets
    /\ ipsets' = ipsets \ {m}
    /\ unsignalled' = unsignalled \cup {m}
    /\ UNCHANGED <<ipMap, handler, saveSignal, flags, saver, jsonVars,
                   confVars, restarts, abandoned>>

-----------------------------------------------------------------------------
(* backgroundSaver.                                                        *)

\* Mutant: the flags are assigned, not accumulated.
ReceiveSignalOverwrites ==
    /\ saver = "select"
    /\ saveSignal # <<>>
    /\ saveSignal' = Tail(saveSignal)
    /\ jsonPending' = (Head(saveSignal) = "SaveJSON")
    /\ ipsetPending' = (Head(saveSignal) = "SaveIPSet")
    /\ UNCHANGED <<ipMap, handler, saver, jsonVars, ipsets, confVars,
                   restarts, abandoned, unsignalled>>

ReceiveSignal ==
    /\ saver = "select"
    /\ saveSignal # <<>>
    /\ saveSignal' = Tail(saveSignal)
    /\ jsonPending' = (jsonPending \/ Head(saveSignal) = "SaveJSON")
    /\ ipsetPending' = (ipsetPending \/ Head(saveSignal) = "SaveIPSet")
    /\ UNCHANGED <<ipMap, handler, saver, jsonVars, ipsets, confVars,
                   restarts, abandoned, unsignalled>>

\* A tick with nothing pending changes nothing.
Tick ==
    /\ saver = "select"
    /\ \/ ipsetPending /\ saver' = "confOpen"
       \/ ~ipsetPending /\ jsonPending /\ saver' = "jsonMarshal"
    /\ UNCHANGED <<ipMap, handler, saveSignal, flags, jsonVars, ipsets,
                   confVars, restarts, abandoned, unsignalled>>

\* doSaveIPSet: the shell opens, and so truncates, the file ...
ConfOpen ==
    /\ saver = "confOpen"
    /\ confTorn' = TRUE
    /\ saver' = "confWrite"
    /\ UNCHANGED <<ipMap, handler, saveSignal, flags, jsonVars, ipsets,
                   ipsetConf, restarts, abandoned, unsignalled>>

\* Mutant: `else if jsonPending', one file per tick.
ConfReturnElse ==
    /\ ipsetPending' = FALSE
    /\ saver' = "select"
    /\ UNCHANGED <<ipMap, handler, saveSignal, jsonPending, jsonVars, ipsets,
                   restarts, abandoned>>

\* after doSaveIPSet, failed or not
ConfReturn ==
    /\ ipsetPending' = FALSE
    /\ saver' = IF jsonPending THEN "jsonMarshal" ELSE "select"
    /\ UNCHANGED <<ipMap, handler, saveSignal, jsonPending, jsonVars, ipsets,
                   restarts, abandoned>>

\* ... and `ipset save' writes the kernel's sets to it.
ConfWrite ==
    /\ saver = "confWrite"
    /\ ipsetConf' = ipsets
    /\ confTorn' = FALSE
    /\ unsignalled' = {}
    /\ ConfReturn

\* The shell cannot open the file, or `ipset save' fails half way.
ConfFail ==
    /\ saver \in {"confOpen", "confWrite"}
    /\ unsignalled' = unsignalled \cup StaleMembers
    /\ UNCHANGED confVars
    /\ ConfReturn

\* doSaveJSON: marshal under mapMu.RLock ...
JsonMarshal ==
    /\ saver = "jsonMarshal"
    /\ MapMuFree
    /\ data' = ipMap
    /\ saver' = "jsonOpen"
    /\ UNCHANGED <<ipMap, handler, saveSignal, flags, mapJson, jsonTorn,
                   saved, ipsets, confVars, restarts, abandoned, unsignalled>>

\* ... os.WriteFile truncates ...
JsonOpen ==
    /\ saver = "jsonOpen"
    /\ jsonTorn' = TRUE
    /\ saver' = "jsonWrite"
    /\ UNCHANGED <<ipMap, handler, saveSignal, flags, data, mapJson, saved,
                   ipsets, confVars, restarts, abandoned, unsignalled>>

\* Mutant: requests that came in during the save are taken as served.
JsonReturnDrains ==
    /\ jsonPending' = FALSE
    /\ saver' = "select"
    /\ saveSignal' = <<>>
    /\ UNCHANGED <<ipMap, handler, ipsetPending, data, ipsets, confVars,
                   restarts, unsignalled>>

\* after doSaveJSON, failed or not
JsonReturn ==
    /\ jsonPending' = FALSE
    /\ saver' = "select"
    /\ UNCHANGED <<ipMap, handler, saveSignal, ipsetPending, data, ipsets,
                   confVars, restarts, unsignalled>>

\* ... and writes.
JsonWrite ==
    /\ saver = "jsonWrite"
    /\ mapJson' = data
    /\ saved' = data
    /\ jsonTorn' = FALSE
    /\ abandoned' = abandoned \ data
    /\ JsonReturn

JsonFail ==
    /\ saver \in {"jsonOpen", "jsonWrite"}
    /\ abandoned' = abandoned \cup (data \ ReadableJson)
    /\ UNCHANGED <<mapJson, jsonTorn, saved>>
    /\ JsonReturn

-----------------------------------------------------------------------------
\* Mutant: map.json is loaded into a map of its own.
ProcessStartForgets ==
    /\ restarts < MaxRestarts
    /\ restarts' = restarts + 1
    /\ ipMap' = {}
    /\ saved' = ReadableJson
    /\ UNCHANGED <<mapJson, jsonTorn>>
    /\ handler' = [h \in Handlers |-> Idle]
    /\ saveSignal' = <<>>
    /\ jsonPending' = FALSE
    /\ ipsetPending' = FALSE
    /\ saver' = "select"
    /\ data' = {}
    /\ abandoned' = {}

(* systemd restarts a dead process (Restart=always); main makes a new      *)
(* channel and goroutines, and loadIPMap reads map.json - or starts from   *)
(* nothing when the file cannot be read or parsed.                         *)
ProcessStart ==
    /\ restarts < MaxRestarts
    /\ restarts' = restarts + 1
    /\ ipMap' \in {ReadableJson, {}}
    /\ saved' = ipMap'
    /\ UNCHANGED <<mapJson, jsonTorn>>
    /\ handler' = [h \in Handlers |-> Idle]
    /\ saveSignal' = <<>>
    /\ jsonPending' = FALSE
    /\ ipsetPending' = FALSE
    /\ saver' = "select"
    /\ data' = {}
    /\ abandoned' = {}

\* The kernel's sets outlive the process; whatever was not saved of them has
\* lost its request.
Crash ==
    /\ ProcessStart
    /\ unsignalled' = unsignalled \cup StaleMembers
    /\ UNCHANGED <<ipsets, confVars>>

\* A reboot loads the sets from ipset.conf, or from what there is of it.
Reboot ==
    /\ ProcessStart
    /\ \/ ~confTorn /\ ipsets' = ipsetConf
       \/ confTorn /\ ipsets' \in SUBSET ipsets
    /\ unsignalled' = IF confTorn THEN Members ELSE {}
    /\ UNCHANGED confVars

-----------------------------------------------------------------------------

HandlerStep(h) == SignalJSON(h) \/ SignalIPSet(h)

SaverStep ==
    \/ ReceiveSignal \/ Tick
    \/ ConfOpen \/ ConfWrite \/ ConfFail
    \/ JsonMarshal \/ JsonOpen \/ JsonWrite \/ JsonFail

Next ==
    \/ \E h \in Handlers :
          \/ \E e \in Entries : AddDomainIP(h, e)
          \/ \E m \in Members : AddIP(h, m)
          \/ HandlerStep(h)
    \/ \E m \in Members : BotAdd(m) \/ BotDel(m)
    \/ SaverStep
    \/ Crash
    \/ Reboot

Spec == Init /\ [][Next]_vars

(* A goroutine that can run runs; Go's select takes a ready tick sooner or *)
(* later, and its RWMutex lets a waiting reader in when a writer leaves.   *)
Fairness ==
    /\ \A h \in Handlers : WF_vars(HandlerStep(h))
    /\ WF_vars(SaverStep)
    /\ WF_vars(Tick)
    /\ SF_vars(JsonMarshal)

FairSpec == Spec /\ Fairness

-----------------------------------------------------------------------------
(* Safety.                                                                 *)

\* The save under way, if there is one, has marshalled and does not hold e.
MissedBySave(e) == saver \in {"jsonOpen", "jsonWrite"} /\ e \notin data

\* Somebody will save e: the handler that holds mapMu is about to ask for
\* it, the channel or the flag asks for it, or the code has given it up (the
\* full channel of addDomainIP, a failed doSaveJSON).
JSONRequested(e) ==
    \/ \E h \in Handlers : handler[h] = [at |-> "signalJSON", arg |-> e]
    \/ InChannel("SaveJSON")
    \/ jsonPending /\ ~MissedBySave(e)
    \/ e \in abandoned

IPSetRequested(m) ==
    \/ \E h \in Handlers : handler[h] = [at |-> "signalIPSet", arg |-> m]
    \/ InChannel("SaveIPSet")
    \/ ipsetPending
    \/ m \in unsignalled

(* No request is lost: every entry a restart would lose is still asked for.*)
(* The flag is cleared only after the save, so an entry recorded between   *)
(* marshal and clear must have a request of its own (main.go:516-554).     *)
JSONCovered == \A e \in ipMap \ ReadableJson : JSONRequested(e)

(* The same for the kernel's sets and ipset.conf: `ipset save' reads them  *)
(* when it writes, so the flag covers every change made before.            *)
IPSetCovered == \A m \in StaleMembers : IPSetRequested(m)

(* map.json, seen with the history in memory, keeps the promise stated in  *)
(* HistoryStore.                                                           *)
Store == INSTANCE HistoryStore
            WITH mem <- ipMap, disk <- mapJson, torn <- jsonTorn

HistoryKept == Store!Spec

(* "map.json keeps historic domain->IP mappings" (README.md:86): what was  *)
(* once written to the file is never lost from it.                         *)
HistorySurvivesRestart == [][mapJson \subseteq mapJson']_vars

-----------------------------------------------------------------------------
(* Liveness.                                                               *)

(* addDomainIP holds mapMu while it sends to the goroutine that wants      *)
(* mapMu to marshal: the call returns nevertheless, and so does addIPTo*.  *)
CallsReturn ==
    \A h \in Handlers : handler[h] # Idle ~> handler[h] = Idle

(* Every recorded pair reaches map.json, unless the process dies first or  *)
(* the code has given the pair up.                                         *)
EventuallySaved ==
    \A e \in Entries :
       e \in ipMap ~> e \in ReadableJson \cup abandoned \/ e \notin ipMap

=============================================================================
