------------------------------ MODULE DnsProxy ------------------------------
(* Policy routing by DNS (src/dnsproxy/main.go, src/dnsproxy/bot.go).      *)
(*                                                                         *)
(* The process keeps two lists of patterns, "nl" and "usa", in two files.  *)
(* A DNS request whose name contains a pattern is forwarded through that   *)
(* country's tunnel, and each address of the answer is put in the kernel's *)
(* ipset of that country before the client learns it, so that the packets  *)
(* that follow take the same tunnel.  Three kinds of goroutines share this *)
(* state: the DNS handlers, a loop that rereads the files every 5 s, and   *)
(* the Telegram bot, which edits the files, the only one to take addresses *)
(* out of the ipsets.  The bot finds them in map.json, which it reads as   *)
(* the background saver leaves it (HistoryStore, implemented by Saver).    *)
EXTENDS Integers, FiniteSets

CONSTANTS
    Patterns,       \* lines of the pattern files, as typed
    Domains,        \* domain names, in lower case
    Ips,            \* IPv4 addresses
    Handlers,       \* goroutines of the DNS server
    None,           \* "no domain", "no address", "no pattern"
    Matches,        \* <<p, d>>: d contains p in lower case
    Mentions,       \* <<p, d>>: d contains p as it was typed
    Responses,      \* per domain: what an upstream may answer
    MaxElem,        \* the size of a kernel set
    MaxCommands,    \* bound on the bot's commands
    MaxFaults       \* bound on failed reads, writes and crashes

ASSUME MentionsAssumption ==
    /\ Matches \subseteq Patterns \X Domains
    /\ Mentions \subseteq Matches
ASSUME ResponsesAssumption ==
    Responses \in [Domains -> SUBSET [answer : SUBSET (Domains \X Ips),
                                      extra : SUBSET (Domains \X Ips)]]
ASSUME BoundsAssumption ==
    MaxElem \in Nat /\ MaxCommands \in Nat /\ MaxFaults \in Nat
ASSUME NoneAssumption == None \notin Patterns \cup Domains \cup Ips

VARIABLES
    file,           \* per route: the patterns in its file
    exists,         \* the routes whose file exists
    loaded,         \* Server.patternsNL, Server.patternsUSA
    reloader,       \* reloadPatterns: where it is and what it has read
    ipset,          \* the kernel's sets nl_proxy and usa_proxy
    ipMap,          \* Server.ipMap
    mapJson,        \* what the last complete write put in map.json
    jsonTorn,       \* map.json was truncated and not yet rewritten
    saved,          \* ghost: what this process has loaded or written of it
    handler,        \* per handler: the request it serves
    bot,            \* the command the bot executes
    commands,       \* number of commands so far
    faults,         \* number of failed reads, writes and crashes so far
    listed,         \* ghost: per route, the patterns ever in its file
    stuck,          \* ghost: patterns an add could not take out of a file
    seen,           \* ghost: the pairs ever recorded in ipMap
    excused         \* ghost: <<r, i>> that set r refused or the bot deleted
                    \* when it was last asked to

filesVars == <<file, exists, listed, stuck>>
loadVars == <<loaded, reloader>>
counters == <<commands, faults>>
historyVars == <<ipMap, mapJson, jsonTorn, saved, seen>>
setsVars == <<ipset, excused>>
vars == <<file, exists, listed, stuck, loaded, reloader, ipMap, mapJson,
          jsonTorn, saved, seen, ipset, excused, handler, bot, commands,
          faults>>

Routes == {"nl", "usa"}

OtherRoute(r) == IF r = "nl" THEN "usa" ELSE "nl"

Entries == Domains \X Ips

History == INSTANCE HistoryStore
              WITH mem <- ipMap, disk <- mapJson, torn <- jsonTorn

Kernel == INSTANCE KernelSets
             WITH Addrs <- Ips, nl <- ipset["nl"], usa <- ipset["usa"]

-----------------------------------------------------------------------------
(* The goroutines' states.                                                 *)

NoRequest == [at |-> "idle", name |-> None, route |-> "ru", resp |-> {},
              answer |-> {}, extra |-> {}, ip |-> None, via |-> "ru"]

HandlerStates ==
    [at : {"idle", "forward", "process", "install"},
     name : Domains \cup {None},
     route : Routes \cup {"ru"},          \* routeType of the request
     resp : SUBSET Entries,               \* A records of the answer
     answer : SUBSET Entries,             \* those not yet processed
     extra : SUBSET Entries,              \* additional and authority records
     ip : Ips \cup {None},                \* the address being installed
     via : Routes \cup {"ru"}]            \* and the route it is for

NoCommand == [at |-> "idle", cmd |-> "add", pattern |-> None, route |-> "nl",
              lines |-> {}, ips |-> {}, ip |-> None]

BotStates ==
    [at : {"idle", "unlist", "rewrite", "append", "history", "loop", "del"},
     cmd : {"add", "remove"},
     pattern : Patterns \cup {None},
     route : Routes,
     lines : SUBSET Patterns,             \* the lines to be written back
     ips : SUBSET Ips,                    \* addresses not yet dealt with
     ip : Ips \cup {None}]                \* the address being moved

ReloaderStates ==
    [at : {"sleep", "readUSA", "swap"},
     nl : SUBSET Patterns,
     usa : SUBSET Patterns]

TypeOK ==
    /\ file \in [Routes -> SUBSET Patterns]
    /\ exists \subseteq Routes
    /\ loaded \in [Routes -> SUBSET Patterns]
    /\ reloader \in ReloaderStates
    /\ ipset \in [Routes -> SUBSET Ips]
    /\ ipMap \subseteq Entries
    /\ mapJson \subseteq Entries
    /\ jsonTorn \in BOOLEAN
    /\ handler \in [Handlers -> HandlerStates]
    /\ \A h \in Handlers :
          /\ handler[h].at # "idle" => handler[h].name \in Domains
          /\ handler[h].at = "install" => handler[h].ip \in Ips
    /\ bot \in BotStates
    /\ bot.at # "idle" => bot.pattern \in Patterns
    /\ bot.at = "del" => bot.ip \in Ips /\ bot.cmd = "add"
    /\ commands \in 0 .. MaxCommands
    /\ faults \in 0 .. MaxFaults
    /\ listed \in [Routes -> SUBSET Patterns]
    /\ stuck \subseteq Patterns
    /\ saved \subseteq Entries
    /\ seen \subseteq Entries
    /\ excused \subseteq Routes \X Ips

Init ==
    /\ file = [r \in Routes |-> {}]
    /\ exists = {}
    /\ loaded = [r \in Routes |-> {}]
    /\ reloader = [at |-> "sleep", nl |-> {}, usa |-> {}]
    /\ ipset = [r \in Routes |-> {}]
    /\ ipMap = {}
    /\ mapJson = {}
    /\ jsonTorn = FALSE
    /\ handler = [h \in Handlers |-> NoRequest]
    /\ bot = NoCommand
    /\ commands = 0
    /\ faults = 0
    /\ listed = [r \in Routes |-> {}]
    /\ stuck = {}
    /\ saved = {}
    /\ seen = {}
    /\ excused = {}

-----------------------------------------------------------------------------
(* Helpers.                                                                *)

\* Some pattern of the list l occurs in d.
MatchesList(l, d) == \E p \in l : <<p, d>> \in Matches

\* matchesPattern: the NL list is looked through first.
matchesPattern(d) ==
    IF MatchesList(loaded["nl"], d) THEN "nl"
    ELSE IF MatchesList(loaded["usa"], d) THEN "usa"
    ELSE "ru"

\* Mutant: the addresses come with their domains.
HistoricalIPsWithDomains(p) ==
    {e \in History!Readable : <<p, e[1]>> \in Mentions}

\* getHistoricalIPs: addresses of the domains of map.json that contain p as
\* typed; a torn file counts as empty.
HistoricalIPs(p) ==
    {i \in Ips : \E d \in Domains : /\ <<d, i>> \in History!Readable
                                    /\ <<p, d>> \in Mentions}

\* The kernel refuses a new member of a full set, and `-exist' an old one
\* never.
Full(r) == Cardinality(ipset[r]) >= MaxElem

Refused(r, i) == i \notin ipset[r] /\ Full(r)

\* `ipset add r i -exist', by a handler or by the bot
IpsetAdd(r, i) ==
    IF Refused(r, i)
    THEN /\ UNCHANGED ipset
         /\ excused' = excused \cup {<<r, i>>}
    ELSE /\ ipset' = [ipset EXCEPT ![r] = @ \cup {i}]
         /\ excused' = excused \ {<<r, i>>}

\* `ipset del r i', by the bot
IpsetDel(r, i) ==
    /\ ipset' = [ipset EXCEPT ![r] = @ \ {i}]
    /\ excused' = excused \cup {<<r, i>>}

\* addDomainIP, for each of the pairs es
AddDomainIPs(es) ==
    /\ ipMap' = ipMap \cup es
    /\ seen' = seen \cup es
    /\ UNCHANGED <<mapJson, jsonTorn, saved>>

-----------------------------------------------------------------------------
(* DNS handlers.                                                           *)

\* handle: the name of the question is looked up in the lists.
Request(h, d) ==
    /\ handler[h].at = "idle"
    /\ handler' = [handler EXCEPT
          ![h] = [NoRequest EXCEPT !.at = "forward", !.name = d,
                                   !.route = matchesPattern(d)]]
    /\ UNCHANGED <<filesVars, loadVars, historyVars, setsVars, bot, counters>>

\* forward: the upstream answers over UDP or, that failing, over TCP.
Answer(h) ==
    /\ handler[h].at = "forward"
    /\ \E m \in Responses[handler[h].name] :
          handler' = [handler EXCEPT ![h] =
              [@ EXCEPT !.at = "process",
                        !.resp = m.answer,
                        !.answer = m.answer,
                        !.extra = m.extra]]
    /\ UNCHANGED <<filesVars, loadVars, historyVars, setsVars, bot, counters>>

\* forward fails: the client gets SERVFAIL.
NoAnswer(h) ==
    /\ handler[h].at = "forward"
    /\ handler' = [handler EXCEPT ![h] = NoRequest]
    /\ UNCHANGED <<filesVars, loadVars, historyVars, setsVars, bot, counters>>

\* processAnswers, one A record: it is recorded under the name asked for and
\* under its own, and is to be routed as the request was.
ProcessAnswer(h) ==
    /\ handler[h].at = "process"
    /\ \E rr \in handler[h].answer :
          /\ AddDomainIPs({<<handler[h].name, rr[2]>>, rr})
          /\ handler' = [handler EXCEPT ![h] =
              [@ EXCEPT !.at = "install",
                        !.answer = handler[h].answer \ {rr},
                        !.ip = rr[2],
                        !.via = handler[h].route]]
    /\ UNCHANGED <<filesVars, loadVars, setsVars, bot, counters>>

\* Mutant: an additional record is routed as the request was.
ProcessExtraAsAsked(h) ==
    /\ handler[h].at = "process"
    /\ handler[h].answer = {}
    /\ \E rr \in handler[h].extra :
          /\ AddDomainIPs({rr})
          /\ handler' = [handler EXCEPT ![h] =
              [@ EXCEPT !.at = "install",
                        !.extra = handler[h].extra \ {rr},
                        !.ip = rr[2],
                        !.via = handler[h].route]]
    /\ UNCHANGED <<filesVars, loadVars, setsVars, bot, counters>>

\* processAdditionalRecords, one A record: it is recorded under its own name
\* and is to be routed as that name is by now.
ProcessExtra(h) ==
    /\ handler[h].at = "process"
    /\ handler[h].answer = {}
    /\ \E rr \in handler[h].extra :
          /\ AddDomainIPs({rr})
          /\ handler' = [handler EXCEPT ![h] =
              [@ EXCEPT !.at = "install",
                        !.extra = handler[h].extra \ {rr},
                        !.ip = rr[2],
                        !.via = matchesPattern(rr[1])]]
    /\ UNCHANGED <<filesVars, loadVars, setsVars, bot, counters>>

\* addIPToNL, addIPToUSA, or neither
Install(h) ==
    /\ handler[h].at = "install"
    /\ IF handler[h].via \in Routes
       THEN IpsetAdd(handler[h].via, handler[h].ip)
       ELSE UNCHANGED setsVars
    /\ handler' = [handler EXCEPT ![h] =
              [@ EXCEPT !.at = "process",
                        !.ip = None,
                        !.via = "ru"]]
    /\ UNCHANGED <<filesVars, loadVars, historyVars, bot, counters>>

\* Mutant: the response is sent before its addresses are installed.
ReplyEarly(h) ==
    /\ handler[h].at = "process"
    /\ handler' = [handler EXCEPT ![h] = NoRequest]
    /\ UNCHANGED <<filesVars, loadVars, historyVars, setsVars, bot, counters>>

\* The client gets the response.
Reply(h) ==
    /\ handler[h].at = "process"
    /\ handler[h].answer = {}
    /\ handler[h].extra = {}
    /\ handler' = [handler EXCEPT ![h] = NoRequest]
    /\ UNCHANGED <<filesVars, loadVars, historyVars, setsVars, bot, counters>>

-----------------------------------------------------------------------------
(* The saver, seen from here, and the reload loop.                         *)

Save ==
    /\ History!Tear \/ History!Publish
    /\ UNCHANGED <<filesVars, loadVars, setsVars, seen, handler, bot,
                   counters>>

\* reloadPatterns reads one file ...
ReloadNL ==
    /\ reloader.at = "sleep"
    /\ reloader' = [reloader EXCEPT !.at = "readUSA", !.nl = file["nl"]]
    /\ UNCHANGED <<filesVars, loaded, historyVars, setsVars, handler, bot,
                   counters>>

\* ... then the other ...
ReloadUSA ==
    /\ reloader.at = "readUSA"
    /\ reloader' = [reloader EXCEPT !.at = "swap", !.usa = file["usa"]]
    /\ UNCHANGED <<filesVars, loaded, historyVars, setsVars, handler, bot,
                   counters>>

\* ... (a file that cannot be read counts as empty) ...
ReloadFails ==
    /\ faults < MaxFaults
    /\ faults' = faults + 1
    /\ \/ /\ reloader.at = "sleep"
          /\ reloader' = [reloader EXCEPT !.at = "readUSA", !.nl = {}]
       \/ /\ reloader.at = "readUSA"
          /\ reloader' = [reloader EXCEPT !.at = "swap", !.usa = {}]
    /\ UNCHANGED <<filesVars, loaded, historyVars, setsVars, handler, bot,
                   commands>>

\* Mutant: the lists are replaced only when their lengths have changed.
ReloadSwapByCount ==
    /\ reloader.at = "swap"
    /\ IF /\ Cardinality(loaded["nl"]) = Cardinality(reloader.nl)
          /\ Cardinality(loaded["usa"]) = Cardinality(reloader.usa)
       THEN UNCHANGED loaded
       ELSE loaded' = [r \in Routes |-> IF r = "nl" THEN reloader.nl
                                                    ELSE reloader.usa]
    /\ reloader' = [at |-> "sleep", nl |-> {}, usa |-> {}]
    /\ UNCHANGED <<filesVars, historyVars, setsVars, handler, bot, counters>>

\* ... and replaces both lists under mu.
ReloadSwap ==
    /\ reloader.at = "swap"
    /\ loaded' = [r \in Routes |-> IF r = "nl" THEN reloader.nl
                                               ELSE reloader.usa]
    /\ reloader' = [at |-> "sleep", nl |-> {}, usa |-> {}]
    /\ UNCHANGED <<filesVars, historyVars, setsVars, handler, bot, counters>>

-----------------------------------------------------------------------------
(* The bot: /add_nl, /add_usa, /remove_nl, /remove_usa.  An add takes the  *)
(* pattern out of the other route's file, appends it to its own and moves  *)
(* the addresses of the history; a remove looks up the history, takes the  *)
(* pattern out of the file and deletes the addresses.                      *)

Command(c, r, p) ==
    /\ bot.at = "idle"
    /\ commands < MaxCommands
    /\ commands' = commands + 1
    /\ bot' = [NoCommand EXCEPT
                  !.at = IF c = "add" THEN "unlist" ELSE "history",
                  !.cmd = c, !.pattern = p, !.route = r]
    /\ UNCHANGED <<filesVars, loadVars, historyVars, setsVars, handler,
                   faults>>

\* Mutant: an add, too, edits the file of its own route.
TargetOwn == bot.route

\* the file the pattern is taken out of
Target == IF bot.cmd = "add" THEN OtherRoute(bot.route) ELSE bot.route

AfterRewrite == IF bot.cmd = "add" THEN "append" ELSE "loop"

\* removePatternFrom*File: the file is read and truncated ...
BotUnlist ==
    /\ bot.at = "unlist"
    /\ Target \in exists
    /\ bot' = [bot EXCEPT !.at = "rewrite",
                          !.lines = file[Target] \ {bot.pattern}]
    /\ file' = [file EXCEPT ![Target] = {}]
    /\ stuck' = stuck \ {bot.pattern}
    /\ UNCHANGED <<exists, listed, loadVars, historyVars, setsVars, handler,
                   counters>>

\* ... (there is no file: an add goes on, a remove ends with an error) ...
BotNoFile ==
    /\ bot.at = "unlist"
    /\ Target \notin exists
    /\ bot' = IF bot.cmd = "add" THEN [bot EXCEPT !.at = "append"]
                                 ELSE NoCommand
    /\ UNCHANGED <<filesVars, loadVars, historyVars, setsVars, handler,
                   counters>>

\* ... (it cannot be read or opened, and stays as it is: an add goes on all
\* the same, a remove ends with an error) ...
BotUnlistFails ==
    /\ bot.at = "unlist"
    /\ Target \in exists
    /\ faults < MaxFaults
    /\ faults' = faults + 1
    /\ IF bot.cmd = "add"
       THEN /\ bot' = [bot EXCEPT !.at = "append"]
            /\ stuck' = stuck \cup {bot.pattern}
       ELSE /\ bot' = NoCommand
            /\ UNCHANGED stuck
    /\ UNCHANGED <<file, exists, listed, loadVars, historyVars, setsVars,
                   handler, commands>>

\* ... and the other lines are written back.
BotRewrite ==
    /\ bot.at = "rewrite"
    /\ file' = [file EXCEPT ![Target] = bot.lines]
    /\ bot' = [bot EXCEPT !.at = AfterRewrite, !.lines = {}]
    /\ UNCHANGED <<exists, listed, stuck, loadVars, historyVars, setsVars,
                   handler, counters>>

\* The write fails: an add ignores it, a remove ends with an error.
BotRewriteFails ==
    /\ bot.at = "rewrite"
    /\ faults < MaxFaults
    /\ faults' = faults + 1
    /\ bot' = IF bot.cmd = "add"
              THEN [bot EXCEPT !.at = "append", !.lines = {}]
              ELSE NoCommand
    /\ UNCHANGED <<filesVars, loadVars, historyVars, setsVars, handler,
                   commands>>

\* addPatternToFile*
BotAppend ==
    /\ bot.at = "append"
    /\ file' = [file EXCEPT ![bot.route] = @ \cup {bot.pattern}]
    /\ listed' = [listed EXCEPT ![bot.route] = @ \cup {bot.pattern}]
    /\ exists' = exists \cup {bot.route}
    /\ bot' = [bot EXCEPT !.at = "history"]
    /\ UNCHANGED <<stuck, loadVars, historyVars, setsVars, handler, counters>>

\* The file cannot be opened, or the line not be written.
BotAppendFails ==
    /\ bot.at = "append"
    /\ faults < MaxFaults
    /\ faults' = faults + 1
    /\ exists' \in {exists, exists \cup {bot.route}}
    /\ bot' = NoCommand
    /\ UNCHANGED <<file, listed, stuck, loadVars, historyVars, setsVars,
                   handler, commands>>

\* getHistoricalIPs
BotHistory ==
    /\ bot.at = "history"
    /\ bot' = [bot EXCEPT !.at = IF bot.cmd = "add" THEN "loop" ELSE "unlist",
                          !.ips = HistoricalIPs(bot.pattern)]
    /\ UNCHANGED <<filesVars, loadVars, historyVars, setsVars, handler,
                   counters>>

\* map.json cannot be read: the command goes on with no addresses.
BotHistoryFails ==
    /\ bot.at = "history"
    /\ faults < MaxFaults
    /\ faults' = faults + 1
    /\ bot' = [bot EXCEPT !.at = IF bot.cmd = "add" THEN "loop" ELSE "unlist",
                          !.ips = {}]
    /\ UNCHANGED <<filesVars, loadVars, historyVars, setsVars, handler,
                   commands>>

\* An add puts an address in the new set, whether there is room or not ...
BotMoveIn(i) ==
    /\ bot.at = "loop" /\ bot.cmd = "add"
    /\ i \in bot.ips
    /\ IpsetAdd(bot.route, i)
    /\ bot' = [bot EXCEPT !.at = "del", !.ip = i]
    /\ UNCHANGED <<filesVars, loadVars, historyVars, handler, counters>>

\* Mutant: the address is taken out of the set it was just put in.
BotMoveOutOfNew ==
    /\ bot.at = "del"
    /\ IpsetDel(bot.route, bot.ip)
    /\ bot' = [bot EXCEPT !.at = "loop", !.ips = @ \ {bot.ip}, !.ip = None]
    /\ UNCHANGED <<filesVars, loadVars, historyVars, handler, counters>>

\* ... and takes it out of the old one.
BotMoveOut ==
    /\ bot.at = "del"
    /\ IpsetDel(OtherRoute(bot.route), bot.ip)
    /\ bot' = [bot EXCEPT !.at = "loop", !.ips = @ \ {bot.ip}, !.ip = None]
    /\ UNCHANGED <<filesVars, loadVars, historyVars, handler, counters>>

\* A remove deletes an address.
BotDelete(i) ==
    /\ bot.at = "loop" /\ bot.cmd = "remove"
    /\ i \in bot.ips
    /\ IpsetDel(bot.route, i)
    /\ bot' = [bot EXCEPT !.ips = @ \ {i}]
    /\ UNCHANGED <<filesVars, loadVars, historyVars, handler, counters>>

BotDone ==
    /\ bot.at = "loop"
    /\ bot.ips = {}
    /\ bot' = NoCommand
    /\ UNCHANGED <<filesVars, loadVars, historyVars, setsVars, handler,
                   counters>>

-----------------------------------------------------------------------------
(* The process dies and systemd starts it again: main loads map.json and   *)
(* the lists before it serves.  The files and the kernel's sets are as the *)
(* crash left them.                                                        *)
Crash ==
    /\ faults < MaxFaults
    /\ faults' = faults + 1
    /\ History!Restart
    /\ loaded' = file
    /\ reloader' = [at |-> "sleep", nl |-> {}, usa |-> {}]
    /\ handler' = [h \in Handlers |-> NoRequest]
    /\ bot' = NoCommand
    /\ UNCHANGED <<filesVars, seen, setsVars, commands>>

-----------------------------------------------------------------------------

Reload == ReloadNL \/ ReloadUSA \/ ReloadSwap

HandlerStep(h) ==
    \/ Answer(h) \/ NoAnswer(h)
    \/ ProcessAnswer(h) \/ ProcessExtra(h) \/ Install(h)
    \/ Reply(h)

BotStep ==
    \/ BotUnlist \/ BotNoFile \/ BotUnlistFails
    \/ BotRewrite \/ BotRewriteFails
    \/ BotAppend \/ BotAppendFails
    \/ BotHistory \/ BotHistoryFails
    \/ \E i \in Ips : BotMoveIn(i) \/ BotDelete(i)
    \/ BotMoveOut
    \/ BotDone

Next ==
    \/ \E h \in Handlers :
          \/ \E d \in Domains : Request(h, d)
          \/ HandlerStep(h)
    \/ \E c \in {"add", "remove"}, r \in Routes, p \in Patterns :
          Command(c, r, p)
    \/ BotStep
    \/ Reload \/ ReloadFails
    \/ Save
    \/ Crash

Spec == Init /\ [][Next]_vars

(* The reload loop has a ticker, and a command goes on to its end.  What   *)
(* the lists become does not depend on the handlers, of whom nothing is    *)
(* asked here.                                                             *)
Fairness ==
    /\ WF_vars(Reload)
    /\ WF_vars(BotStep)

FairSpec == Spec /\ Fairness

-----------------------------------------------------------------------------
(* Safety.                                                                 *)

\* Address i belongs in the set of route r: a pattern that was in r's file
\* occurs in a name that was resolved to i.
BelongsTo(i, r) ==
    \E d \in Domains : /\ <<d, i>> \in seen
                      /\ MatchesList(listed[r], d)

(* No traffic is detoured without a reason: whatever the interleaving of   *)
(* requests, reloads, commands and crashes, an address is in the set of a  *)
(* route only if it answered a name that a pattern of that route's own     *)
(* list covers.  Additional records count by their own name, not by the    *)
(* name that was asked for (main.go:466-485).                              *)
Provenance == \A r \in Routes : \A i \in ipset[r] : BelongsTo(i, r)

(* The client does not learn an address before its packets are routed:     *)
(* when the response of a tunnelled request is sent, each of its addresses *)
(* is in the route's set, unless the kernel refused it or the bot deleted  *)
(* it since it was last installed (main.go:370-403: processAnswers comes   *)
(* before WriteMsg).  So what a /remove took away with its own pattern's   *)
(* addresses (bot.go:267) is back when the name is resolved again.         *)
InstalledBeforeReply ==
    [][\A h \in Handlers :
          /\ handler[h].at = "process"
          /\ handler'[h].at = "idle"
          /\ faults' = faults
          /\ handler[h].route \in Routes
          => \A rr \in handler[h].resp :
                \/ rr[2] \in ipset[handler[h].route]
                \/ <<handler[h].route, rr[2]>> \in excused]_vars

InTunnel(i) == \E r \in Routes : i \in ipset[r]

(* Make before break: moving a pattern to the other route never leaves an  *)
(* address outside both tunnels, not for a moment; only a /remove does, or *)
(* a move to a set that has no room (bot.go:209-216, 237-244).             *)
LeavesOnlyByRemove ==
    [][\A i \in Ips :
          InTunnel(i) /\ ~InTunnel(i)'
          => bot.cmd = "remove" \/ Refused(bot.route, i)]_vars

\* The lists as the commands see them: a file that is being rewritten stands
\* for the lines about to be written.
ListsNow == [r \in Routes |-> IF bot.at = "rewrite" /\ Target = r
                              THEN bot.lines ELSE file[r]]

Lists == INSTANCE PatternLists WITH lists <- ListsNow

(* The file edits of the commands, each of several steps, implement the    *)
(* two lists of PatternLists: a pattern that is moved is never in both,    *)
(* unless the file it was to leave could not be rewritten (bot.go:205-206).*)
ListsImplemented == Lists!Spec

(* The two sets change as KernelSets says: whatever handlers, commands and *)
(* crashes do to them, one address of one set at a time (main.go:487-514,  *)
(* bot.go:834-841).  The copy to the routers, the packets and the display  *)
(* rely on it.                                                             *)
SetsOneByOne == Kernel!Spec

(* The history in memory and the file keep the promise of HistoryStore,    *)
(* also as the handlers and the restarts use them (main.go:232-312).       *)
HistoryKept == History!Spec

(* Once commands and crashes are over, the lists that requests are matched *)
(* against become, and stay, those of the files - although the two files   *)
(* are read one after the other, half written or not (main.go:150-168).    *)
ListsConverge == <>[](loaded = file)

-----------------------------------------------------------------------------
(* What the documentation says and the code does not do.                   *)

\* The mark of a packet to i: the rule of usa_proxy comes after that of
\* nl_proxy and overrides it.
Mark(i) == IF i \in ipset["usa"] THEN "usa"
           ELSE IF i \in ipset["nl"] THEN "nl"
           ELSE "ru"

\* getIPRouteStatus: nl_proxy is tested first.
RouteStatus(i) == IF i \in ipset["nl"] THEN "nl"
                  ELSE IF i \in ipset["usa"] THEN "usa"
                  ELSE "ru"

\* No goroutine is in the middle of anything, and the lists are loaded.
Quiet ==
    /\ bot = NoCommand
    /\ \A h \in Handlers : handler[h] = NoRequest
    /\ reloader.at = "sleep"
    /\ loaded = file

(* When all is quiet, the route the bot shows for an address is the one    *)
(* its packets take (help text, bot.go:451-454).                           *)
StatusTellsRoute == Quiet => \A i \in Ips : RouteStatus(i) = Mark(i)

(* A move of a pattern takes effect on the ipsets (README.md:84): when all *)
(* is quiet, no address of the pattern is left in the other route's set,   *)
(* unless that route lists a pattern of its own for it.                    *)
MoveTakesEffect ==
    Quiet => \A r \in Routes, p \in Patterns :
                p \in file[r] =>
                   \A i \in HistoricalIPs(p) \cap ipset[OtherRoute(r)] :
                      \E q \in file[OtherRoute(r)] : i \in HistoricalIPs(q)

=============================================================================
