--------------------------- MODULE DnsProxyProofs ---------------------------
(* Proofs about DnsProxy, for any number of patterns, domains, addresses,  *)
(* handlers, commands and crashes.                                         *)
EXTENDS DnsProxy, TLAPS

USE DEF filesVars, loadVars, historyVars, setsVars, counters

-----------------------------------------------------------------------------
(* Types of the helpers.                                                   *)

(* There are two routes, each the other of the other.                      *)
LEMMA OtherRouteType ==
    \A r \in Routes : OtherRoute(r) \in Routes /\ OtherRoute(r) # r
  BY DEF Routes, OtherRoute

(* A name is matched to a tunnel or to none.                               *)
LEMMA MatchType == \A d : matchesPattern(d) \in Routes \cup {"ru"}
  BY DEF Routes, matchesPattern

(* A command takes its pattern out of one of the two files.                *)
LEMMA TargetType == TypeOK => Target \in Routes
  BY OtherRouteType DEF TypeOK, BotStates, Target

(* Adding to a set of the kernel keeps the sets typed.                     *)
LEMMA IpsetAddType ==
    ASSUME TypeOK, NEW r \in Routes, NEW i \in Ips, IpsetAdd(r, i)
    PROVE  /\ ipset' \in [Routes -> SUBSET Ips]
           /\ excused' \subseteq Routes \X Ips
  BY DEF TypeOK, IpsetAdd

(* The same for a deletion.                                                *)
LEMMA IpsetDelType ==
    ASSUME TypeOK, NEW r \in Routes, NEW i \in Ips, IpsetDel(r, i)
    PROVE  /\ ipset' \in [Routes -> SUBSET Ips]
           /\ excused' \subseteq Routes \X Ips
  BY DEF TypeOK, IpsetDel

(* A handler that goes to a proper state leaves the handlers typed.        *)
LEMMA HandlerTyped ==
    ASSUME TypeOK, NEW h \in Handlers, NEW s \in HandlerStates,
           s.at # "idle" => s.name \in Domains,
           s.at = "install" => s.ip \in Ips,
           handler' = [handler EXCEPT ![h] = s]
    PROVE  /\ handler' \in [Handlers -> HandlerStates]
           /\ \A g \in Handlers :
                 /\ handler'[g].at # "idle" => handler'[g].name \in Domains
                 /\ handler'[g].at = "install" => handler'[g].ip \in Ips
<1>1. \A g \in Handlers : handler'[g] = IF g = h THEN s ELSE handler[g]
  BY DEF TypeOK
<1> QED
  BY <1>1 DEF TypeOK

-----------------------------------------------------------------------------
(* Every variable keeps its type; a request always has a name, a command a *)
(* pattern, and an address is at hand when one is to be installed or moved.*)
THEOREM TypeCorrect == Spec => []TypeOK
<1>1. Init => TypeOK
  <2> SUFFICES ASSUME Init PROVE TypeOK
    OBVIOUS
  <2>1. reloader \in ReloaderStates
    BY DEF Init, ReloaderStates
  <2>2. /\ handler \in [Handlers -> HandlerStates]
        /\ \A h \in Handlers : handler[h].at = "idle"
    BY DEF Init, NoRequest, HandlerStates
  <2>3. bot \in BotStates /\ bot.at = "idle"
    BY DEF Init, NoCommand, BotStates, Routes
  <2>4. commands \in 0 .. MaxCommands /\ faults \in 0 .. MaxFaults
    BY BoundsAssumption DEF Init
  <2> QED
    BY <2>1, <2>2, <2>3, <2>4 DEF Init, TypeOK
<1>2. TypeOK /\ [Next]_vars => TypeOK'
  <2> SUFFICES ASSUME TypeOK, [Next]_vars
               PROVE  TypeOK'
    OBVIOUS
  <2>1. ASSUME NEW h \in Handlers, NEW d \in Domains, Request(h, d)
        PROVE  TypeOK'
    BY <2>1, MatchType DEF TypeOK, Request, NoRequest, HandlerStates
  <2>2. ASSUME NEW h \in Handlers, Answer(h)
        PROVE  TypeOK'
    <3>1. PICK m \in Responses[handler[h].name] :
             handler' = [handler EXCEPT ![h] =
                           [@ EXCEPT !.at = "process",
                                     !.resp = m.answer,
                                     !.answer = m.answer,
                                     !.extra = m.extra]]
      BY <2>2 DEF Answer
    <3>2. m.answer \in SUBSET Entries /\ m.extra \in SUBSET Entries
      BY <2>2, <3>1, ResponsesAssumption DEF Answer, TypeOK, Entries
    <3> DEFINE s == [handler[h] EXCEPT !.at = "process",
                                      !.resp = m.answer,
                                      !.answer = m.answer,
                                      !.extra = m.extra]
    <3>3. handler[h] \in HandlerStates /\ handler[h].name \in Domains
      BY <2>2 DEF TypeOK, Answer
    <3>4. s \in HandlerStates /\ s.at = "process" /\ s.name \in Domains
      BY <3>2, <3>3 DEF HandlerStates
    <3>5. handler' = [handler EXCEPT ![h] = s]
      BY <3>1
    <3> HIDE DEF s
    <3> QED
      BY <2>2, <3>4, <3>5, HandlerTyped DEF TypeOK, Answer
  <2>3. ASSUME NEW h \in Handlers, NoAnswer(h) \/ Reply(h)
        PROVE  TypeOK'
    BY <2>3 DEF TypeOK, NoAnswer, Reply, NoRequest, HandlerStates
  <2>4. ASSUME NEW h \in Handlers, ProcessAnswer(h)
        PROVE  TypeOK'
    <3>1. PICK rr \in handler[h].answer :
             /\ AddDomainIPs({<<handler[h].name, rr[2]>>, rr})
             /\ handler' = [handler EXCEPT ![h] =
                              [@ EXCEPT !.at = "install",
                                        !.answer = handler[h].answer \ {rr},
                                        !.ip = rr[2],
                                        !.via = handler[h].route]]
      BY <2>4 DEF ProcessAnswer
    <3>2. /\ handler[h] \in HandlerStates
          /\ handler[h].name \in Domains
          /\ rr \in Entries
          /\ rr[2] \in Ips
      BY <2>4 DEF ProcessAnswer, TypeOK, HandlerStates, Entries
    <3>3. /\ ipMap' \subseteq Entries
          /\ seen' \subseteq Entries
      BY <3>1, <3>2 DEF AddDomainIPs, TypeOK, Entries
    <3> DEFINE s == [handler[h] EXCEPT !.at = "install",
                                      !.answer = handler[h].answer \ {rr},
                                      !.ip = rr[2],
                                      !.via = handler[h].route]
    <3>4. s \in HandlerStates /\ s.name \in Domains /\ s.ip \in Ips
      BY <3>2 DEF HandlerStates
    <3>5. handler' = [handler EXCEPT ![h] = s]
      BY <3>1
    <3> HIDE DEF s
    <3> QED
      BY <2>4, <3>1, <3>3, <3>4, <3>5, HandlerTyped
         DEF TypeOK, ProcessAnswer, AddDomainIPs
  <2>5. ASSUME NEW h \in Handlers, ProcessExtra(h)
        PROVE  TypeOK'
    <3>1. PICK rr \in handler[h].extra :
             /\ AddDomainIPs({rr})
             /\ handler' = [handler EXCEPT ![h] =
                              [@ EXCEPT !.at = "install",
                                        !.extra = handler[h].extra \ {rr},
                                        !.ip = rr[2],
                                        !.via = matchesPattern(rr[1])]]
      BY <2>5 DEF ProcessExtra
    <3>2. /\ handler[h] \in HandlerStates
          /\ handler[h].name \in Domains
          /\ rr \in Entries
          /\ rr[2] \in Ips
      BY <2>5 DEF ProcessExtra, TypeOK, HandlerStates, Entries
    <3>3. /\ ipMap' \subseteq Entries
          /\ seen' \subseteq Entries
      BY <3>1, <3>2 DEF AddDomainIPs, TypeOK, Entries
    <3> DEFINE s == [handler[h] EXCEPT !.at = "install",
                                      !.extra = handler[h].extra \ {rr},
                                      !.ip = rr[2],
                                      !.via = matchesPattern(rr[1])]
    <3>4. s \in HandlerStates /\ s.name \in Domains /\ s.ip \in Ips
      BY <3>2, MatchType DEF HandlerStates
    <3>5. handler' = [handler EXCEPT ![h] = s]
      BY <3>1
    <3> HIDE DEF s
    <3> QED
      BY <2>5, <3>1, <3>3, <3>4, <3>5, HandlerTyped
         DEF TypeOK, ProcessExtra, AddDomainIPs
  <2>6. ASSUME NEW h \in Handlers, Install(h)
        PROVE  TypeOK'
    <3>1. ipset' \in [Routes -> SUBSET Ips] /\ excused' \subseteq Routes \X Ips
      BY <2>6, IpsetAddType DEF Install, TypeOK
    <3> DEFINE s == [handler[h] EXCEPT !.at = "process",
                                      !.ip = None,
                                      !.via = "ru"]
    <3>2. handler[h] \in HandlerStates /\ handler[h].name \in Domains
      BY <2>6 DEF TypeOK, Install
    <3>3. s \in HandlerStates /\ s.at = "process" /\ s.name \in Domains
      BY <3>2 DEF HandlerStates, Routes
    <3>4. handler' = [handler EXCEPT ![h] = s]
      BY <2>6 DEF Install
    <3> HIDE DEF s
    <3> QED
      BY <2>6, <3>1, <3>3, <3>4, HandlerTyped DEF TypeOK, Install
  <2>7. CASE Reload
    <3>1. CASE ReloadNL
      BY <3>1 DEF TypeOK, ReloadNL, ReloaderStates, Routes
    <3>2. CASE ReloadUSA
      BY <3>2 DEF TypeOK, ReloadUSA, ReloaderStates, Routes
    <3>3. CASE ReloadSwap
      BY <3>3 DEF TypeOK, ReloadSwap, ReloaderStates
    <3> QED
      BY <2>7, <3>1, <3>2, <3>3 DEF Reload
  <2>8. CASE Save
    BY <2>8 DEF TypeOK, Save, History!Tear, History!Publish
  <2>9. ASSUME NEW c \in {"add", "remove"}, NEW r \in Routes,
               NEW p \in Patterns, Command(c, r, p)
        PROVE  TypeOK'
    <3>1. commands' \in 0 .. MaxCommands
      BY <2>9, BoundsAssumption DEF TypeOK, Command
    <3> QED
      BY <2>9, <3>1 DEF TypeOK, Command, NoCommand, BotStates
  <2>10. CASE BotUnlist
    BY <2>10, TargetType DEF TypeOK, BotUnlist, BotStates
  <2>11. CASE BotNoFile
    BY <2>11 DEF TypeOK, BotNoFile, NoCommand, BotStates, Routes
  <2>12. CASE BotRewrite
    BY <2>12, TargetType DEF TypeOK, BotRewrite, BotStates, AfterRewrite
  <2>13. CASE BotRewriteFails
    <3>1. faults' \in 0 .. MaxFaults
      BY <2>13, BoundsAssumption DEF TypeOK, BotRewriteFails
    <3> QED
      BY <2>13, <3>1 DEF TypeOK, BotRewriteFails, NoCommand, BotStates, Routes
  <2>14. CASE BotAppend
    BY <2>14 DEF TypeOK, BotAppend, BotStates
  <2>15. CASE BotAppendFails
    <3>1. faults' \in 0 .. MaxFaults
      BY <2>15, BoundsAssumption DEF TypeOK, BotAppendFails
    <3> QED
      BY <2>15, <3>1 DEF TypeOK, BotAppendFails, NoCommand, BotStates, Routes
  <2>16. CASE BotHistory
    <3>1. HistoricalIPs(bot.pattern) \subseteq Ips
      BY DEF HistoricalIPs
    <3> QED
      BY <2>16, <3>1 DEF TypeOK, BotHistory, BotStates
  <2>17. CASE BotHistoryFails
    <3>1. faults' \in 0 .. MaxFaults
      BY <2>17, BoundsAssumption DEF TypeOK, BotHistoryFails
    <3> QED
      BY <2>17, <3>1 DEF TypeOK, BotHistoryFails, BotStates
  <2>18. CASE BotUnlistFails
    <3>1. faults' \in 0 .. MaxFaults
      BY <2>18, BoundsAssumption DEF TypeOK, BotUnlistFails
    <3> QED
      BY <2>18, <3>1 DEF TypeOK, BotUnlistFails, NoCommand, BotStates, Routes
  <2>19. CASE ReloadFails
    <3>1. faults' \in 0 .. MaxFaults
      BY <2>19, BoundsAssumption DEF TypeOK, ReloadFails
    <3> QED
      BY <2>19, <3>1 DEF TypeOK, ReloadFails, ReloaderStates
  <2>20. ASSUME NEW i \in Ips, BotMoveIn(i)
         PROVE  TypeOK'
    <3>1. ipset' \in [Routes -> SUBSET Ips] /\ excused' \subseteq Routes \X Ips
      BY <2>20, IpsetAddType DEF BotMoveIn, TypeOK, BotStates
    <3> QED
      BY <2>20, <3>1 DEF TypeOK, BotMoveIn, BotStates
  <2>21. CASE BotMoveOut
    <3>1. OtherRoute(bot.route) \in Routes
      BY OtherRouteType DEF TypeOK, BotStates
    <3>2. ipset' \in [Routes -> SUBSET Ips] /\ excused' \subseteq Routes \X Ips
      BY <2>21, <3>1, IpsetDelType DEF BotMoveOut, TypeOK
    <3> QED
      BY <2>21, <3>2 DEF TypeOK, BotMoveOut, BotStates
  <2>22. ASSUME NEW i \in Ips, BotDelete(i)
         PROVE  TypeOK'
    <3>1. ipset' \in [Routes -> SUBSET Ips] /\ excused' \subseteq Routes \X Ips
      BY <2>22, IpsetDelType DEF BotDelete, TypeOK, BotStates
    <3> QED
      BY <2>22, <3>1 DEF TypeOK, BotDelete, BotStates
  <2>23. CASE BotDone
    BY <2>23 DEF TypeOK, BotDone, NoCommand, BotStates, Routes
  <2>24. CASE Crash
    <3>1. faults' \in 0 .. MaxFaults
      BY <2>24, BoundsAssumption DEF TypeOK, Crash
    <3>2. ipMap' \subseteq Entries /\ saved' \subseteq Entries
      BY <2>24 DEF TypeOK, Crash, History!Restart, History!Readable
    <3>3. /\ handler' \in [Handlers -> HandlerStates]
          /\ \A h \in Handlers : handler'[h].at = "idle"
      BY <2>24 DEF Crash, NoRequest, HandlerStates
    <3>4. bot' \in BotStates /\ bot'.at = "idle"
      BY <2>24 DEF Crash, NoCommand, BotStates, Routes
    <3>5. reloader' \in ReloaderStates
      BY <2>24 DEF Crash, ReloaderStates
    <3> QED
      BY <2>24, <3>1, <3>2, <3>3, <3>4, <3>5
         DEF TypeOK, Crash, History!Restart
  <2>25. CASE UNCHANGED vars
    BY <2>25 DEF TypeOK, vars
  <2> QED
    BY <2>1, <2>2, <2>3, <2>4, <2>5, <2>6, <2>7, <2>8, <2>9, <2>10, <2>11,
       <2>12, <2>13, <2>14, <2>15, <2>16, <2>20, <2>21, <2>22, <2>23, <2>24,
       <2>25, <2>17, <2>18, <2>19
       DEF Next, HandlerStep, BotStep
<1> QED
  BY <1>1, <1>2, PTL DEF Spec

-----------------------------------------------------------------------------
(* Looking up the history, moving addresses and ending a command do not    *)
(* touch the files.                                                        *)
LEMMA NoFileStep ==
    ASSUME TypeOK, BotHistory \/ BotHistoryFails \/ BotMoveOut \/ BotDone
    PROVE  /\ UNCHANGED <<file, exists, stuck>>
           /\ bot.at # "rewrite"
           /\ bot'.at \notin {"rewrite", "append"}
<1>1. CASE BotHistory \/ BotHistoryFails
  BY <1>1 DEF BotHistory, BotHistoryFails, TypeOK, BotStates
<1>2. CASE BotMoveOut
  BY <1>2 DEF BotMoveOut, TypeOK, BotStates
<1>3. CASE BotDone
  BY <1>3 DEF BotDone, NoCommand
<1> QED
  BY <1>1, <1>2, <1>3

(* What the bot knows about the files between the steps of a command: when *)
(* it is to append a pattern to one file, the other does not hold it, or   *)
(* could not be rewritten.                                                 *)
FilesInStep ==
    /\ \A r \in Routes \ exists : file[r] = {}
    /\ bot.at = "rewrite" =>
          /\ Target \in exists
          /\ file[Target] = {}
          /\ bot.pattern \notin bot.lines
    /\ bot.at = "append" =>
          /\ bot.cmd = "add"
          /\ \/ bot.pattern \notin file[OtherRoute(bot.route)]
             \/ bot.pattern \in stuck

(* FilesInStep is an invariant.                                            *)
LEMMA FilesStayInStep == Spec => []FilesInStep
<1>1. Init => FilesInStep
  BY DEF Init, FilesInStep, NoCommand
<1>2. TypeOK /\ FilesInStep /\ [Next]_vars => FilesInStep'
  <2> SUFFICES ASSUME TypeOK, FilesInStep, [Next]_vars
               PROVE  FilesInStep'
    OBVIOUS
  <2> USE DEF FilesInStep
  <2>1. ASSUME UNCHANGED <<file, exists, stuck, bot>>
        PROVE  FilesInStep'
    BY <2>1 DEF Target
  <2>2. ASSUME UNCHANGED <<file, exists>>,
               bot'.at \notin {"rewrite", "append"}
        PROVE  FilesInStep'
    BY <2>2
  <2>3. ASSUME NEW h \in Handlers,
               (\E d \in Domains : Request(h, d)) \/ HandlerStep(h)
        PROVE  FilesInStep'
    BY <2>1, <2>3 DEF Request, HandlerStep, Answer, NoAnswer, ProcessAnswer,
                      ProcessExtra, Install, Reply
  <2>4. CASE Reload \/ ReloadFails \/ Save
    BY <2>1, <2>4 DEF Reload, ReloadNL, ReloadUSA, ReloadSwap, ReloadFails,
                      Save
  <2>5. ASSUME NEW c \in {"add", "remove"}, NEW r \in Routes,
               NEW p \in Patterns, Command(c, r, p)
        PROVE  FilesInStep'
    BY <2>2, <2>5 DEF Command, NoCommand
  <2>6. CASE BotUnlist
    <3>1. Target' = Target /\ Target \in Routes
      BY <2>6, TargetType DEF BotUnlist, Target, TypeOK, BotStates
    <3>2. /\ bot'.at = "rewrite"
          /\ bot'.lines = file[Target] \ {bot.pattern}
          /\ bot'.pattern = bot.pattern
      BY <2>6 DEF BotUnlist, TypeOK, BotStates
    <3> QED
      BY <2>6, <3>1, <3>2 DEF BotUnlist, TypeOK
  <2>7. CASE BotNoFile
    BY <2>2, <2>7, OtherRouteType
       DEF BotNoFile, NoCommand, Target, TypeOK, BotStates
  <2>8. CASE BotUnlistFails
    BY <2>2, <2>8 DEF BotUnlistFails, NoCommand, TypeOK, BotStates
  <2>9. CASE BotRewrite
    <3>1. Target \in Routes
      BY TargetType
    <3>2. /\ bot'.at = AfterRewrite
          /\ bot'.cmd = bot.cmd
          /\ bot'.pattern = bot.pattern
          /\ bot'.route = bot.route
      BY <2>9 DEF BotRewrite, TypeOK, BotStates
    <3> QED
      BY <2>9, <3>1, <3>2 DEF BotRewrite, AfterRewrite, Target, TypeOK
  <2>10. CASE BotRewriteFails
    <3>1. CASE bot.cmd = "add"
      BY <2>10, <3>1 DEF BotRewriteFails, Target, TypeOK, BotStates
    <3>2. CASE bot.cmd # "add"
      BY <2>2, <2>10, <3>2 DEF BotRewriteFails, NoCommand
    <3> QED
      BY <3>1, <3>2
  <2>11. CASE BotAppend \/ BotAppendFails
    <3>1. bot'.at \notin {"rewrite", "append"}
      BY <2>11 DEF BotAppend, BotAppendFails, NoCommand, TypeOK, BotStates
    <3>2. \A r \in Routes \ exists' : r \notin exists /\ file'[r] = file[r]
      BY <2>11 DEF BotAppend, BotAppendFails, TypeOK, BotStates
    <3> QED
      BY <3>1, <3>2
  <2>12. CASE BotHistory \/ BotHistoryFails \/ BotMoveOut \/ BotDone
    BY <2>2, <2>12, NoFileStep
  <2>13. ASSUME NEW i \in Ips, BotMoveIn(i) \/ BotDelete(i)
         PROVE  FilesInStep'
    BY <2>2, <2>13 DEF BotMoveIn, BotDelete, TypeOK, BotStates
  <2>14. CASE Crash
    BY <2>2, <2>14 DEF Crash, NoCommand
  <2>15. CASE UNCHANGED vars
    BY <2>1, <2>15 DEF vars
  <2> QED
    BY <2>3, <2>4, <2>5, <2>6, <2>7, <2>9, <2>10, <2>11, <2>12, <2>13, <2>14,
       <2>15, <2>8 DEF Next, BotStep
<1> QED
  BY <1>1, <1>2, TypeCorrect, PTL DEF Spec

(* The edits of the pattern files implement the two lists: each step of a  *)
(* command, a failure or a crash is at most one list operation.            *)
THEOREM ListsRefined == Spec => ListsImplemented
<1> USE DEF Lists!Routes, Routes, Lists!OtherRoute, OtherRoute,
            Lists!listsVars
<1>1. Init => Lists!Init
  BY DEF Init, Lists!Init, ListsNow, NoCommand
<1>2. TypeOK /\ FilesInStep /\ [Next]_vars => [Lists!Next]_(Lists!listsVars)
  <2> SUFFICES ASSUME TypeOK, FilesInStep, [Next]_vars
               PROVE  Lists!Next \/ UNCHANGED <<ListsNow, stuck>>
    OBVIOUS
  <2>1. ASSUME UNCHANGED <<file, stuck, bot>>
        PROVE  UNCHANGED <<ListsNow, stuck>>
    BY <2>1 DEF ListsNow, Target
  <2>2. ASSUME UNCHANGED <<file, stuck>>,
               bot.at # "rewrite", bot'.at # "rewrite"
        PROVE  UNCHANGED <<ListsNow, stuck>>
    BY <2>2 DEF ListsNow
  <2>3. ASSUME NEW h \in Handlers,
               (\E d \in Domains : Request(h, d)) \/ HandlerStep(h)
        PROVE  UNCHANGED <<ListsNow, stuck>>
    BY <2>1, <2>3 DEF Request, HandlerStep, Answer, NoAnswer, ProcessAnswer,
                      ProcessExtra, Install, Reply
  <2>4. CASE Reload \/ ReloadFails \/ Save
    BY <2>1, <2>4 DEF Reload, ReloadNL, ReloadUSA, ReloadSwap, ReloadFails,
                      Save
  <2>5. ASSUME NEW c \in {"add", "remove"}, NEW r \in Routes,
               NEW p \in Patterns, Command(c, r, p)
        PROVE  UNCHANGED <<ListsNow, stuck>>
    BY <2>2, <2>5 DEF Command, NoCommand
  <2>6. CASE BotUnlist
    <3>1. /\ Target' = Target
          /\ Target \in Routes
          /\ bot.pattern \in Patterns
          /\ bot'.at = "rewrite"
          /\ bot'.lines = file[Target] \ {bot.pattern}
          /\ \A r \in Routes : r # Target => file'[r] = file[r]
      BY <2>6, TargetType DEF BotUnlist, Target, TypeOK, BotStates
    <3>2. ListsNow = file
      BY <2>6 DEF BotUnlist, ListsNow, TypeOK
    <3>3. ListsNow' = [file EXCEPT ![Target] = @ \ {bot.pattern}]
      BY <3>1 DEF ListsNow, TypeOK
    <3>4. Lists!Unlist(Target, bot.pattern)
      BY <2>6, <3>2, <3>3 DEF BotUnlist, Lists!Unlist
    <3> QED
      BY <3>1, <3>4 DEF Lists!Next
  <2>7. CASE \/ BotNoFile \/ BotHistory \/ BotHistoryFails
             \/ BotMoveOut \/ BotDone
    <3>1. CASE BotNoFile
      BY <2>2, <3>1 DEF BotNoFile, NoCommand, TypeOK, BotStates
    <3>2. CASE BotHistory \/ BotHistoryFails \/ BotMoveOut \/ BotDone
      BY <2>2, <3>2, NoFileStep
    <3> QED
      BY <2>7, <3>1, <3>2
  <2>8. CASE BotRewrite
    <3>1. /\ Target \in Routes
          /\ bot'.at # "rewrite"
          /\ file' = [file EXCEPT ![Target] = bot.lines]
          /\ bot.at = "rewrite"
      BY <2>8, TargetType DEF BotRewrite, AfterRewrite, TypeOK, BotStates
    <3>2. ListsNow' = ListsNow
      BY <3>1 DEF ListsNow, TypeOK
    <3> QED
      BY <2>8, <3>2 DEF BotRewrite
  <2>9. ASSUME UNCHANGED <<file, stuck>>,
               bot.at = "rewrite", bot'.at # "rewrite"
        PROVE  Lists!Next
    <3>1. Target \in Routes
      BY TargetType
    <3>2. ListsNow' = [ListsNow EXCEPT ![Target] = {}]
      BY <2>9, <3>1 DEF ListsNow, FilesInStep, TypeOK
    <3> QED
      BY <2>9, <3>1, <3>2 DEF Lists!Next, Lists!Lose
  <2>10. CASE BotRewriteFails
    BY <2>9, <2>10 DEF BotRewriteFails, NoCommand, TypeOK, BotStates
  <2>11. CASE BotAppend
    <3>1. /\ ListsNow = file
          /\ bot.route \in Routes
          /\ bot.pattern \in Patterns
          /\ bot'.at = "history"
      BY <2>11 DEF BotAppend, ListsNow, TypeOK, BotStates
    <3>2. ListsNow' = file'
      BY <2>11, <3>1 DEF BotAppend, ListsNow, TypeOK
    <3>3. Lists!List(bot.route, bot.pattern)
      BY <2>11, <3>1, <3>2 DEF BotAppend, Lists!List, FilesInStep
    <3> QED
      BY <3>1, <3>3 DEF Lists!Next
  <2>12. CASE BotAppendFails
    BY <2>2, <2>12 DEF BotAppendFails, NoCommand
  <2>13. ASSUME NEW i \in Ips, BotMoveIn(i) \/ BotDelete(i)
         PROVE  UNCHANGED <<ListsNow, stuck>>
    BY <2>2, <2>13 DEF BotMoveIn, BotDelete, TypeOK, BotStates
  <2>14. CASE Crash
    BY <2>2, <2>9, <2>14 DEF Crash, NoCommand
  <2>15. CASE UNCHANGED vars
    BY <2>1, <2>15 DEF vars
  <2>16. CASE BotUnlistFails
    <3>1. /\ bot.pattern \in Patterns
          /\ bot.at # "rewrite" /\ bot'.at # "rewrite"
          /\ ListsNow' = ListsNow
      BY <2>16 DEF BotUnlistFails, NoCommand, ListsNow, TypeOK, BotStates
    <3>2. Lists!Stick(bot.pattern) \/ UNCHANGED <<ListsNow, stuck>>
      BY <2>16, <3>1 DEF BotUnlistFails, Lists!Stick
    <3> QED
      BY <3>1, <3>2 DEF Lists!Next
  <2> QED
    BY <2>3, <2>4, <2>5, <2>6, <2>7, <2>8, <2>10, <2>11, <2>12, <2>13, <2>14,
       <2>15, <2>16 DEF Next, BotStep
<1> QED
  BY <1>1, <1>2, TypeCorrect, FilesStayInStep, PTL
     DEF Spec, ListsImplemented, Lists!Spec

(* No pattern is on both lists, so that no name is routed by both, except  *)
(* one that an add could not take out of the other file: the bot ignores   *)
(* that error (bot.go:205-206, 233-234) and the NL list then wins.         *)
SharedOnlyStuck == ListsNow["nl"] \cap ListsNow["usa"] \subseteq stuck

ListsApart == ListsNow \in [Routes -> SUBSET Patterns] /\ SharedOnlyStuck

THEOREM NeverOnBothLists == Spec => []SharedOnlyStuck
<1> USE DEF Lists!Routes, Routes, Lists!OtherRoute
<1>1. Lists!Init => ListsApart
  BY DEF Lists!Init, ListsApart, SharedOnlyStuck
<1>2. ListsApart /\ [Lists!Next]_(Lists!listsVars) => ListsApart'
  <2> SUFFICES ASSUME ListsApart, [Lists!Next]_(Lists!listsVars)
               PROVE  ListsApart'
    OBVIOUS
  <2> USE DEF ListsApart, SharedOnlyStuck
  <2>1. ASSUME NEW r \in Routes, NEW p \in Patterns, Lists!Unlist(r, p)
        PROVE  ListsApart'
    BY <2>1 DEF Lists!Unlist
  <2>2. ASSUME NEW r \in Routes, NEW p \in Patterns, Lists!List(r, p)
        PROVE  ListsApart'
    BY <2>2 DEF Lists!List
  <2>3. ASSUME NEW p \in Patterns, Lists!Stick(p)
        PROVE  ListsApart'
    BY <2>3 DEF Lists!Stick
  <2>4. ASSUME NEW r \in Routes, Lists!Lose(r)
        PROVE  ListsApart'
    BY <2>4 DEF Lists!Lose
  <2>5. CASE UNCHANGED Lists!listsVars
    BY <2>5 DEF Lists!listsVars
  <2> QED
    BY <2>1, <2>2, <2>3, <2>4, <2>5 DEF Lists!Next
<1>3. ListsApart => SharedOnlyStuck
  BY DEF ListsApart
<1> QED
  BY ListsRefined, <1>1, <1>2, <1>3, PTL DEF ListsImplemented, Lists!Spec

-----------------------------------------------------------------------------
(* Make before break.                                                      *)

(* An add leaves the other addresses of its set in place, and a full set   *)
(* as it is.                                                               *)
LEMMA AddKeeps ==
    ASSUME TypeOK, NEW r \in Routes, NEW i \in Ips, IpsetAdd(r, i),
           NEW q \in Routes
    PROVE  /\ ipset[q] \subseteq ipset'[q]
           /\ Full(q) => ipset'[q] = ipset[q]
<1>1. CASE Refused(r, i)
  BY <1>1 DEF TypeOK, IpsetAdd
<1>2. CASE ~Refused(r, i)
  <2>1. ipset' = [ipset EXCEPT ![r] = @ \cup {i}]
    BY <1>2 DEF IpsetAdd
  <2>2. ipset \in [Routes -> SUBSET Ips] /\ (Full(r) => i \in ipset[r])
    BY <1>2 DEF TypeOK, Refused
  <2>3. CASE q = r
    <3>1. ipset'[r] = ipset[r] \cup {i}
      BY <2>1, <2>2
    <3> QED
      BY <2>2, <2>3, <3>1
  <2>4. CASE q # r
    BY <2>1, <2>2, <2>4
  <2> QED
    BY <2>3, <2>4
<1> QED
  BY <1>1, <1>2

(* Between the two halves of a move, the address is in the new set, or the *)
(* new set had and still has no room for it.                               *)
HalfMoved ==
    bot.at = "del" =>
       bot.ip \in ipset[bot.route] \/ Refused(bot.route, bot.ip)

(* HalfMoved is an invariant: only the bot deletes from the sets.          *)
LEMMA HalfMovedHolds == Spec => []HalfMoved
<1>1. Init => HalfMoved
  BY DEF Init, HalfMoved, NoCommand
<1>2. TypeOK /\ HalfMoved /\ [Next]_vars => HalfMoved'
  <2> SUFFICES ASSUME TypeOK, HalfMoved, [Next]_vars
               PROVE  HalfMoved'
    OBVIOUS
  <2>1. ASSUME UNCHANGED <<bot, ipset>>
        PROVE  HalfMoved'
    BY <2>1 DEF HalfMoved, Refused, Full
  <2>2. ASSUME bot'.at # "del"
        PROVE  HalfMoved'
    BY <2>2 DEF HalfMoved
  <2>3. ASSUME NEW h \in Handlers,
               \/ \E d \in Domains : Request(h, d)
               \/ Answer(h) \/ NoAnswer(h) \/ ProcessAnswer(h)
               \/ ProcessExtra(h) \/ Reply(h)
        PROVE  HalfMoved'
    BY <2>1, <2>3 DEF Request, Answer, NoAnswer, ProcessAnswer, ProcessExtra,
                      Reply
  <2>4. ASSUME NEW h \in Handlers, Install(h)
        PROVE  HalfMoved'
    <3>1. CASE handler[h].via \in Routes
      <4>1. bot.route \in Routes /\ UNCHANGED bot
        BY <2>4 DEF Install, TypeOK, BotStates
      <4>2. /\ ipset[bot.route] \subseteq ipset'[bot.route]
            /\ Full(bot.route) => ipset'[bot.route] = ipset[bot.route]
        BY <2>4, <3>1, <4>1, AddKeeps DEF Install, TypeOK
      <4> QED
        BY <4>1, <4>2 DEF HalfMoved, Refused, Full
    <3>2. CASE handler[h].via \notin Routes
      BY <2>1, <2>4, <3>2 DEF Install
    <3> QED
      BY <3>1, <3>2
  <2>5. CASE Reload \/ ReloadFails \/ Save
    BY <2>1, <2>5 DEF Reload, ReloadNL, ReloadUSA, ReloadSwap, ReloadFails,
                      Save
  <2>6. ASSUME NEW c \in {"add", "remove"}, NEW r \in Routes,
               NEW p \in Patterns, Command(c, r, p)
        PROVE  HalfMoved'
    BY <2>2, <2>6 DEF Command, NoCommand
  <2>7. ASSUME \/ BotUnlist \/ BotNoFile \/ BotUnlistFails
               \/ BotRewrite \/ BotRewriteFails
        PROVE  bot'.at # "del"
    <3>1. CASE BotUnlistFails
      BY <3>1 DEF BotUnlistFails, NoCommand, TypeOK, BotStates
    <3>2. CASE BotUnlist
      BY <3>2 DEF BotUnlist, TypeOK, BotStates
    <3>3. CASE BotNoFile
      BY <3>3 DEF BotNoFile, NoCommand, TypeOK, BotStates
    <3>4. CASE BotRewrite
      BY <3>4 DEF BotRewrite, AfterRewrite, TypeOK, BotStates
    <3>5. CASE BotRewriteFails
      BY <3>5 DEF BotRewriteFails, NoCommand, TypeOK, BotStates
    <3> QED
      BY <2>7, <3>2, <3>3, <3>4, <3>5, <3>1
  <2>8. CASE BotAppend \/ BotAppendFails
    BY <2>2, <2>8 DEF BotAppend, BotAppendFails, NoCommand, TypeOK, BotStates
  <2>9. ASSUME BotHistory \/ BotHistoryFails \/ BotMoveOut \/ BotDone
         PROVE  bot'.at # "del"
    <3>1. CASE BotHistory \/ BotHistoryFails
      BY <3>1 DEF BotHistory, BotHistoryFails, TypeOK, BotStates
    <3>2. CASE BotMoveOut
      BY <3>2 DEF BotMoveOut, TypeOK, BotStates
    <3>3. CASE BotDone
      BY <3>3 DEF BotDone, NoCommand
    <3> QED
      BY <2>9, <3>1, <3>2, <3>3
  <2>10. ASSUME NEW i \in Ips, BotMoveIn(i)
         PROVE  HalfMoved'
    <3>1. /\ bot'.ip = i
          /\ bot'.route = bot.route
          /\ bot.route \in Routes
      BY <2>10 DEF BotMoveIn, TypeOK, BotStates
    <3>2. i \in ipset'[bot.route] \/ (Refused(bot.route, i) /\ ipset' = ipset)
      BY <2>10, <3>1 DEF BotMoveIn, IpsetAdd, TypeOK
    <3> QED
      BY <3>1, <3>2 DEF HalfMoved, Refused, Full
  <2>11. ASSUME NEW i \in Ips, BotDelete(i)
         PROVE  HalfMoved'
    BY <2>2, <2>11 DEF BotDelete, TypeOK, BotStates
  <2>12. CASE Crash
    BY <2>2, <2>12 DEF Crash, NoCommand
  <2>13. CASE UNCHANGED vars
    BY <2>1, <2>13 DEF vars
  <2> QED
    BY <2>2, <2>3, <2>4, <2>5, <2>6, <2>7, <2>8, <2>9, <2>10, <2>11,
       <2>12, <2>13 DEF Next, HandlerStep, BotStep
<1> QED
  BY <1>1, <1>2, TypeCorrect, PTL DEF Spec

(* A move never takes an address out of both tunnels, except to a set that *)
(* has no room for it.                                                     *)
THEOREM MakeBeforeBreak == Spec => LeavesOnlyByRemove
<1> DEFINE Leaves ==
       \A i \in Ips : InTunnel(i) /\ ~InTunnel(i)'
                     => bot.cmd = "remove" \/ Refused(bot.route, i)
<1>1. TypeOK /\ HalfMoved /\ [Next]_vars => [Leaves]_vars
  <2> SUFFICES ASSUME TypeOK, HalfMoved, Next,
                      NEW i \in Ips, InTunnel(i), ~InTunnel(i)'
               PROVE  bot.cmd = "remove" \/ Refused(bot.route, i)
    OBVIOUS
  <2>1. ~(\A r \in Routes : ipset[r] \subseteq ipset'[r])
    BY DEF InTunnel
  <2>2. ASSUME NEW h \in Handlers,
               (\E d \in Domains : Request(h, d)) \/ HandlerStep(h)
        PROVE  FALSE
    <3>1. ASSUME Install(h), handler[h].via \in Routes
          PROVE  \A r \in Routes : ipset[r] \subseteq ipset'[r]
      BY <3>1, AddKeeps DEF Install, TypeOK
    <3> QED
      BY <2>1, <2>2, <3>1
         DEF Request, HandlerStep, Answer, NoAnswer, ProcessAnswer,
             ProcessExtra, Install, Reply
  <2>3. CASE Reload \/ ReloadFails \/ Save \/ Crash
    BY <2>1, <2>3 DEF Reload, ReloadNL, ReloadUSA, ReloadSwap, ReloadFails,
                      Save, Crash
  <2>4. ASSUME NEW c \in {"add", "remove"}, NEW r \in Routes,
               NEW p \in Patterns, Command(c, r, p)
        PROVE  FALSE
    BY <2>1, <2>4 DEF Command
  <2>5. CASE \/ BotUnlist \/ BotNoFile \/ BotUnlistFails
             \/ BotRewrite \/ BotRewriteFails
             \/ BotAppend \/ BotAppendFails
             \/ BotHistory \/ BotHistoryFails \/ BotDone
    BY <2>1, <2>5 DEF BotUnlist, BotNoFile, BotUnlistFails, BotRewrite,
                      BotRewriteFails, BotAppend, BotAppendFails, BotHistory,
                      BotHistoryFails, BotDone
  <2>6. ASSUME NEW x \in Ips, BotMoveIn(x)
        PROVE  FALSE
    BY <2>1, <2>6, AddKeeps DEF BotMoveIn, TypeOK, BotStates
  <2>7. ASSUME NEW x \in Ips, BotDelete(x)
        PROVE  bot.cmd = "remove"
    BY <2>7 DEF BotDelete
  <2>8. CASE BotMoveOut
    <3>1. /\ bot.at = "del"
          /\ bot.route \in Routes
          /\ OtherRoute(bot.route) # bot.route
          /\ \A r \in Routes : r = bot.route \/ r = OtherRoute(bot.route)
      BY <2>8 DEF BotMoveOut, TypeOK, BotStates, OtherRoute, Routes
    <3>2. ipset' = [ipset EXCEPT ![OtherRoute(bot.route)] = @ \ {bot.ip}]
      BY <2>8 DEF BotMoveOut, IpsetDel
    <3>3. ipset'[bot.route] = ipset[bot.route]
      BY <3>1, <3>2 DEF TypeOK
    <3>4. i = bot.ip /\ i \notin ipset[bot.route]
      BY <3>1, <3>2, <3>3, OtherRouteType DEF TypeOK, InTunnel
    <3> QED
      BY <3>1, <3>4 DEF HalfMoved
  <2> QED
    BY <2>2, <2>3, <2>4, <2>5, <2>6, <2>7, <2>8 DEF Next, BotStep
<1> QED
  BY <1>1, TypeCorrect, HalfMovedHolds, PTL DEF Spec, LeavesOnlyByRemove

(* A command drops none of the addresses it has looked up before it has    *)
(* dealt with it: an add leaves it out of the set of the other route and   *)
(* in its own, unless that one has no room; a remove leaves it out of the  *)
(* set.  Only a failure or a crash, or a /remove that finds no file, ends  *)
(* the command before (bot.go:204-216, 269-279).  So what finding 3 leaves *)
(* behind are addresses the history did not hold or others put back.       *)
NoneLeftBehind ==
    [][\A i \in bot.ips \ bot'.ips :
          \/ faults' # faults
          \/ bot.cmd = "remove" /\ bot.route \notin exists
          \/ /\ i \notin ipset'[Target]
             /\ bot.cmd = "add"
                => (i \in ipset[bot.route] \/ Refused(bot.route, i))']_vars

(* The addresses are looked up by BotHistory, and there are none before.   *)
NotLookedUp ==
    \/ bot.at \in {"idle", "append", "history"}
    \/ bot.cmd = "add" /\ bot.at \in {"unlist", "rewrite"}

LookedUpOnce == NotLookedUp => bot.ips = {}

(* LookedUpOnce is an invariant.                                           *)
LEMMA LookedUpOnceHolds == Spec => []LookedUpOnce
<1>1. Init => LookedUpOnce
  BY DEF Init, LookedUpOnce, NoCommand
<1>2. TypeOK /\ LookedUpOnce /\ [Next]_vars => LookedUpOnce'
  <2> SUFFICES ASSUME TypeOK, LookedUpOnce, [Next]_vars
               PROVE  LookedUpOnce'
    OBVIOUS
  <2> USE DEF LookedUpOnce, NotLookedUp
  <2>1. CASE UNCHANGED bot
    BY <2>1
  <2>2. CASE bot' = NoCommand
    BY <2>2 DEF NoCommand
  <2>3. ASSUME NEW c \in {"add", "remove"}, NEW r \in Routes,
               NEW p \in Patterns, Command(c, r, p)
        PROVE  LookedUpOnce'
    BY <2>3 DEF Command, NoCommand
  <2>4. CASE BotUnlist \/ BotNoFile \/ BotUnlistFails
    BY <2>2, <2>4 DEF BotUnlist, BotNoFile, BotUnlistFails, TypeOK, BotStates
  <2>5. CASE BotRewrite \/ BotRewriteFails
    BY <2>2, <2>5 DEF BotRewrite, BotRewriteFails, AfterRewrite, TypeOK,
                      BotStates
  <2>6. CASE BotAppend \/ BotAppendFails
    BY <2>2, <2>6 DEF BotAppend, BotAppendFails, TypeOK, BotStates
  <2>7. CASE BotHistory \/ BotHistoryFails
    BY <2>7 DEF BotHistory, BotHistoryFails, TypeOK, BotStates
  <2>8. ASSUME BotMoveOut \/ BotDone
               \/ \E x \in Ips : BotMoveIn(x) \/ BotDelete(x)
        PROVE  bot' = NoCommand \/ bot'.at \in {"loop", "del"}
    BY <2>8 DEF BotMoveOut, BotDone, BotMoveIn, BotDelete, TypeOK, BotStates
  <2>9. CASE Crash
    BY <2>2, <2>9 DEF Crash
  <2> QED
    BY <2>1, <2>2, <2>3, <2>4, <2>5, <2>6, <2>7, <2>8, <2>9
       DEF Next, BotStep, HandlerStep, Reload, ReloadFails, Request, Answer,
           NoAnswer, ProcessAnswer, ProcessExtra, Install, Reply, ReloadNL,
           ReloadUSA, ReloadSwap, Save, vars
<1> QED
  BY <1>1, <1>2, TypeCorrect, PTL DEF Spec

(* What deals with an address is the second half of a move, or a delete.   *)
LEMMA DealtWith ==
    ASSUME TypeOK, LookedUpOnce, Next, NEW i \in bot.ips, i \notin bot'.ips,
           faults' = faults
    PROVE  \/ BotMoveOut /\ i = bot.ip
           \/ BotDelete(i)
           \/ bot.cmd = "remove" /\ bot.route \notin exists
<1>1. bot' # bot
  OBVIOUS
<1>2. CASE BotMoveOut
  BY <1>2 DEF BotMoveOut, TypeOK, BotStates
<1>3. CASE BotStep /\ ~BotMoveOut
  <2>1. ~(BotUnlistFails \/ BotRewriteFails \/ BotAppendFails
          \/ BotHistoryFails)
    BY DEF BotUnlistFails, BotRewriteFails, BotAppendFails, BotHistoryFails,
       TypeOK
  <2>2. ~(BotUnlist \/ BotRewrite \/ BotAppend \/ BotDone)
    BY DEF BotUnlist, BotRewrite, BotAppend, BotDone, TypeOK, BotStates
  <2>3. ~BotHistory
    BY DEF BotHistory, LookedUpOnce, NotLookedUp
  <2>4. ASSUME BotNoFile
        PROVE  bot.cmd = "remove" /\ bot.route \notin exists
    BY <2>4 DEF BotNoFile, Target, TypeOK, BotStates
  <2>5. ASSUME NEW x \in Ips, BotMoveIn(x)
        PROVE  FALSE
    BY <2>5 DEF BotMoveIn, TypeOK, BotStates
  <2>6. ASSUME NEW x \in Ips, BotDelete(x)
        PROVE  BotDelete(i)
    BY <2>6 DEF BotDelete, TypeOK, BotStates
  <2> QED
    BY <1>3, <2>1, <2>2, <2>3, <2>4, <2>5, <2>6 DEF BotStep
<1>4. CASE \E c \in {"add", "remove"}, r \in Routes, p \in Patterns :
              Command(c, r, p)
  BY <1>4 DEF Command, LookedUpOnce, NotLookedUp
<1>5. ~Crash
  BY DEF Crash, TypeOK
<1> QED
  BY <1>1, <1>2, <1>3, <1>4, <1>5
     DEF Next, HandlerStep, Reload, ReloadFails, Request, Answer, NoAnswer,
         ProcessAnswer, ProcessExtra, Install, Reply, ReloadNL, ReloadUSA,
         ReloadSwap, Save

THEOREM NoneIsLeftBehind == Spec => NoneLeftBehind
<1> DEFINE Dealt(i) ==
       \/ faults' # faults
       \/ bot.cmd = "remove" /\ bot.route \notin exists
       \/ /\ i \notin ipset'[Target]
          /\ bot.cmd = "add"
             => (i \in ipset[bot.route] \/ Refused(bot.route, i))'
<1>1. ASSUME TypeOK, HalfMoved, LookedUpOnce, Next,
             NEW i \in bot.ips, i \notin bot'.ips
      PROVE  Dealt(i)
  <2>1. CASE faults' # faults
    BY <2>1
  <2>2. CASE bot.cmd = "remove" /\ bot.route \notin exists
    BY <2>2
  <2>3. CASE BotMoveOut /\ i = bot.ip
    <3>1. /\ bot.at = "del" /\ bot.cmd = "add" /\ bot.route \in Routes
          /\ bot'.route = bot.route
          /\ Target = OtherRoute(bot.route)
      BY <1>1, <2>3 DEF BotMoveOut, TypeOK, BotStates, Target
    <3>2. /\ Target \in Routes /\ Target # bot.route
      BY <3>1, OtherRouteType DEF OtherRoute, Routes
    <3>3. ipset' = [ipset EXCEPT ![Target] = @ \ {i}]
      BY <2>3, <3>1 DEF BotMoveOut, IpsetDel
    <3>4. i \notin ipset'[Target] /\ ipset'[bot.route] = ipset[bot.route]
      BY <1>1, <3>1, <3>2, <3>3 DEF TypeOK
    <3>5. i \in ipset[bot.route] \/ Refused(bot.route, i)
      BY <1>1, <2>3, <3>1 DEF HalfMoved
    <3> QED
      BY <3>1, <3>4, <3>5 DEF Refused, Full
  <2>4. CASE BotDelete(i)
    <3>1. /\ bot.cmd = "remove" /\ Target = bot.route
          /\ bot.route \in Routes
          /\ ipset' = [ipset EXCEPT ![bot.route] = @ \ {i}]
      BY <1>1, <2>4 DEF BotDelete, IpsetDel, Target, TypeOK, BotStates
    <3> QED
      BY <1>1, <3>1 DEF TypeOK
  <2> HIDE DEF Dealt
  <2> QED
    BY <1>1, <2>1, <2>2, <2>3, <2>4, DealtWith
<1>2. TypeOK /\ HalfMoved /\ LookedUpOnce /\ [Next]_vars
      => [\A i \in bot.ips \ bot'.ips : Dealt(i)]_vars
  BY <1>1
<1> QED
  BY <1>2, TypeCorrect, HalfMovedHolds, LookedUpOnceHolds, PTL
     DEF Spec, NoneLeftBehind

-----------------------------------------------------------------------------
(* Provenance.                                                             *)

(* Whatever is in a file, in a loaded list, or on its way from one to the  *)
(* other, has been listed for that route; whatever is in the history has   *)
(* been recorded.                                                          *)
ListsKnown ==
    /\ \A r \in Routes : file[r] \subseteq listed[r]
    /\ \A r \in Routes : loaded[r] \subseteq listed[r]
    /\ reloader.nl \subseteq listed["nl"]
    /\ reloader.usa \subseteq listed["usa"]
    /\ bot.at = "rewrite" => bot.lines \subseteq listed[Target]

HistoryKnown == ipMap \subseteq seen /\ mapJson \subseteq seen

\* A request is on a route, and an address about to be installed, because of
\* a listed pattern.
RequestKnown(h) ==
    /\ handler[h].at # "idle" /\ handler[h].route \in Routes
       => MatchesList(listed[handler[h].route], handler[h].name)
    /\ handler[h].at = "install" /\ handler[h].via \in Routes
       => BelongsTo(handler[h].ip, handler[h].via)

RequestsKnown == \A h \in Handlers : RequestKnown(h)

\* An add has listed its pattern before it looks up the history, and the
\* addresses it found there are the pattern's.
CommandKnown ==
    bot.cmd = "add" =>
       /\ bot.at = "history" => bot.pattern \in listed[bot.route]
       /\ bot.at \in {"loop", "del"} =>
             \A i \in bot.ips : BelongsTo(i, bot.route)

Known ==
    ListsKnown /\ HistoryKnown /\ RequestsKnown /\ CommandKnown /\ Provenance

(* What was ever listed or recorded stays so.                              *)
LEMMA NothingForgotten ==
    ASSUME TypeOK, [Next]_vars
    PROVE  /\ \A r \in Routes : listed[r] \subseteq listed'[r]
           /\ seen \subseteq seen'
<1>1. CASE UNCHANGED <<listed, seen>>
  BY <1>1
<1>2. ASSUME NEW h \in Handlers, ProcessAnswer(h) \/ ProcessExtra(h)
      PROVE  UNCHANGED listed /\ seen \subseteq seen'
  BY <1>2 DEF ProcessAnswer, ProcessExtra, AddDomainIPs
<1>3. CASE BotAppend
  BY <1>3 DEF BotAppend, TypeOK, BotStates
<1> QED
  BY <1>1, <1>2, <1>3
     DEF Next, HandlerStep, BotStep, Reload, ReloadFails, vars,
         Request, Answer, NoAnswer, Install, Reply,
         ReloadNL, ReloadUSA, ReloadSwap, Save, Command,
         BotUnlist, BotNoFile, BotUnlistFails, BotRewrite, BotRewriteFails,
         BotAppendFails, BotHistory, BotHistoryFails,
         BotMoveIn, BotMoveOut, BotDelete, BotDone, Crash

(* A reason for an address to be in a set stays one.                       *)
LEMMA BelongsStays ==
    ASSUME TypeOK, [Next]_vars, NEW r \in Routes, NEW i, BelongsTo(i, r)
    PROVE  BelongsTo(i, r)'
  BY NothingForgotten DEF BelongsTo, MatchesList

(* A file gains a pattern only as it is listed, and lists are read from    *)
(* the files.                                                              *)
LEMMA KnownLists ==
    ASSUME TypeOK, ListsKnown, [Next]_vars
    PROVE  ListsKnown'
<1> USE DEF ListsKnown
<1>1. ASSUME UNCHANGED <<file, loaded, reloader, listed, bot>>
      PROVE  ListsKnown'
  BY <1>1 DEF Target
<1>2. ASSUME UNCHANGED <<file, loaded, reloader, listed>>,
             bot'.at # "rewrite"
      PROVE  ListsKnown'
  BY <1>2
<1>3. ASSUME NEW h \in Handlers,
             (\E d \in Domains : Request(h, d)) \/ HandlerStep(h)
      PROVE  ListsKnown'
  BY <1>1, <1>3 DEF Request, HandlerStep, Answer, NoAnswer, ProcessAnswer,
                    ProcessExtra, Install, Reply
<1>4. CASE ReloadNL
  BY <1>4 DEF ReloadNL, Routes, Target, TypeOK, ReloaderStates
<1>5. CASE ReloadUSA
  BY <1>5 DEF ReloadUSA, Routes, Target, TypeOK, ReloaderStates
<1>6. CASE ReloadSwap
  BY <1>6 DEF ReloadSwap, Routes, Target
<1>7. CASE Save
  BY <1>1, <1>7 DEF Save
<1>8. ASSUME NEW c \in {"add", "remove"}, NEW r \in Routes,
             NEW p \in Patterns, Command(c, r, p)
      PROVE  ListsKnown'
  BY <1>2, <1>8 DEF Command, NoCommand
<1>9. CASE BotUnlist
  <2>1. /\ Target' = Target
        /\ Target \in Routes
        /\ bot'.lines = file[Target] \ {bot.pattern}
    BY <1>9, TargetType DEF BotUnlist, Target, TypeOK, BotStates
  <2> QED
    BY <1>9, <2>1 DEF BotUnlist, TypeOK
<1>10. CASE BotNoFile
  BY <1>2, <1>10 DEF BotNoFile, NoCommand, TypeOK, BotStates
<1>11. CASE BotUnlistFails
  BY <1>2, <1>11 DEF BotUnlistFails, NoCommand, TypeOK, BotStates
<1>12. CASE ReloadFails
  BY <1>12 DEF ReloadFails, ReloaderStates, Target, TypeOK
<1>13. CASE BotRewrite
  <2>1. bot'.at # "rewrite" /\ Target \in Routes
    BY <1>13, TargetType DEF BotRewrite, AfterRewrite, TypeOK, BotStates
  <2> QED
    BY <1>13, <2>1 DEF BotRewrite, TypeOK
<1>14. CASE BotRewriteFails
  BY <1>2, <1>14 DEF BotRewriteFails, NoCommand, TypeOK, BotStates
<1>15. CASE BotAppend
  <2>1. bot'.at # "rewrite" /\ bot.route \in Routes
    BY <1>15 DEF BotAppend, TypeOK, BotStates
  <2>2. \A r \in Routes : listed[r] \subseteq listed'[r]
    BY NothingForgotten
  <2>3. \A r \in Routes : file'[r] \subseteq listed'[r]
    BY <1>15, <2>1 DEF BotAppend, TypeOK
  <2> QED
    BY <1>15, <2>1, <2>2, <2>3 DEF BotAppend, Routes
<1>16. CASE BotAppendFails
  BY <1>2, <1>16 DEF BotAppendFails, NoCommand
<1>17. CASE BotHistory \/ BotHistoryFails \/ BotMoveOut \/ BotDone
  <2>1. UNCHANGED <<loaded, reloader, listed>>
    BY <1>17 DEF BotHistory, BotHistoryFails, BotMoveOut, BotDone
  <2> QED
    BY <1>2, <1>17, <2>1, NoFileStep
<1>18. ASSUME NEW i \in Ips, BotMoveIn(i) \/ BotDelete(i)
       PROVE  ListsKnown'
  BY <1>2, <1>18 DEF BotMoveIn, BotDelete, TypeOK, BotStates
<1>19. CASE Crash
  BY <1>19 DEF Crash, NoCommand
<1>20. CASE UNCHANGED vars
  BY <1>1, <1>20 DEF vars
<1> QED
  BY <1>3, <1>4, <1>5, <1>6, <1>7, <1>8, <1>9, <1>10, <1>13, <1>14, <1>15,
     <1>16, <1>17, <1>18, <1>19, <1>20, <1>11, <1>12
     DEF Next, BotStep, Reload

(* map.json is written from ipMap, and ipMap is loaded from it.            *)
LEMMA KnownHistory ==
    ASSUME HistoryKnown, [Next]_vars
    PROVE  HistoryKnown'
<1> USE DEF HistoryKnown
<1>1. CASE UNCHANGED <<ipMap, mapJson, seen>>
  BY <1>1
<1>2. ASSUME NEW h \in Handlers, ProcessAnswer(h) \/ ProcessExtra(h)
      PROVE  HistoryKnown'
  BY <1>2 DEF ProcessAnswer, ProcessExtra, AddDomainIPs
<1>3. CASE Save
  BY <1>3 DEF Save, History!Tear, History!Publish
<1>4. CASE Crash
  BY <1>4 DEF Crash, History!Restart, History!Readable
<1> QED
  BY <1>1, <1>2, <1>3, <1>4
     DEF Next, HandlerStep, BotStep, Reload, ReloadFails, vars,
         Request, Answer, NoAnswer, Install, Reply,
         ReloadNL, ReloadUSA, ReloadSwap, Command,
         BotUnlist, BotNoFile, BotUnlistFails, BotRewrite, BotRewriteFails,
         BotAppend, BotAppendFails, BotHistory, BotHistoryFails,
         BotMoveIn, BotMoveOut, BotDelete, BotDone

(* matchesPattern answers with a route only for a listed pattern of it.    *)
LEMMA MatchReason ==
    ASSUME ListsKnown, NEW d, matchesPattern(d) \in Routes
    PROVE  MatchesList(listed[matchesPattern(d)], d)
  BY DEF ListsKnown, matchesPattern, MatchesList, Routes

(* A request is stepped by its own handler only, or dropped by a crash.    *)
LEMMA OwnStep ==
    ASSUME TypeOK, [Next]_vars, NEW g \in Handlers
    PROVE  \/ handler'[g] = handler[g]
           \/ \E d \in Domains : Request(g, d)
           \/ HandlerStep(g)
           \/ Crash
<1>1. ASSUME NEW h \in Handlers, h # g,
             (\E d \in Domains : Request(h, d)) \/ HandlerStep(h)
      PROVE  handler'[g] = handler[g]
  BY <1>1 DEF Request, HandlerStep, Answer, NoAnswer, ProcessAnswer,
              ProcessExtra, Install, Reply, TypeOK
<1> QED
  BY <1>1
     DEF Next, BotStep, Reload, ReloadFails, vars, Save, Command,
         ReloadNL, ReloadUSA, ReloadSwap,
         BotUnlist, BotNoFile, BotUnlistFails, BotRewrite, BotRewriteFails,
         BotAppend, BotAppendFails, BotHistory, BotHistoryFails,
         BotMoveIn, BotMoveOut, BotDelete, BotDone

(* A request is routed, and an address is about to be installed, only for  *)
(* a listed pattern.                                                       *)
LEMMA KnownRequests ==
    ASSUME TypeOK, ListsKnown, RequestsKnown, [Next]_vars
    PROVE  RequestsKnown'
<1> SUFFICES ASSUME NEW g \in Handlers
             PROVE  RequestKnown(g)'
  BY DEF RequestsKnown
<1> RequestKnown(g)
  BY DEF RequestsKnown
<1>1. ASSUME handler'[g] = handler[g]
      PROVE  RequestKnown(g)'
  BY <1>1, NothingForgotten DEF RequestKnown, BelongsTo, MatchesList
<1>2. ASSUME handler'[g].at = "idle"
      PROVE  RequestKnown(g)'
  BY <1>2 DEF RequestKnown
<1>3. ASSUME NEW s, handler' = [handler EXCEPT ![g] = s],
             s.name = handler[g].name, s.route = handler[g].route,
             handler[g].at # "idle", s.at # "install"
      PROVE  RequestKnown(g)'
  BY <1>3, NothingForgotten DEF RequestKnown, MatchesList, TypeOK
<1>4. ASSUME NEW d \in Domains, Request(g, d)
      PROVE  RequestKnown(g)'
  <2>1. /\ handler'[g].at = "forward"
        /\ handler'[g].name = d
        /\ handler'[g].route = matchesPattern(d)
    BY <1>4 DEF Request, NoRequest, TypeOK
  <2>2. UNCHANGED listed
    BY <1>4 DEF Request
  <2> QED
    BY <2>1, <2>2, MatchReason DEF RequestKnown, MatchesList
<1>5. ASSUME Answer(g)
      PROVE  RequestKnown(g)'
  <2>1. PICK m \in Responses[handler[g].name] :
           handler' = [handler EXCEPT ![g] =
                         [@ EXCEPT !.at = "process",
                                   !.resp = m.answer,
                                   !.answer = m.answer,
                                   !.extra = m.extra]]
    BY <1>5 DEF Answer
  <2> DEFINE s == [handler[g] EXCEPT !.at = "process",
                                    !.resp = m.answer,
                                    !.answer = m.answer,
                                    !.extra = m.extra]
  <2>2. /\ s.name = handler[g].name
        /\ s.route = handler[g].route
        /\ s.at = "process"
    BY DEF TypeOK, HandlerStates
  <2>3. handler' = [handler EXCEPT ![g] = s]
    BY <2>1
  <2> HIDE DEF s
  <2> QED
    BY <1>3, <1>5, <2>2, <2>3 DEF Answer
<1>6. ASSUME ProcessAnswer(g)
      PROVE  RequestKnown(g)'
  <2>1. PICK rr \in handler[g].answer :
           /\ AddDomainIPs({<<handler[g].name, rr[2]>>, rr})
           /\ handler' = [handler EXCEPT ![g] =
                            [@ EXCEPT !.at = "install",
                                      !.answer = handler[g].answer \ {rr},
                                      !.ip = rr[2],
                                      !.via = handler[g].route]]
    BY <1>6 DEF ProcessAnswer
  <2>2. /\ handler[g].at # "idle"
        /\ handler[g].name \in Domains
        /\ UNCHANGED listed
    BY <1>6 DEF ProcessAnswer, TypeOK
  <2>3. /\ handler'[g].name = handler[g].name
        /\ handler'[g].route = handler[g].route
        /\ handler'[g].ip = rr[2]
        /\ handler'[g].via = handler[g].route
    BY <2>1 DEF TypeOK, HandlerStates
  <2>4. <<handler[g].name, rr[2]>> \in seen'
    BY <2>1 DEF AddDomainIPs
  <2>5. handler[g].route \in Routes
        => MatchesList(listed[handler[g].route], handler[g].name)
    BY <2>2 DEF RequestKnown
  <2> QED
    BY <2>2, <2>3, <2>4, <2>5 DEF RequestKnown, BelongsTo, MatchesList
<1>7. ASSUME ProcessExtra(g)
      PROVE  RequestKnown(g)'
  <2>1. PICK rr \in handler[g].extra :
           /\ AddDomainIPs({rr})
           /\ handler' = [handler EXCEPT ![g] =
                            [@ EXCEPT !.at = "install",
                                      !.extra = handler[g].extra \ {rr},
                                      !.ip = rr[2],
                                      !.via = matchesPattern(rr[1])]]
    BY <1>7 DEF ProcessExtra
  <2>2. /\ handler[g].at # "idle"
        /\ UNCHANGED listed
    BY <1>7 DEF ProcessExtra
  <2>3. /\ handler'[g].name = handler[g].name
        /\ handler'[g].route = handler[g].route
        /\ handler'[g].ip = rr[2]
        /\ handler'[g].via = matchesPattern(rr[1])
    BY <2>1 DEF TypeOK, HandlerStates
  <2>4. rr[1] \in Domains /\ rr = <<rr[1], rr[2]>>
    BY <2>1 DEF TypeOK, HandlerStates, Entries
  <2>5. <<rr[1], rr[2]>> \in seen'
    BY <2>1, <2>4 DEF AddDomainIPs
  <2>6. matchesPattern(rr[1]) \in Routes
        => MatchesList(listed[matchesPattern(rr[1])], rr[1])
    BY MatchReason
  <2>7. handler[g].route \in Routes
        => MatchesList(listed[handler[g].route], handler[g].name)
    BY <2>2 DEF RequestKnown
  <2> QED
    BY <2>2, <2>3, <2>4, <2>5, <2>6, <2>7
       DEF RequestKnown, BelongsTo, MatchesList
<1>8. ASSUME Install(g)
      PROVE  RequestKnown(g)'
  <2> DEFINE s == [handler[g] EXCEPT !.at = "process",
                                    !.ip = None,
                                    !.via = "ru"]
  <2>1. /\ s.name = handler[g].name
        /\ s.route = handler[g].route
        /\ s.at = "process"
    BY DEF TypeOK, HandlerStates
  <2>2. handler' = [handler EXCEPT ![g] = s]
    BY <1>8 DEF Install
  <2> HIDE DEF s
  <2> QED
    BY <1>3, <1>8, <2>1, <2>2 DEF Install
<1>9. ASSUME NoAnswer(g) \/ Reply(g)
       PROVE  RequestKnown(g)'
  BY <1>2, <1>9 DEF NoAnswer, Reply, NoRequest, TypeOK
<1>10. CASE Crash
  BY <1>2, <1>10 DEF Crash, NoRequest
<1> QED
  BY <1>1, <1>4, <1>5, <1>6, <1>7, <1>8, <1>9, <1>10, OwnStep
     DEF HandlerStep

(* The addresses an add moves come from names its pattern covers.          *)
LEMMA KnownCommand ==
    ASSUME TypeOK, HistoryKnown, CommandKnown, [Next]_vars
    PROVE  CommandKnown'
<1>1. CASE UNCHANGED bot
  BY <1>1, NothingForgotten
     DEF CommandKnown, BelongsTo, MatchesList, TypeOK, BotStates
<1>2. ASSUME bot'.at \notin {"history", "loop", "del"}
      PROVE  CommandKnown'
  BY <1>2 DEF CommandKnown
<1>3. ASSUME bot'.cmd # "add"
      PROVE  CommandKnown'
  BY <1>3 DEF CommandKnown
<1>4. ASSUME bot.cmd = "add", bot.at \in {"loop", "del"},
             bot'.at \in {"loop", "del"},
             bot'.route = bot.route, bot'.ips \subseteq bot.ips
      PROVE  CommandKnown'
  BY <1>4, NothingForgotten
     DEF CommandKnown, BelongsTo, MatchesList, TypeOK, BotStates
<1>5. ASSUME NEW c \in {"add", "remove"}, NEW r \in Routes,
             NEW p \in Patterns, Command(c, r, p)
      PROVE  CommandKnown'
  BY <1>5 DEF Command, NoCommand, CommandKnown
<1>6. CASE BotUnlist
  BY <1>2, <1>6 DEF BotUnlist, TypeOK, BotStates
<1>7. CASE BotNoFile
  BY <1>2, <1>7 DEF BotNoFile, NoCommand, TypeOK, BotStates
<1>8. CASE BotRewrite
  <2>1. bot'.at = AfterRewrite /\ bot'.cmd = bot.cmd
    BY <1>8 DEF BotRewrite, TypeOK, BotStates
  <2> QED
    BY <1>2, <1>3, <2>1 DEF AfterRewrite
<1>9. CASE BotRewriteFails
  BY <1>2, <1>9 DEF BotRewriteFails, NoCommand, TypeOK, BotStates
<1>10. CASE BotAppend
  BY <1>10 DEF BotAppend, CommandKnown, TypeOK, BotStates
<1>11. CASE BotAppendFails
  BY <1>2, <1>11 DEF BotAppendFails, NoCommand
<1>12. CASE BotHistory
  <2>1. CASE bot.cmd = "add"
    <3>1. /\ bot'.at = "loop"
          /\ bot'.ips = HistoricalIPs(bot.pattern)
          /\ bot'.route = bot.route
          /\ bot.pattern \in listed[bot.route]
          /\ UNCHANGED <<listed, seen>>
      BY <1>12, <2>1 DEF BotHistory, CommandKnown, TypeOK, BotStates
    <3>2. ASSUME NEW i \in HistoricalIPs(bot.pattern)
          PROVE  BelongsTo(i, bot.route)
      <4>1. PICK d \in Domains : /\ <<d, i>> \in History!Readable
                                 /\ <<bot.pattern, d>> \in Mentions
        BY DEF HistoricalIPs
      <4>2. <<d, i>> \in seen
        BY <4>1 DEF History!Readable, HistoryKnown
      <4>3. <<bot.pattern, d>> \in Matches
        BY <4>1, MentionsAssumption
      <4> QED
        BY <3>1, <4>2, <4>3 DEF BelongsTo, MatchesList
    <3> QED
      BY <3>1, <3>2 DEF CommandKnown, BelongsTo, MatchesList
  <2>2. CASE bot.cmd # "add"
    <3>1. bot'.cmd # "add"
      BY <1>12, <2>2 DEF BotHistory, TypeOK, BotStates
    <3> QED
      BY <1>3, <3>1
  <2> QED
    BY <2>1, <2>2
<1>13. CASE BotHistoryFails
  <2>1. bot'.cmd = bot.cmd /\ bot'.ips = {} /\ bot'.at \in {"loop", "unlist"}
    BY <1>13 DEF BotHistoryFails, TypeOK, BotStates
  <2> QED
    BY <2>1 DEF CommandKnown
<1>14. CASE BotUnlistFails
  BY <1>2, <1>14 DEF BotUnlistFails, NoCommand, TypeOK, BotStates
<1>15. ASSUME NEW i \in Ips, BotMoveIn(i)
       PROVE  CommandKnown'
  BY <1>4, <1>15 DEF BotMoveIn, TypeOK, BotStates
<1>16. CASE BotMoveOut
  BY <1>4, <1>16 DEF BotMoveOut, TypeOK, BotStates
<1>17. ASSUME NEW i \in Ips, BotDelete(i)
       PROVE  CommandKnown'
  BY <1>3, <1>17 DEF BotDelete, TypeOK, BotStates
<1>18. CASE BotDone \/ Crash
  BY <1>2, <1>18 DEF BotDone, Crash, NoCommand
<1>19. ASSUME NEW h \in Handlers,
              (\E d \in Domains : Request(h, d)) \/ HandlerStep(h)
       PROVE  UNCHANGED bot
  BY <1>19 DEF Request, HandlerStep, Answer, NoAnswer, ProcessAnswer,
               ProcessExtra, Install, Reply
<1>20. CASE Reload \/ ReloadFails \/ Save \/ UNCHANGED vars
  BY <1>1, <1>20 DEF Reload, ReloadNL, ReloadUSA, ReloadSwap, ReloadFails,
                     Save, vars
<1> QED
  BY <1>1, <1>5, <1>6, <1>7, <1>8, <1>9, <1>10, <1>11, <1>12, <1>15, <1>16,
     <1>17, <1>18, <1>19, <1>20, <1>13, <1>14 DEF Next, BotStep

(* The sets of the kernel gain an address only for such a reason.          *)
LEMMA KnownSets ==
    ASSUME TypeOK, RequestsKnown, CommandKnown, Provenance, [Next]_vars
    PROVE  Provenance'
<1>1. CASE UNCHANGED ipset
  BY <1>1, BelongsStays DEF Provenance
<1>2. ASSUME NEW q \in Routes, NEW x \in Ips, IpsetAdd(q, x), BelongsTo(x, q)
      PROVE  Provenance'
  <2>1. \A r \in Routes : ipset'[r] \subseteq ipset[r] \cup {y \in {x} : r = q}
    BY <1>2 DEF IpsetAdd, TypeOK
  <2> QED
    BY <1>2, <2>1, BelongsStays DEF Provenance
<1>3. ASSUME NEW q \in Routes, NEW x, IpsetDel(q, x)
      PROVE  Provenance'
  <2>1. \A r \in Routes : ipset'[r] \subseteq ipset[r]
    BY <1>3 DEF IpsetDel, TypeOK
  <2> QED
    BY <2>1, BelongsStays DEF Provenance
<1>4. ASSUME NEW h \in Handlers, Install(h)
      PROVE  Provenance'
  <2>1. CASE handler[h].via \in Routes
    <3>1. /\ handler[h].ip \in Ips
          /\ IpsetAdd(handler[h].via, handler[h].ip)
          /\ BelongsTo(handler[h].ip, handler[h].via)
      BY <1>4, <2>1 DEF Install, RequestsKnown, RequestKnown, TypeOK
    <3> QED
      BY <1>2, <2>1, <3>1
  <2>2. CASE handler[h].via \notin Routes
    BY <1>1, <1>4, <2>2 DEF Install
  <2> QED
    BY <2>1, <2>2
<1>5. ASSUME NEW i \in Ips, BotMoveIn(i)
      PROVE  Provenance'
  <2>1. /\ bot.route \in Routes
        /\ IpsetAdd(bot.route, i)
        /\ BelongsTo(i, bot.route)
    BY <1>5 DEF BotMoveIn, CommandKnown, TypeOK, BotStates
  <2> QED
    BY <1>2, <2>1
<1>6. CASE BotMoveOut
  BY <1>3, <1>6, OtherRouteType DEF BotMoveOut, TypeOK, BotStates
<1>7. ASSUME NEW i \in Ips, BotDelete(i)
      PROVE  Provenance'
  BY <1>3, <1>7 DEF BotDelete, TypeOK, BotStates
<1> QED
  BY <1>1, <1>4, <1>5, <1>6, <1>7
     DEF Next, HandlerStep, BotStep, Reload, ReloadFails, vars,
         Request, Answer, NoAnswer, ProcessAnswer, ProcessExtra, Reply,
         ReloadNL, ReloadUSA, ReloadSwap, Save, Command, BotUnlist,
         BotNoFile, BotUnlistFails, BotRewrite, BotRewriteFails, BotAppend,
         BotAppendFails, BotHistory, BotHistoryFails, BotDone, Crash

(* An address is in the set of a route only if it answered a name that a   *)
(* pattern once in that route's file covers.                               *)
THEOREM ProvenanceHolds == Spec => []Provenance
<1>1. Init => Known
  BY DEF Init, Known, ListsKnown, HistoryKnown, RequestsKnown, RequestKnown,
         CommandKnown, Provenance, NoRequest, NoCommand, Routes
<1>2. TypeOK /\ Known /\ [Next]_vars => Known'
  BY KnownLists, KnownHistory, KnownRequests, KnownCommand, KnownSets
     DEF Known
<1>3. Known => Provenance
  BY DEF Known
<1> QED
  BY <1>1, <1>2, <1>3, TypeCorrect, PTL DEF Spec

-----------------------------------------------------------------------------
(* Installed before the reply.                                             *)

(* The address is in the set, or the set refused it, or the bot deleted it.*)
Settled(r, i) == i \in ipset[r] \/ <<r, i>> \in excused

(* What a request has taken off its list of answers is settled, or is the  *)
(* address that it is about to install.                                    *)
RequestSettled(h) ==
    handler[h].at \in {"process", "install"} /\ handler[h].route \in Routes
    => \A rr \in handler[h].resp :
          \/ rr \in handler[h].answer
          \/ Settled(handler[h].route, rr[2])
          \/ /\ handler[h].at = "install"
             /\ handler[h].ip = rr[2]
             /\ handler[h].via = handler[h].route

RequestsSettled == \A h \in Handlers : RequestSettled(h)

(* What is settled stays so: only the bot deletes, and is then the excuse. *)
LEMMA SettledStays ==
    ASSUME TypeOK, [Next]_vars, NEW r \in Routes, NEW i, Settled(r, i)
    PROVE  Settled(r, i)'
<1>1. ASSUME UNCHANGED setsVars
      PROVE  Settled(r, i)'
  BY <1>1 DEF Settled, setsVars
<1>2. ASSUME NEW q \in Routes, NEW x, IpsetAdd(q, x)
      PROVE  Settled(r, i)'
  BY <1>2 DEF IpsetAdd, Settled, TypeOK
<1>3. ASSUME NEW q \in Routes, NEW x, IpsetDel(q, x)
      PROVE  Settled(r, i)'
  BY <1>3 DEF IpsetDel, Settled, TypeOK
<1>4. ASSUME NEW h \in Handlers, Install(h)
      PROVE  Settled(r, i)'
  BY <1>1, <1>2, <1>4 DEF Install
<1>5. ASSUME NEW x \in Ips, BotMoveIn(x) \/ BotDelete(x)
      PROVE  Settled(r, i)'
  BY <1>2, <1>3, <1>5 DEF BotMoveIn, BotDelete, TypeOK, BotStates
<1>6. CASE BotMoveOut
  BY <1>3, <1>6, OtherRouteType DEF BotMoveOut, TypeOK, BotStates
<1> QED
  BY <1>1, <1>4, <1>5, <1>6
     DEF Next, HandlerStep, BotStep, Reload, ReloadFails, vars, setsVars,
         Request, Answer, NoAnswer, ProcessAnswer, ProcessExtra, Reply,
         ReloadNL, ReloadUSA, ReloadSwap, Save, Command, BotUnlist,
         BotNoFile, BotUnlistFails, BotRewrite, BotRewriteFails, BotAppend,
         BotAppendFails, BotHistory, BotHistoryFails, BotDone, Crash

(* What a request has processed is settled, whatever the others do.        *)
LEMMA SettledRequests == Spec => []RequestsSettled
<1>1. Init => RequestsSettled
  BY DEF Init, RequestsSettled, RequestSettled, NoRequest
<1>2. TypeOK /\ RequestsSettled /\ [Next]_vars => RequestsSettled'
  <2> SUFFICES ASSUME TypeOK, RequestsSettled, [Next]_vars,
                      NEW g \in Handlers
               PROVE  RequestSettled(g)'
    BY DEF RequestsSettled
  <2>1. RequestSettled(g)
    BY DEF RequestsSettled
  <2>2. ASSUME handler'[g] = handler[g]
        PROVE  RequestSettled(g)'
    BY <2>1, <2>2, SettledStays DEF RequestSettled
  <2>3. ASSUME handler'[g].at \notin {"process", "install"}
        PROVE  RequestSettled(g)'
    BY <2>3 DEF RequestSettled
  <2>4. CASE \/ \E d \in Domains : Request(g, d)
             \/ NoAnswer(g) \/ Reply(g) \/ Crash
    <3>1. ASSUME NEW d \in Domains, Request(g, d)
          PROVE  handler'[g].at = "forward"
      BY <3>1 DEF Request, NoRequest, TypeOK
    <3> QED
      BY <2>3, <2>4, <3>1 DEF NoAnswer, Reply, Crash, NoRequest, TypeOK
  <2>5. CASE Answer(g)
    <3>1. PICK m \in Responses[handler[g].name] :
             handler' = [handler EXCEPT ![g] =
                           [@ EXCEPT !.at = "process",
                                     !.resp = m.answer,
                                     !.answer = m.answer,
                                     !.extra = m.extra]]
      BY <2>5 DEF Answer
    <3>2. handler'[g].resp = handler'[g].answer
      BY <3>1 DEF TypeOK, HandlerStates
    <3> QED
      BY <3>2 DEF RequestSettled
  <2>6. CASE ProcessAnswer(g)
    <3>1. PICK rr \in handler[g].answer :
             handler' = [handler EXCEPT ![g] =
                           [@ EXCEPT !.at = "install",
                                     !.answer = handler[g].answer \ {rr},
                                     !.ip = rr[2],
                                     !.via = handler[g].route]]
      BY <2>6 DEF ProcessAnswer
    <3>2. /\ handler[g].at = "process"
          /\ handler'[g].at = "install"
          /\ handler'[g].route = handler[g].route
          /\ handler'[g].resp = handler[g].resp
          /\ handler'[g].answer = handler[g].answer \ {rr}
          /\ handler'[g].ip = rr[2]
          /\ handler'[g].via = handler[g].route
      BY <2>6, <3>1 DEF ProcessAnswer, TypeOK, HandlerStates
    <3> QED
      BY <2>1, <3>2, SettledStays DEF RequestSettled
  <2>7. CASE ProcessExtra(g)
    <3>1. PICK rr \in handler[g].extra :
             handler' = [handler EXCEPT ![g] =
                           [@ EXCEPT !.at = "install",
                                     !.extra = handler[g].extra \ {rr},
                                     !.ip = rr[2],
                                     !.via = matchesPattern(rr[1])]]
      BY <2>7 DEF ProcessExtra
    <3>2. /\ handler[g].at = "process"
          /\ handler'[g].route = handler[g].route
          /\ handler'[g].resp = handler[g].resp
          /\ handler'[g].answer = handler[g].answer
      BY <2>7, <3>1 DEF ProcessExtra, TypeOK, HandlerStates
    <3> QED
      BY <2>1, <3>2, SettledStays DEF RequestSettled
  <2>8. CASE Install(g)
    <3>1. /\ handler[g].at = "install"
          /\ handler'[g].at = "process"
          /\ handler'[g].route = handler[g].route
          /\ handler'[g].resp = handler[g].resp
          /\ handler'[g].answer = handler[g].answer
      BY <2>8 DEF Install, TypeOK, HandlerStates
    <3>2. ASSUME NEW r \in Routes, NEW i,
                 handler[g].via = r, handler[g].ip = i
          PROVE  Settled(r, i)'
      BY <2>8, <3>2 DEF Install, IpsetAdd, Settled, TypeOK
    <3> QED
      BY <2>1, <3>1, <3>2, SettledStays DEF RequestSettled
  <2> QED
    BY <2>2, <2>4, <2>5, <2>6, <2>7, <2>8, OwnStep DEF HandlerStep
<1> QED
  BY <1>1, <1>2, TypeCorrect, PTL DEF Spec

(* When the client gets the response of a tunnelled request, its addresses *)
(* are in the route's set, unless the kernel refused or the bot deleted    *)
(* them.                                                                   *)
THEOREM RoutedBeforeKnown == Spec => InstalledBeforeReply
<1> DEFINE Routed ==
       \A h \in Handlers :
          /\ handler[h].at = "process"
          /\ handler'[h].at = "idle"
          /\ faults' = faults
          /\ handler[h].route \in Routes
          => \A rr \in handler[h].resp :
                \/ rr[2] \in ipset[handler[h].route]
                \/ <<handler[h].route, rr[2]>> \in excused
<1>1. TypeOK /\ RequestsSettled /\ [Next]_vars => [Routed]_vars
  <2> SUFFICES ASSUME TypeOK, RequestsSettled, Next, NEW h \in Handlers,
                      handler[h].at = "process",
                      handler'[h].at = "idle",
                      faults' = faults,
                      handler[h].route \in Routes,
                      NEW rr \in handler[h].resp
               PROVE  Settled(handler[h].route, rr[2])
    BY DEF Settled
  <2>1. ~Crash
    BY DEF Crash, TypeOK
  <2>2. ~(\E d \in Domains : Request(h, d))
    BY DEF Request
  <2>3. Reply(h)
    <3>1. ASSUME ProcessAnswer(h) \/ ProcessExtra(h)
          PROVE  handler'[h].at = "install"
      BY <3>1 DEF ProcessAnswer, ProcessExtra, TypeOK, HandlerStates
    <3> QED
      BY <2>1, <2>2, <3>1, OwnStep
         DEF HandlerStep, Answer, NoAnswer, Install
  <2> QED
    BY <2>3 DEF Reply, RequestsSettled, RequestSettled
<1> QED
  BY <1>1, TypeCorrect, SettledRequests, PTL DEF Spec, InstalledBeforeReply

-----------------------------------------------------------------------------
(* What the rest of the system relies on.                                  *)

(* Only four actions touch the sets of the kernel, each of them one        *)
(* address of one set.                                                     *)
LEMMA SetsStep ==
    ASSUME TypeOK, [Next]_vars
    PROVE  \/ UNCHANGED ipset
           \/ \E r \in Routes, i \in Ips : IpsetAdd(r, i) \/ IpsetDel(r, i)
<1>1. ASSUME NEW h \in Handlers, Install(h)
      PROVE  \/ UNCHANGED ipset
             \/ \E r \in Routes, i \in Ips : IpsetAdd(r, i)
  BY <1>1 DEF Install, TypeOK, setsVars
<1>2. ASSUME NEW i \in Ips, BotMoveIn(i)
      PROVE  \E r \in Routes : IpsetAdd(r, i)
  BY <1>2 DEF BotMoveIn, TypeOK, BotStates
<1>3. ASSUME BotMoveOut
      PROVE  \E r \in Routes, i \in Ips : IpsetDel(r, i)
  BY <1>3, OtherRouteType DEF BotMoveOut, TypeOK, BotStates
<1>4. ASSUME NEW i \in Ips, BotDelete(i)
      PROVE  \E r \in Routes : IpsetDel(r, i)
  BY <1>4 DEF BotDelete, TypeOK, BotStates
<1> QED
  BY <1>1, <1>2, <1>3, <1>4
     DEF Next, HandlerStep, BotStep, Reload, ReloadFails, vars, setsVars,
         Request, Answer, NoAnswer, ProcessAnswer, ProcessExtra, Reply,
         ReloadNL, ReloadUSA, ReloadSwap, Save, Command, BotUnlist,
         BotNoFile, BotUnlistFails, BotRewrite, BotRewriteFails, BotAppend,
         BotAppendFails, BotHistory, BotHistoryFails, BotDone, Crash

(* Handlers, commands and crashes implement KernelSets: whoever only reads *)
(* the sets sees one address of one set change at a time                   *)
(* (main.go:487-514, bot.go:834-841).  MikrotikSync, MarkPipeline and      *)
(* BotDisplay take their environment from KernelSets.                      *)
THEOREM SetsRefined == Spec => SetsOneByOne
<1>1. Init => Kernel!Init
  BY DEF Init, Kernel!Init, Routes
<1>2. TypeOK /\ [Next]_vars => [Kernel!Next]_<<ipset["nl"], ipset["usa"]>>
  <2> SUFFICES ASSUME TypeOK, [Next]_vars
               PROVE  \/ Kernel!Next
                      \/ UNCHANGED <<ipset["nl"], ipset["usa"]>>
    OBVIOUS
  <2>1. CASE UNCHANGED ipset
    BY <2>1
  <2>2. ASSUME NEW r \in Routes, NEW i \in Ips, IpsetAdd(r, i)
        PROVE  Kernel!Change(i)
    <3>1. \/ UNCHANGED ipset /\ i \notin ipset[r]
          \/ ipset' = [ipset EXCEPT ![r] = @ \cup {i}]
      BY <2>2 DEF IpsetAdd, Refused
    <3>2. r = "nl" \/ r = "usa"
      BY DEF Routes
    <3> QED
      BY <3>1, <3>2 DEF Kernel!Change, Kernel!Add, Kernel!Delete, TypeOK,
                        Routes
  <2>3. ASSUME NEW r \in Routes, NEW i \in Ips, IpsetDel(r, i)
        PROVE  Kernel!Change(i)
    BY <2>3 DEF IpsetDel, Kernel!Change, Kernel!Delete, TypeOK, Routes
  <2> QED
    BY <2>1, <2>2, <2>3, SetsStep DEF Kernel!Next
<1> QED
  BY <1>1, <1>2, TypeCorrect, PTL DEF Spec, SetsOneByOne, Kernel!Spec

(* The history in memory and the file implement HistoryStore, also as the  *)
(* handlers record in it and a restart loads it (main.go:232-312): with    *)
(* MapJsonKeepsPromise the saver may be seen from here as HistoryStore.    *)
THEOREM HistoryRefined == Spec => HistoryKept
<1> USE DEF History!storeVars
<1>1. Init => History!Init
  BY DEF Init, History!Init
<1>2. TypeOK /\ [Next]_vars => [History!Next]_(History!storeVars)
  <2> SUFFICES ASSUME TypeOK, [Next]_vars
               PROVE  History!Next \/ UNCHANGED History!storeVars
    OBVIOUS
  <2>1. CASE UNCHANGED <<ipMap, mapJson, jsonTorn, saved>>
    BY <2>1
  <2>2. ASSUME NEW es \in SUBSET Entries, AddDomainIPs(es)
        PROVE  History!Next
    BY <2>2 DEF AddDomainIPs, History!Next, History!Record
  <2>3. ASSUME NEW h \in Handlers, ProcessAnswer(h)
        PROVE  History!Next
    <3>1. PICK rr \in handler[h].answer :
             AddDomainIPs({<<handler[h].name, rr[2]>>, rr})
      BY <2>3 DEF ProcessAnswer
    <3>2. handler[h].name \in Domains /\ rr \in Entries
      BY <2>3 DEF ProcessAnswer, TypeOK, HandlerStates
    <3>3. {<<handler[h].name, rr[2]>>, rr} \in SUBSET Entries
      BY <3>2 DEF Entries
    <3> QED
      BY <2>2, <3>1, <3>3
  <2>4. ASSUME NEW h \in Handlers, ProcessExtra(h)
        PROVE  History!Next
    <3>1. PICK rr \in handler[h].extra : AddDomainIPs({rr})
      BY <2>4 DEF ProcessExtra
    <3>2. {rr} \in SUBSET Entries
      BY <3>1 DEF TypeOK, HandlerStates
    <3> QED
      BY <2>2, <3>1, <3>2
  <2>5. CASE Save \/ Crash
    BY <2>5 DEF Save, Crash, History!Next
  <2> QED
    BY <2>1, <2>3, <2>4, <2>5
       DEF Next, HandlerStep, BotStep, Reload, ReloadFails, vars,
           historyVars, Request, Answer, NoAnswer, Install, Reply,
           ReloadNL, ReloadUSA, ReloadSwap, Command, BotUnlist,
           BotNoFile, BotUnlistFails, BotRewrite, BotRewriteFails,
           BotAppend, BotAppendFails, BotHistory, BotHistoryFails,
           BotMoveIn, BotMoveOut, BotDelete, BotDone
<1> QED
  BY <1>1, <1>2, TypeCorrect, PTL DEF Spec, HistoryKept, History!Spec

-----------------------------------------------------------------------------
(* The safety half of ListsConverge.                                       *)

(* What the reload under way has read is what the files hold.              *)
Coherent ==
    /\ reloader.at # "sleep" => reloader.nl = file["nl"]
    /\ reloader.at = "swap" => reloader.usa = file["usa"]

(* While nobody changes the files, a reload that began after the last      *)
(* change reads both files as they are, ends with the lists of the files,  *)
(* and no later one disturbs them (main.go:150-168).  A reload that sleeps *)
(* is coherent, so the next one always is.                                 *)
ReloadSettles ==
    [][Coherent /\ UNCHANGED <<file, faults>>
       => /\ Coherent'
          /\ reloader.at = "swap" /\ reloader'.at = "sleep"
             => loaded' = file
          /\ loaded = file => loaded' = file]_vars

(* Besides the reload loop only failures and crashes touch what it reads   *)
(* and what it loads.                                                      *)
LEMMA ReloadStep ==
    ASSUME TypeOK, [Next]_vars, faults' = faults
    PROVE  \/ UNCHANGED <<loaded, reloader>>
           \/ ReloadNL \/ ReloadUSA \/ ReloadSwap
<1>1. ~ReloadFails /\ ~Crash
  BY DEF ReloadFails, Crash, TypeOK
<1> QED
  BY <1>1 DEF Next, HandlerStep, BotStep, Reload, vars, loadVars, Request,
     Answer, NoAnswer, ProcessAnswer, ProcessExtra, Install, Reply, Save,
     Command, BotUnlist, BotNoFile, BotUnlistFails, BotRewrite,
     BotRewriteFails, BotAppend, BotAppendFails, BotHistory,
     BotHistoryFails, BotMoveIn, BotMoveOut, BotDelete, BotDone

THEOREM ReloadsSettle == Spec => ReloadSettles
<1>1. ASSUME TypeOK, [Next]_vars, Coherent, UNCHANGED <<file, faults>>
      PROVE  /\ Coherent'
             /\ reloader.at = "swap" /\ reloader'.at = "sleep"
                => loaded' = file
             /\ loaded = file => loaded' = file
  <2>1. CASE UNCHANGED <<loaded, reloader>>
    BY <1>1, <2>1 DEF Coherent
  <2>2. CASE ReloadNL \/ ReloadUSA
    BY <1>1, <2>2 DEF ReloadNL, ReloadUSA, Coherent, TypeOK, ReloaderStates
  <2>3. CASE ReloadSwap
    <3>1. loaded' = file
      BY <1>1, <2>3 DEF ReloadSwap, Coherent, TypeOK, Routes
    <3> QED
      BY <2>3, <3>1 DEF ReloadSwap, Coherent
  <2> QED
    BY <1>1, <2>1, <2>2, <2>3, ReloadStep
<1>2. TypeOK /\ [Next]_vars
      => [Coherent /\ UNCHANGED <<file, faults>>
          => /\ Coherent'
             /\ reloader.at = "swap" /\ reloader'.at = "sleep"
                => loaded' = file
             /\ loaded = file => loaded' = file]_vars
  BY <1>1
<1> QED
  BY <1>2, TypeCorrect, PTL DEF Spec, ReloadSettles

=============================================================================
