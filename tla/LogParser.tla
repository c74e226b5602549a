------------------------------ MODULE LogParser ------------------------------
(* The reading of the service's log (src/log_parser/log_parser.go).        *)
(*                                                                         *)
(* log_parser rebuilds a history (domain, ip) from the journal of the DNS  *)
(* service, one month of it: it goes through the lines once, remembers the *)
(* last query line and credits to its domain every address line that comes *)
(* at most Window seconds after it.  The service handles its requests      *)
(* concurrently, and all their lines go to one log.                        *)
(*                                                                         *)
(* The parser looks for the lines of a release before this commit, with    *)
(* which recovered_map.json was made.  That release is modelled as far as  *)
(* the parser reads it, the lines of this commit as main.go writes them,   *)
(* and a month may hold both.                                              *)
EXTENDS Integers, Sequences

CONSTANTS
    Hosts,          \* the names asked for
    Root,           \* the name "."
    Owners,         \* the names of the records in the answers
    Leading,        \* those that begin with four numbers, with the address
                    \* these are (as 1.2.3.4.in-addr.arpa does)
    Addrs,          \* the addresses answered
    Handlers,       \* the goroutines of the DNS server, one per request
    Window,         \* five seconds
    MaxTime,        \* bound on the clock
    MaxLines        \* bound on the length of the log

\* no name is remembered, or that of the root
NoName == ""

ASSUME HostsAssumption == NoName \notin Hosts
ASSUME OwnersAssumption ==
    /\ Addrs \cap Owners = {}
    /\ DOMAIN Leading \subseteq Owners
    /\ \A o \in DOMAIN Leading : Leading[o] \in Addrs
ASSUME WindowAssumption == Window \in Nat
ASSUME MaxTimeAssumption == MaxTime \in Nat
ASSUME MaxLinesAssumption == MaxLines \in Nat

VARIABLES
    now,            \* the service's clock
    release,        \* the service that runs: "former" or "this"
    log,            \* the lines it has written
    handler,        \* per handler, the query line of its request, or 0
    from, upto,     \* the lines the parser was given: log[from .. upto]
    next,           \* the next line parseLogs will look at
    current,        \* currentDomain and currentTimestamp
    entries,        \* the entries found
    pc              \* where the parser is

serviceVars == <<now, release, log, handler>>
parserVars == <<from, upto, next, current, entries, pc>>
vars == <<now, release, log, handler, from, upto, next, current, entries, pc>>

-----------------------------------------------------------------------------
(* The texts of the lines, as their words.  A query of this commit has its *)
(* type in the place where the parser wants the next word.                 *)

FormerQuery(d) == <<"query", "for", d>>
FormerRecord(a) == <<"A record", a>>

QueryText(d) == <<"query", "A", "for", d>>
RecordText(o, a) == <<"A record", o, "->", a>>
AdditionalText(o, a) == <<"additional A record", o, "->", a>>

FormerTexts ==
    {FormerQuery(d) : d \in Hosts} \cup {FormerRecord(a) : a \in Addrs}
TextsOfThis ==
    {QueryText(d) : d \in Hosts}
       \cup {RecordText(o, a) : o \in Owners, a \in Addrs}
       \cup {AdditionalText(o, a) : o \in Owners, a \in Addrs}

\* A line with its time and, of a record, the line of the query it answers,
\* which is not printed.
Lines == [text : FormerTexts \cup TextsOfThis, at : Nat, query : Nat]

NoDomain == [host |-> NoName, at |-> 0]

TypeOK ==
    /\ now \in 0 .. MaxTime
    /\ release \in {"former", "this"}
    /\ log \in Seq(Lines)
    /\ Len(log) <= MaxLines
    /\ handler \in [Handlers -> 0 .. Len(log)]
    /\ from \in 1 .. Len(log) + 1
    /\ upto \in 0 .. Len(log)
    /\ next \in from .. upto + 1
    /\ current \in [host : Hosts \cup {NoName}, at : Nat]
    /\ entries \subseteq [host : Hosts, ip : Addrs, at : Nat]
    /\ pc \in {"getLogs", "parseLogs", "done"}

Init ==
    /\ now = 0
    /\ release \in {"former", "this"}
    /\ log = <<>>
    /\ handler = [h \in Handlers |-> 0]
    /\ from = 1
    /\ upto = 0
    /\ next = 1
    /\ current = NoDomain
    /\ entries = {}
    /\ pc = "getLogs"

-----------------------------------------------------------------------------
(* The service.                                                            *)

Tick ==
    /\ now < MaxTime
    /\ now' = now + 1
    /\ UNCHANGED <<release, log, handler, parserVars>>

Write(text, query) ==
    /\ Len(log) < MaxLines
    /\ log' = Append(log, [text |-> text, at |-> now, query |-> query])

\* handle: the line of the request
Query(h, d) ==
    /\ handler[h] = 0
    /\ Write(IF release = "former" THEN FormerQuery(d) ELSE QueryText(d), 0)
    /\ handler' = [handler EXCEPT ![h] = Len(log) + 1]
    /\ UNCHANGED <<now, release, parserVars>>

\* processAnswers: the line of one A record; its name need not be the one that
\* was asked for.
Answer(h, o, a) ==
    /\ handler[h] # 0
    /\ Write(IF release = "former" THEN FormerRecord(a) ELSE RecordText(o, a),
             handler[h])
    /\ UNCHANGED <<now, release, handler, parserVars>>

\* processAdditionalRecords
Additional(h, o, a) ==
    /\ handler[h] # 0
    /\ release = "this"
    /\ Write(AdditionalText(o, a), handler[h])
    /\ UNCHANGED <<now, release, handler, parserVars>>

Reply(h) ==
    /\ handler[h] # 0
    /\ handler' = [handler EXCEPT ![h] = 0]
    /\ UNCHANGED <<now, release, log, parserVars>>

\* This commit is installed: the service is stopped, with its requests, and
\* started again.
Upgrade ==
    /\ release = "former"
    /\ release' = "this"
    /\ handler' = [h \in Handlers |-> 0]
    /\ UNCHANGED <<now, log, parserVars>>

-----------------------------------------------------------------------------
(* The parser.                                                             *)

\* Mutant: one line more than there are.
GetLogsOneMore ==
    /\ pc = "getLogs"
    /\ from' \in 1 .. Len(log) + 1
    /\ upto' = Len(log) + 1
    /\ next' = from'
    /\ pc' = "parseLogs"
    /\ UNCHANGED <<serviceVars, current, entries>>

\* getLogs: the journal of the last month, up to this moment.  When ssh fails
\* the program ends and has written nothing.
GetLogs ==
    /\ pc = "getLogs"
    /\ from' \in 1 .. Len(log) + 1
    /\ upto' = Len(log)
    /\ next' = from'
    /\ pc' = "parseLogs"
    /\ UNCHANGED <<serviceVars, current, entries>>

\* What "query for" is followed by, without its last dot.
domainRegex(text) == Len(text) >= 3 /\ text[1] = "query" /\ text[2] = "for"
Domain(text) == IF text[3] = Root THEN NoName ELSE text[3]

\* The four numbers "A record" is followed by, if there are such.
ipRegex(text) ==
    /\ Len(text) >= 2
    /\ text[1] = "A record"
    /\ text[2] \in Addrs \cup DOMAIN Leading
Address(text) == IF text[2] \in Addrs THEN text[2] ELSE Leading[text[2]]

\* timestamp.Sub(currentTimestamp).Abs() <= 5*time.Second
Within(t, s) == IF t >= s THEN t - s <= Window ELSE s - t <= Window

EntryOf(line) ==
    [host |-> current.host, ip |-> Address(line.text), at |-> line.at]

\* Mutant: the age of the last query is not looked at.
CreditAnyAge(line) ==
    entries' = IF current.host # NoName THEN entries \cup {EntryOf(line)}
                                    ELSE entries

Credit(line) ==
    entries' = IF current.host # NoName /\ Within(line.at, current.at)
               THEN entries \cup {EntryOf(line)} ELSE entries

\* Mutant: a query line does not replace one that is not yet too old.
ParseKeepsFirst ==
    /\ pc = "parseLogs"
    /\ next <= upto
    /\ next' = next + 1
    /\ LET line == log[next] IN
         /\ current' = IF /\ domainRegex(line.text)
                          /\ \/ current = NoDomain
                             \/ ~Within(line.at, current.at)
                       THEN [host |-> Domain(line.text), at |-> line.at]
                       ELSE current
         /\ IF ipRegex(line.text) THEN Credit(line) ELSE UNCHANGED entries
    /\ UNCHANGED <<serviceVars, from, upto, pc>>

\* The body of parseLogs' loop.
ParseLine ==
    /\ pc = "parseLogs"
    /\ next <= upto
    /\ next' = next + 1
    /\ LET line == log[next] IN
         /\ current' = IF domainRegex(line.text)
                       THEN [host |-> Domain(line.text), at |-> line.at]
                       ELSE current
         /\ IF ipRegex(line.text) THEN Credit(line) ELSE UNCHANGED entries
    /\ UNCHANGED <<serviceVars, from, upto, pc>>

ParseDone ==
    /\ pc = "parseLogs"
    /\ next > upto
    /\ pc' = "done"
    /\ UNCHANGED <<serviceVars, from, upto, next, current, entries>>

Next ==
    \/ Tick
    \/ \E h \in Handlers :
          \/ \E d \in Hosts : Query(h, d)
          \/ \E o \in Owners, a \in Addrs :
                Answer(h, o, a) \/ Additional(h, o, a)
          \/ Reply(h)
    \/ Upgrade
    \/ GetLogs \/ ParseLine \/ ParseDone

Spec == Init /\ [][Next]_vars

-----------------------------------------------------------------------------
(* Properties.                                                             *)

Given == from .. upto

IsFormerQuery(i) == \E d \in Hosts : log[i].text = FormerQuery(d)

\* Line i shows the address where the parser looks for it: alone, as in the
\* former release, or as the beginning of a record's name.
Shows(i, a) ==
    \/ log[i].text = FormerRecord(a)
    \/ \E o \in DOMAIN Leading, b \in Addrs :
          log[i].text = RecordText(o, b) /\ Leading[o] = a

\* The record of line i came in time, and the line of its query was given too.
InTime(i) ==
    /\ log[i].query >= from
    /\ log[i].at - log[log[i].query].at <= Window

(* What parseLogs makes up is at least near the truth.  Each entry has its *)
(* name from the last query line of the former release before the line of  *)
(* its address, at most the window older.  That need not be the query the  *)
(* address answered, but no older one than this; and no line of this       *)
(* commit gives a name, nor an address unless a record's own name begins   *)
(* with one (log_parser.go:83-123).                                        *)
EntriesNear ==
    \A e \in entries : \E i, j \in Given :
       /\ i < j
       /\ log[i].text = FormerQuery(e.host)
       /\ Shows(j, e.ip) /\ log[j].at = e.at
       /\ e.at - log[i].at <= Window
       /\ \A k \in i + 1 .. j - 1 : ~IsFormerQuery(k)
       /\ log[j].text = FormerRecord(e.ip) => log[j].query <= i

(* No address that the former release has logged in time is dropped,       *)
(* whatever this commit logs after it: it is credited to the name asked    *)
(* for or to one asked for meanwhile; unless the root was, whose name is   *)
(* empty for the parser (log_parser.go:93-123).                            *)
AddressesCredited ==
    pc = "done" =>
       \A j \in Given, a \in Addrs :
          /\ log[j].text = FormerRecord(a) /\ InTime(j)
          /\ \A i \in log[j].query .. j - 1 : log[i].text # FormerQuery(Root)
          => \E e \in entries, i \in log[j].query .. j - 1 :
                /\ e.ip = a /\ e.at = log[j].at
                /\ log[i].text = FormerQuery(e.host)

(* "Ищем DNS запрос", "Ищем A запись" (log_parser.go:94, 107: we look for  *)
(* a DNS query, for an A record): when the lines given hold the query and  *)
(* a record that answered it in time, something is found.                  *)
RecordsFound ==
    /\ pc = "done"
    /\ \E j \in Given :
          /\ \E o \in Owners, a \in Addrs :
                log[j].text \in {FormerRecord(a), RecordText(o, a)}
          /\ InTime(j)
          /\ log[log[j].query].text \notin {FormerQuery(Root), QueryText(Root)}
    => entries # {}

(* "Проверяем, что A запись соответствует текущему домену (в пределах 5    *)
(* секунд)" (log_parser.go:114: we check that the A record belongs to the  *)
(* current domain): an address is credited to the name asked for.          *)
RecordOfDomain ==
    \A e \in entries : \E j \in Given :
       /\ Shows(j, e.ip) /\ log[j].at = e.at
       /\ log[log[j].query].text = FormerQuery(e.host)

=============================================================================
