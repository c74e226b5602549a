----------------------------- MODULE BotDisplay -----------------------------
(* The display commands of the Telegram bot (src/dnsproxy/bot.go):         *)
(* /site, /nl, /usa and /ru, with a pattern or without.                    *)
(*                                                                         *)
(* With a pattern, a command looks the addresses up in map.json, keeps     *)
(* those whose status is that of the command (/site keeps all), and sends  *)
(* them domain by domain in messages of limited size.  The status is asked *)
(* of the kernel once for the choice and once more for the label, by two   *)
(* `ipset test' calls each, while DNS handlers add addresses to the sets.  *)
(* Addresses leave the sets only by commands of the bot, which come one    *)
(* after the other.  Without a pattern the files are listed in a single    *)
(* message.                                                                *)
EXTENDS Integers, Sequences, FiniteSets

CONSTANTS
    Domains, Ips,
    NoPair,           \* no pair, no domain
    Header,         \* size of the heading of a message
    Title,          \* size of what a block says of its domain
    Line,           \* size of the line of an address, or of a pattern
    More,           \* size of the line "... and N more"
    MaxIPsToShow,   \* 20
    MaxMessageSize, \* 4000
    TelegramMax,    \* 4096: longer messages are refused
    MaxPatterns     \* bound on the length of a list

Smaller(a, b) == IF a <= b THEN a ELSE b

\* createDomainBlock: the size of the block of a domain with n addresses
BlockSize(n) ==
    Title + Line * Smaller(n, MaxIPsToShow)
          + (IF n > MaxIPsToShow THEN More ELSE 0)

ASSUME SizesAssumption ==
    /\ {Header, Title, Line, More, MaxMessageSize, TelegramMax, MaxPatterns}
          \subseteq Nat
    /\ MaxIPsToShow \in Nat \ {0}
    /\ MaxMessageSize <= TelegramMax
ASSUME BlockAssumption ==
    Header + Title + Line * MaxIPsToShow + More <= MaxMessageSize
ASSUME FiniteAssumption == IsFiniteSet(Domains) /\ IsFiniteSet(Ips)
ASSUME NoPairAssumption == NoPair \notin Domains \cup (Domains \X Ips)

Statuses == {"nl", "usa", "ru"}
Commands == Statuses \cup {"site"}

VARIABLES
    nl, usa,        \* the kernel's sets nl_proxy and usa_proxy
    history,        \* map.json, as far as the pattern matches it
    command,        \* the command
    stage,          \* where it is
    todo,           \* the pairs (domain, ip) whose status is to be asked
    missed,         \* the pair that was not found in nl_proxy, or NoPair
    filtered,       \* the pairs kept
    left,           \* the domains that have no block yet
    domain,         \* the domain whose block is made, or NoPair
    labels,         \* the pairs shown, with their labels
    current,        \* the message under way: its domains and its size
    messages,       \* the messages sent
    nlBefore,       \* ghost: the sets when the command began
    usaBefore

sets == <<nl, usa>>
before == <<nlBefore, usaBefore>>
output == <<current, messages>>
displayVars == <<nl, usa, history, command, stage, todo, missed, filtered,
                 left, domain, labels, current, messages, nlBefore, usaBefore>>

Kernel == INSTANCE KernelSets WITH Addrs <- Ips

Pairs == Domains \X Ips
NoMessage == [domains |-> {}, size |-> 0]
MessageTypes == [domains : SUBSET Domains, size : Nat]

DisplayTypeOK ==
    /\ nl \subseteq Ips /\ usa \subseteq Ips
    /\ history \subseteq Pairs
    /\ command \in Commands
    /\ stage \in {"idle", "filter", "blocks", "format", "done"}
    /\ todo \subseteq Pairs
    /\ missed \in Pairs \cup {NoPair}
    /\ filtered \subseteq Pairs
    /\ left \subseteq Domains
    /\ domain \in Domains \cup {NoPair}
    /\ labels \subseteq Pairs \X Statuses
    /\ current \in MessageTypes
    /\ messages \in Seq(MessageTypes)
    /\ nlBefore \subseteq Ips /\ usaBefore \subseteq Ips

IpsOf(ps, d) == {i \in Ips : <<d, i>> \in ps}
DomainsOf(ps) == {d \in Domains : IpsOf(ps, d) # {}}

DisplayInit ==
    /\ nl \in SUBSET Ips
    /\ usa \in SUBSET Ips
    /\ history \in SUBSET Pairs
    /\ command \in Commands
    /\ stage = "idle"
    /\ todo = {}
    /\ missed = NoPair
    /\ filtered = {}
    /\ left = {}
    /\ domain = NoPair
    /\ labels = {}
    /\ current = NoMessage
    /\ messages = <<>>
    /\ nlBefore = nl
    /\ usaBefore = usa

-----------------------------------------------------------------------------
\* addIPToNL and addIPToUSA of the DNS server
Install ==
    /\ \E i \in Ips : Kernel!Add(i)
    /\ UNCHANGED <<history, command, stage, todo, missed, filtered, left,
                   domain, labels, output, before>>

\* Telegram refuses what is too long, and the bot ignores the refusal.
Delivered(m) == IF m.size <= TelegramMax THEN <<m>> ELSE <<>>

Heading == [domains |-> {}, size |-> Header]

\* showAllPatterns, showPatternsNL, showPatternsUSA, and showPatternsRU, which
\* lists nothing
ShowPatterns ==
    /\ stage = "idle"
    /\ \E n \in 0 .. (IF command = "ru" THEN 0 ELSE MaxPatterns) :
          messages' = Delivered([domains |-> {}, size |-> Header + Line * n])
    /\ stage' = "done"
    /\ nlBefore' = nl
    /\ usaBefore' = usa
    /\ UNCHANGED <<sets, history, command, todo, missed, filtered, left,
                   domain, labels, current>>

\* The lookup of a command with a pattern; /site shows all that it finds.
\* A map.json that cannot be read or parsed is an empty history.
Lookup ==
    /\ stage = "idle"
    /\ nlBefore' = nl
    /\ usaBefore' = usa
    /\ \E found \in {history, {}} :
          IF found = {}
          THEN /\ messages' = Delivered(Heading)
               /\ stage' = "done"
               /\ UNCHANGED <<todo, filtered, left, current>>
          ELSE /\ IF command = "site"
                  THEN /\ filtered' = found
                       /\ left' = DomainsOf(found)
                       /\ current' = Heading
                       /\ stage' = "blocks"
                       /\ todo' = {}
                  ELSE /\ todo' = found
                       /\ stage' = "filter"
                       /\ UNCHANGED <<filtered, left, current>>
               /\ UNCHANGED messages
    /\ UNCHANGED <<sets, history, command, missed, domain, labels>>

-----------------------------------------------------------------------------
(* getIPRouteStatus, for the choice and for the label.                     *)

Answer(p, status) ==
    /\ todo' = todo \ {p}
    /\ missed' = NoPair
    /\ IF stage = "filter"
       THEN /\ filtered' = IF status = command
                           THEN filtered \cup {p} ELSE filtered
            /\ UNCHANGED labels
       ELSE /\ labels' = labels \cup {<<p, status>>}
            /\ UNCHANGED filtered
    /\ UNCHANGED <<sets, history, command, stage, left, domain, output,
                   before>>

\* Mutant: the set of the other country is tested first.
TestNLLast(p) ==
    /\ p \in todo
    /\ missed = NoPair
    /\ IF p[2] \in usa
       THEN Answer(p, "usa")
       ELSE IF p[2] \in nl THEN Answer(p, "nl") ELSE Answer(p, "ru")

\* ipset test nl_proxy
TestNL(p) ==
    /\ p \in todo
    /\ missed = NoPair
    /\ IF p[2] \in nl
       THEN Answer(p, "nl")
       ELSE /\ missed' = p
            /\ UNCHANGED <<sets, history, command, stage, todo, filtered, left,
                           domain, labels, output, before>>

\* Mutant: a test that fails is taken for a member.
TestUSAInverted ==
    /\ missed # NoPair
    /\ Answer(missed, IF missed[2] \in usa THEN "ru" ELSE "usa")

\* ipset test usa_proxy
TestUSA ==
    /\ missed # NoPair
    /\ Answer(missed, IF missed[2] \in usa THEN "usa" ELSE "ru")

-----------------------------------------------------------------------------
(* showPatternDetails and createSiteMessages.                              *)

FilterDone ==
    /\ stage = "filter"
    /\ todo = {}
    /\ IF filtered = {}
       THEN /\ messages' = Delivered(Heading)
            /\ stage' = "done"
            /\ UNCHANGED <<left, current>>
       ELSE /\ left' = DomainsOf(filtered)
            /\ current' = Heading
            /\ stage' = "blocks"
            /\ UNCHANGED messages
    /\ UNCHANGED <<sets, history, command, todo, missed, filtered, domain,
                   labels, before>>

\* Mutant: the addresses lose their domain.
BlockIpsOnly(d) ==
    /\ stage = "blocks"
    /\ d \in left
    /\ left' = left \ {d}
    /\ domain' = d
    /\ todo' = IpsOf(filtered, d)
    /\ stage' = "format"
    /\ UNCHANGED <<sets, history, command, missed, filtered, labels, output,
                   before>>

\* createDomainBlock shows at most MaxIPsToShow of a domain's addresses.
Block(d) ==
    /\ stage = "blocks"
    /\ d \in left
    /\ left' = left \ {d}
    /\ domain' = d
    /\ \E display \in SUBSET IpsOf(filtered, d) :
         /\ Cardinality(display) =
               Smaller(Cardinality(IpsOf(filtered, d)), MaxIPsToShow)
         /\ todo' = {d} \X display
    /\ stage' = "format"
    /\ UNCHANGED <<sets, history, command, missed, filtered, labels, output,
                   before>>

\* Mutants: the block is not counted in; the one that did not fit is dropped.
PutUncounted(size) ==
    IF current.size > MaxMessageSize
    THEN /\ messages' = messages \o Delivered(current)
         /\ current' = [domains |-> {domain}, size |-> Header + size]
    ELSE /\ current' = [domains |-> current.domains \cup {domain},
                        size |-> current.size + size]
         /\ UNCHANGED messages

PutDrops(size) ==
    IF current.size + size > MaxMessageSize
    THEN /\ messages' = messages \o Delivered(current)
         /\ current' = Heading
    ELSE /\ current' = [domains |-> current.domains \cup {domain},
                        size |-> current.size + size]
         /\ UNCHANGED messages

Put(size) ==
    IF current.size + size > MaxMessageSize
    THEN /\ messages' = messages \o Delivered(current)
         /\ current' = [domains |-> {domain}, size |-> Header + size]
    ELSE /\ current' = [domains |-> current.domains \cup {domain},
                        size |-> current.size + size]
         /\ UNCHANGED messages

BlockDone ==
    /\ stage = "format"
    /\ todo = {}
    /\ Put(BlockSize(Cardinality(IpsOf(filtered, domain))))
    /\ domain' = NoPair
    /\ stage' = "blocks"
    /\ UNCHANGED <<sets, history, command, todo, missed, filtered, left,
                   labels, before>>

LastMessage ==
    /\ stage = "blocks"
    /\ left = {}
    /\ messages' = messages \o Delivered(current)
    /\ stage' = "done"
    /\ UNCHANGED <<sets, history, command, todo, missed, filtered, left,
                   domain, labels, current, before>>

DisplayNext ==
    \/ Install
    \/ ShowPatterns \/ Lookup
    \/ \E p \in Pairs : TestNL(p)
    \/ TestUSA
    \/ FilterDone
    \/ \E d \in Domains : Block(d)
    \/ BlockDone
    \/ LastMessage

DisplaySpec == DisplayInit /\ [][DisplayNext]_displayVars

-----------------------------------------------------------------------------
(* Properties.                                                             *)

Sent == 1 .. Len(messages)

(* The messages of a pattern's addresses are never too long, and each      *)
(* domain kept is in one of them and in no other (bot.go:753-773).         *)
ShownOnce ==
    stage = "done" /\ filtered # {} =>
       \A d \in DomainsOf(filtered) :
          \E m \in Sent : /\ d \in messages[m].domains
                          /\ \A k \in Sent : d \in messages[k].domains => k = m

MessagesFit ==
    filtered # {} =>
       /\ current.size <= MaxMessageSize
       /\ \A m \in Sent : messages[m].size <= MaxMessageSize

(* A label is never out of date by more than the command: [nl] is true,    *)
(* an address shown as [usa] is in usa_proxy and was not yet in nl_proxy   *)
(* when the command came, one shown as [ru] was then in neither            *)
(* (bot.go:775-811).                                                       *)
LabelsJustified ==
    \A l \in labels : LET i == l[1][2] IN
       CASE l[2] = "nl"  -> i \in nl
         [] l[2] = "usa" -> i \in usa \ nlBefore
         [] l[2] = "ru"  -> i \notin nlBefore \cup usaBefore

(* /nl shows [nl] addresses only: what is found in nl_proxy for the choice *)
(* is found there again for the label (bot.go:664-713).                    *)
NLShowsNL == command = "nl" => \A l \in labels : l[2] = "nl"

(* "Показать только RU домены (прямые)" (bot.go:131: show only direct      *)
(* domains): /ru shows no address that is routed through a tunnel.         *)
RUShowsRU == command = "ru" => \A l \in labels : l[2] = "ru"

(* "Показать все паттерны или IP по доменам" (bot.go:129: show all         *)
(* patterns): the command is answered.                                     *)
CommandAnswered == stage = "done" => messages # <<>>

=============================================================================
