------------------------------- MODULE BotAuth -------------------------------
(* The Telegram bot's loop, its authorization, and the database it shares  *)
(* with the DNS server (src/dnsproxy/bot.go, main.go).                     *)
(*                                                                         *)
(* Telegram keeps the messages to the bot until the next call of           *)
(* getUpdates confirms them.  A goroutine of the client library fetches    *)
(* them into a channel of Cap places; Start takes them from there, one     *)
(* after the other.  A chat that has sent the password is authorized in    *)
(* memory and in the table authorized_chats.  The handlers of the DNS      *)
(* server insert rows into another table of the same SQLite file; no busy  *)
(* timeout is set, so that a writer that finds the file locked fails.      *)
EXTENDS Integers, Sequences, FiniteSets

CONSTANTS
    Chats,          \* the chats that write to the bot
    Names,          \* the names logDNS inserts
    Handlers,       \* the goroutines of the DNS server
    Bot,            \* the bot, as the holder of the lock
    None,           \* nobody; no name
    Cap,            \* the library's buffer (100)
    MaxUpdates,     \* bound on the number of messages
    MaxRestarts     \* bound on the number of crashes

ASSUME CapAssumption == Cap \in Nat \ {0}
ASSUME MaxUpdatesAssumption == MaxUpdates \in Nat
ASSUME MaxRestartsAssumption == MaxRestarts \in Nat
ASSUME NoneAssumption ==
    /\ None \notin Handlers \cup {Bot} \cup Names
    /\ Bot \notin Handlers

VARIABLES
    phase,          \* "starting": NewBot is under way; "up"; "down": it failed
    sent,           \* the messages the chats have sent
    acked,          \* how many of them Telegram takes for confirmed
    got,            \* how many the library has fetched
    done,           \* how many Start has taken out of the channel
    pc,             \* where Start is with the message it has taken last
    authorizedChats,\* Bot.authorizedChats
    chatsTable,     \* the table authorized_chats
    dnsLogs,        \* the table dns_logs
    lock,           \* who is writing to the database file
    writing,        \* per handler, the name logDNS is inserting
    answer,         \* the last answer each chat got to /pass
    told,           \* ghost: the chats that were told of a success
    ran,            \* ghost: the chats a command was carried out for
    loadFailed,     \* ghost: loadAuthorizedChats has not read all
    logged,         \* ghost: the names logDNS has returned for
    handled,        \* ghost: the messages whose handler has returned
    lost,           \* ghost: the messages confirmed and never handled
    restarts        \* number of crashes so far

telegramVars == <<sent, acked, got, done>>
dbVars == <<chatsTable, dnsLogs, lock, writing>>
lossVars == <<handled, lost, restarts>>
ghosts == <<told, ran, loadFailed, logged, handled, lost, restarts>>
vars == <<phase, sent, acked, got, done, pc, authorizedChats, chatsTable,
          dnsLogs, lock, writing, answer, told, ran, loadFailed, logged,
          handled, lost, restarts>>

\* The right and a wrong password, any other command, and an update that is
\* not a message.
Texts == {"pass", "wrong", "command", "other"}

Message(i) == sent[i]

TypeOK ==
    /\ phase \in {"starting", "up", "down"}
    /\ sent \in Seq([chat : Chats, text : Texts])
    /\ Len(sent) <= MaxUpdates
    /\ got \in 0 .. Len(sent)
    /\ acked \in 0 .. got
    /\ done \in 0 .. got
    /\ pc \in {"range", "handle", "carry", "insert", "commit"}
    /\ authorizedChats \subseteq Chats
    /\ chatsTable \subseteq Chats
    /\ dnsLogs \subseteq Names
    /\ lock \in Handlers \cup {Bot, None}
    /\ writing \in [Handlers -> Names \cup {None}]
    /\ answer \in [Chats -> {"none", "success", "error", "refused"}]
    /\ told \subseteq Chats
    /\ ran \subseteq Chats
    /\ loadFailed \in BOOLEAN
    /\ logged \subseteq Names
    /\ handled \subseteq 1 .. MaxUpdates
    /\ lost \subseteq 1 .. MaxUpdates
    /\ restarts \in 0 .. MaxRestarts

Init ==
    /\ phase = "starting"
    /\ sent = <<>>
    /\ acked = 0
    /\ got = 0
    /\ done = 0
    /\ pc = "range"
    /\ authorizedChats = {}
    /\ chatsTable = {}
    /\ dnsLogs = {}
    /\ lock = None
    /\ writing = [h \in Handlers |-> None]
    /\ answer = [c \in Chats |-> "none"]
    /\ told = {}
    /\ ran = {}
    /\ loadFailed = FALSE
    /\ logged = {}
    /\ handled = {}
    /\ lost = {}
    /\ restarts = 0

-----------------------------------------------------------------------------
(* Starting.  main waits for StartBot before it serves DNS.                *)

\* NewBot and loadAuthorizedChats, which goes on without what it cannot read
NewBot ==
    /\ phase = "starting"
    /\ authorizedChats' \in SUBSET chatsTable
    /\ loadFailed' = (authorizedChats' # chatsTable)
    /\ phase' = "up"
    /\ UNCHANGED <<telegramVars, pc, dbVars, answer, told, ran, logged,
                   lossVars>>

\* StartBot logs the error, and the process goes on without a bot.
NewBotFails ==
    /\ phase = "starting"
    /\ phase' = "down"
    /\ UNCHANGED <<telegramVars, pc, authorizedChats, dbVars, answer, ghosts>>

-----------------------------------------------------------------------------
(* Telegram and the library.                                               *)

Send(c, t) ==
    /\ Len(sent) < MaxUpdates
    /\ sent' = Append(sent, [chat |-> c, text |-> t])
    /\ UNCHANGED <<phase, acked, got, done, pc, authorizedChats, dbVars,
                   answer, ghosts>>

\* Mutant: the next call is made with the channel over-full.
PollAnyway ==
    /\ phase = "up"
    /\ acked' = got
    /\ got' \in got .. Len(sent)
    /\ UNCHANGED <<phase, sent, done, pc, authorizedChats, dbVars, answer,
                   ghosts>>

\* getUpdates is called when the last batch is in the channel; its offset
\* confirms that batch.
Poll ==
    /\ phase = "up"
    /\ got - done <= Cap
    /\ acked' = got
    /\ got' \in got .. Len(sent)
    /\ UNCHANGED <<phase, sent, done, pc, authorizedChats, dbVars, answer,
                   ghosts>>

-----------------------------------------------------------------------------
(* Bot.Start: one message after the other.                                 *)

\* The message is out of the channel, and nothing has been done for it yet.
Take ==
    /\ phase = "up"
    /\ pc = "range"
    /\ done < got
    /\ done' = done + 1
    /\ pc' = "handle"
    /\ UNCHANGED <<phase, sent, acked, got, authorizedChats, dbVars, answer,
                   ghosts>>

\* The case of a message with such a text.
Case(t) ==
    /\ phase = "up"
    /\ pc = "handle"
    /\ Message(done).text = t
    /\ UNCHANGED <<phase, telegramVars>>

\* The handler of the message returns to the loop.
Returns ==
    /\ pc' = "range"
    /\ handled' = handled \cup {done}
    /\ UNCHANGED <<lost, restarts>>

\* Mutant: the loop ends at an update that is not a message.
SkipReturns ==
    /\ Case("other")
    /\ pc' = "commit"
    /\ UNCHANGED <<authorizedChats, dbVars, answer, ghosts>>

Skip ==
    /\ Case("other")
    /\ Returns
    /\ UNCHANGED <<authorizedChats, dbVars, answer, told, ran, loadFailed,
                   logged>>

isAuthorized(c) == c \in authorizedChats

\* The guard every handler but that of /pass begins with.
CommandRefused ==
    /\ Case("command")
    /\ ~isAuthorized(Message(done).chat)
    /\ Returns
    /\ UNCHANGED <<authorizedChats, dbVars, answer, told, ran, loadFailed,
                   logged>>

\* What a command does step by step is in DnsProxy and BotDisplay; here it is
\* under way, from the guard on, until it returns.
Command ==
    /\ Case("command")
    /\ isAuthorized(Message(done).chat)
    /\ ran' = ran \cup {Message(done).chat}
    /\ pc' = "carry"
    /\ UNCHANGED <<authorizedChats, dbVars, answer, told, loadFailed, logged,
                   lossVars>>

CommandDone ==
    /\ phase = "up"
    /\ pc = "carry"
    /\ Returns
    /\ UNCHANGED <<phase, telegramVars, authorizedChats, dbVars, answer, told,
                   ran, loadFailed, logged>>

\* Mutant: the chat is authorized before the password is compared.
WrongPasswordLate ==
    /\ Case("wrong")
    /\ authorizedChats' = authorizedChats \cup {Message(done).chat}
    /\ answer' = [answer EXCEPT ![Message(done).chat] = "refused"]
    /\ Returns
    /\ UNCHANGED <<dbVars, told, ran, loadFailed, logged>>

WrongPassword ==
    /\ Case("wrong")
    /\ answer' = [answer EXCEPT ![Message(done).chat] = "refused"]
    /\ Returns
    /\ UNCHANGED <<authorizedChats, dbVars, told, ran, loadFailed, logged>>

\* handlePassCommand, and authorize up to the insert
Authorize ==
    /\ Case("pass")
    /\ authorizedChats' = authorizedChats \cup {Message(done).chat}
    /\ pc' = "insert"
    /\ UNCHANGED <<dbVars, answer, ghosts>>

\* the insert finds the file free ...
InsertBegin ==
    /\ phase = "up"
    /\ pc = "insert"
    /\ lock = None
    /\ lock' = Bot
    /\ pc' = "commit"
    /\ UNCHANGED <<phase, telegramVars, authorizedChats, chatsTable, dnsLogs,
                   writing, answer, ghosts>>

\* Mutant: success is reported although the insert failed.
InsertBusySuccess ==
    /\ phase = "up"
    /\ pc = "insert"
    /\ lock # None
    /\ LET c == Message(done).chat IN
         /\ answer' = [answer EXCEPT ![c] = "success"]
         /\ told' = told \cup {c}
    /\ Returns
    /\ UNCHANGED <<phase, telegramVars, authorizedChats, dbVars, ran,
                   loadFailed, logged>>

\* ... or locked
InsertBusy ==
    /\ phase = "up"
    /\ pc = "insert"
    /\ lock # None
    /\ answer' = [answer EXCEPT ![Message(done).chat] = "error"]
    /\ Returns
    /\ UNCHANGED <<phase, telegramVars, authorizedChats, dbVars, told, ran,
                   loadFailed, logged>>

InsertCommit ==
    /\ phase = "up"
    /\ pc = "commit"
    /\ lock = Bot
    /\ lock' = None
    /\ LET c == Message(done).chat IN
         /\ chatsTable' = chatsTable \cup {c}
         /\ answer' = [answer EXCEPT ![c] = "success"]
         /\ told' = told \cup {c}
    /\ Returns
    /\ UNCHANGED <<phase, telegramVars, authorizedChats, dnsLogs, writing,
                   ran, loadFailed, logged>>

-----------------------------------------------------------------------------
(* The DNS server: logDNS, whose errors are ignored.                       *)

LogBegin(h, n) ==
    /\ phase # "starting"
    /\ writing[h] = None
    /\ lock = None
    /\ lock' = h
    /\ writing' = [writing EXCEPT ![h] = n]
    /\ UNCHANGED <<phase, telegramVars, pc, authorizedChats, chatsTable,
                   dnsLogs, answer, ghosts>>

LogCommit(h) ==
    /\ lock = h
    /\ lock' = None
    /\ dnsLogs' = dnsLogs \cup {writing[h]}
    /\ logged' = logged \cup {writing[h]}
    /\ writing' = [writing EXCEPT ![h] = None]
    /\ UNCHANGED <<phase, telegramVars, pc, authorizedChats, chatsTable,
                   answer, told, ran, loadFailed, lossVars>>

LogBusy(h, n) ==
    /\ phase # "starting"
    /\ writing[h] = None
    /\ lock # None
    /\ logged' = logged \cup {n}
    /\ UNCHANGED <<phase, telegramVars, pc, authorizedChats, dbVars, answer,
                   told, ran, loadFailed, lossVars>>

-----------------------------------------------------------------------------

\* What Start has not taken, and what it has taken and is still at.
Unhandled ==
    done + 1 .. Len(sent) \cup (IF pc = "range" THEN {} ELSE {done})

\* Mutant: the place in the queue outlives the process.
CrashKeepsPlace ==
    /\ restarts < MaxRestarts
    /\ restarts' = restarts + 1
    /\ phase' = "starting"
    /\ lost' = lost \cup ((Unhandled \cap 1 .. acked) \ handled)
    /\ got' = acked
    /\ done' = done
    /\ pc' = "range"
    /\ authorizedChats' = {}
    /\ lock' = None
    /\ writing' = [h \in Handlers |-> None]
    /\ UNCHANGED <<sent, acked, chatsTable, dnsLogs, answer, told, ran,
                   loadFailed, logged, handled>>

(* The process dies and systemd starts it again: SQLite undoes the insert  *)
(* that was under way, and Telegram delivers what is not confirmed again.  *)
Crash ==
    /\ restarts < MaxRestarts
    /\ restarts' = restarts + 1
    /\ phase' = "starting"
    /\ lost' = lost \cup ((Unhandled \cap 1 .. acked) \ handled)
    /\ got' = acked
    /\ done' = acked
    /\ pc' = "range"
    /\ authorizedChats' = {}
    /\ lock' = None
    /\ writing' = [h \in Handlers |-> None]
    /\ UNCHANGED <<sent, acked, chatsTable, dnsLogs, answer, told, ran,
                   loadFailed, logged, handled>>

BotStep ==
    \/ Take
    \/ Skip \/ CommandRefused \/ Command \/ CommandDone \/ WrongPassword
    \/ Authorize \/ InsertBegin \/ InsertBusy \/ InsertCommit

Next ==
    \/ NewBot \/ NewBotFails
    \/ \E c \in Chats, t \in Texts : Send(c, t)
    \/ Poll
    \/ BotStep
    \/ \E h \in Handlers :
          \/ \E n \in Names : LogBegin(h, n) \/ LogBusy(h, n)
          \/ LogCommit(h)
    \/ Crash

Spec == Init /\ [][Next]_vars

(* The library calls again and again, and returns all there is; the loop   *)
(* goes on with the next message.                                          *)
FairSpec ==
    /\ Spec
    /\ WF_vars(Poll /\ got' = Len(sent))
    /\ WF_vars(BotStep)

-----------------------------------------------------------------------------
(* Properties.                                                             *)

Knows == {Message(i).chat : i \in {j \in 1 .. Len(sent) :
                                      Message(j).text = "pass"}}

(* Only a chat that has sent the password is authorized, in memory or in   *)
(* the table, and only for such a chat is a command carried out, in any    *)
(* life of the process (bot.go:142-171).                                   *)
OnlyWithPassword == authorizedChats \cup chatsTable \cup ran \subseteq Knows

(* A chat that was told of its success stays authorized: in the table, and *)
(* in the memory of every later life that could read the table             *)
(* (bot.go:102-119, 144-161).                                              *)
SuccessLasts ==
    /\ told \subseteq chatsTable
    /\ phase = "up" /\ ~loadFailed => told \subseteq authorizedChats

(* A crash loses no more messages than the channel holds and the one whose *)
(* handler is under way: what the offset of the next call confirms is in   *)
(* the channel by then, or Start has taken it (GetUpdatesChan,             *)
(* bot.go:848-884).                                                        *)
LossBounded == Cardinality(lost) <= restarts * (Cap + 1)

(* The handler of every message returns, unless a crash has lost the       *)
(* message, in the channel or in the middle of its handler, as long as     *)
(* there is a bot (bot.go:845-886).                                        *)
EventuallyHandled ==
    \A i \in 1 .. MaxUpdates :
       i <= Len(sent) ~> i \in handled \/ i \in lost \/ phase # "up"

(* "Ошибка авторизации" (bot.go:158: authorization error): a chat that is  *)
(* told so is not authorized.                                              *)
ErrorMeansNot == \A c \in Chats : answer[c] = "error" => ~isAuthorized(c)

(* "Показать последние N доменов (обычные)" (bot.go:134: show the last N   *)
(* names): what /log reads has a row for every name that was resolved.     *)
EveryNameLogged == logged \subseteq dnsLogs

=============================================================================
