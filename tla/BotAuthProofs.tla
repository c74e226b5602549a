---------------------------- MODULE BotAuthProofs ----------------------------
(* The invariants of BotAuth for any number of chats, names, handlers,     *)
(* messages and crashes, and any size of the library's buffer, and the two *)
(* sides of TelegramBot together.                                          *)
EXTENDS TelegramBot, FiniteSetTheorems, TLAPS

(* While the bot inserts, its message is a password, and its chat is       *)
(* already authorized in memory (bot.go:144-161).                          *)
Inserting ==
    /\ pc # "range" => phase = "up" /\ done >= 1
    /\ pc \in {"insert", "commit"} =>
          /\ Message(done).text = "pass"
          /\ Message(done).chat \in authorizedChats

(* A handler that has the lock is inserting a name.                        *)
Locked == lock \in Handlers => writing[lock] \in Names

(* What is confirmed and not taken is in the channel.                      *)
Buffered == acked - done <= Cap

Inv == /\ TypeOK /\ Inserting /\ Locked
       /\ OnlyWithPassword /\ SuccessLasts

-----------------------------------------------------------------------------
(* Types.                                                                  *)

LEMMA Bounds == /\ Cap \in Nat \ {0} /\ MaxUpdates \in Nat
                /\ MaxRestarts \in Nat
  BY CapAssumption, MaxUpdatesAssumption, MaxRestartsAssumption

(* An element of a sequence is one of its type.                            *)
LEMMA ElementType ==
  ASSUME NEW S, NEW s \in Seq(S), NEW i \in 1 .. Len(s)
  PROVE  s[i] \in S
  OBVIOUS

(* A message Start has taken is one.                                       *)
LEMMA MessageType ==
  ASSUME TypeOK, NEW i \in 1 .. got
  PROVE  /\ Message(i).chat \in Chats
         /\ i \in 1 .. Len(sent)
<1>1. got \in 0 .. Len(sent) /\ Len(sent) \in Nat
  BY DEF TypeOK
<1>2. i \in 1 .. Len(sent)
  BY <1>1
<1>3. sent \in Seq([chat : Chats, text : Texts])
  BY DEF TypeOK
<1>4. sent[i] \in [chat : Chats, text : Texts]
  BY <1>2, <1>3, ElementType
<1> QED
  BY <1>2, <1>4 DEF Message

(* The message under way.                                                  *)
LEMMA UnderWay ==
  ASSUME TypeOK, Inserting, pc # "range"
  PROVE  /\ done \in 1 .. got /\ done \in 1 .. MaxUpdates
         /\ Message(done).chat \in Chats
<1>1. done \in 1 .. got
  BY DEF TypeOK, Inserting
<1>2. Message(done).chat \in Chats /\ done \in 1 .. Len(sent)
  BY <1>1, MessageType
<1> QED
  BY <1>1, <1>2, MaxUpdatesAssumption DEF TypeOK

LEMMA InitType == Init => TypeOK
<1> SUFFICES ASSUME Init PROVE TypeOK
  OBVIOUS
<1>1. /\ sent \in Seq([chat : Chats, text : Texts])
      /\ Len(sent) <= MaxUpdates
      /\ got \in 0 .. Len(sent) /\ acked \in 0 .. got /\ done \in 0 .. got
  BY Bounds DEF Init
<1>2. /\ phase \in {"starting", "up", "down"}
      /\ pc \in {"range", "handle", "carry", "insert", "commit"}
      /\ loadFailed \in BOOLEAN
      /\ lock \in Handlers \cup {Bot, None}
  BY DEF Init
<1>3. /\ authorizedChats \subseteq Chats /\ chatsTable \subseteq Chats
      /\ told \subseteq Chats /\ ran \subseteq Chats
      /\ dnsLogs \subseteq Names /\ logged \subseteq Names
      /\ handled \subseteq 1 .. MaxUpdates /\ lost \subseteq 1 .. MaxUpdates
  BY DEF Init
<1>4. restarts \in 0 .. MaxRestarts
  BY Bounds DEF Init
<1>5. answer \in [Chats -> {"none", "success", "error", "refused"}]
  BY DEF Init
<1>6. writing \in [Handlers -> Names \cup {None}]
  BY DEF Init
<1> QED
  BY <1>1, <1>2, <1>3, <1>4, <1>5, <1>6 DEF TypeOK

LEMMA StartType == TypeOK /\ (NewBot \/ NewBotFails) => TypeOK'
  BY DEF TypeOK, NewBot, NewBotFails, telegramVars, dbVars, ghosts, lossVars

LEMMA SendType ==
  ASSUME TypeOK, NEW c \in Chats, NEW t \in Texts, Send(c, t)
  PROVE  TypeOK' /\ Len(sent') = Len(sent) + 1
                 /\ \A i \in 1 .. Len(sent) : sent'[i] = sent[i]
<1> DEFINE m == [chat |-> c, text |-> t]
<1>1. m \in [chat : Chats, text : Texts]
  OBVIOUS
<1> HIDE DEF m
<1>2. sent' = Append(sent, m) /\ Len(sent) < MaxUpdates
  BY DEF Send, m
<1>3. /\ sent' \in Seq([chat : Chats, text : Texts])
      /\ Len(sent') = Len(sent) + 1
      /\ \A i \in 1 .. Len(sent) : sent'[i] = sent[i]
  BY <1>1, <1>2 DEF TypeOK
<1>4. Len(sent') <= MaxUpdates /\ got \in 0 .. Len(sent')
  BY <1>2, <1>3, Bounds DEF TypeOK
<1> QED
  BY <1>3, <1>4 DEF Send, TypeOK, dbVars, ghosts

LEMMA PollType == TypeOK /\ Poll => TypeOK'
<1> SUFFICES ASSUME TypeOK, Poll PROVE TypeOK'
  OBVIOUS
<1>1. got' \in 0 .. Len(sent) /\ acked' \in 0 .. got' /\ done \in 0 .. got'
  BY DEF TypeOK, Poll
<1> QED
  BY <1>1 DEF TypeOK, Poll, dbVars, ghosts

LEMMA TakeType ==
  ASSUME TypeOK, Take
  PROVE  TypeOK' /\ done + 1 \in 1 .. got
<1>1. done + 1 \in 1 .. got
  BY DEF TypeOK, Take
<1> QED
  BY <1>1 DEF TypeOK, Take, dbVars, ghosts

(* The branches of the loop, and what follows them.                        *)
Branches == Skip \/ CommandRefused \/ Command \/ WrongPassword \/ Authorize
Inserts == InsertBegin \/ InsertBusy \/ InsertCommit
AtMessage == Branches \/ CommandDone \/ Inserts

LEMMA AtMessageType ==
  ASSUME TypeOK, Inserting, AtMessage
  PROVE  /\ TypeOK' /\ pc # "range" /\ phase = "up"
         /\ UNCHANGED <<phase, telegramVars>>
<1> USE DEF telegramVars, dbVars, ghosts, lossVars
<1>1. /\ pc # "range" /\ phase = "up" /\ UNCHANGED <<phase, telegramVars>>
  BY DEF AtMessage, Branches, Inserts, Skip, CommandRefused, Command,
     WrongPassword, Authorize, Case, CommandDone, InsertBegin, InsertBusy,
     InsertCommit
<1>2. done \in 1 .. MaxUpdates /\ Message(done).chat \in Chats
  BY <1>1, UnderWay
<1> DEFINE c == Message(done).chat
<1> HIDE DEF c
<1>3. handled' = handled \/ handled' = handled \cup {done}
  BY DEF AtMessage, Branches, Inserts, Skip, CommandRefused, Command,
     WrongPassword, Authorize, CommandDone, InsertBegin, InsertBusy,
     InsertCommit, Returns
<1>4. handled' \subseteq 1 .. MaxUpdates
  BY <1>2, <1>3 DEF TypeOK
<1> USE DEF Case, Returns
<1>5. CASE Skip \/ CommandRefused \/ CommandDone
  BY <1>4, <1>5 DEF TypeOK, Skip, CommandRefused, CommandDone
<1>6. CASE Command
  <2>1. ran' \subseteq Chats
    BY <1>2, <1>6 DEF TypeOK, Command
  <2> QED
    BY <1>1, <1>6, <2>1 DEF TypeOK, Command
<1>7. CASE WrongPassword
  BY <1>1, <1>4, <1>7 DEF TypeOK, WrongPassword
<1>8. CASE Authorize
  <2>1. authorizedChats' \subseteq Chats
    BY <1>2, <1>8 DEF TypeOK, Authorize
  <2> QED
    BY <1>1, <1>8, <2>1 DEF TypeOK, Authorize
<1>9. CASE InsertBegin
  BY <1>1, <1>9 DEF TypeOK, InsertBegin
<1>10. CASE InsertBusy
  BY <1>1, <1>4, <1>10 DEF TypeOK, InsertBusy
<1>11. CASE InsertCommit
  <2>1. chatsTable' \subseteq Chats /\ told' \subseteq Chats
    BY <1>2, <1>11 DEF TypeOK, InsertCommit
  <2> QED
    BY <1>1, <1>4, <1>11, <2>1 DEF TypeOK, InsertCommit
<1> QED
  BY <1>1, <1>5, <1>6, <1>7, <1>8, <1>9, <1>10, <1>11
     DEF AtMessage, Branches, Inserts

LEMMA LogType ==
  ASSUME TypeOK, Locked, NEW h \in Handlers,
         (\E n \in Names : LogBegin(h, n) \/ LogBusy(h, n)) \/ LogCommit(h)
  PROVE  TypeOK' /\ Locked'
<1> USE DEF telegramVars, dbVars, ghosts, lossVars
<1>1. ASSUME NEW n \in Names, LogBegin(h, n) PROVE TypeOK' /\ Locked'
  BY <1>1 DEF TypeOK, Locked, LogBegin
<1>2. ASSUME NEW n \in Names, LogBusy(h, n) PROVE TypeOK' /\ Locked'
  BY <1>2 DEF TypeOK, Locked, LogBusy
<1>3. CASE LogCommit(h)
  <2>1. writing[h] \in Names
    BY <1>3 DEF Locked, LogCommit
  <2> QED
    BY <1>3, <2>1, NoneAssumption DEF TypeOK, Locked, LogCommit
<1> QED
  BY <1>1, <1>2, <1>3

LEMMA CrashType == TypeOK /\ Crash => TypeOK'
<1> SUFFICES ASSUME TypeOK, Crash PROVE TypeOK'
  OBVIOUS
<1>1. lost' \subseteq 1 .. MaxUpdates
  <2>1. 1 .. acked \subseteq 1 .. MaxUpdates
    BY Bounds DEF TypeOK
  <2>2. lost' \subseteq lost \cup 1 .. acked
    BY DEF Crash
  <2> QED
    BY <2>1, <2>2 DEF TypeOK
<1>2. /\ got' \in 0 .. Len(sent) /\ acked \in 0 .. got' /\ done' \in 0 .. got'
      /\ restarts' \in 0 .. MaxRestarts
  BY Bounds DEF TypeOK, Crash
<1> QED
  BY <1>1, <1>2 DEF TypeOK, Crash

-----------------------------------------------------------------------------
(* The invariant.                                                          *)

(* A message once sent stays, and with it what its chat knows.             *)
LEMMA KnowsGrows ==
  ASSUME TypeOK, NEW c \in Chats, NEW t \in Texts, Send(c, t)
  PROVE  Knows \subseteq Knows'
<1>1. /\ Len(sent') = Len(sent) + 1
      /\ \A i \in 1 .. Len(sent) : sent'[i] = sent[i]
      /\ Len(sent) \in Nat
  BY SendType DEF TypeOK
<1> QED
  BY <1>1 DEF Knows, Message

(* The chat of a password that was sent knows it.                          *)
LEMMA PassKnown ==
  ASSUME NEW i \in 1 .. Len(sent), Message(i).text = "pass"
  PROVE  Message(i).chat \in Knows
  BY DEF Knows

LEMMA StartInv == Inv /\ (NewBot \/ NewBotFails) => Inv'
<1> SUFFICES ASSUME Inv, NewBot \/ NewBotFails PROVE Inv'
  OBVIOUS
<1> USE DEF telegramVars, dbVars, ghosts, lossVars
<1>1. TypeOK' /\ pc' = "range"
  BY StartType DEF Inv, Inserting, NewBot, NewBotFails
<1>2. Locked' /\ Knows' = Knows
  BY DEF Inv, Locked, Knows, Message, NewBot, NewBotFails
<1>3. OnlyWithPassword' /\ SuccessLasts'
  BY <1>2 DEF Inv, OnlyWithPassword, SuccessLasts, NewBot, NewBotFails
<1> QED
  BY <1>1, <1>2, <1>3 DEF Inv, Inserting

LEMMA SendInv ==
  ASSUME Inv, NEW c \in Chats, NEW t \in Texts, Send(c, t)
  PROVE  Inv'
<1> USE DEF dbVars, ghosts
<1>1. TypeOK' /\ Knows \subseteq Knows'
  BY SendType, KnowsGrows DEF Inv
<1>2. pc # "range" => Message(done)' = Message(done)
  <2> SUFFICES ASSUME pc # "range" PROVE sent'[done] = sent[done]
    BY DEF Message, Send
  <2>1. done \in 1 .. Len(sent)
    BY DEF Inv, TypeOK, Inserting
  <2> QED
    BY <2>1, SendType DEF Inv
<1>3. Inserting'
  BY <1>2 DEF Inv, Inserting, Send
<1>4. Locked' /\ OnlyWithPassword' /\ SuccessLasts'
  BY <1>1 DEF Inv, Locked, OnlyWithPassword, SuccessLasts, Send
<1> QED
  BY <1>1, <1>3, <1>4 DEF Inv

LEMMA PollInv == Inv /\ Poll => Inv'
<1> SUFFICES ASSUME Inv, Poll PROVE Inv'
  OBVIOUS
<1> USE DEF dbVars, ghosts
<1>1. TypeOK' /\ Knows' = Knows
  BY PollType DEF Inv, Poll, Knows, Message
<1>2. Inserting' /\ Locked'
  BY DEF Inv, Inserting, Locked, Message, Poll
<1>3. OnlyWithPassword' /\ SuccessLasts'
  BY <1>1 DEF Inv, OnlyWithPassword, SuccessLasts, Poll
<1> QED
  BY <1>1, <1>2, <1>3 DEF Inv

LEMMA TakeInv == Inv /\ Take => Inv'
<1> SUFFICES ASSUME Inv, Take PROVE Inv'
  OBVIOUS
<1> USE DEF dbVars, ghosts
<1>1. TypeOK' /\ done + 1 \in 1 .. got
  BY TakeType DEF Inv
<1>2. /\ UNCHANGED <<phase, sent, authorizedChats, chatsTable, lock, writing>>
      /\ UNCHANGED <<told, ran, loadFailed>>
      /\ phase = "up" /\ pc' = "handle" /\ done' = done + 1
  BY DEF Take
<1> QED
  BY <1>1, <1>2 DEF Inv, Inserting, Locked, OnlyWithPassword, SuccessLasts,
     Knows, Message

(* Only Authorize authorizes, and only the chat of a password.             *)
LEMMA BranchInv == Inv /\ (Branches \/ CommandDone) => Inv'
<1> SUFFICES ASSUME Inv, Branches \/ CommandDone PROVE Inv'
  OBVIOUS
<1> USE DEF telegramVars, dbVars, ghosts, lossVars, Case, Returns
<1>1. /\ TypeOK' /\ pc # "range" /\ phase = "up"
      /\ UNCHANGED <<phase, telegramVars>>
  BY AtMessageType DEF Inv, AtMessage
<1>2. UNCHANGED <<chatsTable, told, lock, writing, loadFailed>>
  BY DEF Branches, Skip, CommandRefused, Command, WrongPassword, Authorize,
         CommandDone
<1>3. /\ Knows' = Knows /\ Locked' /\ Message(done)' = Message(done)
      /\ done >= 1
  BY <1>1, <1>2 DEF Inv, Inserting, Knows, Message, Locked
<1>4. CASE Skip \/ CommandRefused \/ WrongPassword \/ CommandDone
  <2>1. UNCHANGED <<authorizedChats, ran>> /\ pc' = "range"
    BY <1>4 DEF Skip, CommandRefused, WrongPassword, CommandDone
  <2> QED
    BY <1>1, <1>2, <1>3, <2>1
       DEF Inv, Inserting, OnlyWithPassword, SuccessLasts
<1>5. CASE Command
  <2>1. UNCHANGED authorizedChats /\ pc' = "carry"
    BY <1>5 DEF Command
  <2>2. ran' \subseteq ran \cup authorizedChats
    BY <1>5 DEF Command, isAuthorized
  <2> QED
    BY <1>1, <1>2, <1>3, <2>1, <2>2
       DEF Inv, Inserting, OnlyWithPassword, SuccessLasts
<1>6. CASE Authorize
  <2> DEFINE c == Message(done).chat
  <2>1. /\ authorizedChats' = authorizedChats \cup {c} /\ UNCHANGED ran
        /\ Message(done).text = "pass"
    BY <1>6 DEF Authorize
  <2>2. done \in 1 .. Len(sent)
    BY <1>1, UnderWay, MessageType DEF Inv
  <2>3. c \in Knows
    BY <2>1, <2>2, PassKnown
  <2>4. Inserting'
    BY <1>1, <1>3, <2>1 DEF Inserting
  <2>5. OnlyWithPassword' /\ SuccessLasts'
    BY <1>1, <1>2, <1>3, <2>1, <2>3 DEF Inv, OnlyWithPassword, SuccessLasts
  <2> QED
    BY <1>1, <1>3, <2>4, <2>5 DEF Inv
<1> QED
  BY <1>4, <1>5, <1>6 DEF Branches

(* The chat whose row is committed was authorized before the insert.       *)
LEMMA InsertInv == Inv /\ Inserts => Inv'
<1> SUFFICES ASSUME Inv, Inserts PROVE Inv'
  OBVIOUS
<1> USE DEF telegramVars, dbVars, ghosts, lossVars, Returns
<1>1. TypeOK' /\ UNCHANGED <<phase, sent, done, authorizedChats, ran>>
  BY AtMessageType
     DEF Inv, AtMessage, Inserts, InsertBegin, InsertBusy, InsertCommit
<1>2. UNCHANGED <<loadFailed, writing>>
  BY DEF Inserts, InsertBegin, InsertBusy, InsertCommit
<1>3. Knows' = Knows /\ Message(done)' = Message(done)
  BY <1>1 DEF Knows, Message
<1>4. Locked'
  BY <1>2, NoneAssumption DEF Inv, Locked, Inserts, InsertBegin, InsertBusy,
                              InsertCommit
<1>5. Inserting'
  BY <1>1, <1>3
     DEF Inv, Inserting, Inserts, InsertBegin, InsertBusy, InsertCommit
<1>6. CASE InsertBegin \/ InsertBusy
  BY <1>1, <1>2, <1>3, <1>4, <1>5, <1>6 DEF Inv, OnlyWithPassword,
     SuccessLasts, InsertBegin, InsertBusy
<1>7. CASE InsertCommit
  <2> DEFINE c == Message(done).chat
  <2>1. c \in authorizedChats
    BY <1>7 DEF Inv, Inserting, InsertCommit
  <2>2. chatsTable' = chatsTable \cup {c} /\ told' = told \cup {c}
    BY <1>7 DEF InsertCommit
  <2> QED
    BY <1>1, <1>2, <1>3, <1>4, <1>5, <2>1, <2>2
       DEF Inv, OnlyWithPassword, SuccessLasts
<1> QED
  BY <1>6, <1>7 DEF Inserts

LEMMA LogInv ==
  ASSUME Inv, NEW h \in Handlers,
         (\E n \in Names : LogBegin(h, n) \/ LogBusy(h, n)) \/ LogCommit(h)
  PROVE  Inv'
<1> USE DEF telegramVars, dbVars, ghosts, lossVars
<1>1. TypeOK' /\ Locked'
  BY LogType DEF Inv
<1>2. /\ UNCHANGED <<phase, sent, done, pc, authorizedChats, chatsTable>>
      /\ UNCHANGED <<told, ran, loadFailed>>
  BY DEF LogBegin, LogBusy, LogCommit
<1> QED
  BY <1>1, <1>2 DEF Inv, Inserting, OnlyWithPassword, SuccessLasts, Knows,
     Message

(* A new process is not up before it has read the table.                   *)
LEMMA CrashInv == Inv /\ Crash => Inv'
<1> SUFFICES ASSUME Inv, Crash PROVE Inv'
  OBVIOUS
<1>1. TypeOK' /\ Knows' = Knows
  BY CrashType DEF Inv, Crash, Knows, Message
<1>2. Inserting' /\ Locked'
  BY NoneAssumption DEF Inserting, Locked, Crash
<1>3. OnlyWithPassword' /\ SuccessLasts'
  BY <1>1 DEF Inv, OnlyWithPassword, SuccessLasts, Crash
<1> QED
  BY <1>1, <1>2, <1>3 DEF Inv

LEMMA StutterInv == Inv /\ UNCHANGED vars => Inv'
  BY DEF Inv, TypeOK, Inserting, Locked, OnlyWithPassword, SuccessLasts,
         Knows, Message, vars

(* The inductive invariant holds of every reachable state.                 *)
THEOREM InvHolds == Spec => []Inv
<1>1. Init => Inv
  BY InitType, NoneAssumption DEF Init, Inv, Inserting, Locked,
     OnlyWithPassword, SuccessLasts
<1>2. Inv /\ [Next]_vars => Inv'
  BY StartInv, SendInv, PollInv, TakeInv, BranchInv, InsertInv, LogInv,
     CrashInv, StutterInv DEF Next, BotStep, Branches, Inserts
<1> QED
  BY <1>1, <1>2, PTL DEF Spec

(* Every variable keeps its type.                                          *)
THEOREM TypeCorrect == Spec => []TypeOK
<1>1. Inv => TypeOK
  BY DEF Inv
<1> QED
  BY InvHolds, <1>1, PTL

(* Nobody is authorized, and no command carried out, without the password: *)
(* not after a crash at any step, and not by what another chat sends       *)
(* (bot.go:142-171).                                                       *)
THEOREM PasswordNeeded == Spec => []OnlyWithPassword
<1>1. Inv => OnlyWithPassword
  BY DEF Inv
<1> QED
  BY InvHolds, <1>1, PTL

(* What a chat was told of its success is true in every later life that    *)
(* could read the table (bot.go:102-161).                                  *)
THEOREM SuccessIsKept == Spec => []SuccessLasts
<1>1. Inv => SuccessLasts
  BY DEF Inv
<1> QED
  BY InvHolds, <1>1, PTL

-----------------------------------------------------------------------------
(* What a crash can lose.                                                  *)

(* The message whose handler is under way, if there is one.                *)
InHand == IF pc = "range" THEN {} ELSE {done}

(* What Start has taken is handled, lost in a crash, or under way.         *)
Accounted == 1 .. done \subseteq handled \cup lost \cup InHand

LEMMA AccountedStep == Inv /\ Accounted /\ [Next]_vars => Accounted'
<1> SUFFICES ASSUME Inv, Accounted, [Next]_vars PROVE Accounted'
  OBVIOUS
<1> USE DEF telegramVars, dbVars, ghosts, lossVars, Case, Returns
<1>1. done \in Nat /\ acked \in Nat /\ got \in Nat /\ Len(sent) \in Nat
        /\ acked <= Len(sent)
  BY DEF Inv, TypeOK
<1>2. CASE Take
  <2>1. 1 .. done \subseteq handled \cup lost
    BY <1>2 DEF Accounted, InHand, Take
  <2>2. /\ done' = done + 1 /\ pc' = "handle"
        /\ UNCHANGED <<handled, lost>>
    BY <1>2 DEF Take
  <2>3. InHand' = {done + 1}
    BY <2>2 DEF InHand
  <2>4. 1 .. done' = 1 .. done \cup {done + 1}
    BY <1>1, <2>2
  <2> QED
    BY <2>1, <2>2, <2>3, <2>4 DEF Accounted
<1>3. CASE AtMessage
  <2>1. UNCHANGED <<done, lost>>
    BY <1>3 DEF AtMessage, Branches, Inserts, Skip, CommandRefused, Command,
       WrongPassword, Authorize, CommandDone, InsertBegin, InsertBusy,
       InsertCommit
  <2>2. \/ pc' = "range" /\ handled' = handled \cup {done}
        \/ pc' # "range" /\ handled' = handled
    BY <1>3 DEF AtMessage, Branches, Inserts, Skip, CommandRefused, Command,
       WrongPassword, Authorize, CommandDone, InsertBegin, InsertBusy,
       InsertCommit
  <2>3. InHand \subseteq {done}
    BY DEF InHand
  <2>4. {done} \subseteq handled' \cup InHand'
    BY <2>1, <2>2 DEF InHand
  <2>5. handled \subseteq handled'
    BY <2>2
  <2> QED
    BY <2>1, <2>3, <2>4, <2>5 DEF Accounted
<1>4. CASE Crash
  <2>1. /\ done' = acked /\ UNCHANGED handled
        /\ lost' = lost \cup ((Unhandled \cap 1 .. acked) \ handled)
    BY <1>4 DEF Crash
  <2> SUFFICES ASSUME NEW i \in 1 .. acked PROVE i \in handled \cup lost'
    BY <2>1 DEF Accounted
  <2>2. CASE i <= done
    <3>1. i \in handled \cup lost \cup InHand
      BY <1>1, <2>2 DEF Accounted
    <3>2. InHand \subseteq Unhandled
      BY DEF InHand, Unhandled
    <3> QED
      BY <2>1, <3>1, <3>2
  <2>3. CASE i > done
    <3>1. i \in Unhandled
      BY <1>1, <2>3 DEF Unhandled
    <3> QED
      BY <2>1, <3>1
  <2> QED
    BY <1>1, <2>2, <2>3
<1>5. CASE UNCHANGED <<done, pc, handled, lost>>
  BY <1>5 DEF Accounted, InHand
<1> QED
  BY <1>2, <1>3, <1>4, <1>5 DEF Next, BotStep, AtMessage, Branches, Inserts,
     NewBot, NewBotFails, Send, Poll, LogBegin, LogCommit, LogBusy, vars

(* Whatever Telegram takes for confirmed has been handled, or a crash has  *)
(* lost it, or it is still in the channel or with Start: no message leaves *)
(* the bot in any other way (bot.go:848-884, GetUpdatesChan).              *)
THEOREM NoneDisappears ==
  Spec => [](1 .. acked \subseteq
                handled \cup lost \cup InHand \cup (done + 1 .. got))
<1>1. Init => Accounted
  BY DEF Init, Accounted
<1>2. Inv /\ Accounted =>
         1 .. acked \subseteq
            handled \cup lost \cup InHand \cup (done + 1 .. got)
  <2> SUFFICES ASSUME Inv, Accounted, NEW i \in 1 .. acked
               PROVE  i \in handled \cup lost \cup InHand
                              \cup (done + 1 .. got)
    OBVIOUS
  <2>1. /\ done \in Nat /\ acked \in Nat /\ got \in Nat /\ acked <= got
        /\ i \in Nat /\ 1 <= i /\ i <= acked
    BY DEF Inv, TypeOK
  <2>2. i \in 1 .. done \/ i \in done + 1 .. got
    BY <2>1
  <2> QED
    BY <2>2 DEF Accounted
<1> QED
  BY <1>1, <1>2, AccountedStep, InvHolds, PTL DEF Spec

(* A loss of at most Cap messages of the channel and one under way.        *)
LEMMA LossStep ==
  ASSUME Inv, Buffered, LossBounded, Crash
  PROVE  LossBounded'
<1> DEFINE waiting == done + 1 .. acked
           new == waiting \cup InHand
<1>1. TypeOK
  BY DEF Inv
<1>2. IsFiniteSet(lost) /\ IsFiniteSet(waiting)
  <2>1. IsFiniteSet(1 .. MaxUpdates)
    BY Bounds, FS_Interval
  <2>2. IsFiniteSet(lost)
    BY <1>1, <2>1, FS_Subset DEF TypeOK
  <2>3. IsFiniteSet(waiting)
    BY <1>1, FS_Interval DEF TypeOK
  <2> QED
    BY <2>2, <2>3
<1>3. Cardinality(waiting) <= Cap /\ Cardinality(waiting) \in Nat
  <2>1. /\ acked \in Nat /\ done \in Nat /\ Cap \in Nat
        /\ acked - done <= Cap
    BY <1>1, Bounds DEF TypeOK, Buffered
  <2>2. Cardinality(waiting) =
          IF done + 1 > acked THEN 0 ELSE acked - (done + 1) + 1
    BY <2>1, FS_Interval
  <2> HIDE DEF waiting
  <2> QED
    BY <2>1, <2>2
<1>4. IsFiniteSet(new) /\ Cardinality(new) \in Nat
        /\ Cardinality(new) <= Cap + 1
  <2>1. CASE pc = "range"
    <3>1. new = waiting
      BY <2>1 DEF InHand
    <3> HIDE DEF new, waiting
    <3> QED
      BY <1>2, <1>3, <3>1, Bounds
  <2>2. CASE pc # "range"
    <3>1. new = waiting \cup {done}
      BY <2>2 DEF InHand
    <3> HIDE DEF new, waiting
    <3>2. IsFiniteSet(waiting \cup {done})
            /\ Cardinality(waiting \cup {done}) \in
                  {Cardinality(waiting), Cardinality(waiting) + 1}
      BY <1>2, FS_AddElement
    <3> QED
      BY <1>3, <3>1, <3>2, Bounds
  <2> QED
    BY <2>1, <2>2
<1>5. lost' \subseteq lost \cup new /\ restarts' = restarts + 1
  <2>1. Unhandled \cap 1 .. acked \subseteq new
    BY <1>1 DEF Unhandled, InHand, TypeOK
  <2> HIDE DEF new
  <2> QED
    BY <2>1 DEF Crash
<1> HIDE DEF new, waiting
<1>6. /\ Cardinality(lost \cup new) \in Nat /\ IsFiniteSet(lost \cup new)
      /\ Cardinality(lost \cup new) <= Cardinality(lost) + Cardinality(new)
  <2>1. /\ IsFiniteSet(lost \cup new)
        /\ Cardinality(lost \cup new) =
              Cardinality(lost) + Cardinality(new) - Cardinality(lost \cap new)
    BY <1>2, <1>4, FS_Union
  <2>2. /\ Cardinality(lost \cap new) \in Nat
        /\ Cardinality(lost \cup new) \in Nat /\ Cardinality(lost) \in Nat
    BY <1>2, <2>1, FS_Intersection, FS_CardinalityType
  <2> QED
    BY <1>4, <2>1, <2>2
<1>7. Cardinality(lost') <= Cardinality(lost \cup new)
        /\ Cardinality(lost') \in Nat
  BY <1>5, <1>6, FS_Subset, FS_CardinalityType
<1>8. /\ (restarts + 1) * (Cap + 1) = restarts * (Cap + 1) + (Cap + 1)
      /\ restarts * (Cap + 1) \in Nat
  BY <1>1, Bounds DEF TypeOK
<1>9. Cardinality(lost) \in Nat
  BY <1>2, FS_CardinalityType
<1> QED
  BY <1>4, <1>5, <1>6, <1>7, <1>8, <1>9, Bounds DEF LossBounded

(* However often the process dies, each crash loses no more messages than  *)
(* the channel holds and the one whose handler it cuts short               *)
(* (bot.go:848-884 and the library's GetUpdatesChan).                      *)
THEOREM LossIsBounded == Spec => []LossBounded
<1>1. Init => Buffered /\ LossBounded
  <2>1. Cardinality({}) = 0
    BY FS_EmptySet
  <2> QED
    BY <2>1, Bounds DEF Init, Buffered, LossBounded
<1>2. Inv /\ Buffered /\ LossBounded /\ [Next]_vars
        => (Buffered /\ LossBounded)'
  <2> SUFFICES ASSUME Inv, Buffered, LossBounded, [Next]_vars
               PROVE  (Buffered /\ LossBounded)'
    OBVIOUS
  <2> USE DEF telegramVars, dbVars, ghosts, lossVars, Case, Returns
  <2>0. TypeOK
    BY DEF Inv
  <2>1. CASE Crash
    BY <2>0, <2>1, LossStep, Bounds DEF Buffered, Crash, TypeOK
  <2>2. CASE Poll
    BY <2>0, <2>2 DEF Buffered, LossBounded, Poll, TypeOK
  <2>3. CASE Take
    BY <2>0, <2>3, Bounds DEF Buffered, LossBounded, TypeOK, Take
  <2>4. CASE UNCHANGED <<acked, done, lost, restarts>>
    BY <2>4 DEF Buffered, LossBounded
  <2> QED
    BY <2>1, <2>2, <2>3, <2>4 DEF Next, BotStep, NewBot, NewBotFails, Send,
       Skip, CommandRefused, Command, CommandDone, WrongPassword, Authorize,
       InsertBegin, InsertBusy, InsertCommit, LogBegin, LogBusy, LogCommit,
       vars
<1> QED
  BY <1>1, <1>2, InvHolds, PTL DEF Spec

-----------------------------------------------------------------------------
(* The two sides of the bot.                                               *)

(* Each side, whatever the turns, does what its own module says: so what   *)
(* is proved of BotAuth and of BotDisplay holds of the two together.       *)
THEOREM SidesIndependent == BothSpec => Spec /\ DisplaySpec
<1>1. BothInit => Init /\ DisplayInit
  BY DEF BothInit
<1>2. [BothNext]_bothVars => [Next]_vars
  BY DEF BothNext, Listen, Display, bothVars
<1>3. [BothNext]_bothVars => [DisplayNext]_displayVars
  BY DEF BothNext, Listen, Display, bothVars
<1> QED
  BY <1>1, <1>2, <1>3, PTL DEF BothSpec, Spec, DisplaySpec

=============================================================================
