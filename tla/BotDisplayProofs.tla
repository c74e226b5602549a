-------------------------- MODULE BotDisplayProofs --------------------------
(* The invariants of BotDisplay for any domains, addresses and sizes.      *)
EXTENDS BotDisplay, FiniteSetTheorems, TLAPS

-----------------------------------------------------------------------------
(* Sizes.                                                                  *)

LEMMA SizeTypes ==
  /\ Header \in Nat /\ Title \in Nat /\ Line \in Nat /\ More \in Nat
  /\ MaxMessageSize \in Nat /\ TelegramMax \in Nat /\ MaxPatterns \in Nat
  /\ MaxIPsToShow \in Nat /\ MaxMessageSize <= TelegramMax
  BY SizesAssumption

(* The addresses of a domain are finitely many.                            *)
LEMMA IpsOfCount ==
  ASSUME NEW ps, NEW d
  PROVE  Cardinality(IpsOf(ps, d)) \in Nat
<1>1. IsFiniteSet(IpsOf(ps, d))
  BY FiniteAssumption, FS_Subset DEF IpsOf
<1> QED
  BY <1>1, FS_CardinalityType

LEMMA LineTimes ==
  ASSUME NEW k \in Nat, NEW n \in Nat, k <= n
  PROVE  Line * k \in Nat /\ Line * k <= Line * n
<1>1. Line \in Nat
  BY SizeTypes
<1>2. PICK r \in Nat : n = k + r
  <2>1. n - k \in Nat /\ n = k + (n - k)
    OBVIOUS
  <2> QED
    BY <2>1
<1>3. Line * k \in Nat /\ Line * r \in Nat
  BY <1>1
<1>4. Line * n = Line * k + Line * r
  BY <1>1, <1>2
<1> QED
  BY <1>3, <1>4

(* A block fits into a message of its own (bot.go:785-811).                *)
LEMMA BlockFits ==
  ASSUME NEW n \in Nat
  PROVE  BlockSize(n) \in Nat /\ Header + BlockSize(n) <= MaxMessageSize
<1> DEFINE k == Smaller(n, MaxIPsToShow)
<1>1. k \in Nat /\ k <= MaxIPsToShow
  BY SizeTypes DEF Smaller
<1>2. Line * k \in Nat /\ Line * k <= Line * MaxIPsToShow
        /\ Line * MaxIPsToShow \in Nat
  BY <1>1, LineTimes, SizeTypes
<1>3. BlockSize(n) = Title + Line * k + (IF n > MaxIPsToShow THEN More ELSE 0)
  BY DEF BlockSize
<1> HIDE DEF k
<1> DEFINE x == Line * k
           y == Line * MaxIPsToShow
<1>4. x \in Nat /\ y \in Nat /\ x <= y
  BY <1>2
<1>5. Header + Title + y + More <= MaxMessageSize
  BY BlockAssumption
<1>6. BlockSize(n) = Title + x + (IF n > MaxIPsToShow THEN More ELSE 0)
  BY <1>3
<1> HIDE DEF x, y
<1> QED
  BY <1>4, <1>5, <1>6, SizeTypes

(* What is sent at once is what Telegram takes.                            *)
LEMMA DeliveredFits ==
  ASSUME NEW m, m.size \in Nat, m.size <= MaxMessageSize
  PROVE  Delivered(m) = <<m>>
  BY SizeTypes DEF Delivered

LEMMA DeliveredType ==
  ASSUME NEW m \in MessageTypes
  PROVE  Delivered(m) \in Seq(MessageTypes)
  BY DEF Delivered

LEMMA ElementType ==
  ASSUME NEW S, NEW s \in Seq(S), NEW i \in 1 .. Len(s)
  PROVE  s[i] \in S
  OBVIOUS

LEMMA ConcatType ==
  ASSUME NEW S, NEW s \in Seq(S), NEW t \in Seq(S)
  PROVE  s \o t \in Seq(S)
  OBVIOUS

LEMMA HeadingType == Heading \in MessageTypes /\ NoMessage \in MessageTypes
  BY SizeTypes DEF Heading, NoMessage, MessageTypes

-----------------------------------------------------------------------------
(* Types, and where the pairs that are asked for come from.                *)

Asking ==
  /\ stage \notin {"filter", "format"} => todo = {}
  /\ missed # NoPair => missed \in todo
  /\ stage \in {"idle", "filter"} => /\ messages = <<>> /\ current = NoMessage
                                  /\ labels = {} /\ left = {}
  /\ stage = "idle" => filtered = {}
  /\ stage \in {"blocks", "format"} => filtered # {}
  /\ stage = "format" => todo \subseteq filtered /\ domain \in Domains
  /\ stage # "format" => domain = NoPair

Inv == DisplayTypeOK /\ Asking

LEMMA InitInv == DisplayInit => Inv
<1> SUFFICES ASSUME DisplayInit PROVE Inv
  OBVIOUS
<1>1. current \in MessageTypes /\ messages \in Seq(MessageTypes)
  BY HeadingType DEF DisplayInit
<1>2. Asking
  BY DEF DisplayInit, Asking
<1> QED
  BY <1>1, <1>2 DEF DisplayInit, Inv, DisplayTypeOK

LEMMA InstallInv == Inv /\ Install => Inv'
  BY DEF Inv, DisplayTypeOK, Asking, Install, Kernel!Add, output, before

LEMMA ShowPatternsInv == Inv /\ ShowPatterns => Inv'
<1> SUFFICES ASSUME Inv, ShowPatterns PROVE Inv'
  OBVIOUS
<1> USE DEF sets
<1>1. messages' \in Seq(MessageTypes)
  <2> DEFINE listed == IF command = "ru" THEN 0 ELSE MaxPatterns
  <2>1. PICK n \in 0 .. listed :
          messages' = Delivered([domains |-> {}, size |-> Header + Line * n])
    BY Zenon DEF ShowPatterns
  <2>2. n \in 0 .. MaxPatterns
    BY <2>1, SizesAssumption
  <2> HIDE DEF listed
  <2>3. Header + Line * n \in Nat
    BY <2>2, SizeTypes, LineTimes
  <2> QED
    BY <2>1, <2>3, DeliveredType DEF MessageTypes
<1>2. Asking'
  BY DEF Inv, Asking, ShowPatterns
<1> QED
  BY <1>1, <1>2 DEF Inv, DisplayTypeOK, ShowPatterns

LEMMA LookupInv == Inv /\ Lookup => Inv'
<1> SUFFICES ASSUME Inv, Lookup PROVE Inv'
  OBVIOUS
<1> USE DEF sets
<1>1. PICK found \in {history, {}} :
        IF found = {}
        THEN /\ messages' = Delivered(Heading) /\ stage' = "done"
             /\ UNCHANGED <<todo, filtered, left, current>>
        ELSE /\ IF command = "site"
                THEN /\ filtered' = found /\ left' = DomainsOf(found)
                     /\ current' = Heading /\ stage' = "blocks" /\ todo' = {}
                ELSE /\ todo' = found /\ stage' = "filter"
                     /\ UNCHANGED <<filtered, left, current>>
             /\ UNCHANGED messages
  BY DEF Lookup
<1>2. found \subseteq Pairs /\ DomainsOf(found) \subseteq Domains
  BY DEF Inv, DisplayTypeOK, DomainsOf
<1>3. messages' \in Seq(MessageTypes) /\ current' \in MessageTypes
  BY <1>1, HeadingType, DeliveredType DEF Inv, DisplayTypeOK
<1>4. missed = NoPair /\ missed' = NoPair
  BY DEF Inv, Asking, Lookup
<1>5. Asking'
  BY <1>1, <1>4 DEF Inv, Asking, Lookup
<1> QED
  BY <1>1, <1>2, <1>3, <1>5 DEF Inv, DisplayTypeOK, Lookup

(* What one answer of getIPRouteStatus changes.                            *)
LEMMA AnswerInv ==
  ASSUME Inv, NEW p \in todo, NEW status \in Statuses, Answer(p, status)
  PROVE  Inv' /\ stage \in {"filter", "format"}
<1> USE DEF sets, output, before
<1>1. stage \in {"filter", "format"}
  BY DEF Inv, Asking
<1>2. p \in Pairs /\ <<p, status>> \in Pairs \X Statuses
  BY DEF Inv, DisplayTypeOK
<1>3. filtered' \subseteq Pairs /\ labels' \subseteq Pairs \X Statuses
  BY <1>2 DEF Inv, DisplayTypeOK, Answer
<1>4. Asking'
  BY <1>1 DEF Inv, Asking, Answer
<1> QED
  BY <1>1, <1>3, <1>4 DEF Inv, DisplayTypeOK, Answer

LEMMA TestInv ==
  ASSUME Inv, (\E p \in Pairs : TestNL(p)) \/ TestUSA
  PROVE  Inv'
<1>1. ASSUME NEW p \in Pairs, TestNL(p) PROVE Inv'
  <2>1. CASE p[2] \in nl
    BY <1>1, <2>1, AnswerInv DEF TestNL, Statuses
  <2>2. CASE p[2] \notin nl
    BY <1>1, <2>2 DEF Inv, DisplayTypeOK, Asking, TestNL, sets, output, before
  <2> QED
    BY <2>1, <2>2
<1>2. CASE TestUSA
  BY <1>2, AnswerInv DEF Inv, Asking, TestUSA, Statuses
<1> QED
  BY <1>1, <1>2

LEMMA FilterDoneInv == Inv /\ FilterDone => Inv'
<1> SUFFICES ASSUME Inv, FilterDone PROVE Inv'
  OBVIOUS
<1> USE DEF sets, before
<1>1. messages' \in Seq(MessageTypes) /\ current' \in MessageTypes
  BY HeadingType, DeliveredType DEF Inv, DisplayTypeOK, FilterDone
<1>2. left' \subseteq Domains /\ stage' \in {"done", "blocks"}
  BY DEF Inv, DisplayTypeOK, FilterDone, DomainsOf
<1>3. Asking'
  BY DEF Inv, Asking, FilterDone
<1> QED
  BY <1>1, <1>2, <1>3 DEF Inv, DisplayTypeOK, FilterDone

(* createDomainBlock asks for pairs that were kept.                        *)
LEMMA BlockInv ==
  ASSUME Inv, NEW d \in Domains, Block(d)
  PROVE  Inv'
<1> USE DEF sets, output, before
<1>1. todo' \subseteq filtered
  BY DEF Block, IpsOf
<1>2. Asking'
  BY <1>1 DEF Inv, Asking, Block
<1> QED
  BY <1>1, <1>2 DEF Inv, DisplayTypeOK, Block

(* The two ways of Put, for the block of the domain at hand.               *)
LEMMA BlockDoneCases ==
  ASSUME Inv, BlockDone
  PROVE  \E s \in Nat :
           /\ Header + s <= MaxMessageSize
           /\ \/ /\ current.size + s > MaxMessageSize
                 /\ messages' = messages \o Delivered(current)
                 /\ current' = [domains |-> {domain}, size |-> Header + s]
              \/ /\ current.size + s <= MaxMessageSize
                 /\ current' = [domains |-> current.domains \cup {domain},
                                size |-> current.size + s]
                 /\ messages' = messages
<1> DEFINE s == BlockSize(Cardinality(IpsOf(filtered, domain)))
<1>1. s \in Nat /\ Header + s <= MaxMessageSize
  BY IpsOfCount, BlockFits
<1>2. Put(s)
  BY DEF BlockDone
<1>3. current.size \in Nat
  BY DEF Inv, DisplayTypeOK, MessageTypes
<1> HIDE DEF s
<1> QED
  BY <1>1, <1>2, <1>3, SizeTypes DEF Put

LEMMA BlockDoneInv == Inv /\ BlockDone => Inv'
<1> SUFFICES ASSUME Inv, BlockDone PROVE Inv'
  OBVIOUS
<1> USE DEF sets, before
<1>1. domain \in Domains /\ current \in MessageTypes
        /\ messages \in Seq(MessageTypes)
  BY DEF Inv, DisplayTypeOK, Asking, BlockDone
<1>2. messages' \in Seq(MessageTypes)
  <2>1. messages \o Delivered(current) \in Seq(MessageTypes)
    BY <1>1, DeliveredType, ConcatType
  <2>2. messages' \in {messages \o Delivered(current), messages}
    BY BlockDoneCases
  <2> QED
    BY <1>1, <2>1, <2>2
<1>3. current' \in MessageTypes
  <2>1. current.domains \subseteq Domains /\ current.size \in Nat
    BY <1>1 DEF MessageTypes
  <2> QED
    BY <1>1, <2>1, BlockDoneCases, SizeTypes DEF MessageTypes
<1>4. Asking'
  BY DEF Inv, Asking, BlockDone
<1> QED
  BY <1>2, <1>4, <1>3 DEF Inv, DisplayTypeOK, BlockDone

LEMMA LastMessageInv == Inv /\ LastMessage => Inv'
<1> SUFFICES ASSUME Inv, LastMessage PROVE Inv'
  OBVIOUS
<1> USE DEF sets, before
<1>1. messages' \in Seq(MessageTypes)
  BY DeliveredType DEF Inv, DisplayTypeOK, LastMessage
<1>2. Asking'
  BY DEF Inv, Asking, LastMessage
<1> QED
  BY <1>1, <1>2 DEF Inv, DisplayTypeOK, LastMessage

LEMMA StutterInv == Inv /\ UNCHANGED displayVars => Inv'
  BY DEF Inv, DisplayTypeOK, Asking, displayVars

LEMMA StepInv == Inv /\ [DisplayNext]_displayVars => Inv'
  BY InstallInv, ShowPatternsInv, LookupInv, TestInv, FilterDoneInv, BlockInv,
     BlockDoneInv, LastMessageInv, StutterInv DEF DisplayNext

(* Every variable keeps its type.                                          *)
THEOREM TypeCorrect == DisplaySpec => []DisplayTypeOK
<1>1. Inv => DisplayTypeOK
  BY DEF Inv
<1> QED
  BY InitInv, StepInv, <1>1, PTL DEF DisplaySpec

-----------------------------------------------------------------------------
(* Labels.                                                                 *)

Grown == nlBefore \subseteq nl /\ usaBefore \subseteq usa

NotBefore == missed # NoPair => missed[2] \notin nlBefore

ChosenNL ==
  command = "nl" =>
     /\ \A p \in filtered : p[2] \in nl
     /\ stage = "format" => missed = NoPair

Truths == Grown /\ NotBefore /\ ChosenNL /\ LabelsJustified /\ NLShowsNL

(* What a label says is still said of larger sets (main.go:487-514).       *)
LEMMA InstallTruths ==
  ASSUME Inv, Truths, Install PROVE Truths'
<1> USE DEF output, before
<1>1. nl \subseteq nl' /\ usa \subseteq usa'
        /\ UNCHANGED <<nlBefore, usaBefore, labels, missed, filtered>>
        /\ UNCHANGED <<command, stage>>
  BY DEF Install, Kernel!Add
<1>2. Grown' /\ NotBefore' /\ ChosenNL' /\ NLShowsNL'
  BY <1>1 DEF Truths, Grown, NotBefore, ChosenNL, NLShowsNL
<1>3. LabelsJustified'
  <2> SUFFICES ASSUME NEW l \in labels
               PROVE  (CASE l[2] = "nl"  -> l[1][2] \in nl
                         [] l[2] = "usa" -> l[1][2] \in usa \ nlBefore
                         [] l[2] = "ru"  ->
                              l[1][2] \notin nlBefore \cup usaBefore)'
    BY <1>1 DEF LabelsJustified
  <2>1. l[2] \in Statuses
    BY DEF Inv, DisplayTypeOK
  <2> QED
    BY <1>1, <2>1 DEF Truths, LabelsJustified, Statuses
<1> QED
  BY <1>2, <1>3 DEF Truths

(* A command begins with no labels.                                        *)
LEMMA BeginTruths ==
  ASSUME Inv, Truths, Lookup \/ ShowPatterns PROVE Truths'
<1> USE DEF sets
<1>1. /\ labels = {} /\ labels' = {} /\ missed = NoPair /\ missed' = NoPair
      /\ filtered = {} /\ nlBefore' = nl /\ usaBefore' = usa
      /\ UNCHANGED <<nl, usa, command>>
  BY DEF Inv, Asking, Lookup, ShowPatterns
<1>2. command = "nl" => filtered' = {}
  BY <1>1 DEF Lookup, ShowPatterns
<1> QED
  BY <1>1, <1>2 DEF Truths, Grown, NotBefore, ChosenNL, LabelsJustified,
     NLShowsNL

(* A right answer keeps the truths.                                        *)
LEMMA AnswerTruths ==
  ASSUME Inv, Truths, NEW p \in todo, NEW status \in Statuses,
         Answer(p, status),
         status = "nl"  => p[2] \in nl,
         status = "usa" => p[2] \in usa \ nlBefore,
         status = "ru"  => p[2] \notin nlBefore \cup usaBefore,
         command = "nl" /\ stage = "format" => status = "nl"
  PROVE  Truths'
<1> USE DEF sets, output, before
<1>1. /\ UNCHANGED <<nl, usa, nlBefore, usaBefore, command, stage>>
      /\ missed' = NoPair
  BY DEF Answer
<1>2. Grown' /\ NotBefore'
  BY <1>1 DEF Truths, Grown, NotBefore
<1>3. ChosenNL'
  BY <1>1 DEF Truths, ChosenNL, Answer
<1>4. labels' = labels \/ (/\ stage = "format"
                           /\ labels' = labels \cup {<<p, status>>})
  BY AnswerInv DEF Answer
<1>5. LabelsJustified'
  <2> SUFFICES ASSUME NEW l \in labels'
               PROVE  CASE l[2] = "nl"  -> l[1][2] \in nl
                        [] l[2] = "usa" -> l[1][2] \in usa \ nlBefore
                        [] l[2] = "ru"  ->
                              l[1][2] \notin nlBefore \cup usaBefore
    BY <1>1 DEF LabelsJustified
  <2>1. CASE l \in labels
    BY <2>1 DEF Truths, LabelsJustified
  <2>2. CASE l = <<p, status>>
    BY <2>2 DEF Statuses
  <2> QED
    BY <1>4, <2>1, <2>2
<1>6. NLShowsNL'
  BY <1>1, <1>4 DEF Truths, NLShowsNL
<1> QED
  BY <1>2, <1>3, <1>5, <1>6 DEF Truths

(* The two tests give right answers, whatever is installed between them    *)
(* (bot.go:775-783).                                                       *)
LEMMA TestTruths ==
  ASSUME Inv, Truths, (\E p \in Pairs : TestNL(p)) \/ TestUSA
  PROVE  Truths'
<1>1. ASSUME NEW p \in Pairs, TestNL(p) PROVE Truths'
  <2>1. CASE p[2] \in nl
    BY <1>1, <2>1, AnswerTruths DEF TestNL, Statuses
  <2>2. CASE p[2] \notin nl
    <3>1. /\ missed' = p /\ p \in todo
          /\ UNCHANGED <<sets, before, command, stage, filtered, labels>>
      BY <1>1, <2>2 DEF TestNL
    <3>2. p[2] \notin nlBefore
      BY <2>2 DEF Truths, Grown
    <3>3. ~(command = "nl" /\ stage = "format")
      BY <2>2, <3>1 DEF Inv, Asking, Truths, ChosenNL
    <3> QED
      BY <3>1, <3>2, <3>3 DEF Truths, Grown, NotBefore, ChosenNL,
         LabelsJustified, NLShowsNL, sets, before
  <2> QED
    BY <2>1, <2>2
<1>2. CASE TestUSA
  <2>1. missed # NoPair /\ missed \in todo
    BY <1>2 DEF TestUSA, Inv, Asking
  <2>2. missed[2] \notin nlBefore /\ ~(command = "nl" /\ stage = "format")
    BY <2>1 DEF Truths, NotBefore, ChosenNL
  <2>3. CASE missed[2] \in usa
    BY <1>2, <2>1, <2>2, <2>3, AnswerTruths DEF TestUSA, Statuses
  <2>4. CASE missed[2] \notin usa
    <3>1. missed[2] \notin usaBefore
      BY <2>4 DEF Truths, Grown
    <3> QED
      BY <1>2, <2>1, <2>2, <2>4, <3>1, AnswerTruths DEF TestUSA, Statuses
  <2> QED
    BY <2>3, <2>4
<1> QED
  BY <1>1, <1>2

LEMMA OtherTruths ==
  ASSUME Inv, Truths,
         \/ FilterDone \/ (\E d \in Domains : Block(d)) \/ BlockDone
         \/ LastMessage \/ UNCHANGED displayVars
  PROVE  Truths'
<1>1. UNCHANGED <<nl, usa, nlBefore, usaBefore, command, filtered, missed,
                  labels>>
  BY DEF FilterDone, Block, BlockDone, LastMessage, displayVars, sets, before,
     output
<1>2. stage' = "format" =>
         stage = "format" \/ (stage = "blocks" /\ missed = NoPair)
  BY DEF Inv, Asking, FilterDone, Block, BlockDone, LastMessage, displayVars
<1> QED
  BY <1>1, <1>2 DEF Truths, Grown, NotBefore, ChosenNL, LabelsJustified,
     NLShowsNL

LEMMA TruthsHold == DisplaySpec => []Truths
<1>1. DisplayInit => Truths
  BY DEF DisplayInit, Truths, Grown, NotBefore, ChosenNL, LabelsJustified,
     NLShowsNL
<1>2. Inv /\ Truths /\ [DisplayNext]_displayVars => Truths'
  BY InstallTruths, BeginTruths, TestTruths, OtherTruths DEF DisplayNext
<1> QED
  BY InitInv, StepInv, <1>1, <1>2, PTL DEF DisplaySpec

(* No label is out of date by more than the command, whatever is installed *)
(* while it runs.                                                          *)
THEOREM LabelsAreJustified == DisplaySpec => []LabelsJustified
<1>1. Truths => LabelsJustified
  BY DEF Truths
<1> QED
  BY TruthsHold, <1>1, PTL

(* /nl labels every address it shows [nl].                                 *)
THEOREM NLIsNL == DisplaySpec => []NLShowsNL
<1>1. Truths => NLShowsNL
  BY DEF Truths
<1> QED
  BY TruthsHold, <1>1, PTL

-----------------------------------------------------------------------------
(* Messages.                                                               *)

(* A message that is delivered becomes the last one.                       *)
LEMMA Sending ==
  ASSUME Inv, NEW m \in MessageTypes, m.size <= MaxMessageSize,
         messages' = messages \o Delivered(m)
  PROVE  /\ Len(messages') = Len(messages) + 1 /\ Len(messages) \in Nat
         /\ \A k \in Sent : messages'[k] = messages[k]
         /\ messages'[Len(messages) + 1] = m
<1>1. messages \in Seq(MessageTypes) /\ m.size \in Nat
  BY DEF Inv, DisplayTypeOK, MessageTypes
<1>2. messages' = messages \o <<m>>
  BY <1>1, DeliveredFits
<1> QED
  BY <1>1, <1>2 DEF Sent

(* Messages of blocks are never too long.                                  *)
LEMMA FitStep ==
  ASSUME Inv, Inv', MessagesFit, [DisplayNext]_displayVars PROVE MessagesFit'
<1> USE DEF sets, output, before
<1>1. CASE BlockDone
  <2>1. filtered # {} /\ current \in MessageTypes /\ current.size \in Nat
    BY <1>1 DEF Inv, DisplayTypeOK, Asking, BlockDone, MessageTypes
  <2>2. current.size <= MaxMessageSize
          /\ \A m \in Sent : messages[m].size <= MaxMessageSize
    BY <2>1 DEF MessagesFit
  <2>3. PICK s \in Nat :
           /\ Header + s <= MaxMessageSize
           /\ \/ /\ current.size + s > MaxMessageSize
                 /\ messages' = messages \o Delivered(current)
                 /\ current' = [domains |-> {domain}, size |-> Header + s]
              \/ /\ current.size + s <= MaxMessageSize
                 /\ current' = [domains |-> current.domains \cup {domain},
                                size |-> current.size + s]
                 /\ messages' = messages
    BY <1>1, BlockDoneCases
  <2>4. current'.size <= MaxMessageSize
    BY <2>3
  <2>5. CASE messages' = messages
    BY <2>2, <2>4, <2>5 DEF MessagesFit, Sent
  <2>6. CASE messages' = messages \o Delivered(current)
    <3>1. /\ Len(messages') = Len(messages) + 1 /\ Len(messages) \in Nat
          /\ \A k \in Sent : messages'[k] = messages[k]
          /\ messages'[Len(messages) + 1] = current
      BY <2>1, <2>2, <2>6, Sending
    <3>2. \A k \in Sent' : k \in Sent \/ k = Len(messages) + 1
      BY <3>1 DEF Sent
    <3>3. \A k \in Sent' : messages'[k].size <= MaxMessageSize
      BY <2>2, <3>1, <3>2
    <3> QED
      BY <2>4, <3>3 DEF MessagesFit
  <2> QED
    BY <2>3, <2>5, <2>6
<1>2. CASE LastMessage
  <2>1. current \in MessageTypes /\ messages' = messages \o Delivered(current)
          /\ UNCHANGED <<filtered, current>> /\ filtered # {}
    BY <1>2 DEF Inv, DisplayTypeOK, Asking, LastMessage
  <2>2. current.size <= MaxMessageSize
          /\ \A m \in Sent : messages[m].size <= MaxMessageSize
    BY <2>1 DEF MessagesFit
  <2>3. /\ Len(messages') = Len(messages) + 1 /\ Len(messages) \in Nat
        /\ \A k \in Sent : messages'[k] = messages[k]
        /\ messages'[Len(messages) + 1] = current
    BY <2>1, <2>2, Sending
  <2>4. Sent' = Sent \cup {Len(messages) + 1}
    BY <2>3 DEF Sent
  <2> QED
    BY <2>1, <2>2, <2>3, <2>4 DEF MessagesFit
<1>3. CASE Lookup \/ FilterDone
  <2>1. /\ messages = <<>> /\ current = NoMessage
        /\ filtered' = {} \/ messages' = messages
        /\ current' \in {NoMessage, Heading}
    BY <1>3 DEF Inv, Asking, Lookup, FilterDone
  <2>2. Header <= MaxMessageSize /\ 0 <= MaxMessageSize
    BY BlockFits, SizeTypes
  <2>3. current'.size <= MaxMessageSize
    BY <2>1, <2>2 DEF NoMessage, Heading
  <2> QED
    BY <2>1, <2>3 DEF MessagesFit, Sent
<1>4. CASE ShowPatterns
  BY <1>4 DEF Inv, Asking, ShowPatterns, MessagesFit
<1>5. CASE \E p \in todo, s \in Statuses : Answer(p, s)
  <2>1. /\ UNCHANGED <<current, messages>>
        /\ filtered' = filtered \/ stage = "filter"
    BY <1>5 DEF Answer
  <2>2. stage = "filter" => messages = <<>> /\ current.size = 0
    BY DEF Inv, Asking, NoMessage
  <2> QED
    BY <2>1, <2>2, SizeTypes DEF MessagesFit, Sent
<1>6. CASE UNCHANGED <<current, messages, filtered>>
  BY <1>6 DEF MessagesFit, Sent
<1>7. ASSUME (\E p \in Pairs : TestNL(p)) \/ TestUSA
      PROVE  (\E p \in todo, s \in Statuses : Answer(p, s))
               \/ UNCHANGED <<current, messages, filtered>>
  BY <1>7 DEF Inv, Asking, TestNL, TestUSA, Statuses
<1>8. ASSUME Install \/ (\E d \in Domains : Block(d)) \/ UNCHANGED displayVars
      PROVE  UNCHANGED <<current, messages, filtered>>
  BY <1>8 DEF Install, Block, displayVars
<1> QED
  BY <1>1, <1>2, <1>3, <1>4, <1>5, <1>6, <1>7, <1>8 DEF DisplayNext

(* No message of a pattern's addresses is longer than MaxMessageSize.      *)
THEOREM MessagesAlwaysFit == DisplaySpec => []MessagesFit
<1>1. DisplayInit => MessagesFit
  BY DEF DisplayInit, MessagesFit
<1>2. Inv /\ Inv' /\ MessagesFit /\ [DisplayNext]_displayVars => MessagesFit'
  BY FitStep
<1> QED
  BY InitInv, StepInv, <1>1, <1>2, PTL DEF DisplaySpec

-----------------------------------------------------------------------------
(* Domains: until the last message, each is in just one place.             *)

Covered ==
  \A d \in DomainsOf(filtered) :
     \/ d \in left \/ d = domain \/ d \in current.domains
     \/ \E m \in Sent : d \in messages[m].domains

\* The messages hold no domain twice, nor one that is still to be shown.
Apart ==
  /\ domain \notin left
  /\ \A d \in current.domains : d \notin left /\ d # domain
  /\ \A m \in Sent : \A d \in messages[m].domains :
        /\ d \notin left /\ d # domain /\ d \notin current.domains
        /\ \A k \in Sent : d \in messages[k].domains => k = m

Packing == /\ stage \in {"blocks", "format"} => Covered /\ Apart
           /\ ShownOnce

(* Messages are about domains.                                             *)
LEMMA SentDomains ==
  Inv => \A m \in Sent : messages[m].domains \subseteq Domains
<1> SUFFICES ASSUME Inv, NEW m \in Sent
             PROVE  messages[m].domains \subseteq Domains
  OBVIOUS
<1>1. messages \in Seq(MessageTypes) /\ m \in 1 .. Len(messages)
  BY DEF Inv, DisplayTypeOK, Sent
<1>2. messages[m] \in MessageTypes
  BY <1>1, ElementType
<1> QED
  BY <1>2 DEF MessageTypes

(* A message that is sent keeps the domains apart, if nothing of it is     *)
(* left behind.                                                            *)
LEMMA SendingApart ==
  ASSUME Inv, Covered, Apart, NEW c \in MessageTypes,
         current.size <= MaxMessageSize,
         messages' = messages \o Delivered(current),
         left' = left, filtered' = filtered, domain' = NoPair,
         current' = c, \A d \in c.domains : d = domain
  PROVE  /\ \A d \in c.domains : d \notin left
         /\ \A m \in Sent' : \A d \in messages'[m].domains :
               /\ d \notin left /\ d # domain
               /\ \A k \in Sent' : d \in messages'[k].domains => k = m
         /\ \A d \in DomainsOf(filtered) :
               \/ d \in left \/ d = domain
               \/ \E m \in Sent' : d \in messages'[m].domains
<1> DEFINE n == Len(messages)
<1>1. /\ Len(messages') = n + 1 /\ n \in Nat
      /\ \A k \in Sent : messages'[k] = messages[k]
      /\ messages'[n + 1] = current
  BY Sending DEF Inv, DisplayTypeOK
<1>2. Sent' = Sent \cup {n + 1} /\ n + 1 \notin Sent
  BY <1>1 DEF Sent
<1> HIDE DEF n
<1>3. \A d \in c.domains : d \notin left
  BY DEF Apart
<1>4. ASSUME NEW m \in Sent', NEW d \in messages'[m].domains
      PROVE  /\ d \notin left /\ d # domain
             /\ \A k \in Sent' : d \in messages'[k].domains => k = m
  <2>1. CASE m = n + 1
    BY <1>1, <1>2, <1>4, <2>1 DEF Apart
  <2>2. CASE m \in Sent
    BY <1>1, <1>2, <1>4, <2>2 DEF Apart
  <2> QED
    BY <1>2, <2>1, <2>2
<1>5. ASSUME NEW d \in DomainsOf(filtered), d \notin left, d # domain
      PROVE  \E m \in Sent' : d \in messages'[m].domains
  <2>1. d \in current.domains \/ \E m \in Sent : d \in messages[m].domains
    BY <1>5 DEF Covered
  <2> QED
    BY <1>1, <1>2, <2>1
<1> QED
  BY <1>3, <1>4, <1>5

LEMMA BlockDonePacks ==
  ASSUME Inv, MessagesFit, Packing, BlockDone PROVE Packing'
<1>1. /\ stage = "format" /\ stage' = "blocks" /\ domain \in Domains
      /\ domain' = NoPair /\ left' = left /\ filtered' = filtered
      /\ filtered # {} /\ current \in MessageTypes /\ left \subseteq Domains
      /\ messages \in Seq(MessageTypes)
  BY DEF Inv, DisplayTypeOK, Asking, BlockDone
<1>2. Covered /\ Apart /\ current.size <= MaxMessageSize
  BY <1>1 DEF Packing, MessagesFit
<1>3. NoPair \notin Domains
  BY NoPairAssumption
<1>4. DomainsOf(filtered)' = DomainsOf(filtered)
  BY <1>1 DEF DomainsOf, IpsOf
<1>5. \A m \in Sent : messages[m].domains \subseteq Domains
  BY SentDomains
<1>6. current.domains \subseteq Domains
  BY <1>1 DEF MessageTypes
<1>7. PICK s \in Nat :
        \/ /\ messages' = messages \o Delivered(current)
           /\ current' = [domains |-> {domain}, size |-> Header + s]
        \/ /\ current' = [domains |-> current.domains \cup {domain},
                          size |-> current.size + s]
           /\ messages' = messages
  BY BlockDoneCases
<1>8. CASE messages' = messages \o Delivered(current)
             /\ current' = [domains |-> {domain}, size |-> Header + s]
  <2> DEFINE c == [domains |-> {domain}, size |-> Header + s]
  <2>1. c \in MessageTypes /\ c.domains = {domain}
    BY <1>1, SizeTypes DEF MessageTypes
  <2> HIDE DEF c
  <2>2. /\ \A d \in c.domains : d \notin left
        /\ \A m \in Sent' : \A d \in messages'[m].domains :
              /\ d \notin left /\ d # domain
              /\ \A k \in Sent' : d \in messages'[k].domains => k = m
        /\ \A d \in DomainsOf(filtered) :
              \/ d \in left \/ d = domain
              \/ \E m \in Sent' : d \in messages'[m].domains
    BY <1>1, <1>2, <1>8, <2>1, SendingApart DEF c
  <2>3. current'.domains = {domain}
    BY <1>8
  <2>4. Covered'
    BY <1>1, <1>4, <2>2, <2>3 DEF Covered
  <2>5. \A m \in Sent' : messages'[m].domains \subseteq Domains
    <3>1. (Inv => \A m \in Sent : messages[m].domains \subseteq Domains)'
      BY SentDomains, PTL
    <3> QED
      BY <3>1, BlockDoneInv
  <2>6. Apart'
    BY <1>1, <1>3, <2>1, <2>2, <2>3, <2>5 DEF Apart
  <2> QED
    BY <1>1, <2>4, <2>6 DEF Packing, ShownOnce
<1>9. CASE messages' = messages
             /\ current' = [domains |-> current.domains \cup {domain},
                            size |-> current.size + s]
  <2>1. current'.domains = current.domains \cup {domain} /\ Sent' = Sent
    BY <1>9 DEF Sent
  <2>2. Covered'
    BY <1>1, <1>2, <1>4, <1>9, <2>1 DEF Covered
  <2>3. Apart'
    BY <1>1, <1>2, <1>3, <1>5, <1>6, <1>9, <2>1 DEF Apart
  <2> QED
    BY <1>1, <2>2, <2>3 DEF Packing, ShownOnce
<1> QED
  BY <1>7, <1>8, <1>9

LEMMA LastMessagePacks ==
  ASSUME Inv, MessagesFit, Packing, LastMessage PROVE Packing'
<1>1. /\ stage = "blocks" /\ stage' = "done"
      /\ domain = NoPair /\ domain' = NoPair
      /\ left = {} /\ left' = left /\ filtered' = filtered
      /\ filtered # {} /\ current \in MessageTypes /\ current' = current
      /\ messages' = messages \o Delivered(current)
      /\ messages \in Seq(MessageTypes)
  BY DEF Inv, DisplayTypeOK, Asking, LastMessage
<1>2. Covered /\ Apart /\ current.size <= MaxMessageSize
  BY <1>1 DEF Packing, MessagesFit
<1> DEFINE n == Len(messages)
<1>3. /\ Len(messages') = n + 1 /\ n \in Nat
      /\ \A k \in Sent : messages'[k] = messages[k]
      /\ messages'[n + 1] = current
  BY <1>1, <1>2, Sending
<1>4. Sent' = Sent \cup {n + 1} /\ n + 1 \notin Sent
  BY <1>3 DEF Sent
<1> HIDE DEF n
<1>5. ASSUME NEW d \in DomainsOf(filtered)
      PROVE  \E m \in Sent' : /\ d \in messages'[m].domains
                              /\ \A k \in Sent' :
                                   d \in messages'[k].domains => k = m
  <2>1. d \in Domains /\ NoPair \notin Domains
    BY NoPairAssumption DEF DomainsOf
  <2>2. d \in current.domains \/ \E m \in Sent : d \in messages[m].domains
    BY <1>1, <1>2, <2>1 DEF Covered
  <2>3. CASE d \in current.domains
    <3>1. \A k \in Sent : d \notin messages[k].domains
      BY <1>2, <2>3 DEF Apart
    <3> QED
      BY <1>3, <1>4, <2>3, <3>1
  <2>4. CASE \E m \in Sent : d \in messages[m].domains
    <3>1. PICK m \in Sent : d \in messages[m].domains
      BY <2>4
    <3>2. d \notin current.domains
            /\ \A k \in Sent : d \in messages[k].domains => k = m
      BY <1>2, <3>1 DEF Apart
    <3> QED
      BY <1>3, <1>4, <3>1, <3>2
  <2> QED
    BY <2>2, <2>3, <2>4
<1>6. DomainsOf(filtered)' = DomainsOf(filtered)
  BY <1>1 DEF DomainsOf, IpsOf
<1> QED
  BY <1>1, <1>5, <1>6 DEF Packing, ShownOnce

(* A domain whose block is begun leaves `left' for `domain'.               *)
LEMMA BlockPacks ==
  ASSUME Inv, Packing, NEW d \in Domains, Block(d) PROVE Packing'
<1>1. /\ stage = "blocks" /\ stage' = "format" /\ domain = NoPair
      /\ d \in left /\ left' = left \ {d} /\ domain' = d
      /\ UNCHANGED <<filtered, current, messages>>
  BY DEF Inv, Asking, Block, output
<1>2. Covered /\ Apart /\ NoPair \notin Domains
  BY <1>1, NoPairAssumption DEF Packing
<1>3. DomainsOf(filtered)' = DomainsOf(filtered) /\ Sent' = Sent
        /\ DomainsOf(filtered) \subseteq Domains
  BY <1>1 DEF DomainsOf, IpsOf, Sent
<1>4. Covered'
  BY <1>1, <1>2, <1>3 DEF Covered
<1>5. Apart'
  BY <1>1, <1>2, <1>3 DEF Apart
<1> QED
  BY <1>1, <1>4, <1>5 DEF Packing, ShownOnce

(* Packing begins with every domain to be shown and none in a message.     *)
LEMMA BeginPacks ==
  ASSUME Inv, Packing, Lookup \/ FilterDone PROVE Packing'
<1>1. /\ messages = <<>> /\ left \subseteq Domains
      /\ domain = NoPair /\ domain' = NoPair
  BY DEF Inv, DisplayTypeOK, Asking, Lookup, FilterDone
<1>2. \/ stage' \in {"done", "filter"} /\ (stage' = "done" => filtered' = {})
      \/ /\ stage' = "blocks" /\ messages' = <<>> /\ current' = Heading
         /\ left' = DomainsOf(filtered')
  BY <1>1 DEF Inv, Asking, Lookup, FilterDone
<1>3. NoPair \notin Domains /\ DomainsOf(filtered') \subseteq Domains
  BY NoPairAssumption DEF DomainsOf
<1>4. ASSUME stage' = "blocks" PROVE Covered' /\ Apart'
  <2>1. Sent' = {} /\ current'.domains = {} /\ left' = DomainsOf(filtered)'
    BY <1>2, <1>4 DEF Sent, Heading, DomainsOf, IpsOf
  <2> QED
    BY <1>1, <1>2, <1>3, <1>4, <2>1 DEF Covered, Apart
<1> QED
  BY <1>2, <1>4 DEF Packing, ShownOnce

LEMMA OtherPacks ==
  ASSUME Inv, Packing,
         \/ Install \/ ShowPatterns
         \/ (\E p \in Pairs : TestNL(p)) \/ TestUSA
         \/ UNCHANGED displayVars
  PROVE  Packing'
<1> USE DEF output, sets
<1>1. CASE ShowPatterns
  BY <1>1 DEF Inv, Asking, ShowPatterns, Packing, ShownOnce
<1>2. CASE UNCHANGED <<stage, left, domain, current, messages>>
             /\ (filtered' = filtered \/ stage = "filter")
  <2>1. CASE stage = "filter"
    BY <1>2, <2>1 DEF Packing, ShownOnce
  <2>2. CASE filtered' = filtered
    <3>1. Sent' = Sent /\ DomainsOf(filtered)' = DomainsOf(filtered)
      BY <1>2, <2>2 DEF Sent, DomainsOf, IpsOf
    <3> QED
      BY <1>2, <2>2, <3>1 DEF Packing, ShownOnce, Covered, Apart
  <2> QED
    BY <1>2, <2>1, <2>2
<1> QED
  BY <1>1, <1>2 DEF Install, TestNL, TestUSA, Answer, displayVars

(* Every domain kept is shown in one message and in no other.              *)
THEOREM EachShownOnce == DisplaySpec => []ShownOnce
<1>1. DisplayInit => Packing
  BY DEF DisplayInit, Packing, ShownOnce
<1>2. Inv /\ MessagesFit /\ Packing /\ [DisplayNext]_displayVars => Packing'
  BY BlockDonePacks, LastMessagePacks, BlockPacks, BeginPacks, OtherPacks
     DEF DisplayNext
<1>3. Packing => ShownOnce
  BY DEF Packing
<1> QED
  BY InitInv, StepInv, MessagesAlwaysFit, <1>1, <1>2, <1>3, PTL DEF DisplaySpec

=============================================================================
