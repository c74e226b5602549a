--------------------------- MODULE LogParserProofs ---------------------------
(* The invariants of LogParser for any names, addresses, handlers, clock,  *)
(* window and length of the log, the step property of MapRecovery for any  *)
(* pairs, and both of the two halves together.                             *)
EXTENDS LogRecovery, TLAPS

-----------------------------------------------------------------------------
(* The log.                                                                *)

Indices == 1 .. Len(log)

Texts == FormerTexts \cup TextsOfThis

(* The clock does not go back.                                             *)
Times ==
  /\ \A i \in Indices : log[i].at \in Nat /\ log[i].at <= now
  /\ \A i, j \in Indices : i <= j => log[i].at <= log[j].at

(* A record the former release logged has its query line, of that release  *)
(* too, before it.                                                         *)
Origins ==
  \A j \in Indices, a \in Addrs : log[j].text = FormerRecord(a) =>
     log[j].query \in 1 .. j - 1 /\ IsFormerQuery(log[j].query)

Active ==
  release = "former" =>
     \A h \in Handlers : handler[h] # 0 => IsFormerQuery(handler[h])

LogInv == Times /\ Origins /\ Active

-----------------------------------------------------------------------------
(* The parser.                                                             *)

Fresh == pc = "getLogs" => current = NoDomain /\ entries = {}

IsRemembered(q) ==
  /\ IsFormerQuery(q)
  /\ current = [host |-> Domain(log[q].text), at |-> log[q].at]
  /\ \A i \in q + 1 .. next - 1 : ~IsFormerQuery(i)

(* What is remembered is the last query line of the former release.        *)
Remembered ==
  \/ /\ current = NoDomain
     /\ \A i \in from .. next - 1 : ~IsFormerQuery(i)
  \/ \E q \in from .. next - 1 : IsRemembered(q)

IsCredited(j, a) ==
  \E e \in entries, i \in log[j].query .. j - 1 :
     e.ip = a /\ e.at = log[j].at /\ log[i].text = FormerQuery(e.host)

MustBeCredited(j, a) ==
  /\ log[j].text = FormerRecord(a) /\ InTime(j)
  /\ \A i \in log[j].query .. j - 1 : log[i].text # FormerQuery(Root)

Credited ==
  \A j \in from .. next - 1, a \in Addrs :
     MustBeCredited(j, a) => IsCredited(j, a)

Finished == pc = "done" => next = upto + 1

ParserInv == Fresh /\ Remembered /\ Credited /\ Finished

Inv == TypeOK /\ LogInv /\ EntriesNear /\ ParserInv

-----------------------------------------------------------------------------
(* The texts: which lines the parser's patterns match.                     *)

LEMMA Bounds == MaxTime \in Nat /\ MaxLines \in Nat /\ Window \in Nat
  BY MaxTimeAssumption, MaxLinesAssumption, WindowAssumption

(* The lines of the five kinds are told apart by their words.              *)
LEMMA TextsDiffer ==
  ASSUME NEW d, NEW e, NEW o, NEW a, NEW b
  PROVE  /\ FormerQuery(d) = FormerQuery(e) => d = e
         /\ FormerRecord(a) = FormerRecord(b) => a = b
         /\ FormerQuery(d) # FormerRecord(a)
         /\ FormerQuery(d) # QueryText(e)
         /\ FormerQuery(d) # RecordText(o, a)
         /\ FormerQuery(d) # AdditionalText(o, a)
         /\ FormerRecord(b) # QueryText(d)
         /\ FormerRecord(b) # RecordText(o, a)
         /\ FormerRecord(b) # AdditionalText(o, a)
<1>1. /\ Len(FormerQuery(d)) = 3 /\ Len(FormerRecord(a)) = 2
      /\ Len(FormerRecord(b)) = 2 /\ Len(QueryText(e)) = 4
      /\ Len(QueryText(d)) = 4
      /\ Len(RecordText(o, a)) = 4 /\ Len(AdditionalText(o, a)) = 4
  BY DEF FormerQuery, FormerRecord, QueryText, RecordText, AdditionalText
<1>2. /\ FormerQuery(d)[3] = d /\ FormerQuery(e)[3] = e
      /\ FormerRecord(a)[2] = a /\ FormerRecord(b)[2] = b
  BY DEF FormerQuery, FormerRecord
<1> QED
  BY <1>1, <1>2

(* domainRegex matches the query lines of the former release and no other. *)
LEMMA QueryLines ==
  ASSUME NEW t \in Texts
  PROVE  domainRegex(t) <=> \E d \in Hosts : t = FormerQuery(d)
<1>1. ASSUME NEW d \in Hosts PROVE domainRegex(FormerQuery(d))
  BY DEF domainRegex, FormerQuery
<1>2. ASSUME NEW a PROVE ~domainRegex(FormerRecord(a))
  BY DEF domainRegex, FormerRecord
<1>3. ASSUME NEW d PROVE ~domainRegex(QueryText(d))
  BY DEF domainRegex, QueryText
<1>4. ASSUME NEW o, NEW a
      PROVE  /\ ~domainRegex(RecordText(o, a))
             /\ ~domainRegex(AdditionalText(o, a))
  BY DEF domainRegex, RecordText, AdditionalText
<1>5. \/ \E d \in Hosts : t = FormerQuery(d) \/ t = QueryText(d)
      \/ \E a \in Addrs : t = FormerRecord(a)
      \/ \E o \in Owners, a \in Addrs :
            t = RecordText(o, a) \/ t = AdditionalText(o, a)
  BY DEF Texts, FormerTexts, TextsOfThis
<1> QED
  BY <1>1, <1>2, <1>3, <1>4, <1>5, Zenon

LEMMA QueryDomain ==
  ASSUME NEW d \in Hosts
  PROVE  /\ Domain(FormerQuery(d)) \in Hosts \cup {NoName}
         /\ Domain(FormerQuery(d)) # NoName => Domain(FormerQuery(d)) = d
         /\ d # Root => Domain(FormerQuery(d)) = d /\ d # NoName
  BY HostsAssumption DEF Domain, FormerQuery

(* ipRegex matches the records of the former release, and of this commit   *)
(* those whose own name begins with an address.                            *)
LEMMA RecordLines ==
  ASSUME NEW t \in Texts
  PROVE  /\ ipRegex(t) =>
              /\ Address(t) \in Addrs
              /\ \/ t = FormerRecord(Address(t))
                 \/ \E o \in DOMAIN Leading, b \in Addrs :
                       t = RecordText(o, b) /\ Leading[o] = Address(t)
         /\ \A a \in Addrs : t = FormerRecord(a) =>
              ipRegex(t) /\ Address(t) = a
<1>1. ASSUME NEW a \in Addrs
      PROVE  ipRegex(FormerRecord(a)) /\ Address(FormerRecord(a)) = a
  BY DEF ipRegex, Address, FormerRecord
<1>2. ASSUME NEW d PROVE ~ipRegex(FormerQuery(d)) /\ ~ipRegex(QueryText(d))
  BY DEF ipRegex, FormerQuery, QueryText
<1>3. ASSUME NEW o, NEW a PROVE ~ipRegex(AdditionalText(o, a))
  BY DEF ipRegex, AdditionalText
<1>4. ASSUME NEW o \in Owners, NEW b \in Addrs, ipRegex(RecordText(o, b))
      PROVE  /\ o \in DOMAIN Leading /\ Leading[o] = Address(RecordText(o, b))
             /\ Leading[o] \in Addrs
  BY <1>4, OwnersAssumption DEF ipRegex, Address, RecordText
<1>5. \/ \E d \in Hosts : t = FormerQuery(d) \/ t = QueryText(d)
      \/ \E a \in Addrs : t = FormerRecord(a)
      \/ \E o \in Owners, a \in Addrs :
            t = RecordText(o, a) \/ t = AdditionalText(o, a)
  BY DEF Texts, FormerTexts, TextsOfThis
<1> QED
  BY <1>1, <1>2, <1>3, <1>4, <1>5, Zenon

LEMMA ElementType ==
  ASSUME NEW S, NEW s \in Seq(S), NEW i \in 1 .. Len(s)
  PROVE  s[i] \in S
  OBVIOUS

LEMMA LineType ==
  ASSUME TypeOK, NEW i \in Indices
  PROVE  log[i].text \in Texts /\ log[i].at \in Nat /\ log[i].query \in Nat
<1>1. log \in Seq(Lines) /\ i \in 1 .. Len(log)
  BY DEF TypeOK, Indices
<1>2. log[i] \in Lines
  BY <1>1, ElementType
<1> QED
  BY <1>2 DEF Lines, Texts

-----------------------------------------------------------------------------
(* The steps of the service.                                               *)

LEMMA AppendFacts ==
  ASSUME NEW S, NEW s \in Seq(S), NEW m \in S
  PROVE  /\ Append(s, m) \in Seq(S)
         /\ Len(s) \in Nat /\ Len(Append(s, m)) = Len(s) + 1
         /\ \A i \in 1 .. Len(s) : Append(s, m)[i] = s[i]
         /\ Append(s, m)[Len(s) + 1] = m
  OBVIOUS

Writes(h) ==
  \/ \E d \in Hosts : Query(h, d)
  \/ \E o \in Owners, a \in Addrs : Answer(h, o, a) \/ Additional(h, o, a)

(* A line is added, and a handler may now be at it.  The record of a       *)
(* former query is of a handler at such a query.                           *)
LEMMA WritesLine ==
  ASSUME TypeOK, Active, NEW h \in Handlers, Writes(h)
  PROVE  \E t \in Texts, q \in 0 .. Len(log) :
            /\ Write(t, q) /\ UNCHANGED <<now, release, parserVars>>
            /\ (\E a \in Addrs : t = FormerRecord(a)) =>
                  q # 0 /\ IsFormerQuery(q)
            /\ handler' \in [Handlers -> 0 .. Len(log) + 1]
            /\ \A g \in Handlers :
                  \/ handler'[g] = handler[g]
                  \/ /\ handler'[g] = Len(log) + 1
                     /\ release = "former" =>
                           \E d \in Hosts : t = FormerQuery(d)
<1>1. /\ Len(log) \in Nat /\ handler \in [Handlers -> 0 .. Len(log)]
      /\ release \in {"former", "this"}
  BY DEF TypeOK
<1>2. handler \in [Handlers -> 0 .. Len(log) + 1]
  BY <1>1
<1>3. ASSUME NEW d \in Hosts, Query(h, d)
      PROVE  \E t \in Texts, q \in 0 .. Len(log) :
            /\ Write(t, q) /\ UNCHANGED <<now, release, parserVars>>
            /\ (\E a \in Addrs : t = FormerRecord(a)) =>
                  q # 0 /\ IsFormerQuery(q)
            /\ handler' \in [Handlers -> 0 .. Len(log) + 1]
            /\ \A g \in Handlers :
                  \/ handler'[g] = handler[g]
                  \/ /\ handler'[g] = Len(log) + 1
                     /\ release = "former" =>
                           \E e \in Hosts : t = FormerQuery(e)
  <2> DEFINE t == IF release = "former" THEN FormerQuery(d) ELSE QueryText(d)
  <2>1. t \in Texts
    BY <1>3 DEF Texts, FormerTexts, TextsOfThis
  <2>2. Write(t, 0) /\ UNCHANGED <<now, release, parserVars>>
    BY <1>3 DEF Query
  <2>3. \A a \in Addrs : t # FormerRecord(a)
    BY TextsDiffer
  <2>4. /\ handler' \in [Handlers -> 0 .. Len(log) + 1]
        /\ \A g \in Handlers :
              handler'[g] = handler[g] \/ handler'[g] = Len(log) + 1
    BY <1>1, <1>2, <1>3 DEF Query
  <2>5. release = "former" => \E e \in Hosts : t = FormerQuery(e)
    BY <1>3
  <2>6. 0 \in 0 .. Len(log)
    BY <1>1
  <2> HIDE DEF t
  <2> QED
    BY <2>1, <2>2, <2>3, <2>4, <2>5, <2>6
<1>4. ASSUME NEW o \in Owners, NEW a \in Addrs,
             Answer(h, o, a) \/ Additional(h, o, a)
      PROVE  \E t \in Texts, q \in 0 .. Len(log) :
            /\ Write(t, q) /\ UNCHANGED <<now, release, handler, parserVars>>
            /\ (\E b \in Addrs : t = FormerRecord(b)) =>
                  q # 0 /\ IsFormerQuery(q)
  <2>1. handler[h] \in 0 .. Len(log) /\ handler[h] # 0
    BY <1>1, <1>4 DEF Answer, Additional
  <2>2. CASE release = "former"
    <3>1. /\ Write(FormerRecord(a), handler[h])
          /\ UNCHANGED <<now, release, handler, parserVars>>
      BY <1>4, <2>2 DEF Answer, Additional
    <3>2. FormerRecord(a) \in Texts /\ IsFormerQuery(handler[h])
      BY <2>1, <2>2 DEF Texts, FormerTexts, Active
    <3> QED
      BY <2>1, <3>1, <3>2
  <2>3. CASE release = "this"
    <3>1. PICK t \in {RecordText(o, a), AdditionalText(o, a)} :
             /\ Write(t, handler[h])
             /\ UNCHANGED <<now, release, handler, parserVars>>
      BY <1>4, <2>3 DEF Answer, Additional
    <3>2. t \in Texts
      BY <3>1 DEF Texts, TextsOfThis
    <3>3. \A b \in Addrs : t # FormerRecord(b)
      BY <3>1, TextsDiffer
    <3> QED
      BY <2>1, <3>1, <3>2, <3>3
  <2> QED
    BY <1>1, <2>2, <2>3
<1>5. CASE \E d \in Hosts : Query(h, d)
  BY <1>3, <1>5
<1>6. CASE \E o \in Owners, a \in Addrs :
              Answer(h, o, a) \/ Additional(h, o, a)
  BY <1>2, <1>4, <1>6
<1> QED
  BY <1>5, <1>6 DEF Writes

(* Lines once written stay.                                                *)
LEMMA LogGrows ==
  ASSUME TypeOK, NEW t \in Texts, NEW q \in 0 .. Len(log), Write(t, q)
  PROVE  /\ Len(log) \in Nat /\ Len(log') = Len(log) + 1
         /\ log' \in Seq(Lines) /\ Len(log') <= MaxLines
         /\ \A i \in 1 .. Len(log) : log'[i] = log[i]
         /\ log'[Len(log) + 1].text = t /\ log'[Len(log) + 1].at = now
         /\ log'[Len(log) + 1].query = q
<1> DEFINE m == [text |-> t, at |-> now, query |-> q]
<1>1. Len(log) \in Nat /\ now \in Nat
  BY Bounds DEF TypeOK
<1>2. m \in Lines
  BY <1>1 DEF Lines, Texts
<1>3. m.text = t /\ m.at = now /\ m.query = q
  OBVIOUS
<1>4. log' = Append(log, m) /\ Len(log) < MaxLines
  BY DEF Write
<1> HIDE DEF m
<1>5. /\ log' \in Seq(Lines) /\ Len(log') = Len(log) + 1
      /\ \A i \in 1 .. Len(log) : log'[i] = log[i]
      /\ log'[Len(log) + 1] = m
  BY <1>2, <1>4, AppendFacts DEF TypeOK
<1> QED
  BY <1>1, <1>3, <1>4, <1>5, Bounds

LEMMA WriteLog ==
  ASSUME TypeOK, LogInv, NEW h \in Handlers, Writes(h)
  PROVE  /\ TypeOK' /\ LogInv'
         /\ \A i \in 1 .. Len(log) : log'[i] = log[i]
         /\ UNCHANGED parserVars
<1> DEFINE n == Len(log)
<1>1. PICK t \in Texts, q \in 0 .. n :
         /\ Write(t, q) /\ UNCHANGED <<now, release, parserVars>>
         /\ (\E a \in Addrs : t = FormerRecord(a)) =>
               q # 0 /\ IsFormerQuery(q)
         /\ handler' \in [Handlers -> 0 .. n + 1]
         /\ \A g \in Handlers :
               \/ handler'[g] = handler[g]
               \/ /\ handler'[g] = n + 1
                  /\ release = "former" =>
                        \E d \in Hosts : t = FormerQuery(d)
  BY WritesLine DEF LogInv
<1>2. /\ n \in Nat /\ Len(log') = n + 1
      /\ log' \in Seq(Lines) /\ Len(log') <= MaxLines
      /\ \A i \in 1 .. n : log'[i] = log[i]
      /\ log'[n + 1].text = t /\ log'[n + 1].at = now
      /\ log'[n + 1].query = q
  BY <1>1, LogGrows
<1>3. Indices = 1 .. n /\ Indices' = 1 .. n + 1
  BY <1>2 DEF Indices
<1>4. now \in Nat /\ handler \in [Handlers -> 0 .. n]
  BY DEF TypeOK
<1>5. TypeOK'
  <2>1. from \in 1 .. Len(log') + 1 /\ upto \in 0 .. Len(log')
    BY <1>2 DEF TypeOK
  <2>2. handler' \in [Handlers -> 0 .. Len(log')]
    BY <1>1, <1>2
  <2>3. /\ UNCHANGED <<now, release, from, upto, next, current, entries, pc>>
        /\ log' \in Seq(Lines) /\ Len(log') <= MaxLines
    BY <1>1, <1>2 DEF parserVars
  <2> QED
    BY <2>1, <2>2, <2>3 DEF TypeOK
<1> HIDE DEF n
<1>6. Times'
  <2>1. ASSUME NEW i \in Indices'
        PROVE  log'[i].at \in Nat /\ log'[i].at <= now'
    <3>1. CASE i = n + 1
      BY <1>1, <1>2, <1>4, <3>1
    <3>2. CASE i # n + 1
      <4>1. i \in Indices /\ log'[i] = log[i]
        BY <1>2, <1>3, <3>2
      <4> QED
        BY <1>1, <4>1 DEF LogInv, Times
    <3> QED
      BY <3>1, <3>2
  <2>2. ASSUME NEW i \in Indices', NEW j \in Indices', i <= j
        PROVE  log'[i].at <= log'[j].at
    <3>1. CASE j = n + 1
      BY <1>1, <1>2, <2>1, <3>1
    <3>2. CASE j # n + 1
      <4>1. i \in 1 .. n /\ j \in 1 .. n
        BY <1>2, <1>3, <2>2, <3>2
      <4> QED
        BY <1>2, <1>3, <2>2, <4>1 DEF LogInv, Times
    <3> QED
      BY <3>1, <3>2
  <2> QED
    BY <2>1, <2>2 DEF Times
<1>7. \A i \in 1 .. n : IsFormerQuery(i) => IsFormerQuery(i)'
  BY <1>2 DEF IsFormerQuery
<1>8. Origins'
  <2> SUFFICES ASSUME NEW j \in 1 .. n + 1, NEW a \in Addrs,
                      log'[j].text = FormerRecord(a)
               PROVE  /\ log'[j].query \in 1 .. j - 1
                      /\ IsFormerQuery(log[j].query)'
    BY <1>3 DEF Origins
  <2>1. CASE j = n + 1
    <3>1. q \in 1 .. n /\ IsFormerQuery(q)
      BY <1>1, <1>2, <2>1
    <3> QED
      BY <1>2, <1>7, <2>1, <3>1
  <2>2. CASE j # n + 1
    <3>1. j \in 1 .. n /\ log'[j] = log[j]
      BY <1>2, <2>2
    <3>2. log[j].query \in 1 .. j - 1 /\ IsFormerQuery(log[j].query)
      BY <1>3, <3>1 DEF LogInv, Origins
    <3>3. log[j].query \in 1 .. n
      BY <1>2, <3>1, <3>2
    <3> QED
      BY <1>7, <3>1, <3>2, <3>3
  <2> QED
    BY <2>1, <2>2
<1>9. Active'
  <2> SUFFICES ASSUME release = "former", NEW g \in Handlers,
                      handler'[g] # 0
               PROVE  IsFormerQuery(handler[g])'
    BY <1>1 DEF Active
  <2>1. CASE handler'[g] = handler[g]
    <3>1. handler[g] \in 1 .. n /\ IsFormerQuery(handler[g])
      BY <1>2, <1>4, <2>1 DEF LogInv, Active
    <3> QED
      BY <1>7, <2>1, <3>1
  <2>2. CASE handler'[g] # handler[g]
    BY <1>1, <1>2, <2>2 DEF IsFormerQuery
  <2> QED
    BY <2>1, <2>2
<1> QED
  BY <1>1, <1>2, <1>5, <1>6, <1>8, <1>9 DEF LogInv, n

(* The other steps leave the log as it is.                                 *)
LEMMA SameLog ==
  ASSUME TypeOK, LogInv, UNCHANGED log, now' \in Int, now' >= now,
         release' = "former" => release = "former",
         \A h \in Handlers : handler'[h] # 0 => handler'[h] = handler[h]
  PROVE  LogInv'
<1>1. Times'
  <2>1. \A i \in Indices : log'[i].at \in Nat /\ log'[i].at <= now'
    BY DEF LogInv, Times, TypeOK
  <2> QED
    BY <2>1 DEF LogInv, Times, Indices
<1>2. Origins'
  BY DEF LogInv, Origins, Indices, IsFormerQuery
<1>3. Active'
  BY DEF LogInv, Active, IsFormerQuery
<1> QED
  BY <1>1, <1>2, <1>3 DEF LogInv

-----------------------------------------------------------------------------
(* The steps of the parser.                                                *)

(* What the service does meanwhile does not concern the lines given.       *)
LEMMA ServiceParser ==
  ASSUME TypeOK, LogInv, EntriesNear, ParserInv, UNCHANGED parserVars,
         \A i \in 1 .. Len(log) : log'[i] = log[i]
  PROVE  EntriesNear' /\ ParserInv'
<1>1. /\ Given' = Given /\ from' = from /\ next' = next
      /\ current' = current /\ entries' = entries /\ pc' = pc
      /\ upto' = upto
  BY DEF parserVars, Given
<1>2. /\ Len(log) \in Nat /\ from \in 1 .. Len(log) + 1
      /\ upto \in 0 .. Len(log) /\ next \in from .. upto + 1
  BY DEF TypeOK
<1>3. \A i \in Given : i \in 1 .. Len(log)
  BY <1>2 DEF Given
<1>4. \A i \in from .. next - 1 : i \in Given
  BY <1>2 DEF Given
<1>5. \A i \in 1 .. Len(log) : /\ log'[i] = log[i]
                               /\ IsFormerQuery(i)' <=> IsFormerQuery(i)
  BY DEF IsFormerQuery
<1>6. EntriesNear'
  <2> SUFFICES ASSUME NEW e \in entries
               PROVE  \E i, j \in Given :
                         /\ i < j
                         /\ log'[i].text = FormerQuery(e.host)
                         /\ Shows(j, e.ip)' /\ log'[j].at = e.at
                         /\ e.at - log'[i].at <= Window
                         /\ \A k \in i + 1 .. j - 1 : ~IsFormerQuery(k)'
                         /\ log'[j].text = FormerRecord(e.ip) =>
                               log'[j].query <= i
    BY <1>1, Zenon DEF EntriesNear
  <2>1. PICK i \in Given, j \in Given :
           /\ i < j
           /\ log[i].text = FormerQuery(e.host)
           /\ Shows(j, e.ip) /\ log[j].at = e.at
           /\ e.at - log[i].at <= Window
           /\ \A k \in i + 1 .. j - 1 : ~IsFormerQuery(k)
           /\ log[j].text = FormerRecord(e.ip) => log[j].query <= i
    BY DEF EntriesNear
  <2>2. log'[i] = log[i] /\ log'[j] = log[j]
    BY <1>3
  <2>3. Shows(j, e.ip)'
    BY <1>1, <2>1, <2>2 DEF Shows
  <2>4. \A k \in i + 1 .. j - 1 : k \in 1 .. Len(log)
    BY <1>2, <1>3, <2>1
  <2>5. \A k \in i + 1 .. j - 1 : ~IsFormerQuery(k)'
    BY <1>5, <2>1, <2>4
  <2> QED
    BY <2>1, <2>2, <2>3, <2>5
<1>7. Fresh' /\ Finished'
  BY <1>1 DEF ParserInv, Fresh, Finished
<1>8. Remembered'
  <2>1. CASE /\ current = NoDomain
             /\ \A i \in from .. next - 1 : ~IsFormerQuery(i)
    BY <1>1, <1>3, <1>4, <1>5, <2>1 DEF Remembered
  <2>2. ASSUME NEW q \in from .. next - 1, IsRemembered(q)
        PROVE  Remembered'
    <3>1. q \in 1 .. Len(log) /\ log'[q] = log[q]
      BY <1>3, <1>4, <1>5
    <3>2. \A i \in q + 1 .. next - 1 : i \in from .. next - 1
      BY <1>2, <3>1
    <3>3. \A i \in q + 1 .. next - 1 : ~IsFormerQuery(i)'
      BY <1>3, <1>4, <1>5, <2>2, <3>2 DEF IsRemembered
    <3>4. IsRemembered(q)'
      BY <1>1, <1>5, <2>2, <3>1, <3>3 DEF IsRemembered
    <3> QED
      BY <1>1, <3>4 DEF Remembered
  <2> QED
    BY <2>1, <2>2 DEF ParserInv, Remembered
<1>9. Credited'
  <2> SUFFICES ASSUME NEW j \in from .. next - 1, NEW a \in Addrs,
                      MustBeCredited(j, a)'
               PROVE  IsCredited(j, a)'
    BY <1>1 DEF Credited
  <2>1. j \in 1 .. Len(log) /\ j \in Nat /\ log'[j] = log[j]
    BY <1>2, <1>3, <1>4, <1>5
  <2>2. log[j].query \in 1 .. j - 1
    BY <2>1 DEF LogInv, Origins, Indices, MustBeCredited
  <2>3. \A i \in log[j].query .. j - 1 :
           i \in 1 .. Len(log) /\ log'[i] = log[i]
    BY <1>2, <1>5, <2>1, <2>2
  <2>4. log[j].query \in log[j].query .. j - 1
    BY <2>1, <2>2
  <2>5. MustBeCredited(j, a)
    BY <1>1, <2>1, <2>3, <2>4 DEF MustBeCredited, InTime
  <2>6. IsCredited(j, a)
    BY <2>5 DEF ParserInv, Credited
  <2> QED
    BY <1>1, <2>1, <2>3, <2>6 DEF IsCredited
<1> QED
  BY <1>6, <1>7, <1>8, <1>9 DEF ParserInv

LEMMA GetLogsInv ==
  ASSUME TypeOK, ParserInv, GetLogs
  PROVE  TypeOK' /\ EntriesNear' /\ ParserInv'
<1>1. /\ current' = NoDomain /\ entries' = {} /\ pc' = "parseLogs"
      /\ next' = from' /\ from' \in 1 .. Len(log) + 1 /\ upto' = Len(log)
      /\ Len(log) \in Nat /\ UNCHANGED serviceVars
  BY DEF ParserInv, Fresh, GetLogs, TypeOK
<1>2. from' .. next' - 1 = {}
  <2>1. \A x \in Int : x .. x - 1 = {}
    OBVIOUS
  <2>2. from' \in Int /\ next' = from'
    BY <1>1
  <2> QED
    BY <2>1, <2>2
<1>3. TypeOK'
  BY <1>1 DEF TypeOK, serviceVars, NoDomain
<1>4. EntriesNear' /\ Fresh' /\ Finished'
  BY <1>1 DEF EntriesNear, Fresh, Finished
<1>5. Remembered' /\ Credited'
  BY <1>1, <1>2 DEF Remembered, Credited
<1> QED
  BY <1>3, <1>4, <1>5 DEF ParserInv

(* The line that is looked at is one of those given.                       *)
LEMMA LineAt ==
  ASSUME TypeOK, ParseLine
  PROVE  /\ next \in Indices /\ next \in Given /\ next \in Nat
         /\ from \in Nat /\ from >= 1 /\ from <= next
         /\ upto \in Nat /\ next <= upto
         /\ next' = next + 1 /\ next' - 1 = next /\ next' \in from .. upto + 1
         /\ UNCHANGED <<now, release, log, handler, from, upto, pc>>
  BY DEF TypeOK, ParseLine, Indices, Given, serviceVars

(* A line that domainRegex does not match is no query line of the former   *)
(* release.                                                                *)
LEMMA Recognised ==
  ASSUME TypeOK, NEW i \in Indices
  PROVE  domainRegex(log[i].text) <=> IsFormerQuery(i)
  BY LineType, QueryLines DEF IsFormerQuery

(* The line looked at is remembered, or what was remembered still is the   *)
(* last one.                                                               *)
LEMMA LineRemembered ==
  ASSUME TypeOK, ParserInv, ParseLine
  PROVE  Remembered'
<1>1. /\ from \in Nat /\ next \in Nat /\ from <= next /\ next \in Indices
      /\ next' - 1 = next /\ from' = from /\ log' = log
  BY LineAt
<1>2. \A i \in from .. next : i = next \/ i \in from .. next - 1
  BY <1>1
<1>3. \A i : IsFormerQuery(i)' <=> IsFormerQuery(i)
  BY <1>1 DEF IsFormerQuery
<1>4. CASE domainRegex(log[next].text)
  <2>1. PICK n : n = next
    OBVIOUS
  <2>2. /\ current' = [host |-> Domain(log'[n].text), at |-> log'[n].at]
        /\ IsFormerQuery(n)'
    BY <1>1, <1>3, <1>4, <2>1, Recognised DEF ParseLine
  <2>3. n \in from .. next /\ \A i \in n + 1 .. next : FALSE
    BY <1>1, <2>1
  <2>4. \A i \in n + 1 .. next' - 1 : ~IsFormerQuery(i)'
    BY <1>1, <2>3
  <2>5. IsRemembered(n)'
    BY <2>2, <2>4 DEF IsRemembered
  <2> QED
    BY <1>1, <2>3, <2>5 DEF Remembered
<1>5. CASE ~domainRegex(log[next].text)
  <2>1. current' = current /\ ~IsFormerQuery(next)
    BY <1>1, <1>5, Recognised DEF ParseLine
  <2>2. CASE /\ current = NoDomain
             /\ \A i \in from .. next - 1 : ~IsFormerQuery(i)
    BY <1>1, <1>2, <1>3, <2>1, <2>2 DEF Remembered
  <2>3. ASSUME NEW q \in from .. next - 1, IsRemembered(q)
        PROVE  Remembered'
    <3>1. q \in from .. next
      BY <1>1
    <3>2. \A i \in q + 1 .. next : i = next \/ i \in q + 1 .. next - 1
      BY <1>1, <3>1
    <3>3. \A i \in q + 1 .. next' - 1 : ~IsFormerQuery(i)'
      BY <1>1, <1>3, <2>1, <2>3, <3>2 DEF IsRemembered
    <3>4. /\ IsFormerQuery(q)'
          /\ current' = [host |-> Domain(log'[q].text), at |-> log'[q].at]
      BY <1>1, <1>3, <2>1, <2>3 DEF IsRemembered
    <3> QED
      BY <1>1, <3>1, <3>3, <3>4 DEF Remembered, IsRemembered
  <2> QED
    BY <2>2, <2>3 DEF ParserInv, Remembered
<1> QED
  BY <1>4, <1>5

(* What looking at a line adds to the entries.                             *)
LEMMA LineCredits ==
  ASSUME TypeOK, ParseLine
  PROVE  LET line == log[next]
             credits == /\ ipRegex(line.text) /\ current.host # NoName
                        /\ Within(line.at, current.at)
         IN  entries' = IF credits THEN entries \cup {EntryOf(line)}
                                   ELSE entries
  BY DEF ParseLine, Credit

(* A name remembered was asked for in the last query line.                 *)
LEMMA LastQuery ==
  ASSUME TypeOK, LogInv, ParserInv, ParseLine, current.host # NoName
  PROVE  \E q \in from .. next - 1 :
            /\ log[q].text = FormerQuery(current.host)
            /\ current.host \in Hosts
            /\ log[q].at = current.at
            /\ \A i \in q + 1 .. next - 1 : ~IsFormerQuery(i)
            /\ q \in Given /\ q \in Indices /\ q < next
            /\ log[q].at \in Nat /\ log[next].at \in Nat
            /\ log[q].at <= log[next].at
<1>1. PICK q \in from .. next - 1 : IsRemembered(q)
  BY DEF ParserInv, Remembered, NoDomain
<1>2. q \in Given /\ q \in Indices /\ q < next /\ next \in Indices
  BY LineAt DEF Given, Indices, TypeOK
<1>3. PICK d \in Hosts : log[q].text = FormerQuery(d)
  BY <1>1 DEF IsRemembered, IsFormerQuery
<1>4. current.host = d /\ log[q].at = current.at
  BY <1>1, <1>3, QueryDomain DEF IsRemembered
<1>5. /\ log[q].at \in Nat /\ log[next].at \in Nat
      /\ log[q].at <= log[next].at
  <2>1. q <= next
    BY <1>2 DEF Indices, TypeOK
  <2> QED
    BY <1>2, <2>1 DEF LogInv, Times
<1> QED
  BY <1>1, <1>2, <1>3, <1>4, <1>5 DEF IsRemembered

LEMMA LineTypes ==
  ASSUME TypeOK, LogInv, ParserInv, ParseLine
  PROVE  TypeOK'
<1>1. current' \in [host : Hosts \cup {NoName}, at : Nat]
  <2>1. CASE domainRegex(log[next].text)
    <3>1. PICK d \in Hosts : log[next].text = FormerQuery(d)
      BY <2>1, LineAt, Recognised DEF IsFormerQuery
    <3>2. Domain(log[next].text) \in Hosts \cup {NoName}
      BY <3>1, QueryDomain
    <3> QED
      BY <2>1, <3>2, LineAt, LineType DEF ParseLine
  <2>2. CASE ~domainRegex(log[next].text)
    BY <2>2 DEF ParseLine, TypeOK
  <2> QED
    BY <2>1, <2>2
<1>2. entries' \subseteq [host : Hosts, ip : Addrs, at : Nat]
  <2>1. CASE entries' = entries
    BY <2>1 DEF TypeOK
  <2>2. CASE /\ entries' = entries \cup {EntryOf(log[next])}
             /\ ipRegex(log[next].text) /\ current.host # NoName
    <3>1. current.host \in Hosts
      BY <2>2 DEF TypeOK
    <3>2. Address(log[next].text) \in Addrs /\ log[next].at \in Nat
      BY <2>2, LineAt, LineType, RecordLines
    <3>3. EntryOf(log[next]) \in [host : Hosts, ip : Addrs, at : Nat]
      BY <3>1, <3>2 DEF EntryOf
    <3> QED
      BY <2>2, <3>3 DEF TypeOK
  <2> QED
    BY <2>1, <2>2, LineCredits
<1> QED
  BY <1>1, <1>2, LineAt DEF TypeOK

LEMMA LineNear ==
  ASSUME TypeOK, LogInv, EntriesNear, ParserInv, ParseLine
  PROVE  EntriesNear'
<1> DEFINE j == next
           new == EntryOf(log[j])
<1>1. /\ j \in Indices /\ j \in Given /\ j \in Nat
      /\ log' = log /\ Given' = Given
  BY LineAt DEF Given
<1>2. CASE entries' = entries
  BY <1>1, <1>2 DEF EntriesNear, IsFormerQuery, Shows
<1>3. CASE /\ entries' = entries \cup {new}
           /\ ipRegex(log[j].text) /\ current.host # NoName
           /\ Within(log[j].at, current.at)
  <2>1. PICK q \in from .. j - 1 :
           /\ log[q].text = FormerQuery(current.host)
           /\ log[q].at = current.at
           /\ \A i \in q + 1 .. j - 1 : ~IsFormerQuery(i)
           /\ q \in Given /\ q \in Indices /\ q < j
           /\ log[q].at \in Nat /\ log[j].at \in Nat
           /\ log[q].at <= log[j].at
    BY <1>3, LastQuery
  <2>2. /\ new.host = current.host /\ new.at = log[j].at
        /\ new.ip = Address(log[j].text)
    BY DEF EntryOf
  <2>3. new.at - log[q].at <= Window
    BY <1>3, <2>1, <2>2, Bounds DEF Within
  <2>4. Shows(j, new.ip) /\ new.ip \in Addrs
    BY <1>1, <1>3, <2>2, LineType, RecordLines DEF Shows
  <2>5. log[j].text = FormerRecord(new.ip) => log[j].query <= q
    <3> SUFFICES ASSUME log[j].text = FormerRecord(new.ip)
                 PROVE  log[j].query <= q
      OBVIOUS
    <3>1. log[j].query \in 1 .. j - 1 /\ IsFormerQuery(log[j].query)
      BY <1>1, <2>4 DEF LogInv, Origins
    <3>2. log[j].query \notin q + 1 .. j - 1
      BY <2>1, <3>1
    <3>3. q \in Nat
      BY <2>1 DEF Indices
    <3> QED
      BY <1>1, <3>1, <3>2, <3>3
  <2> HIDE DEF new, j
  <2>6. \E i, k \in Given :
           /\ i < k
           /\ log[i].text = FormerQuery(new.host)
           /\ Shows(k, new.ip) /\ log[k].at = new.at
           /\ new.at - log[i].at <= Window
           /\ \A l \in i + 1 .. k - 1 : ~IsFormerQuery(l)
           /\ log[k].text = FormerRecord(new.ip) => log[k].query <= i
    BY <1>1, <2>1, <2>2, <2>3, <2>4, <2>5
  <2>7. \A e \in entries' : e \in entries \/ e = new
    BY <1>3
  <2>8. \A e \in entries' : \E i, k \in Given :
           /\ i < k
           /\ log[i].text = FormerQuery(e.host)
           /\ Shows(k, e.ip) /\ log[k].at = e.at
           /\ e.at - log[i].at <= Window
           /\ \A l \in i + 1 .. k - 1 : ~IsFormerQuery(l)
           /\ log[k].text = FormerRecord(e.ip) => log[k].query <= i
    BY <2>6, <2>7 DEF EntriesNear
  <2> QED
    BY <1>1, <2>8 DEF EntriesNear, IsFormerQuery, Shows
<1> QED
  BY <1>2, <1>3, LineCredits

(* A record that came in time finds the name of its own query or of a      *)
(* later one remembered, no older than its own.                            *)
LEMMA LineCredited ==
  ASSUME TypeOK, LogInv, ParserInv, ParseLine
  PROVE  Credited'
<1>1. /\ from \in Nat /\ from >= 1 /\ next \in Nat /\ from <= next
      /\ next \in Indices /\ next' - 1 = next
      /\ from' = from /\ log' = log /\ entries \subseteq entries'
  BY LineAt, LineCredits
<1>2. \A j, a : MustBeCredited(j, a)' <=> MustBeCredited(j, a)
  BY <1>1 DEF MustBeCredited, InTime
<1> SUFFICES ASSUME NEW j \in from .. next, NEW a \in Addrs,
                    MustBeCredited(j, a)
             PROVE  IsCredited(j, a)'
  BY <1>1, <1>2 DEF Credited
<1>3. CASE j # next
  <2>1. j \in from .. next - 1
    BY <1>1, <1>3
  <2>2. IsCredited(j, a)
    BY <2>1 DEF ParserInv, Credited
  <2> QED
    BY <1>1, <2>2 DEF IsCredited
<1>4. CASE j = next
  <2> DEFINE o == log[j].query
  <2>1. /\ log[j].text = FormerRecord(a) /\ o >= from
        /\ log[j].at - log[o].at <= Window
        /\ \A i \in o .. j - 1 : log[i].text # FormerQuery(Root)
    BY DEF MustBeCredited, InTime
  <2>2. o \in 1 .. j - 1 /\ IsFormerQuery(o)
    BY <1>1, <1>4, <2>1 DEF LogInv, Origins
  <2>3. /\ j \in Nat /\ o \in from .. j - 1 /\ o \in Indices /\ o \in Nat
    BY <1>1, <1>4, <2>1, <2>2 DEF Indices, TypeOK
  <2> HIDE DEF o
  <2>4. PICK q \in from .. j - 1 : IsRemembered(q)
    BY <1>4, <2>2, <2>3 DEF ParserInv, Remembered
  <2>5. o \notin q + 1 .. j - 1 /\ q \in Nat
    BY <1>1, <1>4, <2>2, <2>4 DEF IsRemembered
  <2>6. o <= q /\ q \in o .. j - 1
    BY <1>1, <2>3, <2>4, <2>5
  <2>7. PICK d \in Hosts : log[q].text = FormerQuery(d)
    BY <2>4 DEF IsRemembered, IsFormerQuery
  <2>8. current.host = d /\ current.host # NoName /\ current.at = log[q].at
    BY <2>1, <2>4, <2>6, <2>7, QueryDomain DEF IsRemembered
  <2>9. q \in Indices /\ q <= j
    BY <1>1, <1>4, <2>4, <2>5 DEF Indices, TypeOK
  <2>10. /\ log[q].at \in Nat /\ log[j].at \in Nat /\ log[o].at \in Nat
         /\ log[o].at <= log[q].at /\ log[q].at <= log[j].at
    BY <1>1, <1>4, <2>3, <2>6, <2>9 DEF LogInv, Times
  <2>11. Within(log[j].at, current.at)
    BY <2>1, <2>8, <2>10, Bounds DEF Within
  <2>12. ipRegex(log[j].text) /\ Address(log[j].text) = a
    BY <1>1, <1>4, <2>1, LineType, RecordLines
  <2>13. EntryOf(log[j]) \in entries'
    BY <1>4, <2>8, <2>11, <2>12, LineCredits
  <2>14. /\ EntryOf(log[j]).ip = a /\ EntryOf(log[j]).at = log[j].at
         /\ EntryOf(log[j]).host = d
    BY <2>8, <2>12 DEF EntryOf
  <2> QED
    BY <1>1, <2>6, <2>7, <2>13, <2>14 DEF IsCredited, o
<1> QED
  BY <1>3, <1>4

LEMMA DoneInv ==
  ASSUME TypeOK, EntriesNear, ParserInv, ParseDone
  PROVE  TypeOK' /\ EntriesNear' /\ ParserInv'
<1>1. next = upto + 1
  BY DEF TypeOK, ParseDone
<1>2. /\ UNCHANGED <<now, release, log, handler, from, upto, next, current,
                     entries>>
      /\ pc' = "done"
  BY DEF ParseDone, serviceVars
<1>3. TypeOK' /\ Fresh' /\ Finished'
  BY <1>1, <1>2 DEF TypeOK, Fresh, Finished
<1>4. EntriesNear'
  BY <1>2 DEF EntriesNear, Given, IsFormerQuery, Shows
<1>5. Remembered' /\ Credited'
  BY <1>2 DEF ParserInv, Remembered, IsRemembered, Credited,
     MustBeCredited, IsCredited, InTime, IsFormerQuery
<1> QED
  BY <1>3, <1>4, <1>5 DEF ParserInv

-----------------------------------------------------------------------------
(* The theorems.                                                           *)

LEMMA InitInv == Init => Inv
<1> SUFFICES ASSUME Init PROVE Inv
  OBVIOUS
<1>1. log = <<>> /\ log \in Seq(Lines) /\ Len(log) = 0
  BY DEF Init
<1>2. Indices = {} /\ 1 .. 0 = {}
  BY <1>1 DEF Indices
<1>3. TypeOK
  <2>1. now \in 0 .. MaxTime /\ Len(log) <= MaxLines
    BY <1>1, Bounds DEF Init
  <2>2. handler \in [Handlers -> 0 .. Len(log)]
    BY <1>1 DEF Init
  <2>3. /\ from \in 1 .. Len(log) + 1 /\ upto \in 0 .. Len(log)
        /\ next \in from .. upto + 1
    BY <1>1 DEF Init
  <2>4. /\ entries \subseteq [host : Hosts, ip : Addrs, at : Nat]
        /\ current \in [host : Hosts \cup {NoName}, at : Nat]
    BY DEF Init, NoDomain
  <2> QED
    BY <1>1, <2>1, <2>2, <2>3, <2>4 DEF Init, TypeOK
<1>4. LogInv
  <2>1. \A h \in Handlers : handler[h] = 0
    BY DEF Init
  <2> QED
    BY <1>2, <2>1 DEF LogInv, Times, Origins, Active
<1>5. from .. next - 1 = {}
  BY <1>2 DEF Init
<1>6. current = NoDomain /\ entries = {} /\ pc = "getLogs"
  BY DEF Init
<1>7. EntriesNear /\ ParserInv
  BY <1>5, <1>6 DEF EntriesNear, ParserInv, Fresh, Remembered, Credited,
     Finished
<1> QED
  BY <1>3, <1>4, <1>7 DEF Inv

LEMMA ServiceTypes ==
  ASSUME TypeOK, Tick \/ Upgrade \/ \E h \in Handlers : Reply(h)
  PROVE  TypeOK'
<1> USE DEF parserVars
<1>1. CASE Tick
  <2>1. now' \in 0 .. MaxTime
    BY <1>1, Bounds DEF TypeOK, Tick
  <2> QED
    BY <1>1, <2>1 DEF TypeOK, Tick
<1>2. ASSUME NEW h \in Handlers, Reply(h) PROVE TypeOK'
  <2>1. Len(log) \in Nat /\ UNCHANGED <<now, release, log, parserVars>>
    BY <1>2 DEF TypeOK, Reply
  <2>2. handler' \in [Handlers -> 0 .. Len(log)]
    BY <1>2, <2>1 DEF TypeOK, Reply
  <2> QED
    BY <2>1, <2>2 DEF TypeOK
<1>3. CASE Upgrade
  <2>1. Len(log) \in Nat /\ UNCHANGED <<now, log, parserVars>>
    BY <1>3 DEF TypeOK, Upgrade
  <2>2. handler' \in [Handlers -> 0 .. Len(log)]
    BY <1>3, <2>1 DEF Upgrade
  <2> QED
    BY <1>3, <2>1, <2>2 DEF TypeOK, Upgrade
<1> QED
  BY <1>1, <1>2, <1>3

LEMMA StepInv == Inv /\ [Next]_vars => Inv'
<1> SUFFICES ASSUME Inv, [Next]_vars PROVE Inv'
  OBVIOUS
<1>1. TypeOK /\ LogInv /\ EntriesNear /\ ParserInv
  BY DEF Inv
<1>2. now \in Nat /\ now \in Int
  BY <1>1, Bounds DEF TypeOK
<1>3. ASSUME NEW h \in Handlers, Writes(h) PROVE Inv'
  BY <1>1, <1>3, WriteLog, ServiceParser DEF Inv
<1>4. CASE Tick \/ Upgrade \/ \E h \in Handlers : Reply(h)
  <2>1. /\ UNCHANGED log /\ now' \in Int /\ now' >= now
        /\ release' = "former" => release = "former"
    BY <1>2, <1>4 DEF Tick, Upgrade, Reply
  <2>2. \A h \in Handlers : handler'[h] # 0 => handler'[h] = handler[h]
    BY <1>1, <1>4 DEF Tick, Upgrade, Reply, TypeOK
  <2>3. UNCHANGED parserVars
    BY <1>4 DEF Tick, Upgrade, Reply
  <2> QED
    BY <1>1, <1>4, <2>1, <2>2, <2>3, ServiceTypes, SameLog, ServiceParser
       DEF Inv
<1>5. CASE GetLogs \/ ParseLine \/ ParseDone
  <2>1. LogInv'
    <3>1. UNCHANGED serviceVars
      BY <1>5 DEF GetLogs, ParseLine, ParseDone
    <3> QED
      BY <1>1, <1>2, <3>1, SameLog DEF serviceVars
  <2>2. CASE GetLogs
    BY <1>1, <2>1, <2>2, GetLogsInv DEF Inv
  <2>3. CASE ParseLine
    <3>1. Fresh' /\ Finished'
      BY <2>3 DEF ParseLine, Fresh, Finished
    <3> QED
      BY <1>1, <2>1, <2>3, <3>1, LineTypes, LineNear, LineRemembered,
         LineCredited DEF Inv, ParserInv
  <2>4. CASE ParseDone
    BY <1>1, <2>1, <2>4, DoneInv DEF Inv
  <2> QED
    BY <1>5, <2>2, <2>3, <2>4
<1>6. CASE UNCHANGED vars
  <2>1. UNCHANGED <<now, release, log, handler, parserVars>>
    BY <1>6 DEF vars, parserVars
  <2>2. TypeOK'
    BY <1>1, <2>1 DEF TypeOK, parserVars
  <2> QED
    BY <1>1, <1>2, <2>1, <2>2, SameLog, ServiceParser DEF Inv
<1> QED
  BY <1>3, <1>4, <1>5, <1>6 DEF Next, Writes

LEMMA InvHolds == Spec => []Inv
  BY InitInv, StepInv, PTL DEF Spec

(* Every variable keeps its type.                                          *)
THEOREM TypeCorrect == Spec => []TypeOK
<1>1. Inv => TypeOK
  BY DEF Inv
<1> QED
  BY <1>1, InvHolds, PTL

(* Each entry has its name from the last query line of the former release  *)
(* before the line of its address, at most the window older, and no line   *)
(* of this commit gives a name (log_parser.go:93-123).                     *)
THEOREM EntriesAreNear == Spec => []EntriesNear
<1>1. Inv => EntriesNear
  BY DEF Inv
<1> QED
  BY <1>1, InvHolds, PTL

(* No address that the former release has logged in time is dropped,       *)
(* whatever else is in the log, and however requests overlap, unless the   *)
(* root is asked for meanwhile (log_parser.go:93-123).                     *)
THEOREM AddressesAreCredited == Spec => []AddressesCredited
<1>1. Inv => AddressesCredited
  <2> SUFFICES ASSUME Inv, pc = "done", NEW j \in Given, NEW a \in Addrs,
                      MustBeCredited(j, a)
               PROVE  IsCredited(j, a)
    BY DEF AddressesCredited, MustBeCredited, IsCredited
  <2>1. j \in from .. next - 1
    BY DEF Inv, ParserInv, Finished, Given, TypeOK
  <2> QED
    BY <2>1 DEF Inv, ParserInv, Credited
<1> QED
  BY <1>1, InvHolds, PTL

(* In a log of this commit (main.go:364, 436, 472) the parser finds        *)
(* nothing, whatever was asked and answered: a name comes from a line like *)
(* that of the former release (log_parser.go:83), whose words no line of   *)
(* this commit has.  So the refutation of RecordsFound is no accident of   *)
(* its run.                                                                *)
THEOREM NothingIsFound ==
  Spec => []((\A i \in Given : log[i].text \in TextsOfThis) => entries = {})
<1>1. EntriesNear =>
         ((\A i \in Given : log[i].text \in TextsOfThis) => entries = {})
  <2> SUFFICES ASSUME EntriesNear,
                      \A i \in Given : log[i].text \in TextsOfThis,
                      NEW e \in entries
               PROVE  FALSE
    OBVIOUS
  <2>1. PICK i \in Given : log[i].text = FormerQuery(e.host)
    BY DEF EntriesNear
  <2>2. FormerQuery(e.host) \in TextsOfThis
    BY <2>1
  <2> QED
    BY <2>2, TextsDiffer DEF TextsOfThis
<1> QED
  BY <1>1, EntriesAreNear, PTL

-----------------------------------------------------------------------------
(* The merging into map.json.                                              *)

(* As long as what was fetched is what the file holds, the merged file is  *)
(* at every step at least the file it is to replace.                       *)
NothingForgotten ==
  fetched /\ ~rewritten =>
     /\ step = "merge" => disk \subseteq existing
     /\ step \in {"copy", "copying"} => disk \subseteq out

RecoveryInv == Recovery!TypeOK /\ NothingForgotten

LEMMA RecoveryInit == Recovery!Init => RecoveryInv
  BY DEF Recovery!Init, Recovery!Service!Init, RecoveryInv, Recovery!TypeOK,
     Recovery!Service!StoreTypeOK, NothingForgotten

(* The steps of the service, as HistoryStore has them.                     *)
LEMMA ServiceStep ==
  ASSUME RecoveryInv, Recovery!ServiceRuns \/ Recovery!ServiceSaves
  PROVE  RecoveryInv'
<1> USE DEF Recovery!toolVars
<1>1. CASE Recovery!ServiceRuns
  <2>1. mem' \subseteq Pairs /\ saved' \subseteq Pairs
    BY <1>1 DEF RecoveryInv, Recovery!TypeOK, Recovery!Service!StoreTypeOK,
       Recovery!ServiceRuns, Recovery!Service!Record, Recovery!Service!Tear,
       Recovery!Service!Restart, Recovery!Service!Readable
  <2>2. torn' \in BOOLEAN /\ disk' = disk /\ UNCHANGED rewritten
    BY <1>1 DEF RecoveryInv, Recovery!TypeOK, Recovery!Service!StoreTypeOK,
       Recovery!ServiceRuns, Recovery!Service!Record, Recovery!Service!Tear,
       Recovery!Service!Restart
  <2> QED
    BY <1>1, <2>1, <2>2 DEF RecoveryInv, NothingForgotten, Recovery!TypeOK,
       Recovery!Service!StoreTypeOK, Recovery!ServiceRuns
<1>2. CASE Recovery!ServiceSaves
  BY <1>2 DEF RecoveryInv, NothingForgotten, Recovery!TypeOK,
     Recovery!Service!StoreTypeOK, Recovery!ServiceSaves,
     Recovery!Service!Publish
<1> QED
  BY <1>1, <1>2

LEMMA ToolStep ==
  ASSUME RecoveryInv,
         \/ Recovery!Parse \/ Recovery!LoadExisting \/ Recovery!Merge
         \/ Recovery!CopyOpen \/ Recovery!CopyWrite \/ Recovery!CopyFails
         \/ Recovery!Again
  PROVE  RecoveryInv'
<1> USE DEF Recovery!serviceVars
<1>1. Recovery!TypeOK'
  BY DEF RecoveryInv, Recovery!TypeOK, Recovery!Service!StoreTypeOK,
     Recovery!Parse, Recovery!LoadExisting, Recovery!Merge,
     Recovery!mergeData, Recovery!CopyOpen, Recovery!CopyWrite,
     Recovery!CopyFails, Recovery!Again
<1>2. NothingForgotten'
  BY DEF RecoveryInv, NothingForgotten, Recovery!Parse,
     Recovery!LoadExisting, Recovery!Merge, Recovery!mergeData,
     Recovery!CopyOpen, Recovery!CopyWrite, Recovery!CopyFails,
     Recovery!Again
<1> QED
  BY <1>1, <1>2 DEF RecoveryInv

LEMMA RecoveryInvHolds == Recovery!Spec => []RecoveryInv
<1>1. RecoveryInv /\ [Recovery!Next]_(Recovery!vars) => RecoveryInv'
  <2> SUFFICES ASSUME RecoveryInv, [Recovery!Next]_(Recovery!vars)
               PROVE  RecoveryInv'
    OBVIOUS
  <2>1. CASE UNCHANGED Recovery!vars
    BY <2>1 DEF RecoveryInv, NothingForgotten, Recovery!TypeOK,
       Recovery!Service!StoreTypeOK, Recovery!vars
  <2> QED
    BY <2>1, ServiceStep, ToolStep DEF Recovery!Next
<1> QED
  BY RecoveryInit, <1>1, PTL DEF Recovery!Spec

(* Every step that takes a pair out of map.json is one of the two.         *)
LEMMA LeavesBy ==
  ASSUME RecoveryInv, [Recovery!Next]_(Recovery!vars),
         NEW e \in disk \ disk'
  PROVE  \/ step' # step /\ (~fetched \/ rewritten)
         \/ step' = step /\ e \notin saved
<1>1. CASE Recovery!ServiceSaves
  BY <1>1 DEF Recovery!ServiceSaves, Recovery!Service!Publish,
     Recovery!toolVars
<1>2. CASE Recovery!CopyWrite
  BY <1>2 DEF RecoveryInv, NothingForgotten, Recovery!CopyWrite
<1>3. CASE UNCHANGED disk
  BY <1>3
<1> QED
  BY <1>1, <1>2, <1>3
     DEF Recovery!Next, Recovery!ServiceRuns, Recovery!Service!Record,
         Recovery!Service!Tear, Recovery!Service!Restart, Recovery!Parse,
         Recovery!LoadExisting, Recovery!Merge, Recovery!CopyOpen,
         Recovery!CopyFails, Recovery!Again, Recovery!serviceVars,
         Recovery!vars

-----------------------------------------------------------------------------
(* The two halves together.                                                *)

(* Each half, whatever the turns, does what its own module says: so what   *)
(* is proved of LogParser and of MapRecovery holds of the two together.    *)
THEOREM HalvesIndependent == BothSpec => Spec /\ Recovery!Spec
<1>1. BothInit => Init /\ Recovery!Init
  BY DEF BothInit
<1>2. [BothNext]_allVars => [Next]_vars
  BY DEF BothNext, allVars
<1>3. [BothNext]_allVars => [Recovery!Next]_(Recovery!vars)
  BY DEF BothNext, allVars, recoveryVars, Recovery!vars
<1> QED
  BY <1>1, <1>2, <1>3, PTL DEF BothSpec, Spec, Recovery!Spec

(* A pair leaves map.json in two ways only: the service writes a memory    *)
(* that never had it, or the recovered file is copied although map.json    *)
(* could not be fetched or was written since (log_parser.go:42-61).        *)
THEOREM PairsLeaveMapOnlyBy == BothSpec => LeavesMapOnlyBy
<1>1. RecoveryInv /\ [Recovery!Next]_(Recovery!vars) =>
         [\A e \in disk \ disk' :
            \/ step' # step /\ (~fetched \/ rewritten)
            \/ step' = step /\ e \notin saved]_(Recovery!vars)
  BY LeavesBy
<1> QED
  BY <1>1, HalvesIndependent, RecoveryInvHolds, PTL
     DEF Recovery!Spec, LeavesMapOnlyBy, Recovery!LeavesMapOnlyBy

=============================================================================
