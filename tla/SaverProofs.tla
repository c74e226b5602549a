---------------------------- MODULE SaverProofs -----------------------------
(* Proofs about Saver, for every value of its constants: the bookkeeping   *)
(* of the asynchronous saves loses no request, and map.json keeps the      *)
(* promise of HistoryStore.                                                *)
EXTENDS Saver, TLAPS

-----------------------------------------------------------------------------
(* Facts about the channel.                                                *)

(* What is in the channel stays there when a handler sends.                *)
LEMMA SendKeeps ==
    ASSUME saveSignal \in Seq(Signals), NEW sig \in Signals, TrySend(sig),
           NEW x, InChannel(x)
    PROVE  InChannel(x)'
<1>1. PICK i \in 1 .. Len(saveSignal) : saveSignal[i] = x
  BY DEF InChannel
<1>2. i \in 1 .. Len(saveSignal') /\ saveSignal'[i] = x
  BY <1>1 DEF TrySend
<1> QED
  BY <1>2 DEF InChannel

(* A channel that is not full holds the signal that was sent.              *)
LEMMA SendDelivers ==
    ASSUME saveSignal \in Seq(Signals), NEW sig \in Signals, TrySend(sig),
           Cap \in Nat, Len(saveSignal) < Cap
    PROVE  InChannel(sig)'
<1>1. /\ Len(saveSignal) + 1 \in 1 .. Len(saveSignal')
      /\ saveSignal'[Len(saveSignal) + 1] = sig
  BY DEF TrySend
<1> QED
  BY <1>1 DEF InChannel

(* What is in the channel stays there when another signal is received.     *)
LEMMA ReceiveKeeps ==
    ASSUME saveSignal \in Seq(Signals), saveSignal # <<>>,
           saveSignal' = Tail(saveSignal),
           NEW x, InChannel(x), x # Head(saveSignal)
    PROVE  InChannel(x)'
<1>1. PICK i \in 1 .. Len(saveSignal) : saveSignal[i] = x
  BY DEF InChannel
<1>2. i - 1 \in 1 .. Len(saveSignal') /\ saveSignal'[i - 1] = x
  BY <1>1
<1> QED
  BY <1>2 DEF InChannel

-----------------------------------------------------------------------------
(* Every variable keeps its type; in particular the channel never holds    *)
(* more than its capacity.                                                 *)
THEOREM TypeCorrect == Spec => []TypeOK
<1>1. Init => TypeOK
  <2> SUFFICES ASSUME Init PROVE TypeOK
    OBVIOUS
  <2>1. handler \in [Handlers -> HandlerStates]
    BY DEF Init, HandlerStates
  <2>2. saveSignal \in Seq(Signals) /\ Len(saveSignal) <= Cap
    BY CapAssumption DEF Init
  <2>3. restarts \in 0 .. MaxRestarts
    BY MaxRestartsAssumption DEF Init
  <2>4. saver \in SaverSteps
    BY DEF Init, SaverSteps
  <2> QED
    BY <2>1, <2>2, <2>3, <2>4 DEF Init, TypeOK
<1>2. TypeOK /\ [Next]_vars => TypeOK'
  <2> SUFFICES ASSUME TypeOK, [Next]_vars
               PROVE  TypeOK'
    OBVIOUS
  <2> USE CapAssumption, MaxRestartsAssumption
      DEF TypeOK, flags, jsonVars, confVars
  <2>1. ASSUME NEW h \in Handlers, NEW e \in Entries, AddDomainIP(h, e)
        PROVE  TypeOK'
    BY <2>1 DEF AddDomainIP, HandlerStates
  <2>2. ASSUME NEW h \in Handlers, NEW m \in Members, AddIP(h, m)
        PROVE  TypeOK'
    BY <2>2 DEF AddIP, HandlerStates
  <2>3. ASSUME NEW h \in Handlers, SignalJSON(h)
        PROVE  TypeOK'
    <3>1. handler[h].arg \in Entries
      BY <2>3 DEF SignalJSON, HandlerStates, Idle
    <3>2. saveSignal' \in Seq(Signals) /\ Len(saveSignal') <= Cap
      BY <2>3 DEF SignalJSON, TrySend, Signals
    <3>3. handler' \in [Handlers -> HandlerStates]
      BY <2>3 DEF SignalJSON, HandlerStates
    <3> QED
      BY <2>3, <3>1, <3>2, <3>3 DEF SignalJSON
  <2>4. ASSUME NEW h \in Handlers, SignalIPSet(h)
        PROVE  TypeOK'
    <3>1. handler[h].arg \in Members
      BY <2>4 DEF SignalIPSet, HandlerStates, Idle
    <3>2. saveSignal' \in Seq(Signals) /\ Len(saveSignal') <= Cap
      BY <2>4 DEF SignalIPSet, TrySend, Signals
    <3>3. handler' \in [Handlers -> HandlerStates]
      BY <2>4 DEF SignalIPSet, HandlerStates
    <3> QED
      BY <2>4, <3>1, <3>2, <3>3 DEF SignalIPSet
  <2>5. ASSUME NEW m \in Members, BotAdd(m) \/ BotDel(m)
        PROVE  TypeOK'
    BY <2>5 DEF BotAdd, BotDel
  <2>6. CASE ReceiveSignal
    <3>1. Tail(saveSignal) \in Seq(Signals) /\ Len(Tail(saveSignal)) <= Cap
      BY <2>6 DEF ReceiveSignal
    <3> QED
      BY <2>6, <3>1 DEF ReceiveSignal
  <2>7. CASE Tick
    BY <2>7 DEF Tick, SaverSteps
  <2>8. CASE ConfOpen
    BY <2>8 DEF ConfOpen, SaverSteps
  <2>9. CASE ConfWrite
    BY <2>9 DEF ConfWrite, ConfReturn, SaverSteps
  <2>10. CASE ConfFail
    BY <2>10 DEF ConfFail, ConfReturn, SaverSteps, StaleMembers
  <2>11. CASE JsonMarshal
    BY <2>11 DEF JsonMarshal, SaverSteps
  <2>12. CASE JsonOpen
    BY <2>12 DEF JsonOpen, SaverSteps
  <2>13. CASE JsonWrite
    BY <2>13 DEF JsonWrite, JsonReturn, SaverSteps
  <2>14. CASE JsonFail
    BY <2>14 DEF JsonFail, JsonReturn, SaverSteps
  <2>15. ASSUME ProcessStart, UNCHANGED confVars,
                ipsets' \subseteq Members, unsignalled' \subseteq Members
         PROVE  TypeOK'
    <3>1. handler' \in [Handlers -> HandlerStates]
      BY <2>15 DEF ProcessStart, HandlerStates
    <3>2. restarts' \in 0 .. MaxRestarts
      BY <2>15 DEF ProcessStart
    <3>3. saveSignal' \in Seq(Signals) /\ Len(saveSignal') <= Cap
      BY <2>15 DEF ProcessStart
    <3> QED
      BY <2>15, <3>1, <3>2, <3>3 DEF ProcessStart, ReadableJson, SaverSteps
  <2>16. CASE Crash
    BY <2>15, <2>16 DEF Crash, StaleMembers
  <2>17. CASE Reboot
    BY <2>15, <2>17 DEF Reboot
  <2>18. CASE UNCHANGED vars
    BY <2>18 DEF vars
  <2> QED
    BY <2>1, <2>2, <2>3, <2>4, <2>5, <2>6, <2>7, <2>8, <2>9, <2>10, <2>11,
       <2>12, <2>13, <2>14, <2>16, <2>17, <2>18
       DEF Next, HandlerStep, SaverStep
<1> QED
  BY <1>1, <1>2, PTL DEF Spec

-----------------------------------------------------------------------------
(* The shape of a save: what the goroutine is about to write is flagged,   *)
(* and holds all that this process loaded or wrote before and nothing that *)
(* memory does not hold.                                                   *)
SaveShape ==
    /\ saved \subseteq ipMap
    /\ data \subseteq ipMap
    /\ saver \in {"confOpen", "confWrite"} => ipsetPending
    /\ saver \in {"jsonMarshal", "jsonOpen", "jsonWrite"} => jsonPending
    /\ saver \in {"jsonOpen", "jsonWrite"} => saved \subseteq data

(* Each save of a process writes at least what the one before it wrote.    *)
THEOREM SavesGrow == Spec => []SaveShape
<1>1. Init => SaveShape
  BY DEF Init, SaveShape
<1>2. SaveShape /\ [Next]_vars => SaveShape'
  <2> SUFFICES ASSUME SaveShape, [Next]_vars
               PROVE  SaveShape'
    OBVIOUS
  <2> USE DEF SaveShape, flags, jsonVars, confVars
  <2>1. ASSUME NEW h \in Handlers, NEW e \in Entries, AddDomainIP(h, e)
        PROVE  SaveShape'
    BY <2>1 DEF AddDomainIP
  <2>2. ASSUME NEW h \in Handlers, NEW m \in Members, AddIP(h, m)
        PROVE  SaveShape'
    BY <2>2 DEF AddIP
  <2>3. ASSUME NEW h \in Handlers, HandlerStep(h)
        PROVE  SaveShape'
    BY <2>3 DEF HandlerStep, SignalJSON, SignalIPSet
  <2>4. ASSUME NEW m \in Members, BotAdd(m) \/ BotDel(m)
        PROVE  SaveShape'
    BY <2>4 DEF BotAdd, BotDel
  <2>5. CASE ReceiveSignal \/ Tick \/ ConfOpen
    BY <2>5 DEF ReceiveSignal, Tick, ConfOpen
  <2>6. CASE ConfWrite \/ ConfFail
    BY <2>6 DEF ConfWrite, ConfFail, ConfReturn
  <2>7. CASE JsonMarshal \/ JsonOpen
    BY <2>7 DEF JsonMarshal, JsonOpen
  <2>8. CASE JsonWrite \/ JsonFail
    BY <2>8 DEF JsonWrite, JsonFail, JsonReturn
  <2>9. CASE Crash \/ Reboot
    BY <2>9 DEF Crash, Reboot, ProcessStart
  <2>10. CASE UNCHANGED vars
    BY <2>10 DEF vars
  <2> QED
    BY <2>1, <2>2, <2>3, <2>4, <2>5, <2>6, <2>7, <2>8, <2>9, <2>10
       DEF Next, SaverStep
<1> QED
  BY <1>1, <1>2, PTL DEF Spec

-----------------------------------------------------------------------------
(* map.json implements HistoryStore: at every moment it is readable as     *)
(* some past history, or torn; a write of a process drops nothing that the *)
(* process loaded or wrote, and a restart starts from what is readable.    *)
THEOREM MapJsonKeepsPromise == Spec => HistoryKept
<1> USE DEF Store!storeVars
<1>1. Init => Store!Init
  BY DEF Init, Store!Init
<1>2. TypeOK /\ SaveShape /\ [Next]_vars => [Store!Next]_(Store!storeVars)
  <2> SUFFICES ASSUME TypeOK, SaveShape, [Next]_vars
               PROVE  Store!Next \/ UNCHANGED Store!storeVars
    OBVIOUS
  <2> USE DEF flags, jsonVars, confVars
  <2>1. ASSUME NEW h \in Handlers, NEW e \in Entries, AddDomainIP(h, e)
        PROVE  Store!Record({e})
    BY <2>1 DEF AddDomainIP, Store!Record
  <2>2. ASSUME NEW h \in Handlers, NEW m \in Members, AddIP(h, m)
        PROVE  UNCHANGED Store!storeVars
    BY <2>2 DEF AddIP
  <2>3. ASSUME NEW h \in Handlers, HandlerStep(h)
        PROVE  UNCHANGED Store!storeVars
    BY <2>3 DEF HandlerStep, SignalJSON, SignalIPSet
  <2>4. ASSUME NEW m \in Members, BotAdd(m) \/ BotDel(m)
        PROVE  UNCHANGED Store!storeVars
    BY <2>4 DEF BotAdd, BotDel
  <2>5. CASE ReceiveSignal \/ Tick \/ ConfOpen \/ JsonMarshal
    BY <2>5 DEF ReceiveSignal, Tick, ConfOpen, JsonMarshal
  <2>6. CASE ConfWrite \/ ConfFail
    BY <2>6 DEF ConfWrite, ConfFail, ConfReturn
  <2>7. CASE JsonOpen
    BY <2>7 DEF JsonOpen, Store!Next, Store!Tear
  <2>8. CASE JsonWrite
    BY <2>8 DEF JsonWrite, JsonReturn, SaveShape, Store!Next, Store!Publish
  <2>9. CASE JsonFail
    BY <2>9 DEF JsonFail, JsonReturn
  <2>10. CASE Crash \/ Reboot
    BY <2>10 DEF Crash, Reboot, ProcessStart, ReadableJson,
                 Store!Next, Store!Restart, Store!Readable
  <2>11. CASE UNCHANGED vars
    BY <2>11 DEF vars
  <2> QED
    BY <2>1, <2>2, <2>3, <2>4, <2>5, <2>6, <2>7, <2>8, <2>9, <2>10, <2>11
       DEF Next, SaverStep, Store!Next
<1> QED
  BY <1>1, <1>2, TypeCorrect, SavesGrow, PTL DEF Spec, HistoryKept, Store!Spec

-----------------------------------------------------------------------------
(* An entry has a request also when it is in the file, but not in what is  *)
(* about to be written over the file.                                      *)
JSONInv ==
    \A e \in ipMap :
       e \notin ReadableJson \/ MissedBySave(e) => JSONRequested(e)

(* No request to save the history is lost.                                 *)
THEOREM NoJSONRequestLost == Spec => []JSONCovered
<1>1. Init => JSONInv
  BY DEF Init, JSONInv
<1>2. TypeOK /\ SaveShape /\ JSONInv /\ [Next]_vars => JSONInv'
  <2> SUFFICES ASSUME TypeOK, SaveShape, JSONInv, [Next]_vars,
                      NEW e \in ipMap',
                      (e \notin ReadableJson \/ MissedBySave(e))'
               PROVE  JSONRequested(e)'
    BY DEF JSONInv
  <2> USE DEF flags, jsonVars, confVars
  <2>1. ASSUME NEW h \in Handlers, NEW x \in Entries, AddDomainIP(h, x)
        PROVE  JSONRequested(e)'
    <3>1. CASE e = x
      <4>1. handler'[h] = [at |-> "signalJSON", arg |-> e]
        BY <2>1, <3>1 DEF AddDomainIP, TypeOK
      <4> QED
        BY <4>1 DEF JSONRequested
    <3>2. CASE e # x
      <4>1. JSONRequested(e)
        BY <2>1, <3>2
           DEF AddDomainIP, ReadableJson, MissedBySave, JSONInv
      <4>2. \A g \in Handlers :
               handler[g] # [at |-> "signalJSON", arg |-> e]
        BY <2>1 DEF AddDomainIP, MapMuFree
      <4>3. InChannel("SaveJSON") => InChannel("SaveJSON")'
        BY <2>1 DEF AddDomainIP, InChannel
      <4> QED
        BY <2>1, <4>1, <4>2, <4>3
           DEF AddDomainIP, JSONRequested, MissedBySave
    <3> QED
      BY <3>1, <3>2
  <2>2. ASSUME NEW h \in Handlers, NEW m \in Members, AddIP(h, m)
        PROVE  JSONRequested(e)'
    <3>1. JSONRequested(e)
      BY <2>2
         DEF AddIP, ReadableJson, MissedBySave, JSONInv
    <3>2. ASSUME NEW g \in Handlers,
                 handler[g] = [at |-> "signalJSON", arg |-> e]
          PROVE  handler'[g] = [at |-> "signalJSON", arg |-> e]
      BY <2>2, <3>2 DEF AddIP, Idle, TypeOK
    <3>3. InChannel("SaveJSON") => InChannel("SaveJSON")'
      BY <2>2 DEF AddIP, InChannel
    <3> QED
      BY <2>2, <3>1, <3>2, <3>3 DEF AddIP, JSONRequested, MissedBySave
  <2>3. ASSUME NEW h \in Handlers, SignalJSON(h)
        PROVE  JSONRequested(e)'
    <3>1. JSONRequested(e)
      BY <2>3
         DEF SignalJSON, ReadableJson, MissedBySave, JSONInv
    <3>2. CASE handler[h] = [at |-> "signalJSON", arg |-> e]
      <4>1. CASE Len(saveSignal) < Cap
        BY <2>3, <4>1, CapAssumption, SendDelivers
           DEF SignalJSON, TypeOK, Signals, JSONRequested
      <4>2. CASE ~(Len(saveSignal) < Cap)
        BY <2>3, <3>2, <4>2 DEF SignalJSON, JSONRequested
      <4> QED
        BY <4>1, <4>2
    <3>3. CASE handler[h] # [at |-> "signalJSON", arg |-> e]
      <4>1. ASSUME NEW g \in Handlers,
                   handler[g] = [at |-> "signalJSON", arg |-> e]
            PROVE  handler'[g] = [at |-> "signalJSON", arg |-> e]
        BY <2>3, <3>3, <4>1 DEF SignalJSON, TypeOK
      <4>2. InChannel("SaveJSON") => InChannel("SaveJSON")'
        BY <2>3, SendKeeps DEF SignalJSON, TypeOK, Signals
      <4> QED
        BY <2>3, <3>1, <4>1, <4>2 DEF SignalJSON, JSONRequested, MissedBySave
    <3> QED
      BY <3>2, <3>3
  <2>4. ASSUME NEW h \in Handlers, SignalIPSet(h)
        PROVE  JSONRequested(e)'
    <3>1. JSONRequested(e)
      BY <2>4
         DEF SignalIPSet, ReadableJson, MissedBySave, JSONInv
    <3>2. ASSUME NEW g \in Handlers,
                 handler[g] = [at |-> "signalJSON", arg |-> e]
          PROVE  handler'[g] = [at |-> "signalJSON", arg |-> e]
      BY <2>4, <3>2 DEF SignalIPSet, TypeOK
    <3>3. InChannel("SaveJSON") => InChannel("SaveJSON")'
      BY <2>4, SendKeeps DEF SignalIPSet, TypeOK, Signals
    <3> QED
      BY <2>4, <3>1, <3>2, <3>3 DEF SignalIPSet, JSONRequested, MissedBySave
  <2>5. ASSUME NEW m \in Members, BotAdd(m) \/ BotDel(m)
        PROVE  JSONRequested(e)'
    BY <2>5 DEF BotAdd, BotDel, ReadableJson, MissedBySave, JSONInv,
                JSONRequested, InChannel
  <2>6. CASE ReceiveSignal
    <3>1. JSONRequested(e)
      BY <2>6
         DEF ReceiveSignal, ReadableJson, MissedBySave, JSONInv
    <3>2. ~MissedBySave(e)'
      BY <2>6 DEF ReceiveSignal, MissedBySave
    <3>3. CASE Head(saveSignal) = "SaveJSON"
      BY <2>6, <3>2, <3>3 DEF ReceiveSignal, JSONRequested
    <3>4. CASE Head(saveSignal) # "SaveJSON"
      <4>1. InChannel("SaveJSON") => InChannel("SaveJSON")'
        BY <2>6, <3>4, ReceiveKeeps DEF ReceiveSignal, TypeOK
      <4> QED
        BY <2>6, <3>1, <3>2, <4>1 DEF ReceiveSignal, JSONRequested
    <3> QED
      BY <3>3, <3>4
  <2>7. CASE Tick \/ ConfOpen
    <3>1. JSONRequested(e)
      BY <2>7
         DEF Tick, ConfOpen, ReadableJson, MissedBySave, JSONInv
    <3>2. ~MissedBySave(e)'
      BY <2>7 DEF Tick, ConfOpen, MissedBySave
    <3> QED
      BY <2>7, <3>1, <3>2 DEF Tick, ConfOpen, JSONRequested, InChannel
  <2>8. CASE ConfWrite \/ ConfFail
    <3>1. JSONRequested(e)
      BY <2>8
         DEF ConfWrite, ConfFail, ConfReturn, ReadableJson, MissedBySave,
             JSONInv
    <3>2. ~MissedBySave(e)'
      BY <2>8 DEF ConfWrite, ConfFail, ConfReturn, MissedBySave
    <3> QED
      BY <2>8, <3>1, <3>2
         DEF ConfWrite, ConfFail, ConfReturn, JSONRequested, InChannel
  <2>9. CASE JsonMarshal
    <3>1. jsonPending' /\ ~MissedBySave(e)'
      BY <2>9 DEF JsonMarshal, MissedBySave, SaveShape
    <3> QED
      BY <3>1 DEF JSONRequested
  <2>10. CASE JsonOpen
    <3>1. CASE e \in data
      BY <2>10, <3>1 DEF JsonOpen, JSONRequested, MissedBySave, SaveShape
    <3>2. CASE e \notin data
      <4>1. JSONRequested(e)
        BY <2>10, <3>2 DEF JsonOpen, ReadableJson, MissedBySave,
             JSONInv, SaveShape
      <4> QED
        BY <2>10, <3>2, <4>1
           DEF JsonOpen, JSONRequested, MissedBySave, InChannel
    <3> QED
      BY <3>1, <3>2
  <2>11. CASE JsonWrite
    <3>1. e \in ipMap /\ e \notin data
      BY <2>11 DEF JsonWrite, JsonReturn, ReadableJson, MissedBySave
    <3>2. JSONRequested(e) /\ MissedBySave(e)
      BY <2>11, <3>1 DEF JsonWrite, JSONInv, MissedBySave
    <3> QED
      BY <2>11, <3>1, <3>2
         DEF JsonWrite, JsonReturn, JSONRequested, InChannel
  <2>12. CASE JsonFail
    <3>1. e \in ipMap \ ReadableJson
      BY <2>12 DEF JsonFail, JsonReturn, ReadableJson, MissedBySave
    <3>2. CASE e \in data
      BY <2>12, <3>1, <3>2 DEF JsonFail, JSONRequested
    <3>3. CASE e \notin data
      <4>1. JSONRequested(e) /\ MissedBySave(e)
        BY <2>12, <3>1, <3>3 DEF JsonFail, JSONInv, MissedBySave
      <4> QED
        BY <2>12, <4>1 DEF JsonFail, JsonReturn, JSONRequested, InChannel
    <3> QED
      BY <3>2, <3>3
  <2>13. CASE Crash \/ Reboot
    <3>1. (ipMap \ ReadableJson)' = {} /\ ~MissedBySave(e)'
      BY <2>13 DEF Crash, Reboot, ProcessStart, ReadableJson, MissedBySave
    <3> QED
      BY <3>1
  <2>14. CASE UNCHANGED vars
    BY <2>14 DEF vars, ReadableJson, MissedBySave, JSONInv, JSONRequested,
                 InChannel
  <2> QED
    BY <2>1, <2>2, <2>3, <2>4, <2>5, <2>6, <2>7, <2>8, <2>9, <2>10, <2>11,
       <2>12, <2>13, <2>14 DEF Next, HandlerStep, SaverStep
<1>3. JSONInv => JSONCovered
  BY DEF JSONInv, JSONCovered
<1> QED
  BY <1>1, <1>2, <1>3, TypeCorrect, SavesGrow, PTL DEF Spec

-----------------------------------------------------------------------------
(* No request to save the kernel's sets is lost.                           *)
THEOREM NoIPSetRequestLost == Spec => []IPSetCovered
<1>1. Init => IPSetCovered
  BY DEF Init, IPSetCovered, StaleMembers
<1>2. TypeOK /\ SaveShape /\ IPSetCovered /\ [Next]_vars => IPSetCovered'
  <2> SUFFICES ASSUME TypeOK, SaveShape, IPSetCovered, [Next]_vars,
                      NEW m \in StaleMembers'
               PROVE  IPSetRequested(m)'
    BY DEF IPSetCovered
  <2> USE DEF flags, jsonVars, confVars
  <2>1. ASSUME NEW h \in Handlers, NEW e \in Entries, AddDomainIP(h, e)
        PROVE  IPSetRequested(m)'
    <3>1. IPSetRequested(m)
      BY <2>1 DEF AddDomainIP, StaleMembers, IPSetCovered
    <3>2. ASSUME NEW g \in Handlers,
                 handler[g] = [at |-> "signalIPSet", arg |-> m]
          PROVE  handler'[g] = [at |-> "signalIPSet", arg |-> m]
      BY <2>1, <3>2 DEF AddDomainIP, Idle, TypeOK
    <3> QED
      BY <2>1, <3>1, <3>2 DEF AddDomainIP, IPSetRequested, InChannel
  <2>2. ASSUME NEW h \in Handlers, NEW x \in Members, AddIP(h, x)
        PROVE  IPSetRequested(m)'
    <3>1. CASE m = x
      <4>1. handler'[h] = [at |-> "signalIPSet", arg |-> m]
        BY <2>2, <3>1 DEF AddIP, TypeOK
      <4> QED
        BY <4>1 DEF IPSetRequested
    <3>2. CASE m # x
      <4>1. IPSetRequested(m)
        BY <2>2, <3>2 DEF AddIP, StaleMembers, IPSetCovered
      <4>2. ASSUME NEW g \in Handlers,
                   handler[g] = [at |-> "signalIPSet", arg |-> m]
            PROVE  handler'[g] = [at |-> "signalIPSet", arg |-> m]
        BY <2>2, <4>2 DEF AddIP, Idle, TypeOK
      <4> QED
        BY <2>2, <4>1, <4>2 DEF AddIP, IPSetRequested, InChannel
    <3> QED
      BY <3>1, <3>2
  <2>3. ASSUME NEW h \in Handlers, SignalJSON(h)
        PROVE  IPSetRequested(m)'
    <3>1. IPSetRequested(m)
      BY <2>3 DEF SignalJSON, StaleMembers, IPSetCovered
    <3>2. ASSUME NEW g \in Handlers,
                 handler[g] = [at |-> "signalIPSet", arg |-> m]
          PROVE  handler'[g] = [at |-> "signalIPSet", arg |-> m]
      BY <2>3, <3>2 DEF SignalJSON, TypeOK
    <3>3. InChannel("SaveIPSet") => InChannel("SaveIPSet")'
      BY <2>3, SendKeeps DEF SignalJSON, TypeOK, Signals
    <3> QED
      BY <2>3, <3>1, <3>2, <3>3 DEF SignalJSON, IPSetRequested
  <2>4. ASSUME NEW h \in Handlers, SignalIPSet(h)
        PROVE  IPSetRequested(m)'
    <3>1. IPSetRequested(m)
      BY <2>4 DEF SignalIPSet, StaleMembers, IPSetCovered
    <3>2. CASE handler[h] = [at |-> "signalIPSet", arg |-> m]
      <4>1. CASE Len(saveSignal) < Cap
        BY <2>4, <4>1, CapAssumption, SendDelivers
           DEF SignalIPSet, TypeOK, Signals, IPSetRequested
      <4>2. CASE ~(Len(saveSignal) < Cap)
        BY <2>4, <3>2, <4>2 DEF SignalIPSet, IPSetRequested
      <4> QED
        BY <4>1, <4>2
    <3>3. CASE handler[h] # [at |-> "signalIPSet", arg |-> m]
      <4>1. ASSUME NEW g \in Handlers,
                   handler[g] = [at |-> "signalIPSet", arg |-> m]
            PROVE  handler'[g] = [at |-> "signalIPSet", arg |-> m]
        BY <2>4, <3>3, <4>1 DEF SignalIPSet, TypeOK
      <4>2. InChannel("SaveIPSet") => InChannel("SaveIPSet")'
        BY <2>4, SendKeeps DEF SignalIPSet, TypeOK, Signals
      <4> QED
        BY <2>4, <3>1, <4>1, <4>2 DEF SignalIPSet, IPSetRequested
    <3> QED
      BY <3>2, <3>3
  <2>5. ASSUME NEW x \in Members, BotAdd(x) \/ BotDel(x)
        PROVE  IPSetRequested(m)'
    <3>1. CASE m = x
      BY <2>5, <3>1 DEF BotAdd, BotDel, IPSetRequested
    <3>2. CASE m # x
      <4>1. IPSetRequested(m)
        BY <2>5, <3>2 DEF BotAdd, BotDel, StaleMembers, IPSetCovered
      <4> QED
        BY <2>5, <4>1 DEF BotAdd, BotDel, IPSetRequested, InChannel
    <3> QED
      BY <3>1, <3>2
  <2>6. CASE ReceiveSignal
    <3>1. IPSetRequested(m)
      BY <2>6 DEF ReceiveSignal, StaleMembers, IPSetCovered
    <3>2. CASE Head(saveSignal) = "SaveIPSet"
      BY <2>6, <3>2 DEF ReceiveSignal, IPSetRequested
    <3>3. CASE Head(saveSignal) # "SaveIPSet"
      <4>1. InChannel("SaveIPSet") => InChannel("SaveIPSet")'
        BY <2>6, <3>3, ReceiveKeeps DEF ReceiveSignal, TypeOK
      <4> QED
        BY <2>6, <3>1, <4>1 DEF ReceiveSignal, IPSetRequested
    <3> QED
      BY <3>2, <3>3
  <2>7. CASE Tick \/ JsonMarshal \/ JsonOpen \/ JsonWrite \/ JsonFail
    BY <2>7 DEF Tick, JsonMarshal, JsonOpen, JsonWrite, JsonFail, JsonReturn,
                StaleMembers, IPSetCovered, IPSetRequested, InChannel
  <2>8. CASE ConfOpen
    BY <2>8 DEF ConfOpen, SaveShape, IPSetRequested
  <2>9. CASE ConfWrite
    <3>1. StaleMembers' = {}
      BY <2>9 DEF ConfWrite, ConfReturn, StaleMembers
    <3> QED
      BY <3>1
  <2>10. CASE ConfFail
    <3>1. m \in StaleMembers
      BY <2>10 DEF ConfFail, ConfReturn, StaleMembers
    <3> QED
      BY <2>10, <3>1 DEF ConfFail, IPSetRequested
  <2>11. CASE Crash
    <3>1. m \in StaleMembers
      BY <2>11 DEF Crash, StaleMembers
    <3> QED
      BY <2>11, <3>1 DEF Crash, IPSetRequested
  <2>12. CASE Reboot
    <3>1. m \in unsignalled'
      BY <2>12 DEF Reboot, StaleMembers, TypeOK
    <3> QED
      BY <3>1 DEF IPSetRequested
  <2>13. CASE UNCHANGED vars
    BY <2>13 DEF vars, StaleMembers, IPSetCovered, IPSetRequested, InChannel
  <2> QED
    BY <2>1, <2>2, <2>3, <2>4, <2>5, <2>6, <2>7, <2>8, <2>9, <2>10, <2>11,
       <2>12, <2>13 DEF Next, HandlerStep, SaverStep
<1> QED
  BY <1>1, <1>2, TypeCorrect, SavesGrow, PTL DEF Spec

-----------------------------------------------------------------------------
(* What survives a restart after all.                                      *)

(* An entry leaves map.json only under a process that began without it:    *)
(* one that found the file torn or could not read it (main.go:232-251),    *)
(* whose first save then replaces the file.  It is what is left of         *)
(* HistorySurvivesRestart.                                                 *)
LosesOnlyUnloaded == [][saved \cap mapJson \subseteq mapJson']_vars

(* What the process has loaded or written is in memory and in the last     *)
(* complete file.                                                          *)
SavedStays == saved \subseteq ipMap \cap mapJson

THEOREM SavedKept == Spec => []SavedStays /\ LosesOnlyUnloaded
<1>1. Store!Init => SavedStays
  BY DEF Store!Init, SavedStays
<1>2. SavedStays /\ [Store!Next]_(Store!storeVars) => SavedStays'
  BY DEF SavedStays, Store!Next, Store!storeVars, Store!Record, Store!Tear,
         Store!Publish, Store!Restart, Store!Readable
<1>3. [Store!Next]_(Store!storeVars)
      => [saved \cap mapJson \subseteq mapJson']_vars
  BY DEF Store!Next, Store!storeVars, Store!Record, Store!Tear,
         Store!Publish, Store!Restart
<1> QED
  BY MapJsonKeepsPromise, <1>1, <1>2, <1>3, PTL
     DEF HistoryKept, Store!Spec, LosesOnlyUnloaded

-----------------------------------------------------------------------------
(* What a restart costs.                                                   *)

(* A restart drops a pair of the history only if it was still waiting to   *)
(* be saved or had been given up, or because map.json could not be read;   *)
(* and it drops a member of the kernel's sets, or brings one back that was *)
(* deleted, only if the request for that is still open, or was given up or *)
(* never made (main.go:516-554, README.md:86-87).                          *)
RestartCosts ==
    [][restarts' # restarts
       => /\ \A e \in ipMap \ ipMap' : JSONRequested(e) \/ ipMap' = {}
          /\ \A m \in (ipsets \ ipsets') \cup (ipsets' \ ipsets) :
                IPSetRequested(m)]_vars

THEOREM RestartsCostLittle == Spec => RestartCosts
<1>1. ASSUME TypeOK, JSONCovered, IPSetCovered, Next, restarts' # restarts
      PROVE  /\ \A e \in ipMap \ ipMap' : JSONRequested(e) \/ ipMap' = {}
             /\ \A m \in (ipsets \ ipsets') \cup (ipsets' \ ipsets) :
                   IPSetRequested(m)
  <2>1. Crash \/ Reboot
    BY <1>1 DEF Next, HandlerStep, SaverStep, AddDomainIP, AddIP,
       SignalJSON, SignalIPSet, BotAdd, BotDel, ReceiveSignal, Tick,
       ConfOpen, ConfWrite, ConfFail, ConfReturn, JsonMarshal, JsonOpen,
       JsonWrite, JsonFail, JsonReturn
  <2>2. ipMap' \in {ReadableJson, {}}
    BY <2>1 DEF Crash, Reboot, ProcessStart
  <2>3. \A e \in ipMap \ ipMap' : JSONRequested(e) \/ ipMap' = {}
    BY <1>1, <2>2 DEF JSONCovered
  <2>4. (ipsets \ ipsets') \cup (ipsets' \ ipsets) \subseteq StaleMembers
    BY <1>1, <2>1 DEF Crash, Reboot, StaleMembers, TypeOK
  <2> QED
    BY <1>1, <2>3, <2>4 DEF IPSetCovered
<1>2. TypeOK /\ JSONCovered /\ IPSetCovered /\ [Next]_vars
      => [restarts' # restarts
          => /\ \A e \in ipMap \ ipMap' : JSONRequested(e) \/ ipMap' = {}
             /\ \A m \in (ipsets \ ipsets') \cup (ipsets' \ ipsets) :
                   IPSetRequested(m)]_vars
  BY <1>1
<1> QED
  BY <1>2, TypeCorrect, NoJSONRequestLost, NoIPSetRequestLost, PTL
     DEF Spec, RestartCosts

=============================================================================
