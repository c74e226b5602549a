------------------------- MODULE MarkPipelineProofs -------------------------
(* Theorems about MarkPipeline, for any sets of addresses and connections. *)
EXTENDS MarkPipeline, TLAPS

(* The chains end with one of the three marks.                             *)
LEMMA PacketMarkType ==
  ASSUME TypeOK, NEW c \in Conns
  PROVE  PacketMark(c) \in 0 .. 2
  BY DEF TypeOK, PacketMark, Prerouting, DnsproxyPrerouting, Output, Restore,
         SetMarks

(* Every variable keeps its type.                                          *)
THEOREM TypeCorrect == Spec => []TypeOK
<1>1. Init => TypeOK
  BY DEF Init, TypeOK
<1>2. TypeOK /\ [Next]_vars => TypeOK'
  <2> SUFFICES ASSUME TypeOK, [Next]_vars PROVE TypeOK'
    OBVIOUS
  <2>1. ASSUME NEW c \in Conns, Packet(c) PROVE TypeOK'
    BY <2>1, PacketMarkType DEF TypeOK, Packet
  <2>2. ASSUME NEW c \in Conns, Answered(c) \/ Close(c) PROVE TypeOK'
    BY <2>2 DEF TypeOK, Answered, Close
  <2>3. ASSUME NEW a \in Addrs, SetsChange(a) PROVE TypeOK'
    <3>1. nl' \subseteq Addrs /\ usa' \subseteq Addrs
      BY <2>3 DEF TypeOK, SetsChange, Kernel!Change, Kernel!Add, Kernel!Delete
    <3>2. moved' \in [Conns -> BOOLEAN]
      BY <2>3 DEF TypeOK, SetsChange
    <3> QED
      BY <2>3, <3>1, <3>2 DEF TypeOK, SetsChange
  <2>4. CASE UNCHANGED vars
    BY <2>4 DEF TypeOK, vars
  <2> QED
    BY <2>1, <2>2, <2>3, <2>4 DEF Next
<1> QED
  BY <1>1, <1>2, PTL DEF Spec

(* Only a packet changes the mark of a connection, and only its own.       *)
LEMMA MarksChange ==
  ASSUME TypeOK, [Next]_vars, NEW c \in Conns, mark'[c] # mark[c]
  PROVE  Packet(c) /\ mark'[c] = PacketMark(c)
<1>1. ASSUME NEW d \in Conns, Packet(d)
      PROVE  Packet(c) /\ mark'[c] = PacketMark(c)
  BY <1>1 DEF TypeOK, Packet
<1>2. CASE UNCHANGED mark
  BY <1>2
<1> QED
  BY <1>1, <1>2 DEF Next, Answered, Close, SetsChange, vars

-----------------------------------------------------------------------------
(* The connection mark is that of the last packet, and agrees with the     *)
(* sets as they are, but on an established connection that none of the     *)
(* last rules looks at.                                                    *)
Pinned(c) ==
  /\ state[c] = "established"
  /\ From[c] = "lan" \/ (From[c] = "wg200" /\ Dest[c] \in Skipped)

Agrees(c) == mark[c] = SetMarks(Dest[c], mark[c])

Saved ==
  \A c \in Conns : state[c] # "none" =>
     /\ connmark[c] = mark[c]
     /\ moved[c] \/ Pinned(c) \/ Agrees(c)

(* A connection that is not open has no mark.                              *)
Cleared == \A c \in Conns : state[c] = "none" => connmark[c] = 0

(* Where a connection is not pinned, the last rule is one of the sets.     *)
LEMMA LastRule ==
  ASSUME NEW c \in Conns
  PROVE  \/ Pinned(c) /\ PacketMark(c) = connmark[c]
         \/ \E m : PacketMark(c) = SetMarks(Dest[c], m)
<1>1. From[c] \in {"wg200", "lan", "host"}
  BY ConnsAssumption
<1>2. CASE From[c] = "host"
  BY <1>2 DEF PacketMark, Output
<1>3. CASE From[c] = "wg200" /\ Dest[c] \notin Skipped
  <2>1. PacketMark(c) =
          SetMarks(Dest[c], Restore(c, SetMarks(Dest[c], connmark[c])))
    BY <1>3 DEF PacketMark, Prerouting, DnsproxyPrerouting
  <2> QED
    BY <2>1
<1>4. CASE From[c] = "lan" \/ (From[c] = "wg200" /\ Dest[c] \in Skipped)
  <2>1. PacketMark(c) = Restore(c, SetMarks(Dest[c], connmark[c]))
    BY <1>4 DEF PacketMark, Prerouting, DnsproxyPrerouting
  <2> QED
    BY <1>4, <2>1 DEF Restore, Pinned
<1> QED
  BY <1>1, <1>2, <1>3, <1>4

(* Saved holds again after a packet of any connection (rule 33).           *)
LEMMA PacketSaves ==
  ASSUME TypeOK, Saved, NEW d \in Conns, Packet(d)
  PROVE  Saved'
<1> SUFFICES ASSUME NEW c \in Conns, state'[c] # "none"
             PROVE  /\ connmark'[c] = mark'[c]
                    /\ moved'[c] \/ Pinned(c)' \/ Agrees(c)'
  BY DEF Saved
<1>1. CASE c # d
  <2>1. /\ state'[c] = state[c] /\ connmark'[c] = connmark[c]
        /\ mark'[c] = mark[c]
    BY <1>1 DEF TypeOK, Packet
  <2>2. moved'[c] = moved[c]
    BY <1>1 DEF TypeOK, Packet
  <2>3. Agrees(c)' <=> Agrees(c)
    BY <2>1 DEF Packet, Agrees, SetMarks
  <2> QED
    BY <2>1, <2>2, <2>3, Zenon DEF Saved, Pinned
<1>2. CASE c = d
  <2>1. connmark'[c] = PacketMark(c) /\ mark'[c] = PacketMark(c)
    BY <1>2 DEF TypeOK, Packet
  <2>2. Pinned(c) => Pinned(c)'
    BY <1>2 DEF TypeOK, Packet, Pinned
  <2>3. ASSUME NEW m, PacketMark(c) = SetMarks(Dest[c], m)
        PROVE  Agrees(c)'
    BY <2>1, <2>3 DEF Packet, Agrees, SetMarks
  <2> QED
    BY <2>1, <2>2, <2>3, LastRule
<1> QED
  BY <1>1, <1>2

(* A change of the sets excuses the connections to that address.           *)
LEMMA SetsChangeSaves ==
  ASSUME TypeOK, Saved, NEW a \in Addrs, SetsChange(a)
  PROVE  Saved'
<1> SUFFICES ASSUME NEW c \in Conns, state'[c] # "none"
             PROVE  /\ connmark'[c] = mark'[c]
                    /\ moved'[c] \/ Pinned(c)' \/ Agrees(c)'
  BY DEF Saved
<1>1. UNCHANGED <<state, connmark, mark>>
  BY DEF SetsChange
<1>2. moved'[c] \/ (~moved[c] /\ Dest[c] # a)
  BY DEF SetsChange
<1>3. CASE moved'[c]
  BY <1>1, <1>3 DEF Saved
<1>4. CASE ~moved[c] /\ Dest[c] # a
  <2>1. Agrees(c)' <=> Agrees(c)
    BY <1>1, <1>4 DEF SetsChange, Kernel!Change, Kernel!Add, Kernel!Delete,
                      Agrees, SetMarks
  <2> QED
    BY <1>1, <1>4, <2>1 DEF Saved, Pinned
<1> QED
  BY <1>2, <1>3, <1>4

(* The invariant holds of every reachable state.                           *)
THEOREM SavedHolds == Spec => [](TypeOK /\ Saved)
<1>1. Init => Saved
  BY DEF Init, Saved
<1>2. TypeOK /\ TypeOK' /\ Saved /\ [Next]_vars => Saved'
  <2> SUFFICES ASSUME TypeOK, TypeOK', Saved, [Next]_vars PROVE Saved'
    OBVIOUS
  <2>1. ASSUME NEW d \in Conns, Answered(d) PROVE Saved'
    <3> SUFFICES ASSUME NEW c \in Conns, state'[c] # "none"
                 PROVE  /\ connmark'[c] = mark'[c]
                        /\ moved'[c] \/ Pinned(c)' \/ Agrees(c)'
      BY DEF Saved
    <3>1. UNCHANGED <<nl, usa, connmark, mark, moved>>
      BY <2>1 DEF Answered
    <3>2. state[c] # "none" /\ (Pinned(c) => Pinned(c)')
      BY <2>1 DEF Answered, TypeOK, Pinned
    <3> QED
      BY <3>1, <3>2 DEF Saved, Agrees, SetMarks
  <2>2. ASSUME NEW d \in Conns, Close(d) PROVE Saved'
    <3> SUFFICES ASSUME NEW c \in Conns, state'[c] # "none"
                 PROVE  /\ connmark'[c] = mark'[c]
                        /\ moved'[c] \/ Pinned(c)' \/ Agrees(c)'
      BY DEF Saved
    <3>1. state'[c] = state[c] /\ connmark'[c] = connmark[c]
      BY <2>2 DEF Close, TypeOK
    <3>2. UNCHANGED <<nl, usa, mark, moved>>
      BY <2>2 DEF Close
    <3> QED
      BY <3>1, <3>2 DEF Saved, Pinned, Agrees, SetMarks
  <2>3. CASE UNCHANGED vars
    <3>1. \A c \in Conns : (Agrees(c)' <=> Agrees(c))
                           /\ (Pinned(c)' <=> Pinned(c))
      BY <2>3 DEF vars, Agrees, SetMarks, Pinned
    <3>2. UNCHANGED <<state, connmark, mark, moved>>
      BY <2>3 DEF vars
    <3> QED
      BY <3>1, <3>2, Zenon DEF Saved
  <2> QED
    BY <2>1, <2>2, <2>3, PacketSaves, SetsChangeSaves DEF Next
<1> QED
  BY <1>1, <1>2, TypeCorrect, PTL DEF Spec

-----------------------------------------------------------------------------

(* A connection changes its tunnel only after its address changed sets, in *)
(* whatever order packets, answers and changes come.                       *)
THEOREM OneExitHolds == Spec => OneExit
<1>1. TypeOK /\ Saved /\ [Next]_vars =>
        [\A c \in Conns :
            state[c] # "none" /\ mark'[c] # mark[c] => moved[c]]_vars
  <2> SUFFICES ASSUME TypeOK, Saved, [Next]_vars, NEW c \in Conns,
                      state[c] # "none", mark'[c] # mark[c], ~moved[c]
               PROVE  FALSE
    OBVIOUS
  <2>1. mark'[c] = PacketMark(c) /\ connmark[c] = mark[c]
    BY MarksChange DEF Saved
  <2>2. CASE Pinned(c)
    <3>1. PacketMark(c) = connmark[c]
      BY <2>2, ConnsAssumption
         DEF Pinned, PacketMark, Prerouting, DnsproxyPrerouting, Restore
    <3> QED
      BY <2>1, <3>1
  <2>3. CASE ~Pinned(c)
    <3>1. mark[c] = SetMarks(Dest[c], mark[c])
      BY <2>3 DEF Saved, Agrees
    <3>2. PacketMark(c) = mark[c]
      BY <2>1, <3>1 DEF PacketMark, Prerouting, DnsproxyPrerouting, Output,
                        Restore
    <3> QED
      BY <2>1, <3>2
  <2> QED
    BY <2>2, <2>3
<1> QED
  BY <1>1, SavedHolds, PTL DEF Spec, OneExit

(* An established connection of a LAN never changes its tunnel (rule 37).  *)
THEOREM LANStickyHolds == Spec => LANSticky
<1>1. TypeOK /\ Saved /\ [Next]_vars =>
        [\A c \in Conns :
            From[c] = "lan" /\ state[c] = "established"
               => mark'[c] = mark[c]]_vars
  <2> SUFFICES ASSUME TypeOK, Saved, [Next]_vars, NEW c \in Conns,
                      From[c] = "lan", state[c] = "established",
                      mark'[c] # mark[c]
               PROVE  FALSE
    OBVIOUS
  <2>1. mark'[c] = PacketMark(c) /\ connmark[c] = mark[c]
    BY MarksChange DEF Saved
  <2>2. PacketMark(c) = connmark[c]
    BY DEF PacketMark, Prerouting, DnsproxyPrerouting, Restore
  <2> QED
    BY <2>1, <2>2
<1> QED
  BY <1>1, SavedHolds, PTL DEF Spec, LANSticky

LEMMA ClearedHolds == Spec => []Cleared
<1>1. Init => Cleared
  BY DEF Init, Cleared
<1>2. TypeOK /\ Cleared /\ [Next]_vars => Cleared'
  <2> SUFFICES ASSUME TypeOK, Cleared, [Next]_vars PROVE Cleared'
    OBVIOUS
  <2>1. ASSUME NEW d \in Conns, Packet(d) \/ Answered(d) \/ Close(d)
        PROVE  Cleared'
    BY <2>1 DEF TypeOK, Cleared, Packet, Answered, Close
  <2>2. CASE UNCHANGED <<state, connmark>>
    BY <2>2 DEF Cleared
  <2> QED
    BY <2>1, <2>2 DEF Next, SetsChange, vars
<1> QED
  BY <1>1, <1>2, TypeCorrect, PTL DEF Spec

(* Whatever was restored, a packet of a client or of the host has the mark *)
(* of the set its address is in; with the address in none it has that of   *)
(* its connection's last packet, and none if it is the first               *)
(* (rules 10-43).                                                          *)
THEOREM FollowsSetsHolds == Spec => FollowsSets
<1>1. TypeOK /\ Saved /\ Cleared /\ [Next]_vars =>
        [\A c \in Conns :
            /\ Packet(c)
            /\ From[c] = "host" \/ (From[c] = "wg200" /\ Dest[c] \notin Skipped)
            => mark'[c] =
                  SetMarks(Dest[c], IF state[c] = "none" THEN 0 ELSE mark[c])
        ]_vars
  <2> SUFFICES ASSUME TypeOK, Saved, Cleared, NEW c \in Conns, Packet(c),
                      \/ From[c] = "host"
                      \/ From[c] = "wg200" /\ Dest[c] \notin Skipped
               PROVE  mark'[c] = SetMarks(Dest[c], IF state[c] = "none"
                                                   THEN 0 ELSE mark[c])
    OBVIOUS
  <2>1. mark'[c] = PacketMark(c)
    BY DEF TypeOK, Packet
  <2>2. connmark[c] = IF state[c] = "none" THEN 0 ELSE mark[c]
    BY DEF Saved, Cleared
  <2>3. CASE From[c] = "host"
    BY <2>1, <2>2, <2>3 DEF PacketMark, Output
  <2>4. CASE From[c] = "wg200" /\ Dest[c] \notin Skipped
    <3>1. PacketMark(c) =
            SetMarks(Dest[c], Restore(c, SetMarks(Dest[c], connmark[c])))
      BY <2>4 DEF PacketMark, Prerouting, DnsproxyPrerouting
    <3>2. CASE Dest[c] \in nl \cup usa
      BY <2>1, <3>1, <3>2 DEF SetMarks
    <3>3. CASE Dest[c] \notin nl \cup usa
      <4>1. \A m : SetMarks(Dest[c], m) = m
        BY <3>3 DEF SetMarks
      <4>2. Restore(c, connmark[c]) = connmark[c]
        BY DEF Restore
      <4> QED
        BY <2>1, <2>2, <3>1, <4>1, <4>2
    <3> QED
      BY <3>2, <3>3
  <2> QED
    BY <2>3, <2>4
<1> QED
  BY <1>1, SavedHolds, ClearedHolds, PTL DEF Spec, FollowsSets

=============================================================================
