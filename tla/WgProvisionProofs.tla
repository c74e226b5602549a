------------------------- MODULE WgProvisionProofs --------------------------
(* Theorems about WgProvision, for any number of runners, names and runs.  *)
EXTENDS WgProvision, FiniteSetTheorems, TLAPS

-----------------------------------------------------------------------------
(* Types.                                                                  *)

(* The bounds are numbers.                                                 *)
LEMMA ConstantTypes ==
    FirstIndex \in Nat /\ MaxStarts \in Nat /\ MaxFaults \in Nat
  BY ProvisionAssumption

(* The peer of a run under way is one.                                     *)
LEMMA PeerTyped ==
    ASSUME TypeOK, NEW r \in Runs, run[r].at # "idle"
    PROVE  PeerOf(r) \in Peer
  BY DEF TypeOK, PeerOf, Peer

(* A step of run r within the script keeps the runs typed.                 *)
LEMMA GotoTyped ==
    ASSUME TypeOK, NEW r \in Runs, NEW s \in Steps \ {"idle"},
           NEW t \in Steps, Goto(r, s, t)
    PROVE  /\ run' \in [Runs -> [at : Steps, user : Users \cup {Absent},
                                 key : 0 .. MaxStarts, idx : Nat]]
           /\ \A q \in Runs : /\ run'[q].at # "idle" => run'[q].user \in Users
                              /\ run'[q].at # "idle" => run'[q].key > 0
  BY DEF TypeOK, Goto

(* Ending a run does.                                                      *)
LEMMA IdleTyped ==
    ASSUME TypeOK, NEW r \in Runs, run' = [run EXCEPT ![r] = Idle]
    PROVE  /\ run' \in [Runs -> [at : Steps, user : Users \cup {Absent},
                                 key : 0 .. MaxStarts, idx : Nat]]
           /\ \A q \in Runs : /\ run'[q].at # "idle" => run'[q].user \in Users
                              /\ run'[q].at # "idle" => run'[q].key > 0
<1>1. Idle \in [at : Steps, user : Users \cup {Absent},
                key : 0 .. MaxStarts, idx : Nat]
  BY ProvisionAssumption DEF Idle, Steps
<1>2. Idle.at = "idle"
  BY DEF Idle
<1> HIDE DEF Idle
<1> QED
  BY <1>1, <1>2 DEF TypeOK

(* Every variable keeps its type.                                          *)
THEOREM TypeCorrect == Spec => []TypeOK
<1> USE ConstantTypes
<1>1. Init => TypeOK
  <2> SUFFICES ASSUME Init PROVE TypeOK
    OBVIOUS
  <2>1. run \in [Runs -> [at : Steps, user : Users \cup {Absent},
                          key : 0 .. MaxStarts, idx : Nat]]
    BY DEF Init, Idle, Steps
  <2>2. \A r \in Runs : run[r].at = "idle"
    BY DEF Init, Idle
  <2>3. /\ peers \in Seq(Peer) /\ applied \in 0 .. Len(peers)
        /\ starts \in 0 .. MaxStarts /\ faults \in 0 .. MaxFaults
    BY DEF Init
  <2> QED
    BY <2>1, <2>2, <2>3 DEF Init, TypeOK
<1>2. TypeOK /\ [Next]_vars => TypeOK'
  <2> SUFFICES ASSUME TypeOK, [Next]_vars PROVE TypeOK'
    OBVIOUS
  <2> USE DEF indexVars, confVars, rest
  <2>1. ASSUME NEW r \in Runs, NEW u \in Users, Start(r, u)
        PROVE  TypeOK'
    <3> DEFINE s == [at |-> "ensure", user |-> u, key |-> starts + 1,
                     idx |-> 0]
    <3>1. /\ s \in [at : Steps, user : Users \cup {Absent},
                    key : 0 .. MaxStarts, idx : Nat]
          /\ s.user \in Users /\ s.key > 0
      BY <2>1 DEF Start, TypeOK, Steps
    <3>2. run' = [run EXCEPT ![r] = s]
      BY <2>1 DEF Start
    <3> HIDE DEF s
    <3>3. /\ run' \in [Runs -> [at : Steps, user : Users \cup {Absent},
                                key : 0 .. MaxStarts, idx : Nat]]
          /\ \A q \in Runs : /\ run'[q].at # "idle" => run'[q].user \in Users
                             /\ run'[q].at # "idle" => run'[q].key > 0
      BY <3>1, <3>2 DEF TypeOK
    <3> QED
      BY <2>1, <3>3 DEF Start, TypeOK
  <2>2. ASSUME NEW r \in Runs,
               \/ Ensure(r) \/ CreateIndex(r) \/ WriteFirst(r)
               \/ TruncateIndex(r) \/ WriteIndex(r)
        PROVE  TypeOK'
    <3>1. PICK s \in Steps \ {"idle"}, t \in Steps : Goto(r, s, t)
      <4>1. CASE Ensure(r)
        BY <4>1 DEF Ensure, Steps, AtIndex
      <4>2. CASE CreateIndex(r) \/ WriteFirst(r)
        BY <4>2 DEF CreateIndex, WriteFirst, Steps, AtIndex
      <4>3. CASE TruncateIndex(r) \/ WriteIndex(r)
        BY <4>3 DEF TruncateIndex, WriteIndex, Steps, AtIndex
      <4> QED
        BY <2>2, <4>1, <4>2, <4>3
    <3>2. index' \in Nat /\ created' \in BOOLEAN
      <4>1. run[r].idx \in Nat /\ index \in Nat /\ created \in BOOLEAN
        BY DEF TypeOK
      <4>2. CASE Ensure(r)
        BY <4>1, <4>2 DEF Ensure
      <4>3. CASE CreateIndex(r)
        <5>1. created' = TRUE /\ index' = 0
          BY <4>3 DEF CreateIndex
        <5> QED
          BY <5>1
      <4>4. CASE WriteFirst(r)
        <5>1. created' = created /\ index' = FirstIndex
          BY <4>4 DEF WriteFirst
        <5> QED
          BY <4>1, <5>1
      <4>5. CASE TruncateIndex(r)
        BY <4>1, <4>5 DEF TruncateIndex
      <4>6. CASE WriteIndex(r)
        BY <4>1, <4>6 DEF WriteIndex
      <4> QED
        BY <2>2, <4>2, <4>3, <4>4, <4>5, <4>6
    <3> QED
      BY <2>2, <3>1, <3>2, GotoTyped
         DEF Ensure, CreateIndex, WriteFirst, TruncateIndex, WriteIndex, TypeOK
  <2>3. ASSUME NEW r \in Runs, ReadIndex(r)
        PROVE  TypeOK'
    BY <2>3 DEF ReadIndex, TypeOK, Steps, AtIndex
  <2>4. ASSUME NEW r \in Runs, AppendPeer(r)
        PROVE  TypeOK'
    <3>1. Goto(r, "append", "client")
      BY <2>4 DEF AppendPeer
    <3>2. PeerOf(r) \in Peer
      BY <3>1, PeerTyped DEF Goto
    <3>3. peers' \in Seq(Peer) /\ applied' \in 0 .. Len(peers')
      BY <2>4, <3>2 DEF AppendPeer, TypeOK
    <3> QED
      BY <2>4, <3>1, <3>3, GotoTyped DEF AppendPeer, TypeOK, Steps
  <2>5. ASSUME NEW r \in Runs, TruncateClient(r) \/ WriteClient(r)
        PROVE  TypeOK'
    <3>1. PICK s \in {"client", "fill"}, t \in Steps : Goto(r, s, t)
      BY <2>5 DEF TruncateClient, WriteClient, Steps
    <3>2. PeerOf(r) \in Peer
      BY <3>1, PeerTyped DEF Goto
    <3>3. clients' \in [Users -> {Absent, Torn} \cup Peer]
      BY <2>5, <3>2 DEF TruncateClient, WriteClient, TypeOK
    <3> QED
      BY <2>5, <3>1, <3>3, GotoTyped
         DEF TruncateClient, WriteClient, TypeOK, Steps
  <2>6. ASSUME NEW r \in Runs, Reload(r)
        PROVE  TypeOK'
    <3>1. Goto(r, "reload", "show") /\ applied' \in 0 .. Len(peers)
      BY <2>6 DEF Reload, TypeOK
    <3> QED
      BY <2>6, <3>1, GotoTyped DEF Reload, TypeOK, Steps
  <2>7. ASSUME NEW r \in Runs, ReloadFails(r)
        PROVE  TypeOK'
    BY <2>7, IdleTyped DEF ReloadFails, TypeOK
  <2>8. ASSUME NEW r \in Runs, Show(r)
        PROVE  TypeOK'
    BY <2>8, IdleTyped DEF Show, TypeOK
  <2>9. ASSUME NEW r \in Runs, Die(r)
        PROVE  TypeOK'
    <3>1. /\ applied' \in 0 .. Len(peers)
          /\ faults' \in 0 .. MaxFaults
          /\ disturbed' \in BOOLEAN
      BY <2>9 DEF Die, TypeOK
    <3> QED
      BY <2>9, <3>1, IdleTyped DEF Die, TypeOK
  <2>10. CASE UNCHANGED vars
    BY <2>10 DEF vars, TypeOK
  <2> QED
    BY <2>1, <2>2, <2>3, <2>4, <2>5, <2>6, <2>7, <2>8, <2>9, <2>10
       DEF Next, RunStep
<1> QED
  BY <1>1, <1>2, PTL DEF Spec

-----------------------------------------------------------------------------
(* One address each.                                                       *)

(* n is not below any address given to a peer or to a run.                 *)
Covers(n) ==
    /\ \A i \in 1 .. Len(peers) : peers[i].ip <= n
    /\ \A q \in Runs : run[q].at = "append" => run[q].idx + 1 <= n

(* Before the file is first created, nobody is past that point.            *)
IndexNew ==
    ~created => /\ peers = <<>>
                /\ \A q \in Runs : run[q].at \in {"idle", "ensure", "create"}

(* While the file is being created, nobody has read it.                    *)
CreatedFirst ==
    \A q \in Runs : run[q].at \in {"create", "first"}
       => /\ peers = <<>>
          /\ \A p \in Runs :
                run[p].at \in {"idle", "ensure", "create", "first", "read"}

(* One run at a time is between reading and writing the index, and the     *)
(* index is what it has read.                                              *)
OneAtIndex ==
    /\ \A p, q \in Runs :
          /\ run[p].at \in {"bump", "write"}
          /\ run[q].at \in {"bump", "write"}
          => p = q
    /\ \A q \in Runs : run[q].at = "bump" => run[q].idx = index

(* The index, or what the run that is about to write it has read, is ahead *)
(* of every address given.                                                 *)
IndexAhead ==
    /\ created /\ (\A q \in Runs : run[q].at \notin {"first", "write"})
       => index >= FirstIndex /\ Covers(index)
    /\ \A q \in Runs : run[q].at = "write"
                       => run[q].idx >= FirstIndex /\ Covers(run[q].idx)

(* A run about to append its peer has an address nobody else has.          *)
PendingDistinct ==
    \A q \in Runs : run[q].at = "append"
       => /\ run[q].idx >= FirstIndex
          /\ \A i \in 1 .. Len(peers) : peers[i].ip # run[q].idx + 1
          /\ \A p \in Runs \ {q} :
                run[p].at = "append" => run[p].idx # run[q].idx

Orderly ==
    CreatedFirst /\ OneAtIndex /\ IndexAhead /\ PendingDistinct

Allotted == IndexNew /\ (~disturbed => Orderly) /\ OneAddressEach

(* Where the other runs are does not change with a step of one.            *)
LEMMA StepOfOne ==
    ASSUME TypeOK, NEW r \in Runs, NEW s, NEW t, Goto(r, s, t)
    PROVE  /\ run[r].at = s /\ run'[r].at = t
           /\ run'[r].idx = run[r].idx
           /\ \A q \in Runs \ {r} : run'[q] = run[q]
  BY DEF TypeOK, Goto

(* The steps that touch neither the index nor the peers.                   *)
LEMMA AllottedElsewhere ==
    ASSUME TypeOK, Allotted, NEW r \in Runs,
           UNCHANGED <<created, index, peers>>,
           \A q \in Runs \ {r} : run'[q] = run[q],
           run'[r].at \in {"idle", "ensure", "read", "client", "fill",
                           "reload", "show"},
           run'[r].at = "read" => run[r].at = "ensure" /\ created,
           run'[r].at \in {"client", "fill", "reload", "show"}
              => run[r].at \in {"client", "fill", "reload"},
           ~disturbed' => ~disturbed /\ run[r].at \notin {"first", "write"}
    PROVE  Allotted'
<1>1. IndexNew'
  BY DEF Allotted, IndexNew
<1>2. ASSUME ~disturbed'
      PROVE  Orderly'
  <2>1. /\ ~disturbed
        /\ CreatedFirst /\ OneAtIndex /\ IndexAhead /\ PendingDistinct
        /\ run[r].at \notin {"first", "write"}
    BY <1>2 DEF Allotted, Orderly
  <2>2. CreatedFirst'
    BY <2>1 DEF CreatedFirst
  <2>3. OneAtIndex'
    BY <2>1 DEF OneAtIndex
  <2>4. \A n : Covers(n) => Covers(n)'
    BY DEF Covers
  <2>5. IndexAhead'
    BY <2>1, <2>4 DEF IndexAhead, Covers
  <2>6. PendingDistinct'
    BY <2>1 DEF PendingDistinct
  <2> QED
    BY <2>2, <2>3, <2>5, <2>6 DEF Orderly
<1>3. OneAddressEach'
  BY DEF Allotted, OneAddressEach
<1> QED
  BY <1>1, <1>2, <1>3 DEF Allotted

(* The index file is created.                                              *)
LEMMA AllottedCreate ==
    ASSUME TypeOK, Allotted, NEW r \in Runs,
           (Ensure(r) /\ ~created) \/ CreateIndex(r) \/ WriteFirst(r)
    PROVE  Allotted'
<1>1. /\ UNCHANGED <<peers, disturbed>>
      /\ \A q \in Runs \ {r} : run'[q] = run[q]
      /\ \/ /\ run[r].at = "ensure" /\ run'[r].at = "create"
            /\ ~created /\ UNCHANGED <<created, index>>
         \/ /\ run[r].at = "create" /\ run'[r].at = "first"
            /\ created'
         \/ /\ run[r].at = "first" /\ run'[r].at = "read"
            /\ index' = FirstIndex /\ UNCHANGED created
  BY StepOfOne DEF Ensure, CreateIndex, WriteFirst, indexVars, confVars
<1>2. IndexNew'
  BY <1>1 DEF Allotted, IndexNew
<1>3. ASSUME ~disturbed'
      PROVE  Orderly'
  <2>1. /\ CreatedFirst /\ OneAtIndex /\ IndexAhead /\ PendingDistinct
        /\ IndexNew
    BY <1>1, <1>3 DEF Allotted, Orderly
  <2>2. /\ peers = <<>>
        /\ \A p \in Runs : run[p].at \in {"idle", "ensure", "create", "first",
                                           "read"}
    BY <1>1, <2>1 DEF CreatedFirst, IndexNew
  <2>3. /\ peers' = <<>>
        /\ \A p \in Runs : run'[p].at \in {"idle", "ensure", "create", "first",
                                            "read"}
    BY <1>1, <2>2
  <2>4. CreatedFirst' /\ OneAtIndex' /\ PendingDistinct'
    BY <2>3 DEF CreatedFirst, OneAtIndex, PendingDistinct
  <2>5. created' /\ (\A q \in Runs : run'[q].at \notin {"first", "write"})
        => index' >= FirstIndex
    <3>1. CASE run'[r].at = "create"
      BY <1>1, <3>1
    <3>2. CASE run'[r].at = "first"
      BY <3>2
    <3>3. CASE run'[r].at = "read"
      BY <1>1, <3>3, ConstantTypes
    <3> QED
      BY <1>1, <3>1, <3>2, <3>3
  <2>6. IndexAhead'
    BY <2>3, <2>5 DEF IndexAhead, Covers
  <2> QED
    BY <2>4, <2>6 DEF Orderly
<1>4. OneAddressEach'
  BY <1>1 DEF Allotted, OneAddressEach
<1> QED
  BY <1>2, <1>3, <1>4 DEF Allotted

(* A run reads the index, undisturbed.                                     *)
LEMMA AllottedRead ==
    ASSUME TypeOK, Allotted, NEW r \in Runs, ReadIndex(r)
    PROVE  Allotted'
<1>1. /\ run[r].at = "read" /\ run'[r].at = "bump" /\ run'[r].idx = index
      /\ \A q \in Runs \ {r} : run'[q] = run[q]
      /\ UNCHANGED <<created, index, peers>>
  BY DEF ReadIndex, TypeOK, confVars
<1>2. IndexNew'
  BY <1>1 DEF Allotted, IndexNew
<1>3. ASSUME ~disturbed'
      PROVE  Orderly'
  <2>1. /\ ~disturbed
        /\ \A q \in Runs \ {r} : run[q].at \notin AtIndex
    BY <1>3 DEF ReadIndex
  <2>2. CreatedFirst /\ OneAtIndex /\ IndexAhead /\ PendingDistinct
    BY <2>1 DEF Allotted, Orderly
  <2>3. CreatedFirst' /\ OneAtIndex'
    BY <1>1, <2>1 DEF CreatedFirst, OneAtIndex, AtIndex
  <2>4. \A n : Covers(n) => Covers(n)'
    BY <1>1 DEF Covers
  <2>5. IndexAhead'
    BY <1>1, <2>2, <2>4 DEF IndexAhead, Covers
  <2>6. PendingDistinct'
    BY <1>1, <2>2 DEF PendingDistinct
  <2> QED
    BY <2>3, <2>5, <2>6 DEF Orderly
<1>4. OneAddressEach'
  BY <1>1 DEF Allotted, OneAddressEach, ReadIndex
<1> QED
  BY <1>2, <1>3, <1>4 DEF Allotted

(* It truncates the file: what it has read is still ahead.                 *)
LEMMA AllottedTruncate ==
    ASSUME TypeOK, Allotted, NEW r \in Runs, TruncateIndex(r)
    PROVE  Allotted'
<1>1. /\ run[r].at = "bump" /\ run'[r].at = "write"
      /\ run'[r].idx = run[r].idx
      /\ \A q \in Runs \ {r} : run'[q] = run[q]
      /\ UNCHANGED <<created, disturbed, peers>>
  BY StepOfOne DEF TruncateIndex, confVars
<1>2. IndexNew'
  BY <1>1 DEF Allotted, IndexNew
<1>3. ASSUME ~disturbed'
      PROVE  Orderly'
  <2>1. /\ CreatedFirst /\ OneAtIndex /\ IndexAhead /\ PendingDistinct
        /\ created
    BY <1>1, <1>3 DEF Allotted, Orderly, IndexNew
  <2>2. /\ \A q \in Runs : run[q].at \notin {"create", "first", "write"}
        /\ run[r].idx = index
    BY <1>1, <2>1 DEF CreatedFirst, OneAtIndex
  <2>3. run[r].idx >= FirstIndex /\ Covers(run[r].idx)
    BY <2>1, <2>2 DEF IndexAhead
  <2>4. CreatedFirst' /\ OneAtIndex'
    BY <1>1, <2>1, <2>2 DEF CreatedFirst, OneAtIndex
  <2>5. \A n : Covers(n) => Covers(n)'
    BY <1>1 DEF Covers
  <2>6. \A q \in Runs : run'[q].at = "write" => q = r
    BY <1>1, <2>2
  <2>7. IndexAhead'
    BY <1>1, <2>3, <2>5, <2>6 DEF IndexAhead, Covers
  <2>8. PendingDistinct'
    BY <1>1, <2>1 DEF PendingDistinct
  <2> QED
    BY <2>4, <2>7, <2>8 DEF Orderly
<1>4. OneAddressEach'
  BY <1>1 DEF Allotted, OneAddressEach
<1> QED
  BY <1>2, <1>3, <1>4 DEF Allotted

(* It writes the next number, which nobody has.                            *)
LEMMA AllottedWrite ==
    ASSUME TypeOK, Allotted, NEW r \in Runs, WriteIndex(r)
    PROVE  Allotted'
<1>1. /\ run[r].at = "write" /\ run'[r].at = "append"
      /\ run'[r].idx = run[r].idx
      /\ \A q \in Runs \ {r} : run'[q] = run[q]
      /\ UNCHANGED <<created, disturbed, peers>>
      /\ index' = run[r].idx + 1
  BY StepOfOne DEF WriteIndex, confVars
<1>2. IndexNew'
  BY <1>1 DEF Allotted, IndexNew
<1>3. ASSUME ~disturbed'
      PROVE  Orderly'
  <2> DEFINE n == run[r].idx
  <2>1. CreatedFirst /\ OneAtIndex /\ IndexAhead /\ PendingDistinct
    BY <1>1, <1>3 DEF Allotted, Orderly
  <2>2. /\ \A q \in Runs : run[q].at \notin {"create", "first"}
        /\ \A q \in Runs \ {r} : run[q].at \notin {"bump", "write"}
    BY <1>1, <2>1 DEF CreatedFirst, OneAtIndex
  <2>3. n >= FirstIndex /\ Covers(n)
    BY <1>1, <2>1 DEF IndexAhead
  <2>4. CreatedFirst' /\ OneAtIndex'
    BY <1>1, <2>2 DEF CreatedFirst, OneAtIndex
  <2>5. /\ n \in Nat /\ FirstIndex \in Nat
        /\ \A q \in Runs : run[q].idx \in Nat
        /\ \A i \in 1 .. Len(peers) : peers[i].ip \in Nat
    <3>1. \A q \in Runs : run[q].idx \in Nat
      BY DEF TypeOK
    <3>2. \A i \in 1 .. Len(peers) : peers[i] \in Peer
      BY DEF TypeOK
    <3> QED
      BY <3>1, <3>2, ConstantTypes DEF Peer
  <2>6. index' >= FirstIndex /\ Covers(index)'
    <3>1. \A i \in 1 .. Len(peers) : peers[i].ip <= n + 1
      BY <2>3, <2>5 DEF Covers
    <3>2. \A q \in Runs : run'[q].at = "append" => run'[q].idx + 1 <= n + 1
      BY <1>1, <2>3, <2>5 DEF Covers
    <3>3. n + 1 >= FirstIndex
      BY <2>3, <2>5
    <3> QED
      BY <1>1, <3>1, <3>2, <3>3 DEF Covers
  <2>7. \A q \in Runs : run'[q].at # "write"
    BY <1>1, <2>2
  <2>8. IndexAhead'
    BY <2>6, <2>7 DEF IndexAhead
  <2>9. PendingDistinct'
    <3>1. \A i \in 1 .. Len(peers) : peers[i].ip # n + 1
      BY <2>3, <2>5 DEF Covers
    <3>2. \A p \in Runs \ {r} : run[p].at = "append" => run[p].idx # n
      BY <2>3, <2>5 DEF Covers
    <3> QED
      BY <1>1, <2>1, <2>3, <3>1, <3>2 DEF PendingDistinct
  <2> QED
    BY <2>4, <2>8, <2>9 DEF Orderly
<1>4. OneAddressEach'
  BY <1>1 DEF Allotted, OneAddressEach
<1> QED
  BY <1>2, <1>3, <1>4 DEF Allotted

(* Its number goes over to its peer.                                       *)
LEMMA AllottedAppend ==
    ASSUME TypeOK, Allotted, NEW r \in Runs, AppendPeer(r)
    PROVE  Allotted'
<1> DEFINE n == run[r].idx + 1
<1>1. /\ run[r].at = "append" /\ run'[r].at = "client"
      /\ \A q \in Runs \ {r} : run'[q] = run[q]
      /\ UNCHANGED <<created, index, disturbed>>
  BY StepOfOne DEF AppendPeer, indexVars
<1>2. /\ Len(peers') = Len(peers) + 1
      /\ \A i \in 1 .. Len(peers) : peers'[i] = peers[i]
      /\ peers'[Len(peers) + 1].ip = n
      /\ Len(peers) \in Nat
  BY DEF AppendPeer, TypeOK, PeerOf
<1>3. \A i \in 1 .. Len(peers') : \/ i \in 1 .. Len(peers)
                                 \/ i = Len(peers) + 1
  BY <1>2
<1>4. IndexNew'
  BY <1>1 DEF Allotted, IndexNew
<1>5. ASSUME ~disturbed'
      PROVE  Orderly' /\ OneAddressEach'
  <2>1. /\ CreatedFirst /\ OneAtIndex /\ IndexAhead /\ PendingDistinct
        /\ OneAddressEach /\ ~disturbed
    BY <1>1, <1>5 DEF Allotted, Orderly
  <2>2. \A q \in Runs : run[q].at \notin {"create", "first"}
    BY <1>1, <2>1 DEF CreatedFirst
  <2>3. CreatedFirst' /\ OneAtIndex'
    BY <1>1, <2>1, <2>2 DEF CreatedFirst, OneAtIndex
  <2>4. ASSUME NEW m, Covers(m)
        PROVE  Covers(m)'
    BY <1>1, <1>2, <1>3, <2>4 DEF Covers
  <2>5. IndexAhead'
    BY <1>1, <2>1, <2>4 DEF IndexAhead, Covers
  <2>6. /\ run[r].idx >= FirstIndex
        /\ \A i \in 1 .. Len(peers) : peers[i].ip # n
        /\ \A p \in Runs \ {r} : run[p].at = "append" => run[p].idx + 1 # n
    BY <1>1, <2>1, ConstantTypes DEF PendingDistinct, TypeOK
  <2>7. PendingDistinct'
    BY <1>1, <1>2, <1>3, <2>1, <2>6 DEF PendingDistinct
  <2>8. OneAddressEach'
    <3>1. n > FirstIndex
      BY <2>6, ConstantTypes DEF TypeOK
    <3> QED
      BY <1>2, <1>3, <2>1, <2>6, <3>1 DEF OneAddressEach
  <2> QED
    BY <2>3, <2>5, <2>7, <2>8 DEF Orderly
<1> QED
  BY <1>4, <1>5 DEF Allotted, OneAddressEach

(* A run starts, dies, or makes one of the other steps of the script.      *)
LEMMA AllottedOther ==
    ASSUME TypeOK, Allotted, NEW r \in Runs,
           \/ \E u \in Users : Start(r, u)
           \/ Ensure(r) /\ created
           \/ TruncateClient(r) \/ WriteClient(r)
           \/ Reload(r) \/ ReloadFails(r) \/ Show(r) \/ Die(r)
    PROVE  Allotted'
<1> USE DEF indexVars, confVars
<1>1. ASSUME NEW u \in Users, Start(r, u)
      PROVE  Allotted'
  <2>1. /\ UNCHANGED <<created, index, peers, disturbed>>
        /\ \A q \in Runs \ {r} : run'[q] = run[q]
        /\ run[r].at = "idle" /\ run'[r].at = "ensure"
    BY <1>1 DEF Start, TypeOK
  <2> QED
    BY <2>1, AllottedElsewhere
<1>2. ASSUME NEW s \in {"ensure", "client", "fill", "reload"},
             NEW t \in {"read", "client", "fill", "reload", "show"},
             Goto(r, s, t), t = "read" => s = "ensure" /\ created,
             t # "read" => s # "ensure",
             UNCHANGED <<created, index, peers, disturbed>>
      PROVE  Allotted'
  <2>1. /\ run[r].at = s /\ run'[r].at = t
        /\ \A q \in Runs \ {r} : run'[q] = run[q]
    BY <1>2, StepOfOne
  <2> QED
    BY <1>2, <2>1, AllottedElsewhere
<1>3. ASSUME run' = [run EXCEPT ![r] = Idle],
             UNCHANGED <<created, index, peers>>,
             ~disturbed' => ~disturbed /\ run[r].at \notin {"first", "write"}
      PROVE  Allotted'
  <2>1. /\ run'[r].at = "idle"
        /\ \A q \in Runs \ {r} : run'[q] = run[q]
    BY <1>3 DEF TypeOK, Idle
  <2> QED
    BY <1>3, <2>1, AllottedElsewhere
<1>4. CASE Ensure(r) /\ created
  BY <1>2, <1>4 DEF Ensure
<1>5. CASE TruncateClient(r)
  BY <1>2, <1>5 DEF TruncateClient
<1>6. CASE WriteClient(r)
  BY <1>2, <1>6 DEF WriteClient
<1>7. CASE Reload(r)
  BY <1>2, <1>7 DEF Reload
<1>8. CASE ReloadFails(r) \/ Show(r)
  <2>1. /\ run[r].at \notin {"first", "write"}
        /\ run' = [run EXCEPT ![r] = Idle]
        /\ UNCHANGED <<created, index, peers, disturbed>>
    BY <1>8 DEF ReloadFails, Show
  <2> QED
    BY <2>1, <1>3
<1>9. CASE Die(r)
  BY <1>3, <1>9 DEF Die
<1> QED
  BY <1>1, <1>4, <1>5, <1>6, <1>7, <1>8, <1>9

(* No step undoes it.                                                      *)
LEMMA AllottedStep ==
    ASSUME TypeOK, Allotted, [Next]_vars
    PROVE  Allotted'
<1>1. CASE UNCHANGED vars
  BY <1>1 DEF vars, Allotted, IndexNew, Orderly, CreatedFirst, OneAtIndex,
              IndexAhead, Covers, PendingDistinct, OneAddressEach
<1>2. ASSUME NEW r \in Runs, (\E u \in Users : Start(r, u)) \/ RunStep(r)
                             \/ Die(r)
      PROVE  Allotted'
  BY <1>2, AllottedOther, AllottedCreate, AllottedRead, AllottedTruncate,
     AllottedWrite, AllottedAppend DEF RunStep
<1> QED
  BY <1>1, <1>2 DEF Next

(* wg:26-47: as long as no run reads the index while another is at it, or  *)
(* dies with the file truncated, each peer gets an address of its own, and *)
(* none of the reserved ones.                                              *)
THEOREM NoAddressTwice == Spec => []OneAddressEach
<1>1. Init => Allotted
  BY DEF Init, Idle, Allotted, IndexNew, Orderly, CreatedFirst, OneAtIndex,
         IndexAhead, PendingDistinct, OneAddressEach
<1>2. TypeOK /\ Allotted /\ [Next]_vars => Allotted'
  BY AllottedStep
<1>3. Allotted => OneAddressEach
  BY DEF Allotted
<1> QED
  BY <1>1, <1>2, <1>3, TypeCorrect, PTL DEF Spec

-----------------------------------------------------------------------------
(* A file that is shown is good.                                           *)

\* p is among the first n peers.
Among(p, n) == \E i \in 1 .. n : peers[i] = p

\* A run that appended its peer finds it in wg200.conf, and one that has
\* reloaded the interface finds it there.
OwnPeer ==
    \A q \in Runs :
       /\ run[q].at \in {"client", "fill", "reload", "show"}
          => Among(PeerOf(q), Len(peers))
       /\ run[q].at = "show" => Among(PeerOf(q), applied)

\* A name with no overlapping runs has one run, and the file is that run's.
OwnFile ==
    \A q \in Runs : run[q].at # "idle" /\ run[q].user \notin overlapped =>
       /\ \A p \in Runs \ {q} :
             run[p].at # "idle" => run[p].user # run[q].user
       /\ run[q].at \in {"reload", "show"}
          => clients[run[q].user] = PeerOf(q)

Delivered == OwnPeer /\ OwnFile /\ ShownWorks

(* Peers are never taken away, from the file or from the interface.        *)
LEMMA PeersStay ==
    ASSUME TypeOK, NEW r \in Runs,
           (\E u \in Users : Start(r, u)) \/ RunStep(r) \/ Die(r)
    PROVE  \A p : /\ Among(p, Len(peers)) => Among(p, Len(peers))'
                  /\ Among(p, applied) => Among(p, applied)'
<1>1. CASE AppendPeer(r)
  <2>1. /\ applied' = applied /\ applied \in 0 .. Len(peers)
        /\ Len(peers') = Len(peers) + 1 /\ Len(peers) \in Nat
        /\ \A i \in 1 .. Len(peers) : peers'[i] = peers[i]
    BY <1>1 DEF AppendPeer, TypeOK
  <2> QED
    BY <2>1 DEF Among
<1>2. CASE ~AppendPeer(r)
  <2>1. peers' = peers
    BY <1>2 DEF RunStep, Start, Ensure, CreateIndex, WriteFirst, ReadIndex,
       TruncateIndex, WriteIndex, TruncateClient, WriteClient, Reload,
       ReloadFails, Show, Die, confVars
  <2>2. applied' = applied \/ applied' = Len(peers)
    BY <1>2 DEF RunStep, Start, Ensure, CreateIndex, WriteFirst, ReadIndex,
       TruncateIndex, WriteIndex, TruncateClient, WriteClient, Reload,
       ReloadFails, Show, Die, confVars
  <2>3. applied \in 0 .. Len(peers) /\ Len(peers) \in Nat
    BY DEF TypeOK
  <2> QED
    BY <2>1, <2>2, <2>3 DEF Among
<1> QED
  BY <1>1, <1>2

(* The steps before a run writes its client's file.                        *)
LEMMA DeliveredBefore ==
    ASSUME TypeOK, Delivered, NEW r \in Runs,
           \/ Ensure(r) \/ CreateIndex(r) \/ WriteFirst(r) \/ ReadIndex(r)
           \/ TruncateIndex(r) \/ WriteIndex(r) \/ AppendPeer(r)
    PROVE  Delivered'
<1> USE DEF indexVars, confVars, rest
<1>1. \A p : /\ Among(p, Len(peers)) => Among(p, Len(peers))'
             /\ Among(p, applied) => Among(p, applied)'
  BY PeersStay DEF RunStep
<1>2. UNCHANGED <<clients, shown, overlapped>>
  BY DEF Ensure, CreateIndex, WriteFirst, ReadIndex, TruncateIndex,
         WriteIndex, AppendPeer
<1>3. /\ run[r].at # "idle" /\ run'[r].user = run[r].user
      /\ run'[r].at \notin {"fill", "reload", "show"}
      /\ run'[r].at = "client" => AppendPeer(r)
      /\ \A q \in Runs \ {r} : run'[q] = run[q] /\ PeerOf(q)' = PeerOf(q)
  <2>1. CASE ReadIndex(r)
    BY <2>1 DEF ReadIndex, TypeOK, PeerOf
  <2>2. ASSUME NEW s \in Steps \ {"idle"}, NEW t \in AtIndex \cup
                     {"read", "append", "client"},
               Goto(r, s, t), t = "client" => AppendPeer(r)
        PROVE  /\ run[r].at # "idle" /\ run'[r].user = run[r].user
               /\ run'[r].at \notin {"fill", "reload", "show"}
               /\ run'[r].at = "client" => AppendPeer(r)
               /\ \A q \in Runs \ {r} : /\ run'[q] = run[q]
                                       /\ PeerOf(q)' = PeerOf(q)
    BY <2>2 DEF Goto, TypeOK, PeerOf, AtIndex
  <2>3. CASE Ensure(r) \/ CreateIndex(r) \/ WriteFirst(r)
    BY <2>2, <2>3 DEF Ensure, CreateIndex, WriteFirst, Steps, AtIndex
  <2>4. CASE TruncateIndex(r) \/ WriteIndex(r)
    BY <2>2, <2>4 DEF TruncateIndex, WriteIndex, Steps, AtIndex
  <2>5. CASE AppendPeer(r)
    <3>1. Goto(r, "append", "client")
      BY <2>5 DEF AppendPeer
    <3> QED
      BY <2>2, <2>5, <3>1 DEF Steps, AtIndex
  <2> QED
    BY <2>1, <2>3, <2>4, <2>5
<1>4. AppendPeer(r) => Among(PeerOf(r), Len(peers))'
  <2> SUFFICES ASSUME AppendPeer(r)
               PROVE  \E i \in 1 .. Len(peers') : peers'[i] = PeerOf(r)'
    BY DEF Among
  <2>1. /\ Len(peers') = Len(peers) + 1 /\ Len(peers) \in Nat
        /\ peers'[Len(peers) + 1] = PeerOf(r)
    BY DEF AppendPeer, TypeOK
  <2>2. PeerOf(r)' = PeerOf(r)
    BY DEF AppendPeer, Goto, TypeOK, PeerOf
  <2> QED
    BY <2>1, <2>2
<1>5. OwnPeer'
  BY <1>1, <1>3, <1>4 DEF Delivered, OwnPeer
<1>6. OwnFile'
  BY <1>2, <1>3 DEF Delivered, OwnFile
<1>7. ShownWorks'
  BY <1>1, <1>2 DEF Delivered, ShownWorks, Among
<1> QED
  BY <1>5, <1>6, <1>7 DEF Delivered

(* A run starts: if its name has one already, the name is overlapped.      *)
LEMMA DeliveredStart ==
    ASSUME TypeOK, Delivered, NEW r \in Runs, NEW u \in Users, Start(r, u)
    PROVE  Delivered'
<1> USE DEF indexVars, confVars
<1>1. /\ UNCHANGED <<peers, applied, clients, shown>>
      /\ overlapped \subseteq overlapped'
      /\ (\E q \in Runs : run[q].user = u) => u \in overlapped'
      /\ run[r].at = "idle"
  BY DEF Start
<1>2. /\ run'[r].at = "ensure" /\ run'[r].user = u
      /\ \A q \in Runs \ {r} : run'[q] = run[q] /\ PeerOf(q)' = PeerOf(q)
  BY DEF Start, TypeOK, PeerOf
<1>3. OwnPeer'
  BY <1>1, <1>2 DEF Delivered, OwnPeer, Among
<1>4. OwnFile'
  BY <1>1, <1>2 DEF Delivered, OwnFile
<1>5. ShownWorks'
  BY <1>1 DEF Delivered, ShownWorks
<1> QED
  BY <1>3, <1>4, <1>5 DEF Delivered

(* It writes its client's file, which is its own if the name is.           *)
LEMMA DeliveredFile ==
    ASSUME TypeOK, Delivered, NEW r \in Runs,
           TruncateClient(r) \/ WriteClient(r)
    PROVE  Delivered'
<1> USE DEF indexVars, confVars, rest
<1>1. UNCHANGED <<peers, applied, shown, overlapped>>
  BY DEF TruncateClient, WriteClient
<1>2. /\ run[r].at \in {"client", "fill"} /\ run'[r].at \in {"fill", "reload"}
      /\ run'[r].user = run[r].user /\ run[r].user \in Users
      /\ \A q \in Runs : PeerOf(q)' = PeerOf(q)
      /\ \A q \in Runs \ {r} : run'[q] = run[q]
  <2>1. PICK s \in {"client", "fill"}, t \in {"fill", "reload"} : Goto(r, s, t)
    BY DEF TruncateClient, WriteClient
  <2>2. run[r].at = s /\ run'[r].at = t /\ run'[r].user = run[r].user
    BY <2>1 DEF Goto, TypeOK
  <2>3. \A q \in Runs : PeerOf(q)' = PeerOf(q)
    BY <2>1 DEF Goto, TypeOK, PeerOf
  <2>4. \A q \in Runs \ {r} : run'[q] = run[q]
    BY <2>1 DEF Goto, TypeOK
  <2> QED
    BY <2>2, <2>3, <2>4 DEF TypeOK
<1>3. /\ \A v \in Users \ {run[r].user} : clients'[v] = clients[v]
      /\ run'[r].at = "reload" => clients'[run[r].user] = PeerOf(r)
  BY <1>2 DEF TruncateClient, WriteClient, Goto, TypeOK
<1>4. OwnPeer'
  BY <1>1, <1>2 DEF Delivered, OwnPeer, Among
<1>5. ASSUME NEW q \in Runs, run'[q].at # "idle",
             run'[q].user \notin overlapped'
      PROVE  /\ \A p \in Runs \ {q} :
                   run'[p].at # "idle" => run'[p].user # run'[q].user
             /\ run'[q].at \in {"reload", "show"}
                => clients'[run'[q].user] = PeerOf(q)'
  <2>1. /\ run[q].at # "idle" /\ run[q].user \notin overlapped
        /\ run[q].user = run'[q].user /\ run[q].user \in Users
    BY <1>1, <1>2, <1>5 DEF TypeOK
  <2>2. /\ \A p \in Runs \ {q} :
              run[p].at # "idle" => run[p].user # run[q].user
        /\ run[q].at \in {"reload", "show"}
           => clients[run[q].user] = PeerOf(q)
    BY <2>1 DEF Delivered, OwnFile
  <2>3. CASE q = r
    BY <1>2, <1>3, <2>1, <2>2, <2>3
  <2>4. CASE q # r
    BY <1>2, <1>3, <2>1, <2>2, <2>4
  <2> QED
    BY <2>3, <2>4
<1>6. OwnFile'
  BY <1>5 DEF OwnFile
<1>7. ShownWorks'
  BY <1>1 DEF Delivered, ShownWorks
<1> QED
  BY <1>4, <1>6, <1>7 DEF Delivered

(* It reloads the interface, which then has every peer of the file.        *)
LEMMA DeliveredReload ==
    ASSUME TypeOK, Delivered, NEW r \in Runs, Reload(r)
    PROVE  Delivered'
<1> USE DEF indexVars, confVars, rest
<1>1. /\ UNCHANGED <<peers, clients, shown, overlapped>>
      /\ applied' = Len(peers)
  BY DEF Reload
<1>2. /\ run[r].at = "reload" /\ run'[r].at = "show"
      /\ run'[r].user = run[r].user
      /\ \A q \in Runs : PeerOf(q)' = PeerOf(q)
      /\ \A q \in Runs \ {r} : run'[q] = run[q]
  BY DEF Reload, Goto, TypeOK, PeerOf
<1>3. \A p : /\ Among(p, Len(peers)) => Among(p, Len(peers))'
             /\ Among(p, applied) => Among(p, applied)'
  BY PeersStay DEF RunStep
<1>4. \A p : Among(p, Len(peers)) => Among(p, applied)'
  BY <1>1 DEF Among
<1>5. OwnPeer'
  BY <1>2, <1>3, <1>4 DEF Delivered, OwnPeer
<1>6. OwnFile'
  BY <1>1, <1>2 DEF Delivered, OwnFile
<1>7. ShownWorks'
  BY <1>1, <1>3 DEF Delivered, ShownWorks, Among
<1> QED
  BY <1>5, <1>6, <1>7 DEF Delivered

(* It ends: shown, refused by the interface, or killed.                    *)
LEMMA DeliveredEnd ==
    ASSUME TypeOK, Delivered, NEW r \in Runs,
           Show(r) \/ ReloadFails(r) \/ Die(r)
    PROVE  Delivered'
<1> USE DEF indexVars, confVars, rest
<1>1. UNCHANGED <<peers, clients, overlapped>>
  BY DEF Show, ReloadFails, Die
<1>2. run' = [run EXCEPT ![r] = Idle]
  BY DEF Show, ReloadFails, Die
<1>3. /\ run'[r].at = "idle"
      /\ \A q \in Runs \ {r} : run'[q] = run[q] /\ PeerOf(q)' = PeerOf(q)
  BY <1>2 DEF TypeOK, PeerOf, Idle
<1>4. \A p : /\ Among(p, Len(peers)) => Among(p, Len(peers))'
             /\ Among(p, applied) => Among(p, applied)'
  BY PeersStay DEF RunStep
<1>5. OwnPeer'
  BY <1>3, <1>4 DEF Delivered, OwnPeer
<1>6. OwnFile'
  BY <1>1, <1>3 DEF Delivered, OwnFile
<1>7. ASSUME NEW s \in shown'
      PROVE  s[1] \in overlapped' \/ Among(s[2], applied)'
  <2>1. CASE s \in shown
    BY <1>1, <1>4, <2>1 DEF Delivered, ShownWorks, Among
  <2>2. CASE s \notin shown
    <3>1. /\ run[r].at = "show" /\ s = <<run[r].user, clients[run[r].user]>>
      BY <2>2, <1>7 DEF Show, ReloadFails, Die
    <3>2. Among(PeerOf(r), applied)
      BY <3>1 DEF Delivered, OwnPeer
    <3>3. run[r].user \in overlapped \/ clients[run[r].user] = PeerOf(r)
      BY <3>1 DEF Delivered, OwnFile
    <3> QED
      BY <1>1, <1>4, <3>1, <3>2, <3>3
  <2> QED
    BY <2>1, <2>2
<1>8. ShownWorks'
  BY <1>7 DEF ShownWorks, Among
<1> QED
  BY <1>5, <1>6, <1>8 DEF Delivered

(* No step undoes it.                                                      *)
LEMMA DeliveredStep ==
    ASSUME TypeOK, Delivered, [Next]_vars
    PROVE  Delivered'
<1>1. CASE UNCHANGED vars
  BY <1>1 DEF vars, Delivered, OwnPeer, OwnFile, ShownWorks, Among, PeerOf
<1>2. ASSUME NEW r \in Runs, (\E u \in Users : Start(r, u)) \/ RunStep(r)
                             \/ Die(r)
      PROVE  Delivered'
  BY <1>2, DeliveredStart, DeliveredBefore, DeliveredFile, DeliveredReload,
     DeliveredEnd DEF RunStep
<1> QED
  BY <1>1, <1>2 DEF Next

(* wg:40-74: whatever else fails, dies or runs beside it, a file that is   *)
(* shown is of a peer the interface has, unless two runs for its name      *)
(* overlapped.                                                             *)
THEOREM ShownFilesWork == Spec => []ShownWorks
<1>1. Init => Delivered
  BY DEF Init, Idle, Delivered, OwnPeer, OwnFile, ShownWorks
<1>2. TypeOK /\ Delivered /\ [Next]_vars => Delivered'
  BY DeliveredStep
<1>3. Delivered => ShownWorks
  BY DEF Delivered
<1> QED
  BY <1>1, <1>2, <1>3, TypeCorrect, PTL DEF Spec

-----------------------------------------------------------------------------
(* The end of the address range (wg:30: nothing bounds the index).         *)

(* The runs that have not written the index, and the number of the others. *)
BeforeWrite == {"ensure", "read"} \cup AtIndex
Pending == {q \in Runs : run[q].at \in BeforeWrite}
Spent == starts - Cardinality(Pending)

(* The interface has room for every client as long as no more runs were    *)
(* started than there are addresses, 235 of them, however the runs overlap *)
(* and die: disturbed or not, a run advances the index by one at most.     *)
EnoughAddresses == starts <= MaxHost - FirstIndex => Loadable

(* An address, read or given, is paid for by a run.                        *)
Within(n) == n <= FirstIndex + Spent

RoomLeft ==
    /\ IsFiniteSet(Pending) /\ Spent \in Nat
    /\ Within(index)
    /\ \A q \in Runs :
          /\ run[q].at \in {"bump", "write"} => Within(run[q].idx)
          /\ run[q].at = "append" => Within(run[q].idx + 1)
    /\ \A i \in 1 .. Len(peers) : Within(peers[i].ip)

(* A run that goes on, starts or ends changes Pending by itself at most.   *)
LEMMA PendingStep ==
    ASSUME IsFiniteSet(Pending), NEW r \in Runs,
           \A q \in Runs \ {r} : run'[q] = run[q]
    PROVE  /\ IsFiniteSet(Pending')
           /\ Cardinality(Pending) \in Nat
           /\ Cardinality(Pending') =
                 Cardinality(Pending)
                 + (IF run'[r].at \in BeforeWrite THEN 1 ELSE 0)
                 - (IF run[r].at \in BeforeWrite THEN 1 ELSE 0)
<1> DEFINE others == Pending \ {r}
<1>1. /\ IsFiniteSet(others)
      /\ Cardinality(others) = IF r \in Pending THEN Cardinality(Pending) - 1
                                                ELSE Cardinality(Pending)
  BY FS_RemoveElement
<1>2. Cardinality(Pending) \in Nat
  BY FS_CardinalityType
<1>3. r \in Pending <=> run[r].at \in BeforeWrite
  BY DEF Pending
<1>4. CASE run'[r].at \in BeforeWrite
  <2>1. Pending' = others \cup {r} /\ r \notin others
    BY <1>4 DEF Pending, BeforeWrite, AtIndex
  <2> HIDE DEF others
  <2>2. /\ IsFiniteSet(Pending')
        /\ Cardinality(Pending') = Cardinality(others) + 1
    BY <1>1, <2>1, FS_AddElement
  <2> QED
    BY <1>1, <1>2, <1>3, <1>4, <2>2
<1>5. CASE run'[r].at \notin BeforeWrite
  <2>1. Pending' = others
    BY <1>5 DEF Pending, BeforeWrite, AtIndex
  <2> HIDE DEF others
  <2> QED
    BY <1>1, <1>2, <1>3, <1>5, <2>1
<1> QED
  BY <1>4, <1>5

(* A peer in the file has an address that is a number.                     *)
LEMMA AddressTyped ==
    ASSUME TypeOK, NEW i \in 1 .. Len(peers)
    PROVE  peers[i].ip \in Nat
<1>1. peers[i] \in Peer
  BY DEF TypeOK
<1> QED
  BY <1>1 DEF Peer

(* A step of run r keeps the room if what r reads or gives is paid for.    *)
LEMMA RoomKept ==
    ASSUME TypeOK, RoomLeft, NEW r \in Runs,
           \A q \in Runs \ {r} : run'[q] = run[q],
           IsFiniteSet(Pending'), Spent' \in Nat, Spent' >= Spent,
           Within(index)',
           run'[r].at \in {"bump", "write"} => Within(run[r].idx)',
           run'[r].at = "append" => Within(run[r].idx + 1)',
           \/ peers' = peers
           \/ run[r].at = "append" /\ peers' = Append(peers, PeerOf(r))
    PROVE  RoomLeft'
<1>1. ASSUME NEW n \in Nat, Within(n)
      PROVE  n <= FirstIndex + Spent'
  BY <1>1, ConstantTypes DEF Within, RoomLeft
<1>2. ASSUME NEW q \in Runs
      PROVE  /\ run'[q].at \in {"bump", "write"} => Within(run[q].idx)'
             /\ run'[q].at = "append" => Within(run[q].idx + 1)'
  <2>1. CASE q = r
    BY <2>1
  <2>2. CASE q # r
    <3>1. run'[q] = run[q] /\ run[q].idx \in Nat
      BY <2>2 DEF TypeOK
    <3>2. /\ run[q].at \in {"bump", "write"} => Within(run[q].idx)
          /\ run[q].at = "append" => Within(run[q].idx + 1)
      BY DEF RoomLeft
    <3> QED
      BY <1>1, <3>1, <3>2 DEF Within
  <2> QED
    BY <2>1, <2>2
<1>3. ASSUME NEW i \in 1 .. Len(peers'), peers' = peers
      PROVE  Within(peers[i].ip)'
  <2>1. peers[i].ip \in Nat /\ Within(peers[i].ip)
    BY <1>3, AddressTyped DEF RoomLeft
  <2> QED
    BY <1>1, <1>3, <2>1 DEF Within
<1>4. ASSUME NEW i \in 1 .. Len(peers'), run[r].at = "append",
             peers' = Append(peers, PeerOf(r))
      PROVE  Within(peers[i].ip)'
  <2>1. CASE i = Len(peers) + 1
    <3>1. peers'[i].ip = run[r].idx + 1 /\ run[r].idx + 1 \in Nat
      BY <1>4, <2>1 DEF TypeOK, PeerOf
    <3>2. Within(run[r].idx + 1)
      BY <1>4 DEF RoomLeft
    <3> QED
      BY <1>1, <3>1, <3>2 DEF Within
  <2>2. CASE i # Len(peers) + 1
    <3>1. i \in 1 .. Len(peers) /\ peers'[i] = peers[i]
      BY <1>4, <2>2 DEF TypeOK
    <3>2. peers[i].ip \in Nat /\ Within(peers[i].ip)
      BY <3>1, AddressTyped DEF RoomLeft
    <3> QED
      BY <1>1, <3>1, <3>2 DEF Within
  <2> QED
    BY <2>1, <2>2
<1> QED
  BY <1>2, <1>3, <1>4 DEF RoomLeft

(* Where the step of a run leads, as far as the room is concerned.         *)
LEMMA RoomStart ==
    ASSUME TypeOK, RoomLeft, NEW r \in Runs, NEW u \in Users, Start(r, u)
    PROVE  RoomLeft'
<1>1. /\ run[r].at = "idle" /\ run'[r].at = "ensure"
      /\ \A q \in Runs \ {r} : run'[q] = run[q]
      /\ starts' = starts + 1 /\ starts \in Nat
      /\ UNCHANGED <<index, peers>>
  BY DEF Start, TypeOK, indexVars, confVars
<1>2. /\ "ensure" \in BeforeWrite /\ "idle" \notin BeforeWrite
  BY DEF BeforeWrite, AtIndex
<1>3. IsFiniteSet(Pending') /\ Spent' = Spent
  BY <1>1, <1>2, PendingStep DEF RoomLeft, Spent
<1>4. Within(index)'
  BY <1>1, <1>3 DEF RoomLeft, Within
<1> QED
  BY <1>1, <1>3, <1>4, RoomKept DEF RoomLeft

LEMMA RoomWrite ==
    ASSUME TypeOK, RoomLeft, NEW r \in Runs, WriteIndex(r)
    PROVE  RoomLeft'
<1>1. /\ run[r].at = "write" /\ run'[r].at = "append"
      /\ run'[r].idx = run[r].idx /\ run[r].idx \in Nat
      /\ \A q \in Runs \ {r} : run'[q] = run[q]
      /\ starts' = starts /\ starts \in Nat
      /\ index' = run[r].idx + 1 /\ peers' = peers
  BY StepOfOne DEF WriteIndex, TypeOK, confVars, rest
<1>2. "write" \in BeforeWrite /\ "append" \notin BeforeWrite
  BY DEF BeforeWrite, AtIndex
<1>3. IsFiniteSet(Pending') /\ Spent' = Spent + 1
  BY <1>1, <1>2, PendingStep DEF RoomLeft, Spent
<1>4. Within(run[r].idx)
  BY <1>1 DEF RoomLeft
<1>5. Within(index)' /\ Within(run[r].idx + 1)'
  BY <1>1, <1>3, <1>4, ConstantTypes DEF Within, RoomLeft
<1>6. Spent' \in Nat /\ Spent' >= Spent
  BY <1>3 DEF RoomLeft
<1> QED
  BY <1>1, <1>3, <1>5, <1>6, RoomKept

LEMMA RoomGo ==
    ASSUME TypeOK, RoomLeft, NEW r \in Runs,
           RunStep(r) \/ Die(r), ~WriteIndex(r)
    PROVE  RoomLeft'
<1> USE DEF indexVars, confVars, rest
<1>1. /\ starts' = starts /\ starts \in Nat
      /\ \A q \in Runs \ {r} : run'[q] = run[q]
  <2>1. starts' = starts
    BY DEF RunStep, Ensure, CreateIndex, WriteFirst, ReadIndex,
       TruncateIndex, AppendPeer, TruncateClient, WriteClient, Reload,
       ReloadFails, Show, Die
  <2>2. \E x : run' = [run EXCEPT ![r] = x]
    BY DEF RunStep, Ensure, CreateIndex, WriteFirst, ReadIndex,
       TruncateIndex, AppendPeer, TruncateClient, WriteClient, Reload,
       ReloadFails, Show, Die, Goto
  <2> QED
    BY <2>1, <2>2 DEF TypeOK
<1>2. run'[r].at \in BeforeWrite => run[r].at \in BeforeWrite
  BY DEF BeforeWrite, AtIndex, RunStep, Ensure, CreateIndex, WriteFirst,
     ReadIndex, TruncateIndex, AppendPeer, TruncateClient, WriteClient,
     Reload, ReloadFails, Show, Die, Goto, Idle, TypeOK
<1>3. /\ IsFiniteSet(Pending')
      /\ Spent' \in Nat /\ Spent' >= Spent
  BY <1>1, <1>2, PendingStep DEF RoomLeft, Spent
<1>4. ASSUME NEW n \in Nat, Within(n)
      PROVE  n <= FirstIndex + Spent'
  BY <1>3, <1>4, ConstantTypes DEF Within, RoomLeft
<1>5. index' \in {0, FirstIndex, index} /\ index \in Nat
  BY DEF TypeOK, RunStep, Ensure, CreateIndex, WriteFirst, ReadIndex,
     TruncateIndex, AppendPeer, TruncateClient, WriteClient, Reload,
     ReloadFails, Show, Die
<1>6. Within(index)'
  <2>1. \A f, t \in Nat : 0 <= f + t /\ f <= f + t
    OBVIOUS
  <2>2. 0 <= FirstIndex + Spent' /\ FirstIndex <= FirstIndex + Spent'
    BY <1>3, <2>1, ConstantTypes
  <2>3. index <= FirstIndex + Spent'
    BY <1>4, <1>5 DEF RoomLeft
  <2>4. index' <= FirstIndex + Spent'
    BY <1>5, <2>2, <2>3
  <2> QED
    BY <2>4 DEF Within
<1>7. run'[r].at # "append"
  BY DEF RunStep, Ensure, CreateIndex, WriteFirst, ReadIndex, TruncateIndex,
     AppendPeer, TruncateClient, WriteClient, Reload, ReloadFails, Show, Die,
     Goto, Idle, TypeOK
<1>8. ASSUME run'[r].at \in {"bump", "write"}
      PROVE  Within(run[r].idx)'
  <2>1. CASE ReadIndex(r)
    <3>1. run'[r].idx = index /\ index \in Nat /\ Within(index)
      BY <2>1 DEF ReadIndex, TypeOK, RoomLeft
    <3> QED
      BY <1>4, <3>1 DEF Within
  <2>2. CASE TruncateIndex(r)
    <3>1. run'[r].idx = run[r].idx /\ run[r].at = "bump"
      BY <2>2, StepOfOne DEF TruncateIndex
    <3>2. run[r].idx \in Nat /\ Within(run[r].idx)
      BY <3>1 DEF TypeOK, RoomLeft
    <3> QED
      BY <1>4, <3>1, <3>2 DEF Within
  <2>3. ReadIndex(r) \/ TruncateIndex(r)
    BY <1>8 DEF RunStep, Ensure, CreateIndex, WriteFirst, AppendPeer,
       TruncateClient, WriteClient, Reload, ReloadFails, Show, Die, Goto,
       Idle, TypeOK
  <2> QED
    BY <2>1, <2>2, <2>3
<1>9. \/ peers' = peers
      \/ run[r].at = "append" /\ peers' = Append(peers, PeerOf(r))
  BY DEF RunStep, Ensure, CreateIndex, WriteFirst, ReadIndex, TruncateIndex,
     AppendPeer, TruncateClient, WriteClient, Reload, ReloadFails, Show, Die,
     Goto
<1> QED
  BY <1>1, <1>3, <1>6, <1>7, <1>8, <1>9, RoomKept

(* The room is kept, and it is room for every address.                     *)
THEOREM AddressesSuffice == Spec => []EnoughAddresses
<1>1. Init => RoomLeft
  <2> SUFFICES ASSUME Init PROVE RoomLeft
    OBVIOUS
  <2>1. Pending = {}
    BY DEF Init, Idle, Pending, BeforeWrite, AtIndex
  <2>2. IsFiniteSet(Pending) /\ Spent = 0
    BY <2>1, FS_EmptySet DEF Init, Spent
  <2>3. \A q \in Runs : run[q].at = "idle"
    BY DEF Init, Idle
  <2> QED
    BY <2>2, <2>3, ConstantTypes DEF Init, RoomLeft, Within
<1>2. TypeOK /\ RoomLeft /\ [Next]_vars => RoomLeft'
  <2>1. ASSUME RoomLeft, UNCHANGED vars PROVE RoomLeft'
    BY <2>1 DEF vars, RoomLeft, Within, Spent, Pending
  <2> QED
    BY <2>1, RoomStart, RoomWrite, RoomGo DEF Next
<1>3. TypeOK /\ RoomLeft => EnoughAddresses
  <2> SUFFICES ASSUME TypeOK, RoomLeft, starts <= MaxHost - FirstIndex,
                      NEW i \in 1 .. Len(peers)
               PROVE  peers[i].ip <= MaxHost
    BY DEF EnoughAddresses, Loadable
  <2>1. peers[i].ip \in Nat /\ peers[i].ip <= FirstIndex + Spent
    BY AddressTyped DEF RoomLeft, Within
  <2>2. starts \in Nat /\ Cardinality(Pending) \in Nat
    BY FS_CardinalityType DEF TypeOK, RoomLeft
  <2>3. FirstIndex \in Nat /\ MaxHost \in Nat
    BY ProvisionAssumption
  <2> QED
    BY <2>1, <2>2, <2>3 DEF Spent
<1> QED
  BY <1>1, <1>2, <1>3, TypeCorrect, PTL DEF Spec

(* Not one run more: from the first address out of range on, wg refuses    *)
(* the whole file, and no run, new or under way, has a client loaded.      *)
RefusedForGood == [][~Loadable => ~Loadable' /\ applied' = applied]_vars

THEOREM FullIsForGood == Spec => RefusedForGood
<1>1. ASSUME TypeOK, Next, ~Loadable
      PROVE  ~Loadable' /\ applied' = applied
  <2> USE DEF confVars
  <2>1. PICK r \in Runs : (\E u \in Users : Start(r, u)) \/ RunStep(r)
                           \/ Die(r)
    BY <1>1 DEF Next
  <2>2. applied' = applied
    BY <1>1, <2>1 DEF RunStep, Start, Ensure, CreateIndex, WriteFirst,
       ReadIndex, TruncateIndex, WriteIndex, AppendPeer, TruncateClient,
       WriteClient, Reload, ReloadFails, Show, Die
  <2>3. \/ peers' = peers
        \/ peers' = Append(peers, PeerOf(r))
    BY <1>1, <2>1 DEF RunStep, Start, Ensure, CreateIndex, WriteFirst,
       ReadIndex, TruncateIndex, WriteIndex, AppendPeer, TruncateClient,
       WriteClient, Reload, ReloadFails, Show, Die
  <2>4. PICK i \in 1 .. Len(peers) : ~(peers[i].ip <= MaxHost)
    BY <1>1 DEF Loadable
  <2>5. i \in 1 .. Len(peers') /\ peers'[i] = peers[i]
    BY <1>1, <2>3 DEF TypeOK
  <2> QED
    BY <2>2, <2>4, <2>5 DEF Loadable
<1>2. TypeOK /\ [Next]_vars
      => [~Loadable => ~Loadable' /\ applied' = applied]_vars
  BY <1>1
<1> QED
  BY <1>2, TypeCorrect, PTL DEF Spec, RefusedForGood

=============================================================================
