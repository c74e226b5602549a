---------------------------- MODULE WgProvision -----------------------------
(* The generator of WireGuard clients (src/pg.louso.ru/root/wg).           *)
(*                                                                         *)
(* A run of the script takes the next address from user_index.txt, appends *)
(* a peer to wg200.conf, writes the client's file, has the interface       *)
(* reloaded and shows the file.  The Telegram bot runs it for /wg, one run *)
(* at a time, and so does anybody with a shell; there is no lock.  A       *)
(* command that fails ends the run (set -e), and a restart of the bot's    *)
(* service kills the run it waits for.                                     *)
EXTENDS Integers, Sequences, FiniteSets

CONSTANTS
    Runs,           \* who may run the script at the same time
    Users,          \* names of clients
    FirstIndex,     \* the number of the last reserved address (20)
    MaxHost,        \* the highest number an address can end in (255)
    Absent,         \* "there is no file", "no user"
    Torn,           \* a client's file truncated and not yet written
    MaxStarts,      \* bound on the number of runs
    MaxFaults       \* bound on the runs that are killed or fail

ASSUME ProvisionAssumption ==
    /\ FirstIndex \in Nat \ {0}
    /\ MaxHost \in Nat /\ MaxStarts \in Nat /\ MaxFaults \in Nat
    /\ Absent # Torn /\ Absent \notin Users
    /\ {Absent, Torn} \cap [key : Nat, ip : Nat] = {}

VARIABLES
    created,        \* user_index.txt exists
    index,          \* the number in it; an empty file is read as 0
    peers,          \* the peers the script appended to wg200.conf
    applied,        \* how many of them the interface has
    clients,        \* per user: the client's file
    run,            \* per runner: where its run is and what it has read
    starts,         \* number of runs so far; a run's is also its key pair
    faults,         \* number of killed or failed runs so far
    shown,          \* ghost: the files that were shown, with their user
    overlapped,     \* ghost: users two runs were under way for at a time
    disturbed       \* ghost: a run read the index while another was at it,
                    \* or died between truncating it and writing it

indexVars == <<created, index, disturbed>>
confVars == <<peers, applied>>
rest == <<starts, faults, shown, overlapped>>
vars == <<created, index, disturbed, peers, applied, clients, run, starts,
          faults, shown, overlapped>>

Idle == [at |-> "idle", user |-> Absent, key |-> 0, idx |-> 0]

Peer == [key : 1 .. MaxStarts, ip : Nat \ {0}]

\* A run is at the index file, from its first look to its last write.
AtIndex == {"create", "first", "bump", "write"}

Steps == AtIndex \cup {"idle", "ensure", "read", "append", "client", "fill",
                       "reload", "show"}

TypeOK ==
    /\ created \in BOOLEAN
    /\ index \in Nat
    /\ peers \in Seq(Peer)
    /\ applied \in 0 .. Len(peers)
    /\ clients \in [Users -> {Absent, Torn} \cup Peer]
    /\ run \in [Runs -> [at : Steps, user : Users \cup {Absent},
                         key : 0 .. MaxStarts, idx : Nat]]
    /\ \A r \in Runs : /\ run[r].at # "idle" => run[r].user \in Users
                       /\ run[r].at # "idle" => run[r].key > 0
    /\ starts \in 0 .. MaxStarts
    /\ faults \in 0 .. MaxFaults
    /\ shown \subseteq Users \X Peer
    /\ overlapped \subseteq Users
    /\ disturbed \in BOOLEAN

Init ==
    /\ created = FALSE
    /\ index = 0
    /\ peers = <<>>
    /\ applied = 0
    /\ clients = [u \in Users |-> Absent]
    /\ run = [r \in Runs |-> Idle]
    /\ starts = 0
    /\ faults = 0
    /\ shown = {}
    /\ overlapped = {}
    /\ disturbed = FALSE

-----------------------------------------------------------------------------
\* Run r, at step s, goes on to step t.
Goto(r, s, t) ==
    /\ run[r].at = s
    /\ run' = [run EXCEPT ![r].at = t]

\* Mutant: the peer gets the number read, not the one written.
PeerOfRead(r) == [key |-> run[r].key, ip |-> run[r].idx]

\* The peer of run r.
PeerOf(r) == [key |-> run[r].key, ip |-> run[r].idx + 1]

\* A name that has a file already is refused.
Start(r, u) ==
    /\ run[r].at = "idle"
    /\ starts < MaxStarts
    /\ clients[u] = Absent
    /\ starts' = starts + 1
    /\ run' = [run EXCEPT ![r] = [at |-> "ensure", user |-> u,
                                  key |-> starts + 1, idx |-> 0]]
    /\ overlapped' = IF \E q \in Runs : run[q].user = u
                     THEN overlapped \cup {u} ELSE overlapped
    /\ UNCHANGED <<indexVars, confVars, clients, faults, shown>>

\* [ -f "$INDEX_FILE" ] || echo 20 > "$INDEX_FILE"
Ensure(r) ==
    /\ Goto(r, "ensure", IF created THEN "read" ELSE "create")
    /\ UNCHANGED <<indexVars, confVars, clients, rest>>

CreateIndex(r) ==
    /\ Goto(r, "create", "first")
    /\ created' = TRUE
    /\ index' = 0
    /\ UNCHANGED <<disturbed, confVars, clients, rest>>

WriteFirst(r) ==
    /\ Goto(r, "first", "read")
    /\ index' = FirstIndex
    /\ UNCHANGED <<created, disturbed, confVars, clients, rest>>

\* Mutant: the files of the clients are counted instead.
ReadIndexByCount(r) ==
    /\ run[r].at = "read"
    /\ run' = [run EXCEPT ![r].at = "bump", ![r].idx =
                 FirstIndex + Cardinality({u \in Users : clients[u] # Absent})]
    /\ disturbed' = (disturbed \/ \E q \in Runs \ {r} : run[q].at \in AtIndex)
    /\ UNCHANGED <<created, index, confVars, clients, rest>>

\* USER_INDEX=$(cat $INDEX_FILE)
ReadIndex(r) ==
    /\ run[r].at = "read"
    /\ run' = [run EXCEPT ![r].at = "bump", ![r].idx = index]
    /\ disturbed' = (disturbed \/ \E q \in Runs \ {r} : run[q].at \in AtIndex)
    /\ UNCHANGED <<created, index, confVars, clients, rest>>

\* echo $((USER_INDEX + 1)) > $INDEX_FILE
TruncateIndex(r) ==
    /\ Goto(r, "bump", "write")
    /\ index' = 0
    /\ UNCHANGED <<created, disturbed, confVars, clients, rest>>

WriteIndex(r) ==
    /\ Goto(r, "write", "append")
    /\ index' = run[r].idx + 1
    /\ UNCHANGED <<created, disturbed, confVars, clients, rest>>

\* cat >> $SERVER_CONFIG
AppendPeer(r) ==
    /\ Goto(r, "append", "client")
    /\ peers' = Append(peers, PeerOf(r))
    /\ UNCHANGED <<indexVars, applied, clients, rest>>

\* cat > $CLIENT_DIR/$USERNAME.conf
TruncateClient(r) ==
    /\ Goto(r, "client", "fill")
    /\ clients' = [clients EXCEPT ![run[r].user] = Torn]
    /\ UNCHANGED <<indexVars, confVars, rest>>

\* Mutant: the reload is commented out, as the wg-quick lines before it are.
WriteClientNoReload(r) ==
    /\ Goto(r, "fill", "show")
    /\ clients' = [clients EXCEPT ![run[r].user] = PeerOf(r)]
    /\ UNCHANGED <<indexVars, confVars, rest>>

WriteClient(r) ==
    /\ Goto(r, "fill", "reload")
    /\ clients' = [clients EXCEPT ![run[r].user] = PeerOf(r)]
    /\ UNCHANGED <<indexVars, confVars, rest>>

\* The interface refuses the whole file for one address that is not one.
Loadable == \A i \in 1 .. Len(peers) : peers[i].ip <= MaxHost

\* systemctl reload wg-quick@wg200: one reload at a time, of the whole file
Reload(r) ==
    /\ Goto(r, "reload", "show")
    /\ Loadable
    /\ applied' = Len(peers)
    /\ UNCHANGED <<indexVars, peers, clients, rest>>

ReloadFails(r) ==
    /\ run[r].at = "reload"
    /\ ~Loadable
    /\ run' = [run EXCEPT ![r] = Idle]
    /\ UNCHANGED <<indexVars, confVars, clients, rest>>

\* cat $CLIENT_DIR/$USERNAME.conf, and the bot sends it
Show(r) ==
    /\ run[r].at = "show"
    /\ run' = [run EXCEPT ![r] = Idle]
    /\ shown' = shown \cup ({<<run[r].user, clients[run[r].user]>>}
                            \cap (Users \X Peer))
    /\ UNCHANGED <<indexVars, confVars, clients, starts, faults, overlapped>>

\* A command fails, or the run is killed; a reload already asked for may
\* still be done.
Die(r) ==
    /\ run[r].at # "idle"
    /\ faults < MaxFaults
    /\ faults' = faults + 1
    /\ run' = [run EXCEPT ![r] = Idle]
    /\ disturbed' = (disturbed \/ run[r].at \in {"first", "write"})
    /\ \/ UNCHANGED applied
       \/ run[r].at = "reload" /\ Loadable /\ applied' = Len(peers)
    /\ UNCHANGED <<created, index, peers, clients, starts, shown, overlapped>>

RunStep(r) ==
    \/ Ensure(r) \/ CreateIndex(r) \/ WriteFirst(r)
    \/ ReadIndex(r) \/ TruncateIndex(r) \/ WriteIndex(r)
    \/ AppendPeer(r) \/ TruncateClient(r) \/ WriteClient(r)
    \/ Reload(r) \/ ReloadFails(r) \/ Show(r)

Next ==
    \E r \in Runs :
       \/ \E u \in Users : Start(r, u)
       \/ RunStep(r)
       \/ Die(r)

Spec == Init /\ [][Next]_vars

-----------------------------------------------------------------------------
(* Runs may overlap, fail and die at any step: each peer gets an address   *)
(* of its own, none of them reserved - as long as no run reads the index   *)
(* while another is at it, or dies with the file truncated (wg:26-31).     *)
OneAddressEach ==
    ~disturbed => \A i, j \in 1 .. Len(peers) :
                     /\ peers[i].ip > FirstIndex
                     /\ i # j => peers[i].ip # peers[j].ip

(* A file that is shown is good: the interface has its peer, unless two    *)
(* runs for the name overlapped, when the file shown may be the one the    *)
(* other run has not yet had loaded (wg:40-74).                            *)
ShownWorks ==
    \A s \in shown :
       s[1] \in overlapped \/ \E i \in 1 .. applied : peers[i] = s[2]

(* "It auto-increments user_index.txt" (README.md:99): no two peers get    *)
(* one address.                                                            *)
AutoIncrement ==
    \A i, j \in 1 .. Len(peers) : i # j => peers[i].ip # peers[j].ip

=============================================================================
