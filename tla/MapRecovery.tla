----------------------------- MODULE MapRecovery -----------------------------
(* The merging of a rebuilt history into map.json (src/log_parser/).       *)
(*                                                                         *)
(* log_parser fetches map.json from the server, adds what it found in the  *)
(* log, and saves the result as recovered_map.json, which the operator is  *)
(* told to copy over map.json.  All the while the DNS service runs; it is  *)
(* represented by the steps of HistoryStore, which Saver implements.       *)
CONSTANT Entries        \* the pairs (domain, ip) of a history

VARIABLES
    mem, disk, torn, saved,     \* the service's history, see HistoryStore
    pc,             \* where the program, and then its operator, is
    recovered,      \* domainMap: what the log gave
    existing,       \* existingMap
    out,            \* recovered_map.json
    fetched,        \* ghost: existingMap is what map.json held
    rewritten       \* ghost: the service has saved since the fetch

serviceVars == <<mem, disk, torn, saved>>
toolVars == <<pc, recovered, existing, out, fetched>>
vars == <<mem, disk, torn, saved, pc, recovered, existing, out, fetched,
          rewritten>>

Service == INSTANCE HistoryStore

Garbage == "half an entry"

TypeOK ==
    /\ Service!StoreTypeOK
    /\ pc \in {"parse", "load", "merge", "copy", "copying", "done"}
    /\ recovered \subseteq Entries
    /\ existing \subseteq Entries
    /\ out \subseteq Entries
    /\ fetched \in BOOLEAN
    /\ rewritten \in BOOLEAN

Init ==
    /\ Service!Init
    /\ pc = "parse"
    /\ recovered = {}
    /\ existing = {}
    /\ out = {}
    /\ fetched = FALSE
    /\ rewritten = FALSE

-----------------------------------------------------------------------------
(* The service.                                                            *)

ServiceRuns ==
    /\ \/ \E es \in SUBSET Entries : Service!Record(es)
       \/ Service!Tear
       \/ Service!Restart
    /\ UNCHANGED <<toolVars, rewritten>>

ServiceSaves ==
    /\ Service!Publish
    /\ rewritten' = TRUE
    /\ UNCHANGED toolVars

-----------------------------------------------------------------------------
(* The program.                                                            *)

\* getLogs, parseLogs and groupByDomain: see LogParser.
Parse ==
    /\ pc = "parse"
    /\ recovered' \in SUBSET Entries
    /\ pc' = "load"
    /\ UNCHANGED <<serviceVars, existing, out, fetched, rewritten>>

\* Mutant: after an error what was decoded so far is used.
LoadExistingTorn ==
    /\ pc = "load"
    /\ \/ ~torn /\ existing' = disk /\ fetched' = TRUE
       \/ existing' = {Garbage} /\ fetched' = FALSE
    /\ rewritten' = FALSE
    /\ pc' = "merge"
    /\ UNCHANGED <<serviceVars, recovered, out>>

\* loadExistingMap, and main: the file is copied and parsed; when either
\* fails, a warning is logged and the existing map taken to be empty.
LoadExisting ==
    /\ pc = "load"
    /\ \/ ~torn /\ existing' = disk /\ fetched' = TRUE
       \/ existing' = {} /\ fetched' = FALSE
    /\ rewritten' = FALSE
    /\ pc' = "merge"
    /\ UNCHANGED <<serviceVars, recovered, out>>

\* Mutant: a domain that was recovered replaces the existing one.
MergeReplaces(old, new) == IF new = {} THEN old ELSE new

mergeData(old, new) == old \cup new

\* mergeData and saveMapToFile, to a file that the service does not use.
Merge ==
    /\ pc = "merge"
    /\ out' = mergeData(existing, recovered)
    /\ pc' = "copy"
    /\ UNCHANGED <<serviceVars, recovered, existing, fetched, rewritten>>

-----------------------------------------------------------------------------
(* The operator: scp recovered_map.json root@...:/root/map.json            *)

CopyOpen ==
    /\ pc = "copy"
    /\ torn' = TRUE
    /\ pc' = "copying"
    /\ UNCHANGED <<mem, disk, saved, recovered, existing, out, fetched,
                   rewritten>>

CopyWrite ==
    /\ pc = "copying"
    /\ disk' = out
    /\ torn' = FALSE
    /\ pc' = "done"
    /\ UNCHANGED <<mem, saved, recovered, existing, out, fetched, rewritten>>

\* the connection is lost
CopyFails ==
    /\ pc = "copying"
    /\ pc' = "copy"
    /\ UNCHANGED <<serviceVars, recovered, existing, out, fetched, rewritten>>

\* the program is run once more
Again ==
    /\ pc \in {"copy", "done"}
    /\ pc' = "parse"
    /\ UNCHANGED <<serviceVars, recovered, existing, out, fetched, rewritten>>

Next ==
    \/ ServiceRuns \/ ServiceSaves
    \/ Parse \/ LoadExisting \/ Merge
    \/ CopyOpen \/ CopyWrite \/ CopyFails \/ Again

Spec == Init /\ [][Next]_vars

-----------------------------------------------------------------------------
(* Properties.                                                             *)

(* An entry leaves map.json in two ways only: the service saves a memory   *)
(* that never had it, or the recovered file is copied although map.json    *)
(* was not fetched, or the service has saved since (log_parser.go:42-57).  *)
LeavesMapOnlyBy ==
    [][\A e \in disk \ disk' :
          \/ pc' # pc /\ (~fetched \/ rewritten)
          \/ pc' = pc /\ e \notin saved]_vars

(* "Скопируйте файл на сервер: scp recovered_map.json ...:/root/map.json"  *)
(* (log_parser.go:61): once the file is copied, the history rebuilt is in  *)
(* map.json.                                                               *)
CopyTakesHold == pc = "done" => recovered \subseteq disk

=============================================================================
