---------------------------- MODULE HistoryStore ----------------------------
(* What map.json promises to its two readers.                              *)
(*                                                                         *)
(* The DNS server keeps the domain -> IP history in memory and writes it   *)
(* to map.json from time to time; after a restart it starts from the file, *)
(* and the Telegram bot looks up the file whenever a pattern is added or   *)
(* removed.  The file is rewritten in place, so it can be found torn, and  *)
(* then both readers take it for an empty history.  The promise is that a  *)
(* write never drops an entry this process has loaded or written before,   *)
(* and never holds an entry it did not load or record.                     *)
EXTENDS Naturals

CONSTANT Entries        \* the pairs (domain, ip) of the history

VARIABLES
    mem,                \* the history in memory
    disk,               \* what the last complete write put in the file
    torn,               \* the file was truncated and not yet rewritten
    saved               \* what this process has loaded or written

storeVars == <<mem, disk, torn, saved>>

StoreTypeOK ==
    /\ mem \subseteq Entries
    /\ disk \subseteq Entries
    /\ torn \in BOOLEAN
    /\ saved \subseteq Entries

\* What a reader of the file gets: a torn file does not parse.
Readable == IF torn THEN {} ELSE disk

Init ==
    /\ mem = {}
    /\ disk = {}
    /\ torn = FALSE
    /\ saved = {}

\* the pairs es of one A record
Record(es) ==
    /\ mem' = mem \cup es
    /\ UNCHANGED <<disk, torn, saved>>

Tear ==
    /\ torn' = TRUE
    /\ UNCHANGED <<mem, disk, saved>>

\* A write completes: everything loaded or written before is in it, and
\* nothing that is not in memory.
Publish ==
    /\ torn' = FALSE
    /\ disk' \in SUBSET mem
    /\ saved \subseteq disk'
    /\ saved' = disk'
    /\ UNCHANGED mem

\* The process dies and starts again from the file, or, when that cannot be
\* read, from nothing.
Restart ==
    /\ mem' \in {Readable, {}}
    /\ saved' = mem'
    /\ UNCHANGED <<disk, torn>>

Next ==
    \/ \E es \in SUBSET Entries : Record(es)
    \/ Tear
    \/ Publish
    \/ Restart

Spec == Init /\ [][Next]_storeVars

=============================================================================
