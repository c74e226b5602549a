----------------------------- MODULE LogRecovery -----------------------------
(* The two halves of log_parser: LogParser, which reads the log, and       *)
(* MapRecovery, which merges what was found into map.json.  They share no  *)
(* variable: what the first finds is, for the second, any set of pairs.    *)
(* So each is explored while the other rests, and "half" says which.       *)
EXTENDS LogParser

CONSTANT Pairs          \* the pairs (domain, ip) of a history

VARIABLES
    half,           \* "log" or "map"
    mem, disk, torn, saved, step, recovered, existing, out, fetched,
    rewritten       \* the variables of MapRecovery

Recovery == INSTANCE MapRecovery WITH Entries <- Pairs, pc <- step

recoveryVars == <<mem, disk, torn, saved, step, recovered, existing, out,
                  fetched, rewritten>>
allVars == <<half, vars, recoveryVars>>

-----------------------------------------------------------------------------

BothInit ==
    /\ Init
    /\ Recovery!Init
    /\ half \in {"log", "map"}

BothNext ==
    /\ \/ half = "log" /\ Next /\ UNCHANGED recoveryVars
       \/ half = "map" /\ Recovery!Next /\ UNCHANGED vars
    /\ UNCHANGED half

BothSpec == BothInit /\ [][BothNext]_allVars

(* A pair leaves map.json only when the service writes its own memory or   *)
(* when map.json could not be fetched (log_parser.go:45-61); see           *)
(* MapRecovery.                                                            *)
LeavesMapOnlyBy == Recovery!LeavesMapOnlyBy

=============================================================================
