--------------------------- MODULE MCMarkPipeline ---------------------------
(* Two addresses, one of them skipped, and four connections.               *)
EXTENDS MarkPipeline

MCAddrs == {"site", "tunnel"}
MCSkipped == {"tunnel"}
MCConns == {"client", "lan", "host", "peer"}
MCFrom == [c \in MCConns |-> CASE c = "lan" -> "lan"
                               [] c = "host" -> "host"
                               [] OTHER -> "wg200"]
MCDest == [c \in MCConns |-> IF c = "peer" THEN "tunnel" ELSE "site"]
=============================================================================
