---------------------------- MODULE MCTelegramBot ----------------------------
(* TelegramBot for TLC.                                                    *)
EXTENDS TelegramBot

CONSTANTS c1, c2

MCChats == {c1, c2}

\* Chats are alike: the first to write is c1; and an update that is not a
\* message is of no chat.
FirstIsC1 ==
    \A i \in 1 .. Len(sent) :
       i = 1 \/ sent[i].text = "other" => sent[i].chat = c1

\* Once a row of dns_logs, which the bot never looks at here, has been
\* inserted, a third message adds nothing.
RowsFew == logged = {} \/ Len(sent) <= 2

=============================================================================
