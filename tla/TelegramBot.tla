----------------------------- MODULE TelegramBot -----------------------------
(* Two sides of the Telegram bot: BotAuth, whose messages it takes and     *)
(* whom it obeys, and BotDisplay, what one of its display commands does    *)
(* once it is carried out.  They share no variable, so each is explored    *)
(* while the other rests, and "side" says which.                           *)
EXTENDS BotAuth, BotDisplay

VARIABLE side   \* "auth" or "display"

bothVars == <<side, vars, displayVars>>

-----------------------------------------------------------------------------

\* Where the side that rests is does not matter.
BothInit ==
    /\ Init
    /\ DisplayInit
    /\ \/ side = "display"
       \/ /\ side = "auth"
          /\ nl = {} /\ usa = {} /\ history = {} /\ command = "site"

Listen(A) == side = "auth" /\ A /\ UNCHANGED <<side, displayVars>>

Display(A) == side = "display" /\ A /\ UNCHANGED <<side, vars>>

BothNext == Listen(Next) \/ Display(DisplayNext)

(* The fairness of BotAuth, while it is its turn.                          *)
BothSpec ==
    /\ BothInit
    /\ [][BothNext]_bothVars
    /\ WF_bothVars(Listen(Poll /\ got' = Len(sent)))
    /\ WF_bothVars(Listen(BotStep))

-----------------------------------------------------------------------------

(* The handler of every message returns, unless a crash has lost it        *)
(* (bot.go:845-886); see BotAuth.                                          *)
MessagesHandled == side = "auth" => EventuallyHandled

=============================================================================
