---------------------------- MODULE MCHttpFront -----------------------------
(* Bans, the limiter of a route and the terminals have no state in common: *)
(* a behaviour is about the first, with two remote addresses, about the    *)
(* second, with one, or about terminals.                                   *)
EXTENDS HttpFront, Terminal

CONSTANTS here, there, elsewhere

VARIABLE focus

MCAddress == {here, there, elsewhere}
MCLocal == {here}

mcVars == <<frontVars, terminalVars, focus>>

MCInit == FrontInit /\ TerminalInit /\ focus \in {"bans", "limits", "terminals"}

MCFront ==
    /\ focus # "terminals"
    /\ FrontNext
    /\ focus = "bans" => pending' = {}
    /\ focus = "limits" => /\ blacklist' = EmptyDict
                           /\ elsewhere \notin DOMAIN rateCounts' \cup pending'
    /\ UNCHANGED <<terminalVars, focus>>

MCTerminal(Step) == focus = "terminals" /\ Step /\ UNCHANGED <<frontVars, focus>>

MCNext == MCFront \/ MCTerminal(TerminalNext)

MCFairness ==
    /\ WF_mcVars(focus # "terminals" /\ Tick /\ UNCHANGED <<terminalVars, focus>>)
    /\ \A c \in Client :
         /\ WF_mcVars(MCTerminal(HungUpShellExits(c)))
         /\ WF_mcVars(MCTerminal(Waited(c)))
         /\ WF_mcVars(MCTerminal(ReaderCancelled(c)))

MCSpec == MCInit /\ [][MCNext]_mcVars /\ MCFairness
=============================================================================
