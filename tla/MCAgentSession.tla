--------------------------- MODULE MCAgentSession ---------------------------
(* The executor of an agent's turns and the agent's terminal share no state: *)
(* a behaviour runs one of them, chosen in its initial state, and the        *)
(* fairness of a part is asked for only there.  MaxSessions is larger than   *)
(* the number of conversations any behaviour opens under the other bounds.   *)
EXTENDS AgentSession, Terminals

VARIABLE part

\* A viewer that comes and goes, with output and a broken link; two visits; a
\* machine without claude.
Visits(o, c, d, cl) == [ops |-> o, chunks |-> c, drops |-> d, claude |-> cl]
ShortVisits == {Visits(1, 1, 1, TRUE), Visits(2, 0, 0, TRUE), Visits(1, 0, 0, FALSE)}

InSession == part = "session"
InTerminal == part = "terminal"

PartInit ==
    /\ Init /\ TermInit
    /\ part \in {"session", "terminal"}
    /\ InTerminal \/ left = Visits(2, 0, 0, TRUE)

PartNext ==
    /\ UNCHANGED part
    /\ \/ InSession /\ UNCHANGED tm_vars /\ Next
       \/ InTerminal /\ UNCHANGED vars /\ TermNext

FairPartSpec ==
    /\ PartInit /\ [][PartNext]_<<vars, tm_vars, part>>
    /\ \A c \in Calls : WF_vars(InSession /\ CallSteps(c))
    /\ WF_vars(InSession /\ Deploys)
    /\ WF_vars(InSession /\ StartTurn) /\ SF_vars(InSession /\ TurnEvent)
    /\ WF_vars(InSession /\ InstallBuilt) /\ WF_vars(InSession /\ EndTurn)
    /\ WF_vars(InSession /\ Reload) /\ WF_vars(InSession /\ InstallHeld)
    /\ WF_vars(InSession /\ Interrupt) /\ WF_vars(InSession /\ Clear)
    /\ WF_vars(InSession /\ Reconnect)
    /\ \A v \in Viewers : WF_tm_vars(InTerminal /\ PushOpen(v))
    /\ WF_tm_vars(InTerminal /\ Forward) /\ WF_tm_vars(InTerminal /\ LinkReturns)
    /\ WF_tm_vars(InTerminal /\ TransportThread)
    /\ \A p \in Procs :
        /\ WF_tm_vars(InTerminal /\ ReaderThread(p)) /\ WF_tm_vars(InTerminal /\ HangsUp(p))
        /\ WF_tm_vars(InTerminal /\ process[p].state \in {"signalled", "dying"} /\ Exits(p))
=============================================================================
