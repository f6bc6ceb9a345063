------------------------------- MODULE MCCore -------------------------------
(***************************************************************************)
(* The services of the Core and the launcher, which share no variable here: *)
(* a behaviour is one of a single part, with the others at rest.            *)
(***************************************************************************)
EXTENDS EvidencePath, StreamHub, AuditSession, TaskSupervisor

CONSTANT w1

VARIABLE part

\* Record 3 is larger than the others.
MCSizes == [r \in Records |-> IF r = 3 THEN 2 ELSE 1]

\* The oldest record is critical, the others are high.
MCSeverity == [r \in Records |-> IF r = 1 THEN 3 ELSE 2]

MCWanted == [w \in Viewers |-> {"high"}]

-----------------------------------------------------------------------------
Parts == {"evidence", "hub", "session", "launcher"}

MCInit ==
    /\ part \in Parts
    /\ EvidenceInit /\ HubInit /\ SessionInit /\ SupervisorInit

\* Only the given part moves.
Only(p) ==
    /\ part = p
    /\ UNCHANGED part
    /\ p # "evidence" => UNCHANGED evidenceVars
    /\ p # "hub" => UNCHANGED hubVars
    /\ p # "session" => UNCHANGED sessionVars
    /\ p # "launcher" => UNCHANGED supVars

MCNext ==
    \/ Only("evidence") /\ EvidenceNext
    \/ Only("hub") /\ HubNext
    \/ Only("session") /\ SessionNext
    \/ Only("launcher") /\ SupervisorNext

\* EvidenceFairness, HubFairness, SessionFairness and LauncherFairness.
MCFairness ==
    /\ WF_evidenceVars(part = "evidence" /\ Receive /\ UNCHANGED pathVars)
    /\ WF_evidenceVars(part = "evidence" /\ FlushTick /\ UNCHANGED pathVars)
    /\ WF_evidenceVars(part = "evidence" /\ RetryTick /\ UNCHANGED pathVars)
    /\ WF_evidenceVars(part = "evidence" /\ ShutdownStep)
    /\ \A v \in Viewers : WF_hubVars(part = "hub" /\ HandlerStep(v))
    /\ WF_sessionVars(part = "session" /\ RunAuditStep)
    /\ WF_sessionVars(part = "session" /\ StatsStep)
    /\ SF_sessionVars(part = "session" /\ StatsStop)
    /\ WF_sessionVars(part = "session" /\ InterruptReader)
    /\ WF_sessionVars(part = "session" /\ MonitorExits)
    /\ WF_supVars(part = "launcher" /\ LauncherStep)
    /\ SF_supVars(part = "launcher" /\ LeaveWait)

MCSpec == MCInit /\ [][MCNext]_<<part, evidenceVars, hubVars, sessionVars,
                                 supVars>> /\ MCFairness
=============================================================================
