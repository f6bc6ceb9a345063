------------------------- MODULE RunPhaseRefinement -------------------------
(***************************************************************************)
(* RunLifecycle implements RunPhase, the life of a Run as the other parts   *)
(* of Core rely on it.  A Run's phase is read off the fields its            *)
(* authorization tests: its status and its pending termination.             *)
(***************************************************************************)
EXTENDS RunLifecycle

PhaseOf(r) ==
    IF runStatus[r] = "none" THEN "absent"
    ELSE IF r \in terminating THEN "ending"
    ELSE IF runStatus[r] = "active" THEN "active"
    ELSE "ended"

Expired(r) == runStatus[r] # "none" /\ (now >= runExpiry(r) \/ now >= tokenExpiry(r))

RunPhases == INSTANCE RunPhase WITH
    phase  <- [r \in Runs |-> PhaseOf(r)],
    lapsed <- {r \in Runs : Expired(r)}

\* Whatever registrations, finishes, scope failures and expiries interleave,
\* a Run goes from absent to active, to and fro between active and ending while
\* terminations are taken back, and from ending to ended for good.
ImplementsRunPhase == RunPhases!PhaseSpec

\* An ingest token verifies exactly when the abstract Run is authorized.
AuthorizationAgrees ==
    \A r \in Runs : VerifyIngestToken(r, now) <=> RunPhases!Authorized(r)
=============================================================================
