------------------------------ MODULE RunPhase ------------------------------
(***************************************************************************)
(* What the other components of Core may assume of a Run in the RunStore:   *)
(* it is registered once, a termination that has begun is taken back or     *)
(* completed, an end is final, and the time bounds of its credentials only  *)
(* ever run out.  RunPhaseRefinement shows that RunLifecycle implements it. *)
(***************************************************************************)
CONSTANT Runs

VARIABLES phase,   \* where each Run is in its life
          lapsed   \* Runs past the expiry of the Run or of its token

phaseVars == <<phase, lapsed>>

Phases == {"absent", "active", "ending", "ended"}

PhaseInit == phase = [r \in Runs |-> "absent"] /\ lapsed = {}

Move(r, from, to) ==
    /\ phase[r] = from
    /\ phase' = [phase EXCEPT ![r] = to]

\* The registration time is read before the store is locked, so a Run may be
\* past its expiry when it is added.
Register(r) ==
    /\ Move(r, "absent", "active")
    /\ lapsed' \in {lapsed, lapsed \cup {r}}

BeginEnd(r) == Move(r, "active", "ending") /\ UNCHANGED lapsed

AbortEnd(r) == Move(r, "ending", "active") /\ UNCHANGED lapsed

CompleteEnd(r) == Move(r, "ending", "ended") /\ UNCHANGED lapsed

\* Time passes.
Lapse(expired) ==
    /\ lapsed' = lapsed \cup expired
    /\ \A r \in expired : phase[r] # "absent"
    /\ UNCHANGED phase

PhaseNext ==
    \/ \E r \in Runs : Register(r) \/ BeginEnd(r) \/ AbortEnd(r) \/ CompleteEnd(r)
    \/ \E expired \in SUBSET Runs : Lapse(expired)

PhaseSpec == PhaseInit /\ [][PhaseNext]_phaseVars

\* checkpointRunAuthorizedLocked, for the Run's own token.
Authorized(r) == phase[r] = "active" /\ r \notin lapsed

PhaseTypeOK == phase \in [Runs -> Phases] /\ lapsed \in SUBSET Runs
=============================================================================
