----------------------------- MODULE Containment -----------------------------
(***************************************************************************)
(* One containment, step by step: containmentWinner, Executor.Contain with  *)
(* the Linux backend, and what the coordinator makes of the outcome         *)
(* (internal/api/policy_coordinator.go, internal/killer).                   *)
(*                                                                         *)
(* The registration is stable while Contain runs: the scope manager holds   *)
(* its lock around the action.  The cgroup file system is not: Core may be  *)
(* moved to another cgroup, children may appear in the target, its          *)
(* directory may be removed, and every call may fail or be cancelled.       *)
(***************************************************************************)
EXTENDS Integers

CONSTANTS CoreCgroups,   \* the cgroups Core may be in
          Target,        \* the cgroup of the event's scope
          Below,         \* the cgroups under it
          MaxMoves

ASSUME ContainAssumption ==
    /\ Target \in CoreCgroups /\ Below \subseteq CoreCgroups \ {Target}
    /\ MaxMoves \in Nat

VARIABLES core,       \* Core's cgroup
          leaf,       \* Target has no children
          present,    \* Target's directory is still there
          moves,      \* moves of Core so far
          moved,      \* Core has moved since the executor last looked
          pc,
          looked,     \* where the executor last found Core
          outcome,    \* Outcome.EnforcementResult
          error,      \* the error Contain returns
          signalled,  \* "1" was written to cgroup.kill
          final       \* the decision record's final: enforced, effective

containVars == <<core, leaf, present, moves, moved, pc, looked, outcome, error,
                 signalled, final>>
world == <<core, leaf, present, moves>>

\* A record whose winner requests containment; any other is emitted as it is.
ContainInit ==
    /\ core \in CoreCgroups
    /\ leaf = (core \notin Below) /\ present = TRUE
    /\ moves = 0 /\ moved = FALSE
    /\ pc = "decided"
    /\ looked = core
    /\ outcome = "not_attempted" /\ error = FALSE
    /\ signalled = FALSE
    /\ final = [enforced |-> FALSE, effective |-> "alert"]

\* cgroupContains.
cgroupContains(member) == member \in {Target} \cup Below

-----------------------------------------------------------------------------
(* The environment. *)

MoveCore(c) ==
    /\ moves < MaxMoves /\ c # core
    /\ c \in Below => ~leaf
    /\ cgroupContains(c) => present
    /\ core' = c
    /\ moves' = moves + 1
    /\ moved' = TRUE
    /\ UNCHANGED <<leaf, present, pc, looked, outcome, error, signalled, final>>

\* A child of the target is made or removed.
ChangeChildren ==
    /\ present /\ core \notin Below
    /\ leaf' = ~leaf
    /\ UNCHANGED <<core, present, moves, moved, pc, looked, outcome, error, signalled, final>>

\* An empty cgroup is removed; Core's own is not empty.
RemoveTarget ==
    /\ present /\ leaf /\ ~cgroupContains(core)
    /\ present' = FALSE
    /\ UNCHANGED <<core, leaf, moves, moved, pc, looked, outcome, error, signalled, final>>

-----------------------------------------------------------------------------
(* Executor.Contain. *)

\* containmentWinner: a denying decision that asks to contain, and that neither
\* the connect hook nor anyone else has enforced.
containmentWinner(wins) ==
    /\ pc = "decided"
    /\ pc' = IF wins THEN "authorize" ELSE "emitted"
    /\ UNCHANGED <<world, moved, looked, outcome, error, signalled, final>>

\* An error after authorisation is a failure unless a safety check refused.
Return(result) ==
    /\ pc' = "returned"
    /\ outcome' = result
    /\ error' = (result # "killed")
    /\ UNCHANGED <<world, moved, looked, final>>

\* WithActiveIdentity: no such scope, or the registration is the event's.
Authorize(found) ==
    /\ pc = "authorize"
    /\ IF found THEN pc' = "core" /\ UNCHANGED <<world, moved, looked, outcome, error, final>>
       ELSE Return("not_attempted")
    /\ UNCHANGED signalled

LookAtCore(next) ==
    /\ looked' = core /\ moved' = FALSE
    /\ pc' = next
    /\ UNCHANGED <<world, outcome, error, final>>

CurrentCore(ok) ==
    /\ pc = "core"
    /\ IF ~ok THEN Return("failed")
       ELSE IF cgroupContains(core) THEN Return("not_attempted")
       ELSE LookAtCore("open")
    /\ UNCHANGED signalled

\* OpenCgroup: the descriptor's path and inode, then that it is a leaf.
OpenCgroup(ok) ==
    /\ pc = "open"
    /\ IF ~ok THEN Return("failed")
       ELSE IF ~present \/ ~leaf THEN Return("not_attempted")
       ELSE pc' = "recheck" /\ UNCHANGED <<world, moved, looked, outcome, error, final>>
    /\ UNCHANGED signalled

\* The second look only notes where Core is.
MutantRevalidateCore(ok) ==
    /\ pc = "recheck"
    /\ IF ~ok THEN Return("failed") ELSE LookAtCore("kill")
    /\ UNCHANGED signalled

\* cgroupContains again, for the first sight of Core and for a second one.
RevalidateCore(ok) ==
    /\ pc = "recheck"
    /\ IF ~ok THEN Return("failed")
       ELSE IF cgroupContains(looked) \/ cgroupContains(core) THEN Return("not_attempted")
       ELSE LookAtCore("kill")
    /\ UNCHANGED signalled

\* Kill: a leaf still, then the write.
Kill(ok) ==
    /\ pc = "kill"
    /\ \/ ok /\ ~leaf /\ Return("not_attempted") /\ UNCHANGED signalled
       \/ ~ok /\ Return("failed") /\ UNCHANGED signalled
       \/ ok /\ leaf /\ present /\ Return("killed") /\ signalled' = TRUE
       \/ ok /\ leaf /\ ~present /\ Return("failed") /\ UNCHANGED signalled

-----------------------------------------------------------------------------
(* PolicyCoordinator. *)

\* Every attempt is marked as carried out.
MutantMark ==
    /\ pc = "returned"
    /\ pc' = "emitted"
    /\ final' = [enforced |-> outcome # "not_attempted", effective |-> "contain"]
    /\ UNCHANGED <<world, moved, looked, outcome, error, signalled>>

\* containmentOutcomeContractError: a killed outcome beside an error is refused.
Mark ==
    /\ pc = "returned"
    /\ pc' = "emitted"
    /\ LET result == IF error /\ outcome = "killed" THEN "failed" ELSE outcome
       IN  /\ outcome' = result
           /\ final' = IF result = "killed" THEN [enforced |-> TRUE, effective |-> "contain"]
                       ELSE final
    /\ UNCHANGED <<world, moved, looked, error, signalled>>

ContainStep ==
    \/ \E ok \in BOOLEAN : \/ containmentWinner(ok) \/ Authorize(ok) \/ CurrentCore(ok)
                           \/ OpenCgroup(ok) \/ RevalidateCore(ok) \/ Kill(ok)
    \/ Mark

ContainNext == ContainStep \/ ChangeChildren \/ RemoveTarget \/ \E c \in CoreCgroups : MoveCore(c)

ContainSpec == ContainInit /\ [][ContainNext]_containVars

-----------------------------------------------------------------------------
\* A decision is reported as enforced containment exactly when cgroup.kill was
\* written, and an outcome that claims no attempt or a failure wrote nothing
\* (Executor.Contain, markContainmentResult).
ContainmentIsReported ==
    pc = "emitted" => /\ final.enforced <=> signalled
                      /\ outcome = "killed" <=> signalled
                      /\ final.enforced <=> final.effective = "contain"

\* cgroup.kill reaches Core only when Core was moved into the target after the
\* executor looked the second time (the two CurrentCoreCgroup calls of Contain).
KillSparesCore ==
    [][signalled' /\ ~signalled => moved \/ ~cgroupContains(core)]_containVars
=============================================================================
