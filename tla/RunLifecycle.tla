---------------------------- MODULE RunLifecycle ----------------------------
(***************************************************************************)
(* The life of an Agent Run: registration, trusted finish, the scope        *)
(* monitor and TTL expiry, as the goroutines of managed Core run them over  *)
(* the scope manager and the Run store.                                     *)
(*                                                                         *)
(* A step is one critical section (Manager.mu, RunStore.mu or               *)
(* registrationMu) or one callback.  Between two steps of a handler any     *)
(* other handler may run.                                                   *)
(***************************************************************************)
EXTENDS RunStore

CONSTANTS Requests,       \* request_id values the supervisor uses
          Callers,        \* concurrent register handlers
          Finishers,      \* concurrent finish handlers
          Monitor,        \* the monitor goroutine
          Violators,      \* Runs whose task may leave its exact leaf
          NoRequest, NoReplay,
          MaxReplays,     \* maxRegistrationReplays
          MaxTime         \* bound on the clock

ASSUME LifecycleAssumption ==
    /\ Monitor \notin Finishers
    /\ Violators \subseteq Runs
    /\ NoRequest \notin Requests
    /\ NoReplay \notin [cgroup : Cgroups, run : Runs, expiresAt : Nat]
    /\ MaxReplays \in Nat
    /\ MaxTime \in Nat

VARIABLES now,
          origin,    \* the request each drawn run ID answers; NoRequest: not drawn
          violated,  \* Runs whose task has left its exact leaf
          call,      \* register handlers
          replays,   \* registrationReplays
          term,      \* terminateRun activations
          mon,       \* the monitor goroutine
          overview   \* OverviewState: the status the read API shows

envVars == <<now, origin, violated>>
vars == <<scopeVars, storeVars, envVars, call, replays, term, mon, overview>>

Threads == Finishers \cup {Monitor}

registrationReplay == [cgroup : Cgroups, run : Runs, expiresAt : Nat]

CallRecord == [pc : {"idle", "waiting", "register", "add", "rollback", "notify"},
               request : Requests \cup {NoRequest}, cgroup : Cgroups \cup {NoCgroup},
               at : Nat, run : Runs \cup {NoRun}]

TermRecord == [pc : {"idle", "unregister", "complete", "notify"},
               run : Runs \cup {NoRun}, status : Statuses, at : Nat]

MonRecord == [pc : {"idle", "list", "scan", "lookup", "fail", "cleanup", "expire"},
              todo : SUBSET Cgroups, cgroup : Cgroups \cup {NoCgroup},
              seen : Runs \cup {NoRun}, run : Runs \cup {NoRun},
              expired : SUBSET Runs, at : Nat]

IdleCall == [pc |-> "idle", request |-> NoRequest, cgroup |-> NoCgroup, at |-> 0, run |-> NoRun]
IdleTerm == [pc |-> "idle", run |-> NoRun, status |-> "active", at |-> 0]
IdleMon  == [pc |-> "idle", todo |-> {}, cgroup |-> NoCgroup, seen |-> NoRun,
             run |-> NoRun, expired |-> {}, at |-> 0]

Init ==
    /\ NewManager
    /\ NewRunStore
    /\ now = 0 /\ origin = [r \in Runs |-> NoRequest] /\ violated = {}
    /\ call = [x \in Callers |-> IdleCall]
    /\ replays = [q \in Requests |-> NoReplay]
    /\ term = [t \in Threads |-> IdleTerm]
    /\ mon = IdleMon
    /\ overview = [r \in Runs |-> "none"]

-----------------------------------------------------------------------------
(* Environment. *)

Tick ==
    /\ now < MaxTime
    /\ now' = now + 1
    /\ UNCHANGED <<scopeVars, storeVars, origin, violated, call, replays, term, mon, overview>>

\* The task registered on a cgroup creates a child cgroup or its root moves.
Violate(r) ==
    /\ r \in Violators \ violated
    /\ \E c \in Cgroups : active[c] = r
    /\ violated' = violated \cup {r}
    /\ UNCHANGED <<scopeVars, storeVars, now, origin, call, replays, term, mon, overview>>

-----------------------------------------------------------------------------
(* Overview: RuntimePipeline.RunChanged, called outside every lock. *)

validRunStatus(status) == status \in {"active", "finished", "failed"}

\* UpsertRun refuses a status it does not know; RunChanged only logs that.
RunChanged(r, status) ==
    overview' = IF validRunStatus(status) THEN [overview EXCEPT ![r] = status] ELSE overview

-----------------------------------------------------------------------------
(* Registration: RegistrationHandler.ServeHTTP. *)

HoldsRegistrationMu(x) == call[x].pc \notin {"idle", "waiting"}

\* The request is decoded and the clock read; then it waits for the mutex.
RegisterRequest(x, q, c) ==
    /\ call[x].pc = "idle"
    /\ call' = [call EXCEPT ![x] = [IdleCall EXCEPT !.pc = "waiting", !.request = q,
                                                    !.cgroup = c, !.at = now]]
    /\ UNCHANGED <<scopeVars, storeVars, envVars, replays, term, mon, overview>>

pruneRegistrationReplays(at) ==
    [q \in Requests |-> IF replays[q] # NoReplay /\ at >= replays[q].expiresAt
                        THEN NoReplay ELSE replays[q]]

MutantNoReplays(q, kept) == FALSE

\* A replay or a full cache answers at once.
AnsweredFromReplays(q, kept) ==
    \/ kept[q] # NoReplay
    \/ Cardinality({p \in Requests : kept[p] # NoReplay}) >= MaxReplays

\* registrationMu is taken, stale replays go, and the request is answered from
\* the replays (200, 409 or 503), fails to draw random bytes (500), or draws
\* fresh identities.
RegisterLocked(x) ==
    /\ call[x].pc = "waiting"
    /\ \A y \in Callers : ~HoldsRegistrationMu(y)
    /\ LET kept == pruneRegistrationReplays(call[x].at)
       IN  /\ replays' = kept
           /\ \/ /\ call' = [call EXCEPT ![x] = IdleCall]
                 /\ UNCHANGED origin
              \/ /\ ~AnsweredFromReplays(call[x].request, kept)
                 /\ \E r \in Runs :
                        /\ origin[r] = NoRequest
                        /\ origin' = [origin EXCEPT ![r] = call[x].request]
                        /\ call' = [call EXCEPT ![x] = [@ EXCEPT !.pc = "register", !.run = r]]
    /\ UNCHANGED <<scopeVars, storeVars, now, violated, term, mon, overview>>

\* registrar.Register: bound, refused or failed.
RegisterScope(x) ==
    /\ call[x].pc = "register"
    /\ \/ /\ ScopeRegister(call[x].cgroup, call[x].run)
          /\ call' = [call EXCEPT ![x].pc = "add"]
       \/ /\ call' = [call EXCEPT ![x] = IdleCall]
          /\ UNCHANGED scopeVars
    /\ UNCHANGED <<storeVars, envVars, replays, term, mon, overview>>

RegisterAdd(x) ==
    /\ call[x].pc = "add"
    /\ \/ /\ Add(call[x].run, call[x].cgroup, call[x].at)
          /\ call' = [call EXCEPT ![x].pc = "notify"]
       \/ /\ AddFails(call[x].run, call[x].cgroup, call[x].at)
          /\ call' = [call EXCEPT ![x].pc = "rollback"]
    /\ UNCHANGED <<scopeVars, envVars, replays, term, mon, overview>>

\* The error of this Unregister is discarded.
RegisterRollback(x) ==
    /\ call[x].pc = "rollback"
    /\ \/ ScopeUnregister(call[x].cgroup)
       \/ ScopeUnregisterFails(call[x].cgroup)
    /\ call' = [call EXCEPT ![x] = IdleCall]
    /\ UNCHANGED <<storeVars, envVars, replays, term, mon, overview>>

replayOf(x) == [cgroup |-> call[x].cgroup, run |-> call[x].run,
                expiresAt |-> call[x].at + TokenTTL]

\* onRunChanged with the Run as it was added, then the replay entry and 201.
RegisterNotify(x) ==
    /\ call[x].pc = "notify"
    /\ RunChanged(call[x].run, "active")
    /\ replays' = [replays EXCEPT ![call[x].request] = replayOf(x)]
    /\ call' = [call EXCEPT ![x] = IdleCall]
    /\ UNCHANGED <<scopeVars, storeVars, envVars, term, mon>>

-----------------------------------------------------------------------------
(* Termination: RegistrationHandler.terminateRun, on thread t. *)

TerminateBegin(t, r, status, at) ==
    /\ term[t].pc = "idle"
    /\ beginTermination(r)
    /\ term' = [term EXCEPT ![t] = [pc |-> "unregister", run |-> r, status |-> status, at |-> at]]

\* FinishRun.  A Run that is unknown, ended, pending or not live is answered
\* without a change of state.  The supervisor learns a run ID from the response
\* to its registration; the end time is read before the store is locked.
FinishRun(t, r) ==
    /\ \A x \in Callers : call[x].run # r
    /\ \E at \in runRegistered[r]..now : TerminateBegin(t, r, "finished", at)
    /\ UNCHANGED <<scopeVars, envVars, call, replays, mon, overview>>

\* The monitor's pass ends when the termination it started fails; the expiry
\* loop goes on.
MonitorAfterAbort(t) ==
    IF t = Monitor /\ mon.pc = "scan"
    THEN [IdleMon EXCEPT !.pc = "cleanup"] ELSE mon

TerminateUnregister(t) ==
    /\ term[t].pc = "unregister"
    /\ LET c == runCgroup[term[t].run]
       IN  \/ /\ ScopeUnregister(c)
              /\ term' = [term EXCEPT ![t].pc = "complete"]
              /\ UNCHANGED <<storeVars, mon>>
           \/ /\ ScopeUnregisterFails(c)
              /\ abortTermination(term[t].run)
              /\ term' = [term EXCEPT ![t] = IdleTerm]
              /\ mon' = MonitorAfterAbort(t)
    /\ UNCHANGED <<envVars, call, replays, overview>>

TerminateComplete(t) ==
    /\ term[t].pc = "complete"
    /\ completeTermination(term[t].run, term[t].status, term[t].at)
    /\ term' = [term EXCEPT ![t].pc = "notify"]
    /\ UNCHANGED <<scopeVars, envVars, call, replays, mon, overview>>

TerminateNotify(t) ==
    /\ term[t].pc = "notify"
    /\ RunChanged(term[t].run, runStatus[term[t].run])
    /\ term' = [term EXCEPT ![t] = IdleTerm]
    /\ UNCHANGED <<scopeVars, storeVars, envVars, call, replays, mon>>

-----------------------------------------------------------------------------
(* The monitor goroutine: MonitorScopesOnce, then CleanupExpiredRuns. *)

\* The ticker fires and the observation time is read.
MonitorTick ==
    /\ mon.pc = "idle"
    /\ mon' = [IdleMon EXCEPT !.pc = "list", !.at = now]
    /\ UNCHANGED <<scopeVars, storeVars, envVars, call, replays, term, overview>>

MonitorList ==
    /\ mon.pc = "list"
    /\ mon' = [mon EXCEPT !.pc = "scan", !.todo = ActiveIDs]
    /\ UNCHANGED <<scopeVars, storeVars, envVars, call, replays, term, overview>>

\* Manager.Check on one cgroup of the pass.  Inspect may fail on any leaf, and
\* that counts as a violation.
MonitorCheck(c) ==
    /\ mon.pc = "scan" /\ term[Monitor].pc = "idle"
    /\ c \in mon.todo
    /\ \/ /\ active[c] \notin violated
          /\ mon' = [mon EXCEPT !.todo = @ \ {c}]
       \/ /\ active[c] # NoRun
          /\ mon' = [mon EXCEPT !.todo = @ \ {c}, !.pc = "lookup", !.cgroup = c, !.seen = active[c]]
    /\ UNCHANGED <<scopeVars, storeVars, envVars, call, replays, term, overview>>

MutantMonitorLookup ==
    /\ mon.pc = "lookup"
    /\ mon' = [mon EXCEPT !.pc = "scan"]
    /\ UNCHANGED <<scopeVars, storeVars, envVars, call, replays, term, overview>>

\* monitoredRunForCgroup.  No Run at all aborts the pass.
MonitorLookup ==
    /\ mon.pc = "lookup"
    /\ LET r == activeByCgroup[mon.cgroup]
       IN  mon' = IF r # NoRun THEN [mon EXCEPT !.pc = "fail", !.run = r]
                  ELSE IF latestByCgroup[mon.cgroup] # NoRun THEN [mon EXCEPT !.pc = "scan"]
                  ELSE [IdleMon EXCEPT !.pc = "cleanup"]
    /\ UNCHANGED <<scopeVars, storeVars, envVars, call, replays, term, overview>>

\* FailRunScope: an ended Run is no error, a pending or dead one aborts the pass.
MonitorFail ==
    /\ mon.pc = "fail"
    /\ \/ /\ TerminateBegin(Monitor, mon.run, "failed", mon.at)
          /\ mon' = [mon EXCEPT !.pc = "scan"]
       \/ /\ ~TerminationBegins(mon.run)
          /\ mon' = IF runEnded[mon.run] # -1 THEN [mon EXCEPT !.pc = "scan"]
                    ELSE [IdleMon EXCEPT !.pc = "cleanup"]
          /\ UNCHANGED <<storeVars, term>>
    /\ UNCHANGED <<scopeVars, envVars, call, replays, overview>>

MonitorCleanup ==
    /\ term[Monitor].pc = "idle"
    /\ mon.pc = "cleanup" \/ (mon.pc = "scan" /\ mon.todo = {})
    /\ mon' = [IdleMon EXCEPT !.pc = "expire", !.expired = expiredActiveRunIDs(now), !.at = now]
    /\ UNCHANGED <<scopeVars, storeVars, envVars, call, replays, term, overview>>

MutantExpireOnce(r) ==
    /\ mon.pc = "expire" /\ term[Monitor].pc = "idle"
    /\ r \in mon.expired
    /\ mon' = [mon EXCEPT !.expired = @ \ {r}]
    /\ UNCHANGED <<scopeVars, storeVars, envVars, call, replays, term, overview>>

MonitorExpire(r) ==
    /\ mon.pc = "expire" /\ term[Monitor].pc = "idle"
    /\ r \in mon.expired
    /\ mon' = [mon EXCEPT !.expired = @ \ {r}]
    /\ \/ TerminateBegin(Monitor, r, "expired", mon.at)
       \/ /\ ~TerminationBegins(r)
          /\ UNCHANGED <<storeVars, term>>
    /\ UNCHANGED <<scopeVars, envVars, call, replays, overview>>

MonitorPrune ==
    /\ mon.pc = "expire" /\ term[Monitor].pc = "idle"
    /\ mon.expired = {}
    /\ tombstones' = pruneTombstones(tombstones, mon.at)
    /\ mon' = IdleMon
    /\ UNCHANGED <<scopeVars, runStatus, runCgroup, runRegistered, runEnded, activeByCgroup,
                   latestByCgroup, liveByIdentity, terminating, tombstoneSeq,
                   envVars, call, replays, term, overview>>

-----------------------------------------------------------------------------
RegisterStep(x) ==
    \/ RegisterLocked(x)
    \/ RegisterScope(x)
    \/ RegisterAdd(x)
    \/ RegisterRollback(x)
    \/ RegisterNotify(x)

TerminateStep(t) ==
    \/ TerminateUnregister(t)
    \/ TerminateComplete(t)
    \/ TerminateNotify(t)

MonitorStep ==
    \/ MonitorTick
    \/ MonitorList
    \/ \E c \in Cgroups : MonitorCheck(c)
    \/ MonitorLookup
    \/ MonitorFail
    \/ MonitorCleanup
    \/ \E r \in Runs : MonitorExpire(r)
    \/ MonitorPrune

Next ==
    \/ Tick
    \/ \E r \in Runs : Violate(r)
    \/ \E x \in Callers, q \in Requests, c \in Cgroups : RegisterRequest(x, q, c)
    \/ \E x \in Callers : RegisterStep(x)
    \/ \E t \in Finishers, r \in Runs : FinishRun(t, r)
    \/ \E t \in Threads : TerminateStep(t)
    \/ MonitorStep

Spec == Init /\ [][Next]_vars

\* Goroutines that have started keep running, the monitor's ticker keeps
\* firing, time passes, and a map delete does not fail for ever.
Fairness ==
    /\ WF_vars(Tick)
    /\ WF_vars(MonitorStep)
    /\ \A x \in Callers : WF_vars(RegisterStep(x))
    /\ \A t \in Threads : WF_vars(TerminateStep(t))
    /\ \A t \in Threads : SF_vars(TerminateUnregister(t) /\ term'[t].pc = "complete")

FairSpec == Spec /\ Fairness
-----------------------------------------------------------------------------
(* Properties. *)

\* Every variable has its type.
TypeOK ==
    /\ ScopeTypeOK
    /\ StoreTypeOK
    /\ now \in Nat
    /\ origin \in [Runs -> Requests \cup {NoRequest}]
    /\ violated \in SUBSET Runs
    /\ call \in [Callers -> CallRecord]
    /\ replays \in [Requests -> registrationReplay \cup {NoReplay}]
    /\ term \in [Threads -> TermRecord]
    /\ mon \in MonRecord
    /\ overview \in [Runs -> Statuses \cup {"none"}]

\* The kernel's scope map holds exactly what the manager believes is bound,
\* also after a map delete that failed.
ScopeMapAgreesWithManager == scopeMap = active

\* An ingest token that verifies belongs to a Run whose scope is bound: the
\* kernel records the cgroup of every Run that may still send checkpoints.
CredentialImpliesScope ==
    \A r \in Runs : VerifyIngestToken(r, now) => scopeMap[runCgroup[r]] = r

\* docs/agent-registration.md: the map entry goes before the Run ends, so
\* nothing later is captured under an ended Run.
EndedRunNotCaptured ==
    \A r \in Runs : runEnded[r] # -1 => \A c \in Cgroups : scopeMap[c] # r

\* Unregister is keyed by the cgroup alone; a termination that is about to
\* call it always finds its own Run's registration there, never a successor's
\* on a reused cgroup and never none.
TerminationOwnsItsScope ==
    \A t \in Threads : term[t].pc = "unregister" => active[runCgroup[term[t].run]] = term[t].run

\* The same for the rollback of a refused registration.
RollbackOwnsItsScope ==
    \A x \in Callers : call[x].pc = "rollback" => active[call[x].cgroup] = call[x].run

\* No registered cgroup lies above, below or on another one, or holds Core.
ActiveScopesDisjoint ==
    \A c \in ActiveIDs :
        /\ ~pathIsEqualOrAncestor(c, Core)
        /\ \A d \in ActiveIDs \ {c} : ~pathsOverlap(c, d)

\* The cgroup index names a Run exactly while that Run is live there, however
\* terminations and registrations of a reused cgroup interleave.
CgroupIndexIsLive ==
    /\ \A c \in Cgroups : LET r == activeByCgroup[c] IN r # NoRun => Live(r) /\ runCgroup[r] = c
    /\ \A r \in Runs : Live(r) => activeByCgroup[runCgroup[r]] = r

\* A supervisor that retries a registration under one request_id never ends
\* up with two Runs whose tokens are both accepted.
OneCredentialPerRequest ==
    \A r, s \in Runs :
        /\ r # s /\ origin[r] # NoRequest /\ origin[r] = origin[s]
        => ~(VerifyIngestToken(r, now) /\ VerifyIngestToken(s, now))

\* An event identity names one Run, live or within its attribution window,
\* even when two registrations draw the same scope cookie.
IdentityNamesOneRun ==
    /\ \A r \in Runs : Live(r) => liveByIdentity[CookieOf[r]] = r
    /\ \A t, u \in tombstones : t.cookie = u.cookie => t = u
    /\ \A t \in tombstones : liveByIdentity[t.cookie] = NoRun

\* A Run ends once: two terminations of it (finish, scope failure, expiry)
\* never both take effect.
EndIsFinal ==
    [][\A r \in Runs : runEnded[r] # -1 =>
           runEnded'[r] = runEnded[r] /\ runStatus'[r] = runStatus[r]]_vars

\* A Run past its server-owned lifetime is ended by the monitor goroutine, even
\* when no finish ever arrives and some map deletes fail.
ExpiredRunsEnd ==
    \A r \in Runs : (Live(r) /\ now >= runExpiry(r)) ~> (runEnded[r] # -1)

\* A Run whose task left its exact leaf is ended.
ViolatedRunsEnd ==
    \A r \in Runs : (Live(r) /\ r \in violated) ~> (runEnded[r] # -1)

\* No callback about r is still on its way.
Settled(r) ==
    /\ \A t \in Threads : term[t].run = r => term[t].pc # "notify"
    /\ \A x \in Callers : call[x].run = r => call[x].pc # "notify"

\* dashboard/README.md: the overview is the current Run registry; an ended Run
\* is not counted among the active ones once its callbacks have run.
OverviewShowsEnd == \A r \in Runs : runEnded[r] # -1 /\ Settled(r) => overview[r] # "active"

\* The monitor fails only the Run on which it saw the violation.
MonitorFailsInspectedRun == mon.pc = "fail" => mon.run = mon.seen
=============================================================================
