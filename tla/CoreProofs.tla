----------------------------- MODULE CoreProofs -----------------------------
(***************************************************************************)
(* Proofs about the parts of a running Core: what is up while tasks can     *)
(* register, the order of the shutdown and the drop notices of one audit    *)
(* session; what the supervisor releases and reports; and that the live     *)
(* stream shows every dashboard its records without a gap.                  *)
(***************************************************************************)
EXTENDS AuditSession, TaskSupervisor, StreamHub, WellFoundedInduction, TLAPS

-----------------------------------------------------------------------------
(* The session: what is up, and what may still be up on the way down. *)

Starting == {"load", "install", "scopes", "attach", "handlers", "bind"}
Drained == {"stop_scopes", "unload", "closed"}

SessionTypeOK ==
    /\ session \in Starting \cup Unwinding \cup {"start", "stream", "ended"}
    /\ collection \in [open : BOOLEAN, allows : Nat, profile : BOOLEAN, scopesReady : BOOLEAN]
    /\ hooks \in 0 .. HookCount
    /\ surface \in [Surfaces -> {"none", "bound", "serving", "failed", "closed"}]
    /\ pipelineState \in {"none", "open", "closed"}
    /\ inflight \in BOOLEAN /\ stopErr \in BOOLEAN

\* How far RunAudit has come before it serves.
BootInv ==
    /\ collection.allows <= AllowCount
    /\ collection.profile => collection.allows = AllowCount
    /\ hooks > 0 => collection.profile
    /\ session \in {"scopes", "attach", "handlers", "bind", "start", "stream", "ended"} => collection.profile
    /\ session \in {"handlers", "bind", "start", "stream", "ended"} => hooks = HookCount
    /\ session \in {"load", "install", "scopes"} => pipelineState = "none" /\ hooks = 0
    /\ session \in {"attach", "handlers", "bind", "start", "stream", "ended"} => pipelineState = "open"

\* The listeners: bound, then all served, or closed without having served.
NoneServed == (\A s \in Surfaces : surface[s] \in {"none", "closed"}) /\ ~inflight /\ registered = {}

SurfaceInv ==
    /\ session \in Starting => /\ \A s \in Surfaces : surface[s] \in {"none", "bound"}
                               /\ ~inflight /\ registered = {} /\ monitor # "on"
    /\ session = "start" => \A s \in Surfaces : surface[s] \in {"bound", "serving", "failed"}
    /\ session \in {"stream", "ended"} =>
           (\A s \in Surfaces : surface[s] \in {"serving", "failed"}) \/ NoneServed

\* The way down: what a step of it has taken down stays down.
DownInv ==
    /\ session \notin {"load", "closed"} => collection.open
    /\ session \in Unwinding \ {"unwind"} => hooks = 0
    /\ session \in Unwinding \ {"unwind", "stop_monitor"} => monitor # "on"
    /\ session \in Drained \cup {"stop_pipeline"} =>
           \A s \in Surfaces : surface[s] \notin {"serving", "failed"}
    /\ pipelineState = "closed" => session \in Drained
    /\ ~stopErr => /\ surface["management"] \notin {"serving", "failed"} => ~inflight
                   /\ session \in Drained => pipelineState # "open"
                   /\ session \in {"unload", "closed"} => registered = {}

SessionInv == SessionTypeOK /\ BootInv /\ SurfaceInv /\ DownInv

LEMMA Management == "management" \in Surfaces
BY Zenon DEF Surfaces

LEMMA SessionInvImplies == SessionInv => RegistrationIsCovered /\ StopsInOrder
<1> SUFFICES ASSUME SessionInv PROVE RegistrationIsCovered /\ StopsInOrder
    BY Zenon
<1> USE DEF SessionInv, SessionTypeOK, Starting, Unwinding, Drained
<1>1. RegistrationIsCovered
      BY Management, Zenon DEF RegistrationIsCovered, BootInv, SurfaceInv, NoneServed
<1>2. StopsInOrder
  <2> SUFFICES ASSUME ~stopErr
               PROVE  /\ pipelineState = "closed" => ~inflight /\ \A s \in Surfaces : surface[s] # "serving"
                      /\ pipelineState = "open" \/ registered # {} => collection.open
                      /\ session = "closed" => hooks = 0 /\ registered = {} /\ monitor # "on"
      BY Zenon DEF StopsInOrder
  <2>1. pipelineState = "closed" => ~inflight /\ \A s \in Surfaces : surface[s] # "serving"
        BY Management, Zenon DEF DownInv
  <2>2. pipelineState = "open" \/ registered # {} => collection.open
        BY Zenon DEF DownInv, BootInv, SurfaceInv
  <2>3. session = "closed" => hooks = 0 /\ registered = {} /\ monitor # "on"
        BY Zenon DEF DownInv
  <2> QED
      BY <2>1, <2>2, <2>3, Zenon
<1> QED
    BY <1>1, <1>2, Zenon

LEMMA SessionInvInit == SessionInit => SessionInv
<1> SUFFICES ASSUME SessionInit PROVE SessionInv
    BY Zenon
<1> USE DEF SessionInit, Starting, Unwinding, Drained
<1>1. SessionTypeOK
  <2>1. 0 \in Nat /\ hooks \in 0 .. HookCount
        BY DEF HookCount
  <2>2. collection \in [open : BOOLEAN, allows : Nat, profile : BOOLEAN, scopesReady : BOOLEAN]
        BY <2>1, Zenon
  <2>3. surface \in [Surfaces -> {"none", "bound", "serving", "failed", "closed"}]
        BY Zenon
  <2> QED
      BY <2>1, <2>2, <2>3, Zenon DEF SessionTypeOK
<1>2. BootInv
      BY SessionAssumption DEF BootInv
<1>3. SurfaceInv
      BY Zenon DEF SurfaceInv
<1>4. DownInv
      BY Management, Zenon DEF DownInv
<1> QED
    BY <1>1, <1>2, <1>3, <1>4, Zenon DEF SessionInv

\* Steps that touch neither the session nor what it has put up.
shownVars == <<session, collection, hooks, surface, monitor, pipelineState, registered, inflight, stopErr>>

LEMMA QuietStep == SessionInv /\ UNCHANGED shownVars => SessionInv'
BY DEF SessionInv, SessionTypeOK, BootInv, SurfaceInv, DownInv, NoneServed, shownVars

\* Boot: RunAudit until OnReady.
LEMMA BootSteps ==
    ASSUME SessionInv, NEW ok \in BOOLEAN,
           \/ LoadCollection(ok) \/ installNetworkEnforcement(ok) \/ OnScopeMapReady(ok)
           \/ AttachHook(ok) \/ OpenReader(ok)
    PROVE  SessionInv'
<1> USE DEF SessionInv, SessionTypeOK, Starting, Unwinding, Drained
<1>0. UNCHANGED <<surface, monitor, registered, inflight, stopErr>>
      BY Zenon DEF LoadCollection, installNetworkEnforcement, OnScopeMapReady, AttachHook, OpenReader, serveVars
<1>1. CASE LoadCollection(ok)
      BY <1>0, <1>1 DEF LoadCollection, BootInv, SurfaceInv, DownInv, NoneServed, serveVars
<1>2. CASE installNetworkEnforcement(ok)
  <2>1. session = "install" /\ UNCHANGED <<hooks, pipelineState>>
        BY <1>2, Zenon DEF installNetworkEnforcement, serveVars
  <2>2. CASE session' = "unwind" /\ UNCHANGED collection
        BY <1>0, <2>1, <2>2, Zenon DEF BootInv, SurfaceInv, DownInv, NoneServed
  <2>3. CASE /\ collection.allows < AllowCount /\ session' = session
             /\ collection' = [collection EXCEPT !.allows = @ + 1]
        BY <1>0, <2>1, <2>3, SessionAssumption DEF BootInv, SurfaceInv, DownInv, NoneServed
  <2>4. CASE /\ ~(collection.allows < AllowCount) /\ session' = "scopes"
             /\ collection' = [collection EXCEPT !.profile = TRUE]
    <3>1. collection.allows = AllowCount
          BY <2>4, SessionAssumption DEF BootInv
    <3>2. /\ collection'.allows = AllowCount /\ collection'.profile /\ collection'.open = collection.open
          /\ collection' \in [open : BOOLEAN, allows : Nat, profile : BOOLEAN, scopesReady : BOOLEAN]
          BY <2>4, <3>1, Zenon
    <3> QED
        BY <1>0, <2>1, <2>4, <3>2, SessionAssumption, Zenon DEF BootInv, SurfaceInv, DownInv, NoneServed
  <2> QED
      BY <1>2, <2>2, <2>3, <2>4, Zenon DEF installNetworkEnforcement
<1>3. CASE OnScopeMapReady(ok)
      BY <1>0, <1>3 DEF OnScopeMapReady, BootInv, SurfaceInv, DownInv, NoneServed
<1>4. CASE AttachHook(ok)
      BY <1>0, <1>4 DEF AttachHook, BootInv, SurfaceInv, DownInv, NoneServed, serveVars, HookCount
<1>5. CASE OpenReader(ok)
      BY <1>0, <1>5 DEF OpenReader, BootInv, SurfaceInv, DownInv, NoneServed, serveVars, bootVars
<1> QED
    BY <1>1, <1>2, <1>3, <1>4, <1>5, Zenon

\* A failed OnReady closes what was bound: nothing has been served.
LEMMA FailReadyStep ==
    ASSUME SessionInv, session \in {"handlers", "bind"}, FailReady,
           UNCHANGED <<collection, hooks, monitor, pipelineState, registered, inflight, stopErr>>
    PROVE  SessionInv'
<1> USE DEF SessionInv, SessionTypeOK, Starting, Unwinding, Drained
<1>1. session' = "stream" /\ surface' = [s \in Surfaces |-> IF surface[s] = "bound" THEN "closed" ELSE surface[s]]
      BY Zenon DEF FailReady
<1>2. \A s \in Surfaces : surface'[s] \in {"none", "closed"}
      BY <1>1, Zenon DEF SurfaceInv
<1>3. surface' \in [Surfaces -> {"none", "bound", "serving", "failed", "closed"}]
      BY <1>1, Zenon
<1>4. NoneServed'
      BY <1>2, Zenon DEF NoneServed, SurfaceInv
<1> QED
    BY <1>1, <1>2, <1>3, <1>4, Management, Zenon DEF BootInv, SurfaceInv, DownInv

\* OnReady, and the registrations and failures while Core serves.
LEMMA ServeSteps ==
    ASSUME SessionInv,
           \/ \E ok \in BOOLEAN : BuildHandlers(ok) \/ BindListener(ok)
           \/ StartServers \/ BeginRegistration \/ EndRegistration
           \/ \E s \in Surfaces : ServerFails(s)
    PROVE  SessionInv'
<1> USE DEF SessionInv, SessionTypeOK, Starting, Unwinding, Drained
<1>1. ASSUME NEW ok \in BOOLEAN, BuildHandlers(ok) PROVE SessionInv'
  <2>1. UNCHANGED <<collection, hooks, monitor, pipelineState, registered, inflight, stopErr>> /\ session = "handlers"
        BY <1>1, Zenon DEF BuildHandlers, bootVars
  <2>2. CASE session' = "bind" /\ UNCHANGED surface
        BY <2>1, <2>2, Zenon DEF BootInv, SurfaceInv, DownInv, NoneServed
  <2> QED
      BY <1>1, <2>1, <2>2, FailReadyStep, Zenon DEF BuildHandlers
<1>2. ASSUME NEW ok \in BOOLEAN, BindListener(ok) PROVE SessionInv'
  <2>1. UNCHANGED <<collection, hooks, monitor, pipelineState, registered, inflight, stopErr>> /\ session = "bind"
        BY <1>2, Zenon DEF BindListener, bootVars
  <2>2. CASE ok
    <3>1. PICK b : surface' = [surface EXCEPT ![b] = "bound"]
          BY <1>2, <2>2, Zenon DEF BindListener
    <3>2. /\ surface' \in [Surfaces -> {"none", "bound", "serving", "failed", "closed"}]
          /\ \A s \in Surfaces : surface'[s] \in {"none", "bound"}
          BY <2>1, <3>1, Zenon DEF SurfaceInv
    <3>3. CASE session' = "start" /\ \A s \in Surfaces : surface'[s] = "bound"
          BY <2>1, <3>2, <3>3, Management, Zenon DEF BootInv, SurfaceInv, DownInv, NoneServed
    <3>4. CASE session' = session
          BY <2>1, <3>2, <3>4, Management, Zenon DEF BootInv, SurfaceInv, DownInv, NoneServed
    <3> QED
        BY <1>2, <2>2, <3>3, <3>4, Zenon DEF BindListener
  <2> QED
      BY <1>2, <2>1, <2>2, FailReadyStep, Zenon DEF BindListener
<1>3. CASE StartServers
  <2>1. UNCHANGED <<collection, hooks, pipelineState, registered, inflight, stopErr>> /\ session = "start"
        BY <1>3, Zenon DEF StartServers, bootVars
  <2>2. CASE \E s \in Surfaces : surface[s] = "bound"
    <3>1. PICK b : surface' = [surface EXCEPT ![b] = "serving"] /\ UNCHANGED <<session, monitor>>
          BY <1>3, <2>2, Zenon DEF StartServers
    <3>2. /\ surface' \in [Surfaces -> {"none", "bound", "serving", "failed", "closed"}]
          /\ \A s \in Surfaces : surface'[s] \in {"bound", "serving", "failed"} /\ surface'[s] \in {surface[s], "serving"}
          BY <2>1, <3>1, Zenon DEF SurfaceInv
    <3> QED
        BY <2>1, <3>1, <3>2, Management, Zenon DEF BootInv, SurfaceInv, DownInv, NoneServed
  <2>3. CASE ~\E s \in Surfaces : surface[s] = "bound"
    <3>1. session' = "stream" /\ UNCHANGED surface
          BY <1>3, <2>3, Zenon DEF StartServers
    <3> QED
        BY <2>1, <2>3, <3>1, Management, Zenon DEF BootInv, SurfaceInv, DownInv, NoneServed
  <2> QED
      BY <2>2, <2>3, Zenon
<1>4. CASE BeginRegistration
      BY <1>4, Management DEF BeginRegistration, bootVars, BootInv, SurfaceInv, DownInv, NoneServed
<1>5. CASE EndRegistration
  <2>1. /\ inflight /\ inflight' = FALSE
        /\ UNCHANGED <<session, collection, hooks, surface, monitor, pipelineState, stopErr>>
        BY <1>5, Zenon DEF EndRegistration, bootVars
  <2>2. session \notin Starting /\ ~NoneServed
        BY <2>1, Zenon DEF SurfaceInv, NoneServed
  <2>3. ~stopErr => session \notin {"unload", "closed"}
        BY <2>1, Management, Zenon DEF DownInv
  <2>4. SessionTypeOK' /\ BootInv'
        BY <2>1, Zenon DEF BootInv
  <2>5. SurfaceInv'
        BY <2>1, <2>2, Zenon DEF SurfaceInv
  <2>6. DownInv'
        BY <2>1, <2>3, Zenon DEF DownInv
  <2> QED
      BY <2>4, <2>5, <2>6, Zenon
<1>6. ASSUME NEW s \in Surfaces, ServerFails(s) PROVE SessionInv'
  <2>1. /\ UNCHANGED <<session, collection, hooks, monitor, pipelineState, registered, inflight, stopErr>>
        /\ surface[s] = "serving" /\ surface' = [surface EXCEPT ![s] = "failed"]
        BY <1>6, Zenon DEF ServerFails, bootVars
  <2> QED
      BY <2>1, Management DEF BootInv, SurfaceInv, DownInv, NoneServed
<1> QED
    BY <1>1, <1>2, <1>3, <1>4, <1>5, <1>6, Zenon

\* The end of the stream and the deferred calls of RunAudit.
LEMMA DownSteps ==
    ASSUME SessionInv,
           \/ \E outcome0 \in {"decoded", "malformed", "error", "eof"} : StreamEvent(outcome0)
           \/ StreamEnded \/ Detach \/ StopMonitor \/ Unload \/ MonitorExits
           \/ \E ok \in BOOLEAN : StopServer(ok) \/ StopPipeline(ok)
           \/ \E kept \in SUBSET registered : StopScopes(kept)
    PROVE  SessionInv'
<1> USE DEF SessionInv, SessionTypeOK, Starting, Unwinding, Drained
<1>1. ASSUME NEW o \in {"decoded", "malformed", "error", "eof"}, StreamEvent(o) PROVE SessionInv'
  <2>1. /\ session = "stream" /\ session' \in {"stream", "ended"}
        /\ UNCHANGED <<collection, hooks, surface, monitor, pipelineState, registered, inflight, stopErr>>
        BY <1>1, Zenon DEF StreamEvent, bootVars, serveVars
  <2> QED
      BY <2>1, Management, Zenon DEF BootInv, SurfaceInv, DownInv, NoneServed
<1>2. CASE StreamEnded
  <2>1. /\ session = "ended" /\ session' = "unwind"
        /\ UNCHANGED <<collection, hooks, surface, monitor, pipelineState, registered, inflight, stopErr>>
        BY <1>2, Zenon DEF StreamEnded, bootVars, serveVars
  <2> QED
      BY <2>1, Management, Zenon DEF BootInv, SurfaceInv, DownInv, NoneServed
<1>3. CASE Detach
  <2>1. /\ session = "unwind" /\ \/ hooks > 0 /\ hooks' = hooks - 1 /\ session' = session
                                 \/ hooks = 0 /\ hooks' = hooks /\ session' = "stop_monitor"
        /\ UNCHANGED <<collection, surface, monitor, pipelineState, registered, inflight, stopErr>>
        BY <1>3 DEF Detach, HookCount
  <2> QED
      BY <2>1, Management DEF BootInv, SurfaceInv, DownInv, NoneServed, HookCount
<1>4. CASE StopMonitor
  <2>1. /\ session = "stop_monitor" /\ session' = "stop_servers" /\ monitor # "on"
        /\ UNCHANGED <<collection, hooks, surface, monitor, pipelineState, registered, inflight, stopErr>>
        BY <1>4, Zenon DEF StopMonitor, bootVars, serveVars
  <2> QED
      BY <2>1, Management, Zenon DEF BootInv, SurfaceInv, DownInv, NoneServed
<1>5. CASE Unload
  <2>1. /\ session = "unload" /\ session' = "closed" /\ collection' = [collection EXCEPT !.open = FALSE]
        /\ UNCHANGED <<hooks, surface, monitor, pipelineState, registered, inflight, stopErr>>
        BY <1>5, Zenon DEF Unload, serveVars
  <2> QED
      BY <2>1, Management, Zenon DEF BootInv, SurfaceInv, DownInv, NoneServed
<1>6. CASE MonitorExits
  <2>1. /\ monitor' = "off"
        /\ UNCHANGED <<session, collection, hooks, surface, pipelineState, registered, inflight, stopErr>>
        BY <1>6, Zenon DEF MonitorExits, bootVars
  <2> QED
      BY <2>1, Management DEF BootInv, SurfaceInv, DownInv, NoneServed
<1>7. ASSUME NEW ok \in BOOLEAN, StopServer(ok) PROVE SessionInv'
  <2>1. /\ session = "stop_servers"
        /\ UNCHANGED <<collection, hooks, monitor, pipelineState, registered, inflight>>
        BY <1>7, Zenon DEF StopServer, bootVars
  <2>2. CASE \E s \in Surfaces : surface[s] \in {"serving", "failed"}
    <3>1. PICK c : /\ ok => c # "management" \/ ~inflight
                   /\ surface' = [surface EXCEPT ![c] = "closed"]
                   /\ stopErr' = (stopErr \/ ~ok)
                   /\ session' = session
          BY <1>7, <2>2, Zenon DEF StopServer
    <3>2. surface' \in [Surfaces -> {"none", "bound", "serving", "failed", "closed"}] /\ stopErr' \in BOOLEAN
          BY <3>1, Zenon
    <3>3. c # "management" => surface'["management"] = surface["management"]
          BY <3>1, Management, Zenon
    <3>4. (~stopErr => (surface["management"] \notin {"serving", "failed"} => ~inflight))'
          BY <2>1, <3>1, <3>3, Zenon DEF DownInv
    <3> QED
        BY <2>1, <3>1, <3>2, <3>4, Zenon DEF BootInv, SurfaceInv, DownInv, NoneServed
  <2>3. CASE ~\E s \in Surfaces : surface[s] \in {"serving", "failed"}
    <3>1. session' = "stop_pipeline" /\ UNCHANGED <<surface, stopErr>>
          BY <1>7, <2>3, Zenon DEF StopServer
    <3> QED
        BY <2>1, <2>3, <3>1, Management, Zenon DEF BootInv, SurfaceInv, DownInv, NoneServed
  <2> QED
      BY <2>2, <2>3, Zenon
<1>8. ASSUME NEW ok \in BOOLEAN, StopPipeline(ok) PROVE SessionInv'
  <2>1. /\ session = "stop_pipeline" /\ session' = "stop_scopes"
        /\ UNCHANGED <<collection, hooks, surface, monitor, registered, inflight>>
        /\ pipelineState' = IF pipelineState = "none" THEN "none" ELSE IF ok THEN "closed" ELSE "open"
        /\ stopErr' = (stopErr \/ (pipelineState = "open" /\ ~ok))
        BY <1>8, Zenon DEF StopPipeline, bootVars
  <2>2. stopErr' \in BOOLEAN /\ (~stopErr' => ~stopErr /\ pipelineState' # "open")
    <3>1. pipelineState \in {"none", "open"}
          BY <2>1, Zenon DEF DownInv
    <3>2. CASE ok
          BY <2>1, <3>1, <3>2, Zenon
    <3>3. CASE ~ok
          BY <2>1, <3>1, <3>3, Zenon
    <3> QED
        BY <3>2, <3>3, Zenon
  <2> QED
      BY <2>1, <2>2, Management, Zenon DEF BootInv, SurfaceInv, DownInv, NoneServed
<1>9. ASSUME NEW kept \in SUBSET registered, StopScopes(kept) PROVE SessionInv'
  <2>1. /\ session = "stop_scopes" /\ session' = "unload" /\ registered' = kept
        /\ stopErr' = (stopErr \/ kept # {})
        /\ UNCHANGED <<collection, hooks, surface, monitor, pipelineState, inflight>>
        BY <1>9, Zenon DEF StopScopes, bootVars
  <2>2. stopErr' \in BOOLEAN /\ (~stopErr' => ~stopErr /\ registered' = {})
        BY <2>1, Zenon
  <2> QED
      BY <2>1, <2>2, Management, Zenon DEF BootInv, SurfaceInv, DownInv, NoneServed
<1> QED
    BY <1>1, <1>2, <1>3, <1>4, <1>5, <1>6, <1>7, <1>8, <1>9, Zenon

LEMMA SessionInvStep == SessionInv /\ [SessionNext]_sessionVars => SessionInv'
<1> SUFFICES ASSUME SessionInv, [SessionNext]_sessionVars PROVE SessionInv'
    BY Zenon
<1>1. CASE UNCHANGED sessionVars
      BY <1>1, QuietStep, Zenon DEF sessionVars, shownVars
<1>2. CASE Signal \/ InterruptReader \/ StatsTick \/ StatsStop \/ StatsStep \/ \E t \in DropTypes : KernelDrops(t)
  <2>1. UNCHANGED shownVars
        BY <1>2, Zenon DEF Signal, InterruptReader, StatsTick, StatsStop, StatsStep, EmitDone, StatsSnapshot, EmitNotice,
                    KernelDrops, shownVars, bootVars, serveVars
  <2> QED
      BY <2>1, QuietStep, Zenon
<1> QED
    BY <1>1, <1>2, BootSteps, ServeSteps, DownSteps, Zenon DEF SessionNext, RunAuditStep

\* While registrations are served the hooks, the block profile, the listeners and
\* the pipeline are complete, for any number of hooks, allow tuples and surfaces
\* and whichever step of the start fails (RunAudit).
THEOREM RegistrationsAreCovered == SessionSpec => []RegistrationIsCovered
BY SessionInvImplies, SessionInvInit, SessionInvStep, PTL DEF SessionSpec

\* Without a shutdown error RunAudit takes things down in dependency order: the
\* pipeline after the listeners, the maps after the scopes and the pipeline.
THEOREM StopsAreOrdered == SessionSpec => []StopsInOrder
BY SessionInvImplies, SessionInvInit, SessionInvStep, PTL DEF SessionSpec

-----------------------------------------------------------------------------
(* Drop notices. *)

StatsPCs == {"none", "snapshot", "emit", "wait", "final", "emit_final", "done"}
Counters == [DropTypes -> Nat]
StatsRecord == [pc : StatsPCs, current : Counters, previous : Counters, pending : SUBSET DropTypes]
BeforeReader == {"load", "install", "scopes", "attach"}

\* Of one type: between snapshots it is noticed up to the last one; while one is
\* reported, exactly what is pending is not noticed yet.
NoticedUpTo(t) ==
    /\ stats.previous[t] <= stats.current[t] /\ stats.current[t] <= kernelDrops[t]
    /\ noticed[t] \in {stats.previous[t], stats.current[t]}
    /\ stats.pc \in {"none", "snapshot", "wait", "final"} =>
           noticed[t] = stats.current[t] /\ noticed[t] = stats.previous[t]
    /\ stats.pc \in {"emit", "emit_final"} =>
           noticed[t] = IF t \in stats.pending THEN stats.previous[t] ELSE stats.current[t]

DropTypeInv ==
    /\ stats \in StatsRecord /\ kernelDrops \in Counters /\ noticed \in Counters
    /\ session \in BeforeReader => stats.pc = "none"

DropInv == DropTypeInv /\ \A t \in DropTypes : NoticedUpTo(t)

\* The first pending type exists.
LEMMA SmallestPending ==
    ASSUME NEW S \in SUBSET Nat, S # {}
    PROVE  (CHOOSE t \in S : \A u \in S : t <= u) \in S
<1>1. PICK m \in S : \A u \in S : ~(<<u, m>> \in OpToRel(<, Nat))
      BY NatLessThanWellFounded, WFMin, Zenon
<1>2. \A u \in S : ~(u < m)
      BY <1>1, Zenon DEF OpToRel
<1>3. \A u \in S : m <= u
      BY <1>2
<1> QED
    BY <1>3, Zenon

LEMMA DropInvInit == SessionInit => DropInv
<1> SUFFICES ASSUME SessionInit PROVE DropInv
    BY Zenon
<1>1. Zeros \in Counters /\ \A t \in DropTypes : Zeros[t] = 0
      BY Zenon DEF Zeros, Counters
<1>2. stats = [pc |-> "none", current |-> Zeros, previous |-> Zeros, pending |-> {}]
      BY Zenon DEF SessionInit
<1>3. stats.pc = "none" /\ stats.current = Zeros /\ stats.previous = Zeros /\ stats \in StatsRecord
      BY <1>1, <1>2, Zenon DEF StatsRecord, StatsPCs
<1>4. kernelDrops = Zeros /\ noticed = Zeros
      BY Zenon DEF SessionInit
<1> QED
    BY <1>1, <1>3, <1>4 DEF DropInv, DropTypeInv, NoticedUpTo

\* A step that only moves the monitor's program counter.
LEMMA MonitorMoves ==
    ASSUME DropInv, NEW p \in StatsPCs, stats' = [stats EXCEPT !.pc = p],
           UNCHANGED <<kernelDrops, noticed>>,
           session' \in BeforeReader => p = "none",
           p = "done" \/ /\ {p, stats.pc} \subseteq {"none", "snapshot", "wait", "final"}
    PROVE  DropInv'
<1>1. /\ stats' \in StatsRecord /\ stats'.pc = p /\ stats'.current = stats.current
      /\ stats'.previous = stats.previous /\ stats'.pending = stats.pending
      BY Zenon DEF DropInv, DropTypeInv, StatsRecord
<1>2. ASSUME NEW t \in DropTypes PROVE NoticedUpTo(t)'
  <2>1. NoticedUpTo(t)
        BY Zenon DEF DropInv
  <2> QED
      BY <1>1, <2>1, Zenon DEF NoticedUpTo
<1> QED
    BY <1>1, <1>2, Zenon DEF DropInv, DropTypeInv

\* Snapshot: the difference to the previous one becomes pending.
LEMMA SnapshotStep ==
    ASSUME DropInv, stats.pc \in {"snapshot", "final"}, NEW p \in {"emit", "emit_final"},
           stats' = [pc |-> p, current |-> kernelDrops, previous |-> stats.previous,
                     pending |-> {t \in DropTypes : kernelDrops[t] # stats.previous[t]}],
           UNCHANGED <<session, kernelDrops, noticed>>
    PROVE  DropInv'
<1>1. /\ stats'.pc = p /\ stats'.current = kernelDrops /\ stats'.previous = stats.previous
      /\ stats'.pending = {t \in DropTypes : kernelDrops[t] # stats.previous[t]}
      BY Zenon
<1>2. stats' \in StatsRecord
      BY Zenon DEF DropInv, DropTypeInv, StatsRecord, StatsPCs
<1>3. ASSUME NEW t \in DropTypes PROVE NoticedUpTo(t)'
  <2>1. NoticedUpTo(t) /\ kernelDrops[t] \in Nat /\ stats.previous[t] \in Nat /\ stats.current[t] \in Nat
        BY Zenon DEF DropInv, DropTypeInv, StatsRecord, Counters
  <2> QED
      BY <1>1, <2>1 DEF NoticedUpTo
<1>4. session \notin BeforeReader
      BY Zenon DEF DropInv, DropTypeInv
<1> QED
    BY <1>2, <1>3, <1>4, Zenon DEF DropInv, DropTypeInv

\* emitDeltas: the first pending type is noticed up to the snapshot, or nothing
\* is; a failure leaves the rest pending for good.
LEMMA EmitNoticeStep ==
    ASSUME DropInv, NEW ok \in BOOLEAN, EmitNotice(ok)
    PROVE  DropInv'
<1> DEFINE T == CHOOSE t \in stats.pending : \A u \in stats.pending : t <= u
<1>1. /\ stats.pc \in {"emit", "emit_final"} /\ stats.pending # {} /\ stats.pending \subseteq DropTypes
      /\ UNCHANGED <<session, kernelDrops>> /\ session \notin BeforeReader
      BY Zenon DEF EmitNotice, DropInv, DropTypeInv, StatsRecord
<1>2. T \in stats.pending /\ T \in DropTypes
      BY <1>1, SmallestPending, SessionAssumption, Zenon
<1> HIDE DEF T
<1>3. /\ noticed[T] = stats.previous[T] /\ stats.previous[T] <= stats.current[T]
      /\ stats.previous[T] \in Nat /\ stats.current[T] \in Nat /\ stats.current[T] <= kernelDrops[T]
      BY <1>1, <1>2, Zenon DEF DropInv, DropTypeInv, NoticedUpTo, StatsRecord, Counters
<1>4. CASE UNCHANGED noticed /\ stats' = [stats EXCEPT !.pc = "done"]
      BY <1>1, <1>4, MonitorMoves, Zenon DEF StatsPCs
<1>5. CASE /\ noticed' = [noticed EXCEPT ![T] = stats.current[T]]
           /\ \/ stats' = [stats EXCEPT !.pending = @ \ {T}]
              \/ stats' = [stats EXCEPT !.pc = "done"]
  <2>1. /\ stats' \in StatsRecord /\ stats'.current = stats.current /\ stats'.previous = stats.previous
        /\ \/ stats'.pc = "done"
           \/ stats'.pc = stats.pc /\ stats'.pending = stats.pending \ {T}
        BY <1>5, Zenon DEF DropInv, DropTypeInv, StatsRecord, StatsPCs
  <2>2. noticed' \in Counters
        BY <1>2, <1>3, <1>5, Zenon DEF DropInv, DropTypeInv, Counters
  <2>3. ASSUME NEW t \in DropTypes PROVE NoticedUpTo(t)'
    <3>1. NoticedUpTo(t) /\ noticed'[t] = IF t = T THEN stats.current[T] ELSE noticed[t]
          BY <1>5, <2>3, Zenon DEF DropInv, DropTypeInv, Counters
    <3> QED
        BY <1>1, <2>1, <3>1, Zenon DEF NoticedUpTo
  <2> QED
      BY <1>1, <2>1, <2>2, <2>3, Zenon DEF DropInv, DropTypeInv
<1>6. noticed[T] + (IF stats.current[T] >= stats.previous[T] THEN stats.current[T] - stats.previous[T]
                    ELSE stats.current[T]) = stats.current[T]
      BY <1>3
<1>7. \/ /\ noticed' = [noticed EXCEPT ![T] = @ + (IF stats.current[T] >= stats.previous[T]
                                               THEN stats.current[T] - stats.previous[T] ELSE stats.current[T])]
         /\ IF ok THEN stats' = [stats EXCEPT !.pending = @ \ {T}] /\ UNCHANGED readerOpen ELSE StatsFail
      \/ ~ok /\ StatsFail /\ UNCHANGED noticed
      BY Zenon DEF EmitNotice, T
<1>8. CASE ~ok /\ StatsFail /\ UNCHANGED noticed
      BY <1>4, <1>8, Zenon DEF StatsFail
<1>9. CASE ~(~ok /\ StatsFail /\ UNCHANGED noticed)
  <2>1. noticed' = [noticed EXCEPT ![T] = stats.current[T]]
        BY <1>6, <1>7, <1>9, Zenon
  <2>2. stats' = [stats EXCEPT !.pending = @ \ {T}] \/ stats' = [stats EXCEPT !.pc = "done"]
        BY <1>7, <1>9, Zenon DEF StatsFail
  <2> QED
      BY <2>1, <2>2, <1>5, Zenon
<1> QED
    BY <1>8, <1>9, Zenon

LEMMA DropInvStep == DropInv /\ [SessionNext]_sessionVars => DropInv'
<1> SUFFICES ASSUME DropInv, [SessionNext]_sessionVars PROVE DropInv'
    BY Zenon
<1>1. CASE UNCHANGED dropVars /\ (session' \in BeforeReader => session \in BeforeReader)
      BY <1>1, Zenon DEF DropInv, DropTypeInv, NoticedUpTo, dropVars
<1>2. ASSUME NEW ok \in BOOLEAN, OpenReader(ok) PROVE DropInv'
  <2>1. session = "attach" /\ stats.pc = "none" /\ UNCHANGED <<kernelDrops, noticed>>
        BY <1>2, Zenon DEF OpenReader, DropInv, DropTypeInv, BeforeReader
  <2>2. /\ session' = (IF ok THEN "handlers" ELSE "unwind")
        /\ stats' = [stats EXCEPT !.pc = IF ok THEN "snapshot" ELSE "none"]
        BY <1>2, <2>1, Zenon DEF OpenReader
  <2> QED
      BY <2>1, <2>2, MonitorMoves, Zenon DEF StatsPCs, BeforeReader
<1>3. ASSUME NEW t \in DropTypes, KernelDrops(t) PROVE DropInv'
  <2>1. /\ UNCHANGED <<session, stats, noticed>> /\ kernelDrops' \in Counters
        /\ \A u \in DropTypes : kernelDrops[u] <= kernelDrops'[u] /\ kernelDrops[u] \in Nat /\ kernelDrops'[u] \in Nat
        BY <1>3 DEF KernelDrops, DropInv, DropTypeInv, Counters
  <2>2. ASSUME NEW u \in DropTypes PROVE NoticedUpTo(u)'
    <3>1. NoticedUpTo(u) /\ stats.current[u] \in Nat
          BY Zenon DEF DropInv, DropTypeInv, StatsRecord, Counters
    <3> QED
        BY <2>1, <3>1 DEF NoticedUpTo
  <2> QED
      BY <2>1, <2>2, Zenon DEF DropInv, DropTypeInv
<1>4. ASSUME NEW ok \in BOOLEAN, StatsSnapshot(ok) PROVE DropInv'
  <2>1. /\ stats.pc \in {"snapshot", "final"} /\ UNCHANGED <<session, kernelDrops, noticed>>
        /\ session \notin BeforeReader
        BY <1>4, Zenon DEF StatsSnapshot, DropInv, DropTypeInv
  <2>2. CASE ok
    <3>1. PICK p \in {"emit", "emit_final"} :
              stats' = [pc |-> p, current |-> kernelDrops, previous |-> stats.previous,
                        pending |-> {t \in DropTypes : kernelDrops[t] # stats.previous[t]}]
          BY <1>4, <2>2, Zenon DEF StatsSnapshot
    <3> QED
        BY <2>1, <3>1, SnapshotStep, Zenon
  <2>3. CASE ~ok
        BY <1>4, <2>1, <2>3, MonitorMoves, Zenon DEF StatsSnapshot, StatsFail, StatsPCs
  <2> QED
      BY <2>2, <2>3, Zenon
<1>5. CASE EmitDone
  <2>1. /\ stats.pc \in {"emit", "emit_final"} /\ stats.pending = {} /\ UNCHANGED <<session, kernelDrops, noticed>>
        /\ session \notin BeforeReader
        BY <1>5, Zenon DEF EmitDone, DropInv, DropTypeInv
  <2>2. /\ stats' \in StatsRecord /\ stats'.pc \in {"wait", "done"}
        /\ stats'.current = stats.current /\ stats'.previous = stats.current
        BY <1>5, Zenon DEF EmitDone, DropInv, DropTypeInv, StatsRecord, StatsPCs
  <2>3. ASSUME NEW t \in DropTypes PROVE NoticedUpTo(t)'
    <3>1. NoticedUpTo(t) /\ stats.current[t] \in Nat
          BY Zenon DEF DropInv, DropTypeInv, StatsRecord, Counters
    <3> QED
        BY <2>1, <2>2, <3>1 DEF NoticedUpTo
  <2> QED
      BY <2>1, <2>2, <2>3, Zenon DEF DropInv, DropTypeInv
<1>6. CASE StatsTick \/ StatsStop
  <2>1. PICK p \in {"snapshot", "final"} : stats' = [stats EXCEPT !.pc = p]
        BY <1>6, Zenon DEF StatsTick, StatsStop
  <2>2. stats.pc = "wait" /\ UNCHANGED <<session, kernelDrops, noticed>> /\ session \notin BeforeReader
        BY <1>6, Zenon DEF StatsTick, StatsStop, DropInv, DropTypeInv
  <2> QED
      BY <2>1, <2>2, MonitorMoves, Zenon DEF StatsPCs
<1>7. ASSUME \/ \E ok \in BOOLEAN : \/ LoadCollection(ok) \/ installNetworkEnforcement(ok) \/ OnScopeMapReady(ok)
                                    \/ AttachHook(ok) \/ BuildHandlers(ok) \/ BindListener(ok)
                                    \/ StopServer(ok) \/ StopPipeline(ok)
             \/ \E o \in {"decoded", "malformed", "error", "eof"} : StreamEvent(o)
             \/ \E kept \in SUBSET registered : StopScopes(kept)
             \/ \E s \in Surfaces : ServerFails(s)
             \/ StartServers \/ StreamEnded \/ Detach \/ StopMonitor \/ Unload
             \/ InterruptReader \/ MonitorExits \/ Signal \/ BeginRegistration \/ EndRegistration
      PROVE  UNCHANGED dropVars /\ (session' \in BeforeReader => session \in BeforeReader)
      BY <1>7, Zenon
         DEF LoadCollection, installNetworkEnforcement, OnScopeMapReady, AttachHook, BuildHandlers, BindListener,
             FailReady, StartServers, StreamEvent, StreamEnded, Detach, StopMonitor, StopServer, StopPipeline,
             StopScopes, Unload, InterruptReader, MonitorExits, Signal, ServerFails, BeginRegistration,
             EndRegistration, serveVars, BeforeReader
<1>8. CASE UNCHANGED sessionVars
      BY <1>1, <1>8, Zenon DEF sessionVars, dropVars
<1> QED
    BY <1>1, <1>2, <1>3, <1>4, <1>5, <1>6, <1>7, <1>8, EmitNoticeStep, Zenon
       DEF SessionNext, RunAuditStep, StatsStep

\* A drop is reported once: the notices of a type add up to a snapshot and never
\* exceed the kernel's count, for any set of types and any drops in between
\* (monitorDropCounters).
THEOREM DropsAreNoticedOnce == SessionSpec => []DropsNoticedOnce
<1>1. DropInv => DropsNoticedOnce
  <2> SUFFICES ASSUME DropInv, NEW t \in DropTypes
               PROVE  /\ noticed[t] \in {stats.previous[t], stats.current[t]}
                      /\ noticed[t] <= kernelDrops[t]
                      /\ stats.pc = "wait" => noticed[t] = stats.current[t]
      BY Zenon DEF DropsNoticedOnce
  <2> QED
      BY DEF DropInv, DropTypeInv, NoticedUpTo, StatsRecord, Counters
<1> QED
    BY <1>1, DropInvInit, DropInvStep, PTL DEF SessionSpec

-----------------------------------------------------------------------------
(* The task supervisor. *)

Preparing == {"make_leaf", "start_init", "stop_init", "join_leaf", "prepared", "register"}
AfterKill == {"kill_root", "kill_leaf", "finish", "closing", "done"}

SupTypeOK ==
    /\ launcher \in Preparing \cup AfterKill \cup
           {"confirm", "start", "wait_root", "wait_leaf", "terminate", "term_root", "term_leaf", "kill"}
    /\ stopFor \in {"unregistered", "registered"}
    /\ root \in {"none", "init", "stopped", "released", "exited"}
    /\ coreRun \in {"none", "active", "ended"}
    /\ outcome \in {"none", "success", "failure"}
    /\ leaf \in BOOLEAN /\ joined \in BOOLEAN /\ children \in BOOLEAN
    /\ confirmed \in BOOLEAN /\ finished \in BOOLEAN /\ killed \in BOOLEAN

\* Where the launcher is tells how far the task has come.
Progress ==
    /\ launcher \in Preparing \cup {"confirm", "start"} => root # "released" /\ ~children
    /\ launcher \in {"confirm", "start"} => coreRun # "none" /\ stopFor = "registered"
    /\ launcher = "start" => confirmed
    /\ launcher \in {"wait_leaf", "term_leaf", "kill_leaf", "finish"} => root = "exited"
    /\ launcher = "finish" => ~children
    /\ root = "released" => joined

\* What has been reported or written stays so.
Settled ==
    /\ finished => launcher \in {"closing", "done"} /\ root = "exited" /\ ~children
    /\ outcome = "success" => launcher \in {"closing", "done"} /\ coreRun = "ended"
                              /\ root = "exited" /\ ~children
    /\ killed => /\ launcher \in AfterKill /\ ~children /\ root # "released"
                 /\ joined => root \in {"none", "exited"}
    /\ launcher = "done" /\ killed => ~leaf

SupInv == SupTypeOK /\ Progress /\ Settled /\ ReleasedOnlyRegistered

LEMMA SupInvImplies == SupInv => ReleasedOnlyRegistered /\ ReportIsTrue
BY Zenon DEF SupInv, Settled, ReportIsTrue, LeafEmpty, SupTypeOK

LEMMA SupInvInit == SupervisorInit => SupInv
BY Zenon DEF SupervisorInit, SupInv, SupTypeOK, Progress, Settled, ReleasedOnlyRegistered, Preparing, AfterKill

LEMMA SupInvStep == SupInv /\ [SupervisorNext]_supVars => SupInv'
<1> SUFFICES ASSUME SupInv, [SupervisorNext]_supVars PROVE SupInv'
    BY Zenon
<1> USE DEF SupInv, SupTypeOK, Progress, Settled, ReleasedOnlyRegistered, Preparing, AfterKill
<1>1. CASE UNCHANGED supVars
      BY <1>1 DEF supVars
<1>2. CASE MakeLeaf \/ StartInit \/ StopInit \/ JoinLeaf
  <2>1. CASE MakeLeaf
        BY <2>1, Zenon DEF MakeLeaf, noteVars
  <2>2. CASE StartInit
        BY <2>2, Zenon DEF StartInit, noteVars
  <2>3. CASE StopInit
        BY <2>3, Zenon DEF StopInit, noteVars
  <2>4. CASE JoinLeaf
        BY <2>4, Zenon DEF JoinLeaf, noteVars
  <2> QED
      BY <1>2, <2>1, <2>2, <2>3, <2>4, Zenon
<1>3. CASE PrepareFails
      BY <1>3, Zenon DEF PrepareFails, Fail, taskVars
<1>4. CASE CheckPrepared
      BY <1>4, Zenon DEF CheckPrepared, Fail, taskVars
<1>5. CASE WaitRoot
      BY <1>5 DEF WaitRoot, WaitPoint, taskVars, noteVars
<1>6. CASE WaitLeaf
      BY <1>6 DEF WaitLeaf, LeafEmpty, AfterExit, taskVars
<1>7. CASE LeaveWait
      BY <1>7 DEF LeaveWait, Fail, taskVars
<1>8. CASE Terminate
      BY <1>8 DEF Terminate, taskVars, noteVars
<1>9. ASSUME NEW a \in BOOLEAN, NEW b \in BOOLEAN, Register(a, b) PROVE SupInv'
      BY <1>9, Zenon DEF Register, taskVars, noteVars
<1>10. ASSUME NEW a \in BOOLEAN, NEW b \in BOOLEAN, Finish(a, b) PROVE SupInv'
      BY <1>10, Zenon DEF Finish, taskVars
<1>11. ASSUME NEW a \in BOOLEAN, NEW b \in BOOLEAN, Kill(a, b) PROVE SupInv'
  <2>1. CASE a
        BY <1>11, <2>1, Zenon DEF Kill, KillScope
  <2>2. CASE ~a
        BY <1>11, <2>2 DEF Kill, KillScope
  <2> QED
      BY <2>1, <2>2, Zenon
<1>12. ASSUME NEW a \in BOOLEAN, NEW b \in BOOLEAN, CloseTask(a, b) PROVE SupInv'
  <2>1. CASE leaf /\ a
        BY <1>12, <2>1, Zenon DEF CloseTask, KillScope
  <2>2. CASE ~(leaf /\ a)
        BY <1>12, <2>2, Zenon DEF CloseTask, KillScope
  <2> QED
      BY <2>1, <2>2, Zenon
<1>13. ASSUME NEW ok \in BOOLEAN, Confirm(ok) PROVE SupInv'
      BY <1>13, Zenon DEF Confirm, ConfirmStopped, taskVars
<1>14. ASSUME NEW ok \in BOOLEAN, Start(ok) PROVE SupInv'
      BY <1>14, Zenon DEF Start, ConfirmStopped, noteVars
<1>15. CASE RootExits \/ RootDisturbed \/ WorkloadForks \/ ChildrenExit
  <2>1. CASE RootExits
        BY <2>1 DEF RootExits, noteVars
  <2>2. CASE RootDisturbed
        BY <2>2 DEF RootDisturbed, noteVars
  <2>3. CASE WorkloadForks
        BY <2>3, Zenon DEF WorkloadForks, noteVars
  <2>4. CASE ChildrenExit
        BY <2>4, ZenonT(30) DEF ChildrenExit, noteVars
  <2> QED
      BY <1>15, <2>1, <2>2, <2>3, <2>4, Zenon
<1>16. ASSUME NEW kills \in BOOLEAN, CoreEndsRun(kills) PROVE SupInv'
  <2>1. CASE kills
        BY <1>16, <2>1 DEF CoreEndsRun, noteVars
  <2>2. CASE ~kills
        BY <1>16, <2>2 DEF CoreEndsRun, noteVars
  <2> QED
      BY <2>1, <2>2, Zenon
<1> QED
    BY <1>1, <1>2, <1>3, <1>4, <1>5, <1>6, <1>7, <1>8, <1>9, <1>10, <1>11, <1>12, <1>13, <1>14,
       <1>15, <1>16, Zenon DEF SupervisorNext, LauncherStep

\* A task is released only after Core registered its leaf and the answer was
\* verified, whatever is lost or fails on the way (ContainerTask and supervise).
THEOREM ReleasesAreRegistered == SupervisorSpec => []ReleasedOnlyRegistered
BY SupInvImplies, SupInvInit, SupInvStep, PTL DEF SupervisorSpec

\* A Run is reported finished only when no process of it is left, and a success
\* is a Run that ended with its scope empty.
THEOREM ReportsAreTrue == SupervisorSpec => []ReportIsTrue
BY SupInvImplies, SupInvInit, SupInvStep, PTL DEF SupervisorSpec

-----------------------------------------------------------------------------
(* The live stream. *)

\* The least element of a set of natural numbers.
LEMMA MinIsLeast ==
    ASSUME NEW S \in SUBSET Nat, S # {}
    PROVE  Min(S) \in S /\ \A u \in S : Min(S) <= u
<1>1. PICK m \in S : \A u \in S : ~(<<u, m>> \in OpToRel(<, Nat))
      BY NatLessThanWellFounded, WFMin, Zenon
<1>2. \A u \in S : ~(u < m)
      BY <1>1, Zenon DEF OpToRel
<1>3. \A u \in S : m <= u
      BY <1>2
<1> QED
    BY <1>3, Zenon DEF Min

\* What waits for a viewer, in the replay and in the channel.
Waiting(v) == conn[v].replay \cup conn[v].messages

\* What the viewer has seen, as far as it knows, and what waits for it.
Seen(v) == Waiting(v) \cup (IF view[v].rows = {} THEN {} ELSE {view[v].cursor})

ConnRecord == [pc : {"none", "resync", "replay", "check", "select"}, replay : SUBSET Nat, messages : SUBSET Nat,
               overflow : BOOLEAN, subscribed : BOOLEAN]

ViewRecord == [cursor : Nat, rows : SUBSET Nat, old : BOOLEAN]

HubTypeInv ==
    /\ log \in Seq(Classes) /\ oldest \in Int
    /\ conn \in [Viewers -> ConnRecord]
    /\ view \in [Viewers -> ViewRecord]

\* The rows of this process end at the cursor.
RowsEndAtCursor(v) ==
    /\ view[v].rows \subseteq DOMAIN log
    /\ \A s \in view[v].rows : s <= view[v].cursor
    /\ view[v].rows # {} => view[v].cursor \in view[v].rows

\* What waits matches the filter, is newer than what was shown, and leaves no
\* gap; while the viewer is subscribed nothing after it is missing either.
WaitingIsWhole(v) ==
    /\ \A s \in Waiting(v) : s \in DOMAIN log /\ Matches(v, s)
    /\ view[v].rows # {} => \A s \in Waiting(v) : view[v].cursor < s
    /\ \A r \in conn[v].replay, s \in conn[v].messages : r < s
    /\ conn[v].pc \in {"check", "select"} => conn[v].replay = {}
    /\ \A a \in Seen(v), s \in Waiting(v), t \in DOMAIN log :
           a < t /\ t < s /\ Matches(v, t) => t \in Waiting(v)
    /\ conn[v].subscribed =>
           \A a \in Seen(v), t \in DOMAIN log : a < t /\ Matches(v, t) => t \in Waiting(v)

HubInv == HubTypeInv /\ \A v \in Viewers : RowsEndAtCursor(v) /\ WaitingIsWhole(v)

LEMMA HubInvInit == HubInit => HubInv
<1> SUFFICES ASSUME HubInit PROVE HubInv
    BY Zenon
<1>1. HubTypeInv
      BY DEF HubInit, HubTypeInv, ViewRecord, ConnRecord, NoConn
<1>2. ASSUME NEW v \in Viewers PROVE RowsEndAtCursor(v) /\ WaitingIsWhole(v)
  <2>1. conn[v] = NoConn /\ view[v].rows = {}
        BY Zenon DEF HubInit
  <2>2. conn[v].replay = {} /\ conn[v].messages = {} /\ Waiting(v) = {} /\ Seen(v) = {}
        BY <2>1 DEF NoConn, Waiting, Seen
  <2> QED
      BY <2>1, <2>2, Zenon DEF RowsEndAtCursor, WaitingIsWhole
<1> QED
    BY <1>1, <1>2, Zenon DEF HubInv

\* A handler that only moves on, or loses its subscription, keeps the promise.
LEMMA ViewerMoves ==
    ASSUME HubInv, NEW v \in Viewers, log' = log, view'[v] = view[v],
           conn'[v].replay = conn[v].replay, conn'[v].messages = conn[v].messages,
           conn'[v].subscribed => conn[v].subscribed,
           conn'[v].pc \in {"check", "select"} => conn[v].replay = {}
    PROVE  RowsEndAtCursor(v)' /\ WaitingIsWhole(v)'
<1>1. Waiting(v)' = Waiting(v) /\ Seen(v)' = Seen(v)
      BY Zenon DEF Waiting, Seen
<1>2. \A s : Matches(v, s)' <=> Matches(v, s)
      BY Zenon DEF Matches
<1>3. RowsEndAtCursor(v)'
      BY Zenon DEF HubInv, RowsEndAtCursor
<1>4. WaitingIsWhole(v)'
  <2>1. /\ \A s \in Waiting(v)' : s \in DOMAIN log' /\ Matches(v, s)'
        /\ view'[v].rows # {} => \A s \in Waiting(v)' : view'[v].cursor < s
        /\ \A r \in conn'[v].replay, s \in conn'[v].messages : r < s
        /\ conn'[v].pc \in {"check", "select"} => conn'[v].replay = {}
        BY <1>1, <1>2, Zenon DEF HubInv, WaitingIsWhole
  <2>2. ASSUME NEW a \in Seen(v)', NEW s \in Waiting(v)', NEW t \in DOMAIN log', a < t, t < s, Matches(v, t)'
        PROVE  t \in Waiting(v)'
    <3>1. a \in Seen(v) /\ s \in Waiting(v) /\ t \in DOMAIN log /\ Matches(v, t)
          BY <1>1, <1>2, <2>2, Zenon
    <3>2. t \in Waiting(v)
          BY <2>2, <3>1, Zenon DEF HubInv, WaitingIsWhole
    <3> QED
        BY <1>1, <3>2, Zenon
  <2>3. ASSUME conn'[v].subscribed, NEW a \in Seen(v)', NEW t \in DOMAIN log', a < t, Matches(v, t)'
        PROVE  t \in Waiting(v)'
    <3>1. a \in Seen(v) /\ t \in DOMAIN log /\ Matches(v, t) /\ conn[v].subscribed
          BY <1>1, <1>2, <2>3, Zenon
    <3>2. t \in Waiting(v)
          BY <2>3, <3>1, Zenon DEF HubInv, WaitingIsWhole
    <3> QED
        BY <1>1, <3>2, Zenon
  <2> QED
      BY <2>1, <2>2, <2>3, Zenon DEF WaitingIsWhole
<1> QED
    BY <1>3, <1>4, Zenon

\* A viewer that no step touched.
LEMMA ViewerFrame ==
    ASSUME HubInv, NEW v \in Viewers, log' = log, conn'[v] = conn[v], view'[v] = view[v]
    PROVE  RowsEndAtCursor(v)' /\ WaitingIsWhole(v)'
<1>1. conn[v].pc \in {"check", "select"} => conn[v].replay = {}
      BY Zenon DEF HubInv, WaitingIsWhole
<1> QED
    BY <1>1, ViewerMoves, Zenon

\* A viewer with nothing on the way.
LEMMA ViewerGone ==
    ASSUME NEW v \in Viewers, RowsEndAtCursor(v)',
           conn'[v].replay = {}, conn'[v].messages = {}, ~conn'[v].subscribed
    PROVE  WaitingIsWhole(v)'
<1>1. Waiting(v)' = {}
      BY Zenon DEF Waiting
<1> QED
    BY <1>1, Zenon DEF WaitingIsWhole

\* The fields of a viewer's records.
LEMMA HubTypes ==
    ASSUME HubTypeInv, NEW v \in Viewers
    PROVE  /\ conn[v] \in ConnRecord /\ conn[v].replay \in SUBSET Nat /\ conn[v].messages \in SUBSET Nat
           /\ view[v].cursor \in Nat /\ view[v].rows \in SUBSET Nat /\ Waiting(v) \in SUBSET Nat
           /\ Seen(v) \in SUBSET Nat /\ latest \in Nat /\ DOMAIN log = 1 .. latest
<1>1. /\ conn[v] \in ConnRecord /\ conn[v].replay \in SUBSET Nat /\ conn[v].messages \in SUBSET Nat
      /\ view[v].cursor \in Nat /\ view[v].rows \in SUBSET Nat
      BY Zenon DEF HubTypeInv, ViewRecord, ConnRecord
<1>2. latest \in Nat /\ DOMAIN log = 1 .. latest
      BY DEF HubTypeInv, latest
<1> QED
    BY <1>1, <1>2, Zenon DEF Waiting, Seen

\* The next message of a viewer is shown: nothing older waits.
LEMMA ShowKeeps ==
    ASSUME HubInv, NEW v \in Viewers, NEW s \in Waiting(v), \A t \in Waiting(v) : s <= t,
           log' = log, view' = [view EXCEPT ![v].cursor = s, ![v].rows = @ \cup {s}],
           conn'[v].replay \subseteq conn[v].replay, conn'[v].messages \subseteq conn[v].messages,
           Waiting(v)' = Waiting(v) \ {s}, conn'[v].subscribed = conn[v].subscribed,
           conn'[v].pc \in {"check", "select"} => conn[v].pc \in {"check", "select"}
    PROVE  RowsEndAtCursor(v)' /\ WaitingIsWhole(v)'
<1>1. /\ Waiting(v) \in SUBSET Nat /\ view[v].rows \in SUBSET Nat /\ view[v].cursor \in Nat
      /\ Seen(v) \in SUBSET Nat /\ latest \in Nat /\ DOMAIN log = 1 .. latest
      BY HubTypes, Zenon DEF HubInv
<1>2. view'[v].cursor = s /\ view'[v].rows = view[v].rows \cup {s}
      BY Zenon DEF HubInv, HubTypeInv, ViewRecord
<1>3. Seen(v)' = (Waiting(v) \ {s}) \cup {s}
      BY <1>2, Zenon DEF Seen
<1>4. Seen(v)' = Waiting(v) /\ s \in Seen(v) /\ Waiting(v) \subseteq Seen(v)
      BY <1>3, Zenon DEF Seen
<1>5. \A t : Matches(v, t)' <=> Matches(v, t)
      BY Zenon DEF Matches
<1>6. RowsEndAtCursor(v)'
  <2>1. s \in DOMAIN log
        BY Zenon DEF HubInv, WaitingIsWhole
  <2>2. ASSUME NEW t \in view[v].rows PROVE t <= s
    <3>1. t <= view[v].cursor /\ view[v].cursor < s
          BY Zenon DEF HubInv, RowsEndAtCursor, WaitingIsWhole
    <3> QED
        BY <1>1, <3>1
  <2>3. s <= s
        BY <1>1, Zenon
  <2> QED
      BY <1>2, <2>1, <2>2, <2>3, Zenon DEF HubInv, RowsEndAtCursor
<1>7. WaitingIsWhole(v)'
  <2>1. \A t \in Waiting(v)' : t \in DOMAIN log' /\ Matches(v, t)'
        BY <1>5, Zenon DEF HubInv, WaitingIsWhole
  <2>2. \A t \in Waiting(v)' : s < t
        BY <1>1
  <2>3. \A r \in conn'[v].replay, t \in conn'[v].messages : r < t
        BY Zenon DEF HubInv, WaitingIsWhole
  <2>4. conn'[v].pc \in {"check", "select"} => conn'[v].replay = {}
        BY Zenon DEF HubInv, WaitingIsWhole
  <2>5. ASSUME NEW a \in Seen(v)', NEW u \in Waiting(v)', NEW t \in DOMAIN log', a < t, t < u, Matches(v, t)'
        PROVE  t \in Waiting(v)'
    <3>1. t \in Waiting(v)
          BY <1>4, <1>5, <2>5, Zenon DEF HubInv, WaitingIsWhole
    <3>2. t # s
      <4>1. s <= a
            BY <1>4, Zenon
      <4> QED
          BY <1>1, <1>4, <2>5, <4>1
    <3> QED
        BY <3>1, <3>2, Zenon
  <2>6. ASSUME conn'[v].subscribed, NEW a \in Seen(v)', NEW t \in DOMAIN log', a < t, Matches(v, t)'
        PROVE  t \in Waiting(v)'
    <3>1. t \in Waiting(v)
          BY <1>4, <1>5, <2>6, ZenonT(30) DEF HubInv, WaitingIsWhole
    <3>2. t # s
      <4>1. s <= a
            BY <1>4, Zenon
      <4> QED
          BY <1>1, <1>4, <2>6, <4>1
    <3> QED
        BY <3>1, <3>2, Zenon
  <2> QED
      BY <1>2, <2>1, <2>2, <2>3, <2>4, <2>5, <2>6, ZenonT(30) DEF WaitingIsWhole
<1> QED
    BY <1>6, <1>7, Zenon

\* A viewer whose rows were cleared.
LEMMA ViewerCleared ==
    ASSUME NEW v \in Viewers, view'[v].rows = {},
           conn'[v].replay = {}, conn'[v].messages = {}
    PROVE  RowsEndAtCursor(v)' /\ WaitingIsWhole(v)'
<1>1. Waiting(v)' = {} /\ Seen(v)' = {}
      BY Zenon DEF Waiting, Seen
<1>2. WaitingIsWhole(v)'
      BY <1>1, Zenon DEF WaitingIsWhole
<1>3. RowsEndAtCursor(v)'
      BY Zenon DEF RowsEndAtCursor
<1> QED
    BY <1>2, <1>3, Zenon

\* Publish gives a subscriber the new message or detaches it.
LEMMA PublishKeeps ==
    ASSUME HubInv, NEW k \in Classes, Publish(k), NEW v \in Viewers
    PROVE  RowsEndAtCursor(v)' /\ WaitingIsWhole(v)'
<1>0. PICK n : n = latest + 1
      BY Zenon
<1>1. /\ conn[v] \in ConnRecord /\ conn[v].replay \in SUBSET Nat /\ conn[v].messages \in SUBSET Nat
      /\ view[v].cursor \in Nat /\ view[v].rows \in SUBSET Nat /\ Waiting(v) \in SUBSET Nat
      /\ Seen(v) \in SUBSET Nat /\ latest \in Nat /\ DOMAIN log = 1 .. latest
      BY HubTypes, Zenon DEF HubInv
<1>2. /\ log' = Append(log, k) /\ DOMAIN log' = DOMAIN log \cup {n} /\ log'[n] = k
      /\ \A s \in DOMAIN log : log'[s] = log[s]
      BY <1>0 DEF Publish, HubInv, HubTypeInv, latest
<1>3. view' = view /\ conn'[v] = offer(v, conn[v], n, k)
      BY <1>0, Zenon DEF Publish
<1>4. (\A s \in DOMAIN log : Matches(v, s)' <=> Matches(v, s)) /\ (Matches(v, n)' <=> k \in Wanted[v])
      BY <1>2, Zenon DEF Matches
<1>5. RowsEndAtCursor(v)'
      BY <1>2, <1>3, Zenon DEF HubInv, RowsEndAtCursor
<1>6. RowsEndAtCursor(v) /\ WaitingIsWhole(v)
      BY Zenon DEF HubInv
<1>7. \A a \in Seen(v) : a < n
  <2>1. \A a \in Seen(v) : a \in DOMAIN log
        BY <1>6, Zenon DEF Seen, WaitingIsWhole, RowsEndAtCursor
  <2> QED
      BY <1>0, <1>1, <2>1
<1>8. CASE ~conn[v].subscribed \/ (k \in Wanted[v] /\ ~(Cardinality(conn[v].messages) < ClientQueue))
  <2>1. /\ conn'[v].replay = conn[v].replay /\ conn'[v].messages = conn[v].messages
        /\ conn'[v].pc = conn[v].pc /\ ~conn'[v].subscribed
        BY <1>1, <1>3, <1>8, Zenon DEF offer, ConnRecord
  <2>2. Waiting(v)' = Waiting(v) /\ Seen(v)' = Seen(v)
        BY <1>3, <2>1, Zenon DEF Waiting, Seen
  <2>3. /\ \A s \in Waiting(v)' : s \in DOMAIN log' /\ Matches(v, s)'
        /\ view'[v].rows # {} => \A s \in Waiting(v)' : view'[v].cursor < s
        /\ \A r \in conn'[v].replay, s \in conn'[v].messages : r < s
        /\ conn'[v].pc \in {"check", "select"} => conn'[v].replay = {}
        BY <1>2, <1>3, <1>4, <1>6, <2>1, <2>2, Zenon DEF WaitingIsWhole
  <2>4. ASSUME NEW a \in Seen(v)', NEW s \in Waiting(v)', NEW t \in DOMAIN log', a < t, t < s, Matches(v, t)'
        PROVE  t \in Waiting(v)'
    <3>1. a \in Seen(v) /\ s \in Waiting(v) /\ s \in Seen(v)
          BY <2>2, Zenon DEF Seen
    <3>2. t \in DOMAIN log
          BY <1>0, <1>1, <1>2, <1>7, <2>4, <3>1
    <3> QED
        BY <1>4, <1>6, <2>2, <2>4, <3>1, <3>2, ZenonT(30) DEF WaitingIsWhole
  <2> QED
      BY <1>5, <2>1, <2>3, <2>4, Zenon DEF WaitingIsWhole
<1>9. CASE conn[v].subscribed /\ k \notin Wanted[v]
  <2>1. conn'[v] = conn[v]
        BY <1>3, <1>9, Zenon DEF offer
  <2>2. Waiting(v)' = Waiting(v) /\ Seen(v)' = Seen(v)
        BY <1>3, <2>1, Zenon DEF Waiting, Seen
  <2>3. /\ \A s \in Waiting(v)' : s \in DOMAIN log' /\ Matches(v, s)'
        /\ view'[v].rows # {} => \A s \in Waiting(v)' : view'[v].cursor < s
        /\ \A r \in conn'[v].replay, s \in conn'[v].messages : r < s
        /\ conn'[v].pc \in {"check", "select"} => conn'[v].replay = {}
        BY <1>2, <1>3, <1>4, <1>6, <2>1, <2>2, Zenon DEF WaitingIsWhole
  <2>4. ASSUME NEW a \in Seen(v)', NEW t \in DOMAIN log', a < t, Matches(v, t)'
        PROVE  t \in Waiting(v)'
    <3>1. a \in Seen(v) /\ t \in DOMAIN log
          BY <1>2, <1>4, <1>9, <2>2, <2>4, Zenon
    <3> QED
        BY <1>4, <1>6, <1>9, <2>2, <2>4, <3>1, Zenon DEF WaitingIsWhole
  <2> QED
      BY <1>5, <2>3, <2>4, Zenon DEF WaitingIsWhole
<1>10. CASE conn[v].subscribed /\ k \in Wanted[v] /\ Cardinality(conn[v].messages) < ClientQueue
  <2>1. /\ conn'[v].replay = conn[v].replay /\ conn'[v].messages = conn[v].messages \cup {n}
        /\ conn'[v].pc = conn[v].pc
        BY <1>1, <1>3, <1>10, Zenon DEF offer, ConnRecord
  <2>2. Waiting(v)' = Waiting(v) \cup {n} /\ Seen(v)' = Seen(v) \cup {n}
        BY <1>3, <2>1, Zenon DEF Waiting, Seen
  <2>3. /\ \A s \in Waiting(v)' : s \in DOMAIN log' /\ Matches(v, s)'
        /\ conn'[v].pc \in {"check", "select"} => conn'[v].replay = {}
        BY <1>2, <1>4, <1>6, <1>10, <2>1, <2>2, Zenon DEF WaitingIsWhole
  <2>4. view'[v].rows # {} => \A s \in Waiting(v)' : view'[v].cursor < s
    <3>1. view[v].rows # {} => view[v].cursor \in Seen(v)
          BY Zenon DEF Seen
    <3> QED
        BY <1>3, <1>6, <1>7, <2>2, <3>1, Zenon DEF WaitingIsWhole
  <2>5. \A r \in conn'[v].replay, s \in conn'[v].messages : r < s
    <3>1. \A r \in conn[v].replay : r \in Seen(v)
          BY Zenon DEF Seen, Waiting
    <3> QED
        BY <1>6, <1>7, <2>1, <3>1, Zenon DEF WaitingIsWhole
  <2>6. ASSUME NEW a \in Seen(v)', NEW t \in DOMAIN log', a < t, Matches(v, t)'
        PROVE  t \in Waiting(v)'
    <3>1. CASE t = n
          BY <2>2, <3>1, Zenon
    <3>2. CASE t # n
      <4>1. t \in DOMAIN log
            BY <1>2, <3>2, Zenon
      <4>2. a \in Seen(v)
        <5>1. a # n
              BY <1>0, <1>1, <2>6, <4>1
        <5> QED
            BY <2>2, <5>1, Zenon
      <4>3. t \in Waiting(v)
            BY <1>4, <1>6, <1>10, <2>6, <4>1, <4>2, Zenon DEF WaitingIsWhole
      <4> QED
          BY <2>2, <4>3, Zenon
    <3> QED
        BY <3>1, <3>2, Zenon
  <2> QED
      BY <1>5, <2>3, <2>4, <2>5, <2>6, Zenon DEF WaitingIsWhole
<1> QED
    BY <1>8, <1>9, <1>10, Zenon

\* A replay from a cursor that the history reaches is everything after it.
LEMMA ConnectKeeps ==
    ASSUME HubInv, NEW v \in Viewers, NEW first \in Pruned, log' = log, view' = view,
           conn'[v] = subscribe(v, view[v].cursor, first)
    PROVE  RowsEndAtCursor(v)' /\ WaitingIsWhole(v)'
<1>0. PICK c : c = view[v].cursor
      BY Zenon
<1>1. /\ c \in Nat /\ latest \in Nat /\ DOMAIN log = 1 .. latest /\ first \in Int
      /\ RowsEndAtCursor(v)
      BY <1>0, HubTypes DEF HubInv, HubTypeInv, Pruned
<1>2. RowsEndAtCursor(v)'
      BY <1>1, Zenon DEF RowsEndAtCursor
<1>3. CASE hubDown \/ (c # 0 /\ expired(c, first))
  <2>1. conn'[v] = [NoConn EXCEPT !.pc = "resync"]
        BY <1>0, <1>3, Zenon DEF subscribe
  <2>2. conn'[v].replay = {} /\ conn'[v].messages = {} /\ ~conn'[v].subscribed
        BY <2>1, Zenon DEF NoConn
  <2> QED
      BY <1>2, <2>2, ViewerGone, Zenon
<1>4. CASE ~hubDown /\ c = 0
  <2>1. conn'[v] = [NoConn EXCEPT !.pc = "replay", !.subscribed = TRUE, !.replay = {}]
        BY <1>0, <1>4, Zenon DEF subscribe
  <2>2. conn'[v].replay = {} /\ conn'[v].messages = {}
        BY <2>1, Zenon DEF NoConn
  <2>3. view[v].rows = {}
        BY <1>0, <1>1, <1>4 DEF RowsEndAtCursor
  <2> QED
      BY <2>2, <2>3, ViewerCleared, Zenon
<1>5. CASE ~hubDown /\ c # 0 /\ ~expired(c, first)
  <2>1. PICK R : R = {s \in first .. latest : s > c /\ Matches(v, s)}
        BY Zenon
  <2>2. conn'[v] = [NoConn EXCEPT !.pc = "replay", !.subscribed = TRUE, !.replay = R]
        BY <1>0, <1>5, <2>1, Zenon DEF subscribe
  <2>3. conn'[v].replay = R /\ conn'[v].messages = {} /\ conn'[v].pc = "replay"
        BY <2>2, Zenon DEF NoConn
  <2>4. Waiting(v)' = R /\ Seen(v)' \subseteq R \cup {c} /\ view'[v].cursor = c
        BY <1>0, <2>3, Zenon DEF Waiting, Seen
  <2>5. \A s : Matches(v, s)' <=> Matches(v, s)
        BY Zenon DEF Matches
  <2>6. ASSUME NEW s \in R PROVE s \in DOMAIN log /\ Matches(v, s) /\ c < s
        BY <1>1, <2>1
  <2>7. ASSUME NEW a \in Seen(v)', NEW t \in DOMAIN log, a < t, Matches(v, t) PROVE t \in R
    <3>1. c <= a /\ a \in Int
          BY <1>1, <2>4, <2>6
    <3>2. first <= t /\ t <= latest /\ t > c
          BY <1>1, <1>5, <2>7, <3>1 DEF expired
    <3> QED
        BY <1>1, <2>1, <2>7, <3>2
  <2>8. WaitingIsWhole(v)'
    <3>1. /\ \A s \in Waiting(v)' : s \in DOMAIN log' /\ Matches(v, s)'
          /\ view'[v].rows # {} => \A s \in Waiting(v)' : view'[v].cursor < s
          BY <2>4, <2>5, <2>6, Zenon
    <3>2. /\ \A r \in conn'[v].replay, s \in conn'[v].messages : r < s
          /\ conn'[v].pc \in {"check", "select"} => conn'[v].replay = {}
          BY <2>3, Zenon
    <3>3. \A a \in Seen(v)', t \in DOMAIN log' : a < t /\ Matches(v, t)' => t \in Waiting(v)'
          BY <2>4, <2>5, <2>7, Zenon
    <3> QED
        BY <3>1, <3>2, <3>3, Zenon DEF WaitingIsWhole
  <2> QED
      BY <1>2, <2>8, Zenon
<1> QED
    BY <1>3, <1>4, <1>5, Zenon

\* Every step keeps the types.
LEMMA HubTypeStep == ASSUME HubInv, HubNext PROVE HubTypeInv'
<1>1. HubTypeInv
      BY Zenon DEF HubInv
<1>2. NoConn \in ConnRecord
      BY Zenon DEF NoConn, ConnRecord
<1>3. ASSUME NEW k \in Classes, Publish(k) PROVE HubTypeInv'
  <2>1. log' \in Seq(Classes) /\ view' = view /\ latest \in Nat
        BY <1>1, <1>3 DEF Publish, HubTypeInv, latest
  <2>2. oldest' \in Int
    <3>1. PICK first \in Pruned : oldest' = Max({first, latest + 2 - Capacity})
          BY <1>3, Zenon DEF Publish
    <3>2. PICK a, b : a = first /\ b = latest + 2 - Capacity
          BY Zenon
    <3>3. a \in Int /\ b \in Int
          BY <1>1, <2>1, <3>2, HubAssumption DEF Pruned, HubTypeInv
    <3>4. \E x \in {a, b} : \A y \in {a, b} : x >= y
          BY <3>3
    <3>5. Max({a, b}) \in {a, b}
          BY <3>4, Zenon DEF Max
    <3> QED
        BY <3>1, <3>2, <3>3, <3>5, Zenon
  <2>3. ASSUME NEW v \in Viewers PROVE offer(v, conn[v], latest + 1, k) \in ConnRecord
    <3>1. PICK c : c = conn[v]
          BY Zenon
    <3>2. c \in ConnRecord /\ latest + 1 \in Nat
          BY <1>1, <2>1, <3>1, HubTypes
    <3>3. [c EXCEPT !.messages = @ \cup {latest + 1}] \in ConnRecord
          BY <3>2, Zenon DEF ConnRecord
    <3>4. [c EXCEPT !.overflow = TRUE, !.subscribed = FALSE] \in ConnRecord
          BY <3>2, Zenon DEF ConnRecord
    <3> QED
        BY <3>1, <3>2, <3>3, <3>4, Zenon DEF offer
  <2>4. conn' \in [Viewers -> ConnRecord]
        BY <1>3, <2>3, Zenon DEF Publish
  <2> QED
      BY <1>1, <2>1, <2>2, <2>4, Zenon DEF HubTypeInv
<1>4. ASSUME NEW v \in Viewers, Connect(v) PROVE HubTypeInv'
  <2>1. PICK first \in Pruned : oldest' = first /\ conn' = [conn EXCEPT ![v] = subscribe(v, view[v].cursor, first)]
        BY <1>4, Zenon DEF Connect
  <2>2. first \in Int /\ latest \in Nat /\ view[v].cursor \in Nat
        BY <1>1, HubTypes DEF Pruned, HubTypeInv, latest
  <2>3. {s \in first .. latest : s > view[v].cursor /\ Matches(v, s)} \in SUBSET Nat
        BY <2>2
  <2>4. subscribe(v, view[v].cursor, first) \in ConnRecord
        BY <1>2, <2>3, Zenon DEF subscribe, ConnRecord, NoConn
  <2> QED
      BY <1>1, <1>4, <2>1, <2>2, <2>4, Zenon DEF HubTypeInv, Connect
<1>5. ASSUME NEW v \in Viewers, SendResync(v) \/ Disconnect(v) \/ SlowClient(v) PROVE HubTypeInv'
  <2>1. conn' \in [Viewers -> ConnRecord]
    <3>1. conn' = [conn EXCEPT ![v] = NoConn]
          BY <1>5, Zenon DEF SendResync, Disconnect, SlowClient
    <3> QED
        BY <1>1, <1>2, <3>1, Zenon DEF HubTypeInv
  <2>2. view' \in [Viewers -> ViewRecord]
    <3>1. view' = view \/ view' = [view EXCEPT ![v] = [cursor |-> 0, rows |-> {}, old |-> FALSE]]
          BY <1>5, Zenon DEF SendResync, Disconnect, SlowClient, ShowResync
    <3>2. [cursor |-> 0, rows |-> {}, old |-> FALSE] \in ViewRecord
          BY Zenon DEF ViewRecord
    <3> QED
        BY <1>1, <3>1, <3>2, Zenon DEF HubTypeInv
  <2>3. log' = log /\ (oldest' = oldest \/ oldest' \in Pruned)
        BY <1>5, Zenon DEF SendResync, Disconnect, SlowClient
  <2>4. oldest' \in Int
        BY <1>1, <2>3 DEF HubTypeInv, Pruned
  <2> QED
      BY <1>1, <2>1, <2>2, <2>3, <2>4, Zenon DEF HubTypeInv
<1>6. ASSUME NEW v \in Viewers, SendReplay(v) \/ CheckOverflow(v) \/ SendMessage(v) PROVE HubTypeInv'
  <2>1. conn[v].replay \in SUBSET Nat /\ conn[v].messages \in SUBSET Nat /\ conn[v] \in ConnRecord
        BY <1>1, HubTypes, Zenon
  <2>2. conn[v].replay # {} => Min(conn[v].replay) \in Nat
        BY <2>1, MinIsLeast, Zenon
  <2>3. conn[v].messages # {} => Min(conn[v].messages) \in Nat
        BY <2>1, MinIsLeast, Zenon
  <2>4. log' = log /\ oldest' = oldest
        BY <1>6, Zenon DEF SendReplay, CheckOverflow, SendMessage
  <2>5. view' \in [Viewers -> ViewRecord]
    <3>1. ASSUME NEW s \in Nat, ShowMessage(v, s) PROVE view' \in [Viewers -> ViewRecord]
          BY <1>1, <3>1, Zenon DEF HubTypeInv, ViewRecord, ShowMessage
    <3>2. view' = view \/ \E s \in Nat : ShowMessage(v, s)
          BY <1>6, <2>2, <2>3, Zenon DEF SendReplay, CheckOverflow, SendMessage
    <3> QED
        BY <1>1, <3>1, <3>2, Zenon DEF HubTypeInv
  <2>6. conn' \in [Viewers -> ConnRecord]
    <3>1. CASE SendReplay(v)
      <4>1. [conn[v] EXCEPT !.replay = @ \ {Min(@)}] \in ConnRecord /\ [conn[v] EXCEPT !.pc = "check"] \in ConnRecord
            BY <2>1, Zenon DEF ConnRecord
      <4> QED
          BY <1>1, <3>1, <4>1, Zenon DEF SendReplay, HubTypeInv
    <3>2. CASE CheckOverflow(v)
      <4>1. [conn[v] EXCEPT !.pc = "select"] \in ConnRecord
            BY <2>1, Zenon DEF ConnRecord
      <4> QED
          BY <1>1, <3>2, <4>1, Zenon DEF CheckOverflow, HubTypeInv
    <3>3. CASE SendMessage(v)
      <4>1. [conn[v] EXCEPT !.messages = @ \ {Min(@)}, !.pc = "check"] \in ConnRecord
            BY <2>1, Zenon DEF ConnRecord
      <4> QED
          BY <1>1, <3>3, <4>1, Zenon DEF SendMessage, HubTypeInv
    <3> QED
        BY <1>6, <3>1, <3>2, <3>3, Zenon
  <2> QED
      BY <1>1, <2>4, <2>5, <2>6, Zenon DEF HubTypeInv
<1>7. CASE ShutHub
  <2>1. ASSUME NEW v \in Viewers PROVE [conn[v] EXCEPT !.subscribed = FALSE] \in ConnRecord
        BY <1>1, Zenon DEF HubTypeInv, ConnRecord
  <2>2. /\ conn' = [v \in Viewers |-> [conn[v] EXCEPT !.subscribed = FALSE]]
        /\ log' = log /\ oldest' = oldest /\ view' = view
        BY <1>7, Zenon DEF ShutHub
  <2>3. conn' \in [Viewers -> ConnRecord]
        BY <2>1, <2>2, Zenon
  <2> QED
      BY <1>1, <2>2, <2>3, Zenon DEF HubTypeInv
<1>8. CASE RestartCore
  <2>1. ASSUME NEW v \in Viewers
        PROVE  [view[v] EXCEPT !.old = @ \/ view[v].rows # {}, !.rows = {}] \in ViewRecord
        BY <1>1, Zenon DEF HubTypeInv, ViewRecord
  <2>2. view' \in [Viewers -> ViewRecord]
        BY <1>8, <2>1, Zenon DEF RestartCore
  <2>3. conn' \in [Viewers -> ConnRecord]
        BY <1>2, <1>8, Zenon DEF RestartCore
  <2>4. log' = <<>> /\ oldest' = 1
        BY <1>8, Zenon DEF RestartCore
  <2>5. log' \in Seq(Classes) /\ oldest' \in Int
        BY <2>4
  <2> QED
      BY <2>2, <2>3, <2>5, Zenon DEF HubTypeInv
<1> QED
    BY <1>3, <1>4, <1>5, <1>6, <1>7, <1>8, Zenon DEF HubNext, HandlerStep

\* The next message of a viewer, from its replay or from its channel.
NextMessage(v, s) ==
    /\ s \in Waiting(v) /\ \A t \in Waiting(v) : s <= t
    /\ ShowMessage(v, s) /\ log' = log
    /\ conn'[v].replay \subseteq conn[v].replay /\ conn'[v].messages \subseteq conn[v].messages
    /\ Waiting(v)' = Waiting(v) \ {s} /\ conn'[v].subscribed = conn[v].subscribed
    /\ conn'[v].pc \in {"check", "select"} => conn[v].pc \in {"check", "select"}

LEMMA ReplayIsNext ==
    ASSUME HubInv, NEW v \in Viewers, SendReplay(v), conn[v].replay # {}
    PROVE  NextMessage(v, Min(conn[v].replay))
<1>0. PICK s : s = Min(conn[v].replay)
      BY Zenon
<1>1. /\ conn[v] \in ConnRecord /\ conn \in [Viewers -> ConnRecord] /\ conn[v].replay \in SUBSET Nat
      /\ conn[v].messages \in SUBSET Nat
      BY HubTypes, Zenon DEF HubInv, HubTypeInv
<1>2. s \in conn[v].replay /\ \A t \in conn[v].replay : s <= t
      BY <1>0, <1>1, MinIsLeast, Zenon
<1>3. \A t \in conn[v].messages : s < t
      BY <1>2, Zenon DEF HubInv, WaitingIsWhole
<1>4. /\ ShowMessage(v, s) /\ log' = log
      /\ conn' = [conn EXCEPT ![v].replay = @ \ {s}]
      BY <1>0, Zenon DEF SendReplay
<1>5. /\ conn'[v].replay = conn[v].replay \ {s} /\ conn'[v].messages = conn[v].messages
      /\ conn'[v].subscribed = conn[v].subscribed /\ conn'[v].pc = conn[v].pc
      BY <1>1, <1>4, Zenon DEF ConnRecord
<1>6. s \notin conn[v].messages /\ \A t \in Waiting(v) : s <= t
      BY <1>1, <1>2, <1>3 DEF Waiting
<1>7. Waiting(v)' = Waiting(v) \ {s} /\ s \in Waiting(v)
      BY <1>2, <1>5, <1>6, Zenon DEF Waiting
<1> QED
    BY <1>0, <1>4, <1>5, <1>6, <1>7, Zenon DEF NextMessage

LEMMA MessageIsNext ==
    ASSUME HubInv, NEW v \in Viewers, SendMessage(v)
    PROVE  NextMessage(v, Min(conn[v].messages))
<1>0. PICK s : s = Min(conn[v].messages)
      BY Zenon
<1>1. /\ conn[v] \in ConnRecord /\ conn \in [Viewers -> ConnRecord] /\ conn[v].messages \in SUBSET Nat
      BY HubTypes, Zenon DEF HubInv, HubTypeInv
<1>2. conn[v].messages # {} /\ conn[v].pc = "select" /\ conn[v].replay = {}
      BY Zenon DEF SendMessage, HubInv, WaitingIsWhole
<1>3. s \in conn[v].messages /\ \A t \in conn[v].messages : s <= t
      BY <1>0, <1>1, <1>2, MinIsLeast, Zenon
<1>4. /\ ShowMessage(v, s) /\ log' = log
      /\ conn' = [conn EXCEPT ![v].messages = @ \ {s}, ![v].pc = "check"]
      BY <1>0, Zenon DEF SendMessage
<1>5. /\ conn'[v].messages = conn[v].messages \ {s} /\ conn'[v].replay = conn[v].replay
      /\ conn'[v].subscribed = conn[v].subscribed
      BY <1>1, <1>4, Zenon DEF ConnRecord
<1>6. Waiting(v) = conn[v].messages /\ Waiting(v)' = Waiting(v) \ {s}
      BY <1>2, <1>5, Zenon DEF Waiting
<1> QED
    BY <1>0, <1>2, <1>3, <1>4, <1>5, <1>6, Zenon DEF NextMessage

\* A step of one viewer leaves the others alone.
LEMMA OtherViewers ==
    ASSUME HubInv, NEW v \in Viewers, Connect(v) \/ HandlerStep(v) \/ Disconnect(v),
           NEW w \in Viewers, w # v
    PROVE  log' = log /\ conn'[w] = conn[w] /\ view'[w] = view[w]
<1>1. conn \in [Viewers -> ConnRecord] /\ view \in [Viewers -> ViewRecord]
      BY Zenon DEF HubInv, HubTypeInv
<1>2. CASE Connect(v) \/ Disconnect(v)
      BY <1>1, <1>2, Zenon DEF Connect, Disconnect
<1>3. CASE SendResync(v) \/ SlowClient(v)
      BY <1>1, <1>3, Zenon DEF SendResync, SlowClient, ShowResync
<1>4. CASE SendReplay(v)
      BY <1>1, <1>4, Zenon DEF SendReplay, ShowMessage
<1>5. CASE CheckOverflow(v)
      BY <1>1, <1>5, Zenon DEF CheckOverflow
<1>6. CASE SendMessage(v)
      BY <1>1, <1>6, Zenon DEF SendMessage, ShowMessage
<1> QED
    BY <1>2, <1>3, <1>4, <1>5, <1>6, Zenon DEF HandlerStep

LEMMA HandlerKeeps ==
    ASSUME HubInv, NEW v \in Viewers, HandlerStep(v)
    PROVE  RowsEndAtCursor(v)' /\ WaitingIsWhole(v)'
<1>1. conn \in [Viewers -> ConnRecord] /\ view \in [Viewers -> ViewRecord] /\ conn[v] \in ConnRecord
      BY HubTypes, Zenon DEF HubInv, HubTypeInv
<1>2. CASE SendResync(v) \/ SlowClient(v)
  <2>1. conn'[v] = NoConn /\ view'[v] = [cursor |-> 0, rows |-> {}, old |-> FALSE]
        BY <1>1, <1>2, Zenon DEF SendResync, SlowClient, ShowResync
  <2>2. conn'[v].replay = {} /\ conn'[v].messages = {} /\ view'[v].rows = {}
        BY <2>1 DEF NoConn
  <2> QED
      BY <2>2, ViewerCleared, Zenon
<1>3. ASSUME NEW s, NextMessage(v, s) PROVE RowsEndAtCursor(v)' /\ WaitingIsWhole(v)'
  <2>1. s \in Waiting(v)
        BY <1>3, Zenon DEF NextMessage
  <2> QED
      BY <1>3, <2>1, ShowKeeps, Zenon DEF NextMessage, ShowMessage
<1>4. CASE SendReplay(v)
  <2>1. CASE conn[v].replay # {}
        BY <1>3, <1>4, <2>1, ReplayIsNext, Zenon
  <2>2. CASE conn[v].replay = {}
    <3>1. conn' = [conn EXCEPT ![v].pc = "check"] /\ view' = view /\ log' = log
          BY <1>4, <2>2, Zenon DEF SendReplay
    <3>2. /\ conn'[v].replay = conn[v].replay /\ conn'[v].messages = conn[v].messages
          /\ conn'[v].subscribed = conn[v].subscribed
          BY <1>1, <3>1, Zenon DEF ConnRecord
    <3> QED
        BY <2>2, <3>1, <3>2, ViewerMoves, Zenon
  <2> QED
      BY <2>1, <2>2, Zenon
<1>5. CASE CheckOverflow(v)
  <2>1. conn' = [conn EXCEPT ![v].pc = "select"] /\ view' = view /\ log' = log /\ conn[v].pc = "check"
        BY <1>5, Zenon DEF CheckOverflow
  <2>2. /\ conn'[v].replay = conn[v].replay /\ conn'[v].messages = conn[v].messages
        /\ conn'[v].subscribed = conn[v].subscribed
        BY <1>1, <2>1, Zenon DEF ConnRecord
  <2>3. conn[v].replay = {}
        BY <2>1, Zenon DEF HubInv, WaitingIsWhole
  <2> QED
      BY <2>1, <2>2, <2>3, ViewerMoves, Zenon
<1>6. CASE SendMessage(v)
      BY <1>3, <1>6, MessageIsNext, Zenon
<1> QED
    BY <1>2, <1>4, <1>5, <1>6, Zenon DEF HandlerStep

\* Every step of the hub, of a handler and of a dashboard keeps the invariant.
LEMMA HubInvStep == ASSUME HubInv, [HubNext]_hubVars PROVE HubInv'
<1>1. CASE HubNext
  <2> SUFFICES ASSUME NEW w \in Viewers PROVE RowsEndAtCursor(w)' /\ WaitingIsWhole(w)'
      BY <1>1, HubTypeStep, Zenon DEF HubInv
  <2>0. conn \in [Viewers -> ConnRecord] /\ view \in [Viewers -> ViewRecord] /\ RowsEndAtCursor(w)
        BY Zenon DEF HubInv, HubTypeInv
  <2>1. CASE \E k \in Classes : Publish(k)
        BY <2>1, PublishKeeps, Zenon
  <2>2. ASSUME NEW v \in Viewers, Connect(v) \/ HandlerStep(v) \/ Disconnect(v)
        PROVE  RowsEndAtCursor(w)' /\ WaitingIsWhole(w)'
    <3>1. CASE w # v
          BY <2>2, <3>1, OtherViewers, ViewerFrame, Zenon
    <3>2. CASE w = v /\ HandlerStep(v)
          BY <3>2, HandlerKeeps, Zenon
    <3>3. CASE w = v /\ Connect(v)
      <4>1. PICK first \in Pruned : conn' = [conn EXCEPT ![v] = subscribe(v, view[v].cursor, first)]
            BY <3>3, Zenon DEF Connect
      <4>2. conn'[v] = subscribe(v, view[v].cursor, first)
            BY <2>0, <4>1, Zenon
      <4>3. log' = log /\ view' = view
            BY <3>3, Zenon DEF Connect
      <4> QED
          BY <3>3, <4>2, <4>3, ConnectKeeps, Zenon
    <3>4. CASE w = v /\ Disconnect(v)
      <4>1. conn'[v] = NoConn /\ log' = log /\ view' = view
            BY <2>0, <3>4, Zenon DEF Disconnect
      <4>2. conn'[v].replay = {} /\ conn'[v].messages = {} /\ ~conn'[v].subscribed
            BY <4>1 DEF NoConn
      <4>3. RowsEndAtCursor(v)'
            BY <2>0, <3>4, <4>1, Zenon DEF RowsEndAtCursor
      <4> QED
          BY <3>4, <4>2, <4>3, ViewerGone, Zenon
    <3> QED
        BY <2>2, <3>1, <3>2, <3>3, <3>4, Zenon
  <2>3. CASE ShutHub
    <3>1. log' = log /\ view' = view /\ conn'[w] = [conn[w] EXCEPT !.subscribed = FALSE]
          BY <2>3, Zenon DEF ShutHub
    <3>2. /\ conn'[w].replay = conn[w].replay /\ conn'[w].messages = conn[w].messages
          /\ ~conn'[w].subscribed /\ conn'[w].pc = conn[w].pc
          BY <2>0, <3>1, Zenon DEF ConnRecord
    <3>3. conn[w].pc \in {"check", "select"} => conn[w].replay = {}
          BY Zenon DEF HubInv, WaitingIsWhole
    <3> QED
        BY <3>1, <3>2, <3>3, ViewerMoves, Zenon
  <2>4. CASE RestartCore
    <3>1. conn'[w] = NoConn /\ view'[w] = [view[w] EXCEPT !.old = @ \/ view[w].rows # {}, !.rows = {}]
          BY <2>4, Zenon DEF RestartCore
    <3>2. view'[w].rows = {}
          BY <2>0, <3>1 DEF ViewRecord
    <3>3. conn'[w].replay = {} /\ conn'[w].messages = {}
          BY <3>1 DEF NoConn
    <3> QED
        BY <3>2, <3>3, ViewerCleared, Zenon
  <2> QED
      BY <1>1, <2>1, <2>2, <2>3, <2>4, Zenon DEF HubNext
<1>2. CASE UNCHANGED hubVars
  <2>1. log' = log /\ oldest' = oldest /\ conn' = conn /\ view' = view
        BY <1>2, Zenon DEF hubVars
  <2>2. HubTypeInv'
        BY <2>1, Zenon DEF HubInv, HubTypeInv
  <2>3. ASSUME NEW v \in Viewers PROVE RowsEndAtCursor(v)' /\ WaitingIsWhole(v)'
        BY <2>1, ViewerFrame, Zenon
  <2> QED
      BY <2>2, <2>3, Zenon DEF HubInv
<1> QED
    BY <1>1, <1>2, Zenon

\* The live stream keeps HubInv: what waits for a dashboard continues, without
\* a gap, what the dashboard shows.
THEOREM HubInvariance == HubSpec => []HubInv
<1>1. HubInit => HubInv
      BY HubInvInit, Zenon
<1>2. HubInv /\ [HubNext]_hubVars => HubInv'
      BY HubInvStep, Zenon
<1> QED
    BY <1>1, <1>2, PTL DEF HubSpec

\* A step of the hub is a step of LiveTail on what the dashboards show.
LEMMA HubStepIsLive ==
    ASSUME HubInv, [HubNext]_hubVars
    PROVE  [Live!Next]_<<log, [v \in Viewers |-> view[v].rows]>>
<1> DEFINE Shown == [v \in Viewers |-> view[v].rows]
<1>0. /\ view \in [Viewers -> ViewRecord] /\ conn \in [Viewers -> ConnRecord]
      /\ latest \in Nat /\ DOMAIN log = 1 .. latest
      BY DEF HubInv, HubTypeInv, latest
<1>1. ASSUME log' = log, view' = view PROVE UNCHANGED <<log, Shown>>
      BY <1>1, Zenon
<1>2. ASSUME NEW k \in Classes, Publish(k) PROVE Live!Publish
  <2>1. log' = Append(log, k) /\ view' = view
        BY <1>2, Zenon DEF Publish
  <2>2. Shown' = Shown
        BY <2>1, Zenon
  <2> QED
      BY <2>1, <2>2, Zenon DEF Live!Publish
<1>3. ASSUME NEW v \in Viewers, NEW s, NextMessage(v, s) PROVE Live!Show(v)
  <2>1. /\ s \in Waiting(v) /\ (\A t \in Waiting(v) : s <= t) /\ ShowMessage(v, s) /\ log' = log
        BY <1>3, Zenon DEF NextMessage
  <2>2. s \in DOMAIN log /\ Matches(v, s) /\ RowsEndAtCursor(v) /\ WaitingIsWhole(v)
        BY <2>1, Zenon DEF HubInv, WaitingIsWhole
  <2>3. /\ view[v].rows \in SUBSET Nat /\ view[v].cursor \in Nat /\ Waiting(v) \in SUBSET Nat
        BY HubTypes, Zenon DEF HubInv
  <2>4. \A t \in view[v].rows : t < s
    <3>1. ASSUME NEW t \in view[v].rows PROVE t < s
      <4>1. t <= view[v].cursor /\ view[v].cursor < s
            BY <2>1, <2>2, <3>1, Zenon DEF RowsEndAtCursor, WaitingIsWhole
      <4> QED
          BY <2>1, <2>3, <4>1
    <3> QED
        BY <3>1, Zenon
  <2>5. ASSUME view[v].rows # {}, NEW t \in 1 .. s - 1, \A u \in view[v].rows : u < t PROVE ~Matches(v, t)
    <3>1. view[v].cursor < t /\ view[v].cursor \in Seen(v)
          BY <2>2, <2>5, Zenon DEF RowsEndAtCursor, Seen
    <3>2. t \in DOMAIN log /\ t < s
          BY <1>0, <2>1, <2>2, <2>3
    <3>3. Matches(v, t) => t \in Waiting(v)
          BY <2>1, <2>2, <3>1, <3>2, Zenon DEF WaitingIsWhole
    <3>4. t \notin Waiting(v)
          BY <2>1, <2>3, <3>2
    <3> QED
        BY <3>3, <3>4, Zenon
  <2>6. Shown[v] = view[v].rows
        BY Zenon
  <2>7. Shown' = [Shown EXCEPT ![v] = @ \cup {s}]
    <3>1. ASSUME NEW w \in Viewers PROVE view'[w].rows = IF w = v THEN view[v].rows \cup {s} ELSE view[w].rows
          BY <1>0, <2>1, Zenon DEF ShowMessage, ViewRecord
    <3> QED
        BY <3>1, Zenon
  <2> HIDE DEF Shown
  <2>8. Live!Matches(v, s) /\ \A t : Live!Matches(v, t) <=> Matches(v, t)
        BY <2>2, Zenon DEF Live!Matches, Matches
  <2>9. /\ \A t \in Shown[v] : t < s
        /\ Shown[v] # {} => \A t \in 1 .. s - 1 : (\A u \in Shown[v] : u < t) => ~Live!Matches(v, t)
        BY <2>4, <2>5, <2>6, <2>8, Zenon
  <2> QED
      BY <2>1, <2>2, <2>7, <2>8, <2>9, Zenon DEF Live!Show, Shown
<1>4. ASSUME NEW v \in Viewers, ShowResync(v), log' = log PROVE Live!Clear(v)
  <2>1. Shown' = [Shown EXCEPT ![v] = {}]
        BY <1>0, <1>4, Zenon DEF ShowResync
  <2> QED
      BY <1>4, <2>1, Zenon DEF Live!Clear
<1>5. ASSUME NEW v \in Viewers, HandlerStep(v)
      PROVE  Live!Show(v) \/ Live!Clear(v) \/ UNCHANGED <<log, Shown>>
  <2>1. CASE SendResync(v) \/ SlowClient(v)
    <3>1. ShowResync(v) /\ log' = log
          BY <2>1, Zenon DEF SendResync, SlowClient
    <3> QED
        BY <1>4, <3>1, Zenon
  <2>2. CASE SendReplay(v)
    <3>1. CASE conn[v].replay # {}
          BY <1>3, <2>2, <3>1, ReplayIsNext, Zenon
    <3>2. CASE conn[v].replay = {}
      <4>1. log' = log /\ view' = view
            BY <2>2, <3>2, Zenon DEF SendReplay
      <4> QED
          BY <1>1, <4>1, Zenon
    <3> QED
        BY <3>1, <3>2, Zenon
  <2>3. CASE CheckOverflow(v)
    <3>1. log' = log /\ view' = view
          BY <2>3, Zenon DEF CheckOverflow
    <3> QED
        BY <1>1, <3>1, Zenon
  <2>4. CASE SendMessage(v)
        BY <1>3, <2>4, MessageIsNext, Zenon
  <2> QED
      BY <1>5, <2>1, <2>2, <2>3, <2>4, Zenon DEF HandlerStep
<1>6. ASSUME RestartCore PROVE Live!Restart
  <2>1. log' = <<>> /\ view' = [v \in Viewers |-> [view[v] EXCEPT !.old = @ \/ view[v].rows # {}, !.rows = {}]]
        BY <1>6, Zenon DEF RestartCore
  <2>2. ASSUME NEW v \in Viewers PROVE view'[v].rows = {}
        BY <1>0, <2>1, Zenon DEF ViewRecord
  <2>3. Shown' = [v \in Viewers |-> {}]
        BY <2>2, Zenon
  <2> QED
      BY <2>1, <2>3, Zenon DEF Live!Restart
<1>7. ASSUME NEW v \in Viewers, Connect(v) \/ Disconnect(v) PROVE log' = log /\ view' = view
      BY <1>7, Zenon DEF Connect, Disconnect
<1>8. ShutHub => log' = log /\ view' = view
      BY Zenon DEF ShutHub
<1>9. UNCHANGED hubVars => log' = log /\ view' = view
      BY Zenon DEF hubVars
<1> HIDE DEF Shown
<1>10. Live!Next \/ UNCHANGED <<log, Shown>>
      BY <1>1, <1>2, <1>5, <1>6, <1>7, <1>8, <1>9, Zenon DEF HubNext, Live!Next
<1> QED
    BY <1>10, Zenon DEF Shown

\* The hub, its handlers and the dashboards implement LiveTail, for every
\* number of viewers and every filter: replay, live messages, overflow, resync
\* and restart never show a dashboard a gap or a repetition.
THEOREM HubImplementsLiveTail == HubSpec => ImplementsLiveTail
<1>1. HubInit => Live!Init
      BY DEF HubInit, Live!Init
<1>2. HubInv /\ [HubNext]_hubVars => [Live!Next]_<<log, [v \in Viewers |-> view[v].rows]>>
      BY HubStepIsLive, Zenon
<1> QED
    BY <1>1, <1>2, HubInvariance, PTL DEF HubSpec, ImplementsLiveTail, Live!Spec
=============================================================================
