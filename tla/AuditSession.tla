---------------------------- MODULE AuditSession ----------------------------
(***************************************************************************)
(* One life of the managed Core: RunAudit loads the BPF collection,         *)
(* installs enforcement, attaches hooks and streams events; serveManaged    *)
(* binds and starts its listeners from OnReady and takes everything down    *)
(* from OnStopping.  A failure anywhere unwinds what was already done.      *)
(***************************************************************************)
EXTENDS Integers, Sequences, FiniteSets

CONSTANTS AllowCount,        \* allow tuples of the compiled block image
          Workload,          \* whether --workload-socket is given
          DropTypes,         \* event types the kernel may drop, as numbers
          MaxKernelDrops,    \* bound on drops, of each type
          MaxRegistrations   \* bound on registrations

ASSUME SessionAssumption ==
    /\ AllowCount \in Nat /\ Workload \in BOOLEAN /\ DropTypes \subseteq Nat
    /\ MaxKernelDrops \in Nat /\ MaxRegistrations \in Nat

VARIABLES session,       \* program counter of RunAudit and its deferred calls
          collection,    \* [open, allows, profile, scopesReady]: the loaded maps
          hooks,         \* how many of HookOrder are attached
          surface,       \* state of each listener
          canceled,      \* ctx
          monitor,       \* the scope monitor goroutine
          pipelineState, \* the runtime pipeline
          registered,    \* scopes in the scope map
          inflight,      \* a registration request is being served
          registrations, \* history: how many began
          readerOpen,    \* the ring buffer reader
          malformed,     \* consecutiveMalformed of streamAuditEventsTo
          stats,         \* monitorDropCounters: [pc, current, previous, pending]
          kernelDrops,   \* the kernel's per-type drop counters
          noticed,       \* DiagnosticsState.drops
          stopErr        \* shutdownErr is not nil

sessionVars == <<session, collection, hooks, surface, canceled, monitor, pipelineState,
                 registered, inflight, registrations, readerOpen, malformed,
                 stats, kernelDrops, noticed, stopErr>>
bootVars == <<collection, hooks>>
serveVars == <<surface, canceled, monitor, pipelineState, registered, inflight, registrations, stopErr>>
readVars == <<readerOpen, malformed>>
dropVars == <<stats, kernelDrops, noticed>>

\* openat, execve, connect4, connect6, in the order they are attached.
HookCount == 4
Surfaces == {"management", "ingest", "read"} \cup (IF Workload THEN {"workload"} ELSE {})
\* The order of net.Listen and of start in OnReady.
BindOrder == <<"management", "ingest", "read">> \o (IF Workload THEN <<"workload">> ELSE <<>>)
StartOrder == (IF Workload THEN <<"workload">> ELSE <<>>) \o <<"ingest", "read", "management">>
MaxConsecutiveMalformed == 3

Zeros == [t \in DropTypes |-> 0]

SessionInit ==
    /\ session = "load"
    /\ collection = [open |-> FALSE, allows |-> 0, profile |-> FALSE, scopesReady |-> FALSE]
    /\ hooks = 0 /\ surface = [s \in Surfaces |-> "none"] /\ canceled = FALSE
    /\ monitor = "none" /\ pipelineState = "none" /\ registered = {} /\ inflight = FALSE
    /\ registrations = 0 /\ readerOpen = FALSE /\ malformed = 0
    /\ stats = [pc |-> "none", current |-> Zeros, previous |-> Zeros, pending |-> {}]
    /\ kernelDrops = Zeros /\ noticed = Zeros /\ stopErr = FALSE

-----------------------------------------------------------------------------
(* RunAudit up to OnReady.                                                 *)

\* LoadCollectionSpec and NewCollection; a failure returns with nothing to undo.
LoadCollection(ok) ==
    /\ session = "load"
    /\ session' = IF ok THEN "install" ELSE "closed"
    /\ collection' = [collection EXCEPT !.open = ok]
    /\ UNCHANGED <<hooks, serveVars, readVars, dropVars>>

\* installNetworkEnforcement: each allow tuple, then the profile that denies
\* by default.
installNetworkEnforcement(ok) ==
    /\ session = "install"
    /\ IF ~ok THEN session' = "unwind" /\ UNCHANGED collection
       ELSE IF collection.allows < AllowCount
            THEN session' = session /\ collection' = [collection EXCEPT !.allows = @ + 1]
       ELSE session' = "scopes" /\ collection' = [collection EXCEPT !.profile = TRUE]
    /\ UNCHANGED <<hooks, serveVars, readVars, dropVars>>

\* OnScopeMapReady: the manager, the registration handler and the pipeline.
OnScopeMapReady(ok) ==
    /\ session = "scopes"
    /\ session' = IF ok THEN "attach" ELSE "unwind"
    /\ collection' = [collection EXCEPT !.scopesReady = ok]
    /\ pipelineState' = IF ok THEN "open" ELSE pipelineState
    /\ UNCHANGED <<hooks, surface, canceled, monitor, registered, inflight, registrations,
                   stopErr, readVars, dropVars>>

\* link.Tracepoint and link.AttachCgroup, one hook after another.
AttachHook(ok) ==
    /\ session = "attach" /\ hooks < HookCount
    /\ session' = IF ok THEN session ELSE "unwind"
    /\ hooks' = IF ok THEN hooks + 1 ELSE hooks
    /\ UNCHANGED <<collection, serveVars, readVars, dropVars>>

\* ringbuf.NewReader, and the goroutine of monitorDropCounters.
OpenReader(ok) ==
    /\ session = "attach" /\ hooks = HookCount
    /\ session' = IF ok THEN "handlers" ELSE "unwind"
    /\ readerOpen' = ok
    /\ stats' = [stats EXCEPT !.pc = IF ok THEN "snapshot" ELSE @]
    /\ UNCHANGED <<bootVars, serveVars, malformed, kernelDrops, noticed>>

-----------------------------------------------------------------------------
(* OnReady.  Any failure cancels the context and closes what was bound.    *)

FailReady ==
    /\ session' = "stream" /\ canceled' = TRUE
    /\ surface' = [s \in Surfaces |-> IF surface[s] = "bound" THEN "closed" ELSE surface[s]]

\* The checkpoint handler, the inspection checker and the read routes.
BuildHandlers(ok) ==
    /\ session = "handlers"
    /\ IF ok THEN session' = "bind" /\ UNCHANGED <<canceled, surface>> ELSE FailReady
    /\ UNCHANGED <<bootVars, monitor, pipelineState, registered, inflight, registrations, stopErr,
                   readVars, dropVars>>

FirstOf(order, wanted) ==
    order[CHOOSE i \in DOMAIN order : surface[order[i]] = wanted
             /\ \A j \in 1 .. i - 1 : surface[order[j]] # wanted]

\* A listener is served as soon as it is bound.
MutantBindAndServe(ok) ==
    /\ session = "bind"
    /\ IF ok
       THEN /\ surface' = [surface EXCEPT ![FirstOf(BindOrder, "none")] = "serving"]
            /\ session' = IF \A s \in Surfaces : surface'[s] # "none" THEN "start" ELSE session
            /\ UNCHANGED canceled
       ELSE FailReady
    /\ UNCHANGED <<bootVars, monitor, pipelineState, registered, inflight, registrations, stopErr,
                   readVars, dropVars>>

\* ListenOwnerUnix, net.Listen, net.Listen, ListenWorkloadUnix.
BindListener(ok) ==
    /\ session = "bind"
    /\ IF ok
       THEN /\ surface' = [surface EXCEPT ![FirstOf(BindOrder, "none")] = "bound"]
            /\ session' = IF \A s \in Surfaces : surface'[s] = "bound" THEN "start" ELSE session
            /\ UNCHANGED canceled
       ELSE FailReady
    /\ UNCHANGED <<bootVars, monitor, pipelineState, registered, inflight, registrations, stopErr,
                   readVars, dropVars>>

\* start, for each listener, management last; then the scope monitor.
StartServers ==
    /\ session = "start"
    /\ IF \E s \in Surfaces : surface[s] = "bound"
       THEN /\ surface' = [surface EXCEPT ![FirstOf(StartOrder, "bound")] = "serving"]
            /\ UNCHANGED <<session, monitor>>
       ELSE session' = "stream" /\ monitor' = "on" /\ UNCHANGED surface
    /\ UNCHANGED <<bootVars, canceled, pipelineState, registered, inflight, registrations, stopErr,
                   readVars, dropVars>>

-----------------------------------------------------------------------------
(* While the Core serves.                                                  *)

\* A server's goroutine reports the failure and cancels.
ServerFails(s) ==
    /\ surface[s] = "serving"
    /\ surface' = [surface EXCEPT ![s] = "failed"] /\ canceled' = TRUE
    /\ UNCHANGED <<session, bootVars, monitor, pipelineState, registered, inflight, registrations,
                   stopErr, readVars, dropVars>>

Signal ==
    /\ ~canceled /\ session # "closed" /\ canceled' = TRUE
    /\ UNCHANGED <<session, bootVars, surface, monitor, pipelineState, registered, inflight,
                   registrations, stopErr, readVars, dropVars>>

\* The monitor is stopped by the shutdown that waits for it.
MutantMonitorExits ==
    /\ monitor = "on" /\ session = "stop_servers" /\ monitor' = "off"
    /\ UNCHANGED <<session, bootVars, surface, canceled, pipelineState, registered, inflight,
                   registrations, stopErr, readVars, dropVars>>

MonitorExits ==
    /\ monitor = "on" /\ canceled /\ monitor' = "off"
    /\ UNCHANGED <<session, bootVars, surface, canceled, pipelineState, registered, inflight,
                   registrations, stopErr, readVars, dropVars>>

\* A registration is served: its scope reaches the map when the handler is done.
BeginRegistration ==
    /\ surface["management"] = "serving" /\ ~inflight /\ registrations < MaxRegistrations
    /\ inflight' = TRUE /\ registrations' = registrations + 1
    /\ UNCHANGED <<session, bootVars, surface, canceled, monitor, pipelineState, registered, stopErr,
                   readVars, dropVars>>

EndRegistration ==
    /\ inflight /\ inflight' = FALSE
    /\ registered' = IF collection.open THEN registered \cup {registrations} ELSE registered
    /\ UNCHANGED <<session, bootVars, surface, canceled, monitor, pipelineState, registrations,
                   stopErr, readVars, dropVars>>

-----------------------------------------------------------------------------
(* streamAuditEventsTo.                                                    *)

\* interruptOnContextDone.
InterruptReader ==
    /\ canceled /\ readerOpen /\ readerOpen' = FALSE
    /\ UNCHANGED <<session, bootVars, serveVars, malformed, dropVars>>

\* One turn of the loop: an event that decodes, one that does not, a failed
\* read, clock or write, or the end of the ring buffer.
StreamEvent(outcome) ==
    /\ session = "stream"
    /\ readerOpen \/ outcome = "eof"
    /\ outcome = "eof" => ~readerOpen
    /\ malformed' = IF outcome = "malformed" THEN malformed + 1 ELSE 0
    /\ session' = IF outcome = "decoded" \/ (outcome = "malformed" /\ malformed' < MaxConsecutiveMalformed)
                  THEN session ELSE "ended"
    /\ UNCHANGED <<bootVars, serveVars, readerOpen, dropVars>>

\* cancelStats, then statsDone.
StreamEnded ==
    /\ session = "ended" /\ stats.pc = "done" /\ session' = "unwind"
    /\ UNCHANGED <<bootVars, serveVars, readVars, dropVars>>

-----------------------------------------------------------------------------
(* monitorDropCounters.                                                    *)

StatsCanceled == canceled \/ session = "ended"

KernelDrops(t) ==
    /\ hooks > 0 /\ kernelDrops[t] < MaxKernelDrops
    /\ kernelDrops' = [kernelDrops EXCEPT ![t] = @ + 1]
    /\ UNCHANGED <<session, bootVars, serveVars, readVars, stats, noticed>>

StatsFail ==
    stats' = [stats EXCEPT !.pc = "done"] /\ readerOpen' = FALSE

\* Snapshot, and the types whose counter moved.
StatsSnapshot(ok) ==
    /\ stats.pc \in {"snapshot", "final"}
    /\ IF ok
       THEN /\ stats' = [pc |-> IF stats.pc = "final" THEN "emit_final" ELSE "emit",
                         current |-> kernelDrops, previous |-> stats.previous,
                         pending |-> {t \in DropTypes : kernelDrops[t] # stats.previous[t]}]
            /\ UNCHANGED readerOpen
       ELSE StatsFail
    /\ UNCHANGED <<session, bootVars, serveVars, malformed, kernelDrops, noticed>>

\* emitDeltas, in the order of the types: the clock, onNotice, then Emit.
EmitNotice(ok) ==
    /\ stats.pc \in {"emit", "emit_final"} /\ stats.pending # {}
    /\ LET t == CHOOSE t \in stats.pending : \A u \in stats.pending : t <= u
           value == stats.current[t]
           prior == stats.previous[t]
           delta == IF value >= prior THEN value - prior ELSE value
       IN  \/ /\ noticed' = [noticed EXCEPT ![t] = @ + delta]
              /\ IF ok THEN stats' = [stats EXCEPT !.pending = @ \ {t}] /\ UNCHANGED readerOpen
                 ELSE StatsFail
           \/ ~ok /\ StatsFail /\ UNCHANGED noticed
    /\ UNCHANGED <<session, bootVars, serveVars, malformed, kernelDrops>>

\* The snapshot that was reported is not remembered.
MutantEmitDone ==
    /\ stats.pc \in {"emit", "emit_final"} /\ stats.pending = {}
    /\ stats' = [stats EXCEPT !.pc = IF @ = "emit" THEN "wait" ELSE "done"]
    /\ UNCHANGED <<session, bootVars, serveVars, readVars, kernelDrops, noticed>>

EmitDone ==
    /\ stats.pc \in {"emit", "emit_final"} /\ stats.pending = {}
    /\ stats' = [stats EXCEPT !.previous = stats.current,
                              !.pc = IF @ = "emit" THEN "wait" ELSE "done"]
    /\ UNCHANGED <<session, bootVars, serveVars, readVars, kernelDrops, noticed>>

\* The select of the loop: a tick, or the end of the context.
StatsTick ==
    /\ stats.pc = "wait" /\ stats' = [stats EXCEPT !.pc = "snapshot"]
    /\ UNCHANGED <<session, bootVars, serveVars, readVars, kernelDrops, noticed>>

StatsStop ==
    /\ stats.pc = "wait" /\ StatsCanceled /\ stats' = [stats EXCEPT !.pc = "final"]
    /\ UNCHANGED <<session, bootVars, serveVars, readVars, kernelDrops, noticed>>

-----------------------------------------------------------------------------
(* The deferred calls of RunAudit, and shutdown in the middle of them.     *)

Unwinding == {"unwind", "stop_monitor", "stop_servers", "stop_pipeline", "stop_scopes", "unload", "closed"}

\* reader.Close, then the links, last attached first.
Detach ==
    /\ session = "unwind" /\ readerOpen' = FALSE
    /\ IF hooks > 0 THEN hooks' = hooks - 1 /\ UNCHANGED <<session, canceled>>
       ELSE session' = "stop_monitor" /\ canceled' = TRUE /\ UNCHANGED hooks
    /\ UNCHANGED <<collection, surface, monitor, pipelineState, registered, inflight, registrations,
                   stopErr, malformed, dropVars>>

\* <-monitorDone.
StopMonitor ==
    /\ session = "stop_monitor" /\ monitor # "on" /\ session' = "stop_servers"
    /\ UNCHANGED <<bootVars, serveVars, readVars, dropVars>>

\* Requests in progress are not waited for.
MutantStopServer(clean) ==
    /\ session = "stop_servers"
    /\ IF \E s \in Surfaces : surface[s] \in {"serving", "failed"}
       THEN /\ surface' = [s \in Surfaces |-> IF surface[s] \in {"serving", "failed"} THEN "closed" ELSE surface[s]]
            /\ stopErr' = (stopErr \/ ~clean)
            /\ UNCHANGED session
       ELSE clean /\ session' = "stop_pipeline" /\ UNCHANGED <<surface, stopErr>>
    /\ UNCHANGED <<bootVars, canceled, monitor, pipelineState, registered, inflight, registrations,
                   readVars, dropVars>>

\* server.Shutdown closes a listener and waits for its requests, up to 5 s.
StopServer(clean) ==
    /\ session = "stop_servers"
    /\ IF \E s \in Surfaces : surface[s] \in {"serving", "failed"}
       THEN LET s == StartOrder[CHOOSE i \in DOMAIN StartOrder :
                         /\ surface[StartOrder[i]] \in {"serving", "failed"}
                         /\ \A j \in 1 .. i - 1 : surface[StartOrder[j]] \notin {"serving", "failed"}]
            IN  /\ clean => s # "management" \/ ~inflight
                /\ surface' = [surface EXCEPT ![s] = "closed"]
                /\ stopErr' = (stopErr \/ ~clean)
                /\ UNCHANGED session
       ELSE clean /\ session' = "stop_pipeline" /\ UNCHANGED <<surface, stopErr>>
    /\ UNCHANGED <<bootVars, canceled, monitor, pipelineState, registered, inflight, registrations,
                   readVars, dropVars>>

\* pipeline.Close drains the queue, or gives up after 5 s.
StopPipeline(clean) ==
    /\ session = "stop_pipeline" /\ session' = "stop_scopes"
    /\ pipelineState' = IF pipelineState = "none" THEN "none" ELSE IF clean THEN "closed" ELSE "open"
    /\ stopErr' = (stopErr \/ (pipelineState = "open" /\ ~clean))
    /\ UNCHANGED <<bootVars, surface, canceled, monitor, registered, inflight, registrations,
                   readVars, dropVars>>

\* manager.Unregister of every active scope; those in kept failed.
StopScopes(kept) ==
    /\ session = "stop_scopes" /\ kept \subseteq registered
    /\ session' = "unload" /\ registered' = kept /\ stopErr' = (stopErr \/ kept # {})
    /\ UNCHANGED <<bootVars, surface, canceled, monitor, pipelineState, inflight, registrations,
                   readVars, dropVars>>

\* collection.Close.
Unload ==
    /\ session = "unload" /\ session' = "closed"
    /\ collection' = [collection EXCEPT !.open = FALSE]
    /\ UNCHANGED <<hooks, serveVars, readVars, dropVars>>

RunAuditStep ==
    \/ \E ok \in BOOLEAN :
          \/ LoadCollection(ok) \/ installNetworkEnforcement(ok) \/ OnScopeMapReady(ok)
          \/ AttachHook(ok) \/ OpenReader(ok) \/ BuildHandlers(ok) \/ BindListener(ok)
          \/ StopServer(ok) \/ StopPipeline(ok)
    \/ StartServers \/ StreamEvent("eof") \/ StreamEnded
    \/ Detach \/ StopMonitor \/ Unload
    \/ \E kept \in SUBSET registered : StopScopes(kept)

StatsStep == EmitDone \/ \E ok \in BOOLEAN : StatsSnapshot(ok) \/ EmitNotice(ok)

SessionNext ==
    \/ RunAuditStep \/ StatsStep \/ StatsTick \/ StatsStop
    \/ \E outcome \in {"decoded", "malformed", "error"} : StreamEvent(outcome)
    \/ InterruptReader \/ MonitorExits \/ Signal
    \/ \E s \in Surfaces : ServerFails(s)
    \/ BeginRegistration \/ EndRegistration
    \/ \E t \in DropTypes : KernelDrops(t)

\* Calls of RunAudit return, its goroutines run, and a select that ticks again
\* and again also sees the end of the context.
SessionFairness ==
    /\ WF_sessionVars(RunAuditStep)
    /\ WF_sessionVars(StatsStep)
    /\ SF_sessionVars(StatsStop)
    /\ WF_sessionVars(InterruptReader)
    /\ WF_sessionVars(MonitorExits)

SessionSpec == SessionInit /\ [][SessionNext]_sessionVars /\ SessionFairness

-----------------------------------------------------------------------------
\* While registrations are served, until RunAudit returns: every hook is
\* attached, the block profile is complete, every other listener has been bound
\* and the pipeline takes events, so no workload is released unobserved.  No
\* hook ever consults a profile without all its allow tuples.
RegistrationIsCovered ==
    /\ (surface["management"] = "serving" \/ inflight \/ registered # {}) /\ session \notin Unwinding =>
        /\ hooks = HookCount /\ collection.profile /\ pipelineState = "open"
        /\ \A s \in Surfaces : surface[s] \notin {"none", "closed"}
    /\ collection.profile \/ hooks > 0 => collection.profile /\ collection.allows = AllowCount

\* A drop is reported once: per type the notices add up to a snapshot, the last
\* one when the monitor is between snapshots, and never exceed the kernel's count.
DropsNoticedOnce ==
    \A t \in DropTypes :
        /\ noticed[t] \in {stats.previous[t], stats.current[t]}
        /\ noticed[t] <= kernelDrops[t]
        /\ stats.pc = "wait" => noticed[t] = stats.current[t]

\* Shutdown takes things down in dependency order: the pipeline is drained
\* after every listener is closed, and the maps outlive scopes and pipeline;
\* only a reported shutdown error excuses it.
StopsInOrder ==
    ~stopErr =>
        /\ pipelineState = "closed" => ~inflight /\ \A s \in Surfaces : surface[s] # "serving"
        /\ pipelineState = "open" \/ registered # {} => collection.open
        /\ session = "closed" => hooks = 0 /\ registered = {} /\ monitor # "on"

\* Once the context is canceled the Core comes down, whatever fails meanwhile.
CancelEndsSession == canceled ~> session = "closed"
=============================================================================
