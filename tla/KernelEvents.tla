---------------------------- MODULE KernelEvents ----------------------------
(***************************************************************************)
(* The path of a kernel event: BPF hook, ring buffer, reader, runtime queue *)
(* and the single worker that attributes it to a Run, records it, evaluates *)
(* policy and contains, while Runs register and end around it.              *)
(*                                                                         *)
(* An event carries {cgroup_id, scope_cookie}.  Its field owners is a       *)
(* history: the registrations that held the cgroup while the hook ran.      *)
(***************************************************************************)
EXTENDS RunLifecycle, Sequences

CONSTANTS RingSize,     \* records the ring buffer holds
          QueueSize,    \* capacity of RuntimePipeline.queue
          MaxEvents     \* bound on operations captured

ASSUME EventAssumption == RingSize \in Nat /\ QueueSize \in Nat /\ MaxEvents \in Nat

VARIABLES hook,       \* one hook invocation, between map lookup and copy
          ring, queue,
          worker,     \* the pipeline goroutine
          closing,    \* RuntimePipeline.closing
          facts,      \* kernel facts recorded: [run, owners]
          kills,      \* cgroup.kill writes: [scope, owners, live]
          counts      \* captured operations, and where the lost ones went

eventVars == <<hook, ring, queue, worker, closing, facts, kills, counts>>
allVars == <<vars, eventVars>>

KernelEvent == [cgroup : Cgroups, cookie : Cookies, owners : SUBSET Runs]

Outcomes == {"captured", "ringDrop", "queueDrop", "unattributed", "mismatch", "recorded"}

Count(outcome) == [counts EXCEPT ![outcome] = @ + 1]

IdleHook == [pc |-> "idle", cgroup |-> NoCgroup, run |-> NoRun, earlier |-> {}]
IdleWorker == [pc |-> "idle", events |-> <<>>, run |-> NoRun]

EventInit ==
    /\ Init
    /\ hook = IdleHook
    /\ ring = <<>> /\ queue = <<>>
    /\ worker = IdleWorker
    /\ closing = FALSE
    /\ facts = {} /\ kills = {}
    /\ counts = [o \in Outcomes |-> 0]

-----------------------------------------------------------------------------
(* The BPF side. *)

\* Registrations whose map write has been tried.
Written == {r \in Runs : /\ origin[r] # NoRequest
                         /\ \A x \in Callers : call[x].pc = "register" => call[x].run # r}

WrittenTo(r, c) == \/ runCgroup[r] = c
                   \/ \E x \in Callers : call[x].run = r /\ call[x].cgroup = c

\* agentshield_current_scope: the lookup returns a pointer into the map ...
HookLookup(c) ==
    /\ hook.pc = "idle"
    /\ counts["captured"] < MaxEvents
    /\ scopeMap[c] # NoRun
    /\ hook' = [pc |-> "found", cgroup |-> c, run |-> scopeMap[c], earlier |-> Written]
    /\ counts' = Count("captured")
    /\ UNCHANGED <<vars, ring, queue, worker, closing, facts, kills>>

\* ... whose value is copied later.  The elements of a preallocated BPF hash
\* are reused as soon as they are deleted, so the copy may be that of a later
\* registration, of any cgroup.
Copied ==
    {hook.run} \cup (IF scopeMap[hook.cgroup] = hook.run THEN {} ELSE Written \ hook.earlier)

\* The record is reserved and submitted, or counted as dropped.
HookSubmit ==
    /\ hook.pc = "found"
    /\ hook' = IdleHook
    /\ \/ /\ Len(ring) < RingSize
          /\ \E r \in Copied :
                ring' = Append(ring, [cgroup |-> hook.cgroup, cookie |-> CookieOf[r],
                                      owners |-> {s \in Copied : s = hook.run \/ WrittenTo(s, hook.cgroup)}])
          /\ UNCHANGED counts
       \/ /\ Len(ring) = RingSize
          /\ counts' = Count("ringDrop")
          /\ UNCHANGED ring
    /\ UNCHANGED <<vars, queue, worker, closing, facts, kills>>

-----------------------------------------------------------------------------
(* The ring reader hands each record to RuntimePipeline.submit. *)

MutantSubmitSilentDrop ==
    /\ ring # <<>>
    /\ ring' = Tail(ring)
    /\ queue' = IF ~closing /\ Len(queue) < QueueSize THEN Append(queue, Head(ring)) ELSE queue
    /\ UNCHANGED <<vars, hook, worker, closing, facts, kills, counts>>

Submit ==
    /\ ring # <<>>
    /\ ring' = Tail(ring)
    /\ IF ~closing /\ Len(queue) < QueueSize
       THEN queue' = Append(queue, Head(ring)) /\ UNCHANGED counts
       ELSE counts' = Count("queueDrop") /\ UNCHANGED queue
    /\ UNCHANGED <<vars, hook, worker, closing, facts, kills>>

\* RuntimePipeline.Close: later submissions are refused, the queue is drained.
Close ==
    /\ ~closing
    /\ closing' = TRUE
    /\ UNCHANGED <<vars, hook, ring, queue, worker, facts, kills, counts>>

-----------------------------------------------------------------------------
(* The worker: RuntimePipeline.processKernel. *)

WorkerTake ==
    /\ worker.pc = "idle" /\ queue # <<>>
    /\ queue' = Tail(queue)
    /\ worker' = [pc |-> "attribute", events |-> <<Head(queue)>>, run |-> NoRun]
    /\ UNCHANGED <<vars, hook, ring, closing, facts, kills, counts>>

event == Head(worker.events)

MutantRegisteredCgroup(r) == TRUE

\* store.Get(run).CgroupID against the event's.
RegisteredCgroup(r) == runCgroup[r] = event.cgroup

\* AttributeEvent prunes the tombstones; an event of no Run, or of a Run on
\* another cgroup, is reported and dropped; any other is recorded.
WorkerAttribute ==
    /\ worker.pc = "attribute"
    /\ tombstones' = pruneTombstones(tombstones, now)
    /\ LET r == attribute(event.cookie, tombstones')
       IN  \/ /\ r = NoRun
              /\ counts' = Count("unattributed")
              /\ worker' = IdleWorker
              /\ UNCHANGED facts
           \/ /\ r # NoRun /\ ~RegisteredCgroup(r)
              /\ counts' = Count("mismatch")
              /\ worker' = IdleWorker
              /\ UNCHANGED facts
           \/ /\ r # NoRun /\ RegisteredCgroup(r)
              /\ counts' = Count("recorded")
              /\ facts' = facts \cup {[run |-> r, owners |-> event.owners]}
              /\ worker' = [worker EXCEPT !.pc = "policy", !.run = r]
    /\ UNCHANGED <<scopeVars, runStatus, runCgroup, runRegistered, runEnded, activeByCgroup,
                   latestByCgroup, liveByIdentity, terminating, tombstoneSeq, envVars, call,
                   replays, term, mon, overview, hook, ring, queue, closing, kills>>

\* PolicyCoordinator.ProcessAuditEvent up to the containment request: no
\* active Run, no containment asked for, or one asked for.
WorkerPolicy ==
    /\ worker.pc = "policy"
    /\ \/ worker' = IdleWorker
       \/ /\ activeRunForPolicyEvent(event.cgroup, event.cookie) # NoRun
          /\ worker' = [worker EXCEPT !.pc = "contain"]
    /\ UNCHANGED <<vars, hook, ring, queue, closing, facts, kills, counts>>

\* Executor.Contain, under Manager.mu: refused, failed, or killed.
WorkerContain ==
    /\ worker.pc = "contain"
    /\ worker' = IdleWorker
    /\ \/ UNCHANGED kills
       \/ /\ WithActiveIdentity(event.cgroup, event.cookie)
          /\ ~pathIsEqualOrAncestor(event.cgroup, Core)
          /\ LET r == active[event.cgroup]
             IN  kills' = kills \cup {[scope |-> r, owners |-> event.owners, live |-> Live(r)]}
    /\ UNCHANGED <<vars, hook, ring, queue, closing, facts, counts>>

-----------------------------------------------------------------------------
EventStep ==
    \/ \E c \in Cgroups : HookLookup(c)
    \/ HookSubmit
    \/ Submit
    \/ Close
    \/ WorkerTake
    \/ WorkerAttribute
    \/ WorkerPolicy
    \/ WorkerContain

EventNext ==
    \/ Next /\ UNCHANGED eventVars
    \/ EventStep

EventSpec == EventInit /\ [][EventNext]_allVars

-----------------------------------------------------------------------------
(* Properties. *)

\* Every variable has its type.
EventTypeOK ==
    /\ TypeOK
    /\ hook \in [pc : {"idle", "found"}, cgroup : Cgroups \cup {NoCgroup},
                 run : Runs \cup {NoRun}, earlier : SUBSET Runs]
    /\ Len(ring) \in 0..RingSize /\ \A i \in DOMAIN ring : ring[i] \in KernelEvent
    /\ Len(queue) \in 0..QueueSize /\ \A i \in DOMAIN queue : queue[i] \in KernelEvent
    /\ worker.pc \in {"idle", "attribute", "policy", "contain"}
    /\ worker.run \in Runs \cup {NoRun}
    /\ worker.pc # "idle" => worker.events # <<>> /\ event \in KernelEvent
    /\ closing \in BOOLEAN
    /\ facts \in SUBSET [run : Runs, owners : SUBSET Runs]
    /\ kills \in SUBSET [scope : Runs, owners : SUBSET Runs, live : BOOLEAN]
    /\ counts \in [Outcomes -> Nat]

\* docs/architecture.md: the identity pair with the cgroup ID distinguishes
\* successive tasks on a reused cgroup ID.  A recorded fact belongs to a Run
\* that held the cgroup while the operation was captured, however late it is
\* attributed.
FactsBelongToCapturingScope == \A f \in facts : f.run \in f.owners

\* docs/containment.md: containment holds the scope against unregister and
\* reuse.  A kill hits a registration that held the cgroup when the event was
\* captured, and one whose Run has not ended.
KillsOnlyCapturingScope == \A k \in kills : k.scope \in k.owners /\ k.live

\* No captured operation disappears without being counted: every one is in
\* flight, recorded, or in exactly one of the drop and error counts.
EveryCaptureAccounted ==
    counts["captured"] =
        (IF hook.pc = "found" THEN 1 ELSE 0) + Len(ring) + Len(queue)
        + (IF worker.pc = "attribute" THEN 1 ELSE 0)
        + counts["ringDrop"] + counts["queueDrop"]
        + counts["unattributed"] + counts["mismatch"] + counts["recorded"]
=============================================================================
