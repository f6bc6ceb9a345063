------------------------ MODULE KernelEventsProofs ------------------------
(***************************************************************************)
(* Attribution and containment of kernel events, proved for any numbers of  *)
(* Runs, cgroups and handlers and any sizes of ring and queue, when no two  *)
(* registrations draw the same scope cookie.                                *)
(***************************************************************************)
EXTENDS KernelEvents, RunLifecycleProofs

DistinctCookies == \A r, s \in Runs : CookieOf[r] = CookieOf[s] => r = s

-----------------------------------------------------------------------------
(* The inductive invariant. *)

WorkerRecord == [pc : {"idle", "attribute", "policy", "contain"}, events : Seq(KernelEvent),
                 run : Runs \cup {NoRun}]

EventTypeInv ==
    /\ hook \in [pc : {"idle", "found"}, cgroup : Cgroups \cup {NoCgroup},
                 run : Runs \cup {NoRun}, earlier : SUBSET Runs]
    /\ hook.pc = "found" => hook.cgroup \in Cgroups /\ hook.run \in Runs
    /\ ring \in Seq(KernelEvent) /\ Len(ring) <= RingSize
    /\ queue \in Seq(KernelEvent) /\ Len(queue) <= QueueSize
    /\ worker \in WorkerRecord
    /\ worker.pc # "idle" => worker.events # <<>>
    /\ closing \in BOOLEAN
    /\ facts \in SUBSET [run : Runs, owners : SUBSET Runs]
    /\ kills \in SUBSET [scope : Runs, owners : SUBSET Runs, live : BOOLEAN]
    /\ counts \in [Outcomes -> Nat]

\* Registration r was drawn, and is not one of cgroup c.
Foreign(r, c) ==
    /\ origin[r] # NoRequest
    /\ runCgroup[r] # c
    /\ \A x \in Callers : call[x].run = r => call[x].cgroup # c

\* Whoever an event's cookie names held the cgroup, or never will.
Truthful(e) == \A r \in Runs : CookieOf[r] = e.cookie /\ r \notin e.owners => Foreign(r, e.cgroup)

AddedOn(r, c) == runStatus[r] # "none" /\ runCgroup[r] = c

EventsAreTruthful ==
    /\ \A i \in DOMAIN ring : Truthful(ring[i])
    /\ \A i \in DOMAIN queue : Truthful(queue[i])
    /\ worker.pc # "idle" => Truthful(event)

\* A containment is only asked for a Run that was added on the event's cgroup.
ContainedIsAdded ==
    worker.pc = "contain" => \E r \in Runs : CookieOf[r] = event.cookie /\ AddedOn(r, event.cgroup)

AttributionInv ==
    /\ EventTypeInv
    /\ EventsAreTruthful
    /\ ContainedIsAdded
    /\ FactsBelongToCapturingScope
    /\ KillsOnlyCapturingScope

EventInv == IInv /\ IdentityInv /\ AttributionInv

-----------------------------------------------------------------------------
(* Steps of the Run lifecycle. *)

\* A drawn registration stays with the cgroup it was drawn for.
LEMMA ForeignIsStable ==
    ASSUME IInv, [Next]_vars, NEW r \in Runs, NEW c \in Cgroups
    PROVE  /\ Foreign(r, c) => Foreign(r, c)'
           /\ AddedOn(r, c) => AddedOn(r, c)'
<1> USE DEF IInv, TypeInv, TypeOK, StoreTypeOK
<1>1. CASE UNCHANGED <<runStatus, runCgroup, origin, call>>
      BY <1>1, Zenon DEF Foreign, AddedOn
<1>2. ASSUME NEW x \in Callers, NEW q \in Requests, NEW d \in Cgroups, RegisterRequest(x, q, d)
      PROVE  /\ Foreign(r, c) => Foreign(r, c)'
             /\ AddedOn(r, c) => AddedOn(r, c)'
  <2>1. UNCHANGED <<runStatus, runCgroup, origin>>
        BY <1>2, Zenon DEF RegisterRequest, storeVars, envVars
  <2>2. \A y \in Callers : call'[y].run = r => y # x /\ call'[y] = call[y]
        BY <1>2, NoRunIsNoRun, Zenon DEF RegisterRequest, IdleCall
  <2> QED
      BY <2>1, <2>2, Zenon DEF Foreign, AddedOn
<1>3. ASSUME NEW x \in Callers, RegisterLocked(x)
      PROVE  /\ Foreign(r, c) => Foreign(r, c)'
             /\ AddedOn(r, c) => AddedOn(r, c)'
  <2>1. UNCHANGED <<runStatus, runCgroup>>
        BY <1>3, Zenon DEF RegisterLocked, storeVars
  <2>2. CASE call' = [call EXCEPT ![x] = IdleCall] /\ UNCHANGED origin
    <3>1. \A y \in Callers : call'[y].run = r => call'[y] = call[y]
          BY <2>2, NoRunIsNoRun, Zenon DEF IdleCall
    <3> QED
        BY <2>1, <2>2, <3>1, Zenon DEF Foreign, AddedOn
  <2>3. ASSUME NEW s \in Runs, origin[s] = NoRequest,
               origin' = [origin EXCEPT ![s] = call[x].request],
               call' = [call EXCEPT ![x] = [@ EXCEPT !.pc = "register", !.run = s]]
        PROVE  Foreign(r, c) => Foreign(r, c)'
    <3> SUFFICES ASSUME Foreign(r, c) PROVE Foreign(r, c)'
        BY Zenon
    <3>1. s # r
          BY <2>3, Zenon DEF Foreign
    <3>2. origin'[r] = origin[r]
          BY <2>3, <3>1, Zenon
    <3>3. \A y \in Callers : call'[y].run = r => call'[y] = call[y]
          BY <2>3, <3>1 DEF CallRecord
    <3> QED
        BY <2>1, <3>2, <3>3, Zenon DEF Foreign
  <2> QED
      BY <1>3, <2>1, <2>2, <2>3, Zenon DEF RegisterLocked, AddedOn
<1>4. ASSUME NEW x \in Callers, NEW pc, call' = [call EXCEPT ![x].pc = pc],
             UNCHANGED <<runStatus, runCgroup, origin>>
      PROVE  /\ Foreign(r, c) => Foreign(r, c)'
             /\ AddedOn(r, c) => AddedOn(r, c)'
  <2>1. \A y \in Callers : call'[y].run = call[y].run /\ call'[y].cgroup = call[y].cgroup
        BY <1>4, Zenon DEF CallRecord
  <2> QED
      BY <1>4, <2>1, Zenon DEF Foreign, AddedOn
<1>5. ASSUME NEW x \in Callers, call' = [call EXCEPT ![x] = IdleCall],
             UNCHANGED <<runStatus, runCgroup, origin>>
      PROVE  /\ Foreign(r, c) => Foreign(r, c)'
             /\ AddedOn(r, c) => AddedOn(r, c)'
  <2>1. \A y \in Callers : call'[y].run = r => call'[y] = call[y]
        BY <1>5, NoRunIsNoRun, Zenon DEF IdleCall
  <2> QED
      BY <1>5, <2>1, Zenon DEF Foreign, AddedOn
<1>6. ASSUME NEW x \in Callers, RegisterAdd(x)
      PROVE  /\ Foreign(r, c) => Foreign(r, c)'
             /\ AddedOn(r, c) => AddedOn(r, c)'
  <2>1. CASE AddFails(call[x].run, call[x].cgroup, call[x].at)
        BY <1>4, <1>6, <2>1, SMTT(30) DEF RegisterAdd, AddFails, envVars
  <2>2. CASE Add(call[x].run, call[x].cgroup, call[x].at)
    <3>1. PICK s \in Runs : s = call[x].run
          BY <1>6, Zenon DEF RegisterAdd, HandlersWellFormed, HoldsRegistrationMu
    <3>2. /\ runStatus' = [runStatus EXCEPT ![s] = "active"] /\ runStatus[s] = "none"
          /\ runCgroup' = [runCgroup EXCEPT ![s] = call[x].cgroup]
          /\ UNCHANGED origin
          /\ call' = [call EXCEPT ![x].pc = "notify"]
          BY <1>6, <2>2, <3>1, Zenon DEF RegisterAdd, Add, AddAccepts, AddFails, envVars
    <3>3. \A y \in Callers : call'[y].run = call[y].run /\ call'[y].cgroup = call[y].cgroup
          BY <3>2, Zenon DEF CallRecord
    <3>4. CASE s = r
          BY <3>1, <3>2, <3>3, <3>4, Zenon DEF Foreign, AddedOn
    <3>5. CASE s # r
          BY <3>2, <3>3, <3>5, Zenon DEF Foreign, AddedOn
    <3> QED
        BY <3>4, <3>5, Zenon
  <2> QED
      BY <1>6, <2>1, <2>2, Zenon DEF RegisterAdd
<1>7. ASSUME NEW t \in Threads, TerminateComplete(t)
      PROVE  /\ Foreign(r, c) => Foreign(r, c)'
             /\ AddedOn(r, c) => AddedOn(r, c)'
  <2>1. UNCHANGED <<runCgroup, origin, call>>
        BY <1>7, Zenon DEF TerminateComplete, completeTermination, envVars
  <2>2. runStatus' = [runStatus EXCEPT ![term[t].run] = terminalStatus(term[t].run, term[t].status)]
        BY <1>7, Zenon DEF TerminateComplete, completeTermination
  <2>3. term[t].status \in Statuses /\ "none" \notin Statuses
        BY Zenon DEF TermRecord, Statuses
  <2>4. runStatus[r] # "none" => runStatus'[r] # "none"
        BY <2>2, <2>3, Zenon DEF terminalStatus
  <2> QED
      BY <2>1, <2>4, Zenon DEF Foreign, AddedOn
<1> QED
  <2> USE DEF storeVars, envVars
  <2>1. CASE Tick \/ (\E s \in Runs : Violate(s)) \/ UNCHANGED vars
        BY <1>1, <2>1, Zenon DEF Tick, Violate, vars
  <2>2. CASE \E x \in Callers : RegisterStep(x)
        BY <1>3, <1>4, <1>5, <1>6, <2>2, Zenon DEF RegisterStep, RegisterScope, RegisterRollback, RegisterNotify
  <2>3. CASE \E t \in Finishers, s \in Runs : FinishRun(t, s)
        BY <1>1, <2>3, Zenon DEF FinishRun, TerminateBegin, beginTermination
  <2>4. CASE \E t \in Threads : TerminateStep(t)
        BY <1>1, <1>7, <2>4, Zenon DEF TerminateStep, TerminateUnregister, TerminateNotify, abortTermination
  <2>5. CASE MonitorStep
        BY <1>1, <2>5, Zenon DEF MonitorStep, MonitorTick, MonitorList, MonitorCheck, MonitorLookup, MonitorFail,
           MonitorCleanup, MonitorExpire, MonitorPrune, TerminateBegin, beginTermination
  <2> QED
      BY <1>2, <2>1, <2>2, <2>3, <2>4, <2>5, Zenon DEF Next

\* So events in flight stay truthful, whatever Runs do meanwhile.
LEMMA TruthfulIsStable ==
    ASSUME IInv, [Next]_vars, NEW e \in KernelEvent, Truthful(e)
    PROVE  Truthful(e)'
<1>1. e.cgroup \in Cgroups
      BY Zenon DEF KernelEvent
<1> QED
    BY <1>1, ForeignIsStable, Zenon DEF Truthful

LEMMA LifecycleStep ==
    ASSUME EventInv, [Next]_vars, UNCHANGED eventVars
    PROVE  EventInv'
<1>1. IInv' /\ IdentityInv'
      BY InvariantStep, IdentityStep, Zenon DEF EventInv
<1>2. UNCHANGED <<hook, ring, queue, worker, closing, facts, kills, counts>>
      BY Zenon DEF eventVars
<1>3. EventTypeInv'
      BY <1>2, Zenon DEF EventInv, AttributionInv, EventTypeInv
<1>4. /\ \A i \in DOMAIN ring : ring[i] \in KernelEvent
      /\ \A i \in DOMAIN queue : queue[i] \in KernelEvent
      /\ worker.pc # "idle" => event \in KernelEvent
      BY DEF EventInv, AttributionInv, EventTypeInv, WorkerRecord, event
<1>5. event' = event
      BY <1>2, Zenon DEF event
<1>6. EventsAreTruthful'
  <2>1. ASSUME NEW e \in KernelEvent, Truthful(e) PROVE Truthful(e)'
        BY <2>1, TruthfulIsStable, Zenon DEF EventInv
  <2>2. ASSUME NEW i \in DOMAIN ring' PROVE Truthful(ring[i])'
        BY <1>2, <1>4, <2>1, Zenon DEF EventInv, AttributionInv, EventsAreTruthful
  <2>3. ASSUME NEW i \in DOMAIN queue' PROVE Truthful(queue[i])'
        BY <1>2, <1>4, <2>1, Zenon DEF EventInv, AttributionInv, EventsAreTruthful
  <2>4. ASSUME worker'.pc # "idle" PROVE Truthful(event)'
        BY <1>2, <1>4, <1>5, <2>1, <2>4, Zenon DEF EventInv, AttributionInv, EventsAreTruthful
  <2> QED
      BY <2>2, <2>3, <2>4, Zenon DEF EventsAreTruthful
<1>7. ContainedIsAdded'
  <2> SUFFICES ASSUME worker.pc = "contain"
               PROVE  \E r \in Runs : CookieOf[r] = event.cookie /\ AddedOn(r, event.cgroup)'
      BY <1>2, <1>5, Zenon DEF ContainedIsAdded
  <2>1. PICK r \in Runs : CookieOf[r] = event.cookie /\ AddedOn(r, event.cgroup)
        BY Zenon DEF EventInv, AttributionInv, ContainedIsAdded
  <2>2. event.cgroup \in Cgroups
        BY <1>4, Zenon DEF KernelEvent
  <2>3. AddedOn(r, event.cgroup)'
        BY <1>5, <2>1, <2>2, ForeignIsStable, Zenon DEF EventInv, AddedOn
  <2> QED
      BY <2>1, <2>3, Zenon
<1>8. FactsBelongToCapturingScope' /\ KillsOnlyCapturingScope'
      BY <1>2, Zenon DEF EventInv, AttributionInv, FactsBelongToCapturingScope, KillsOnlyCapturingScope
<1> QED
    BY <1>1, <1>3, <1>6, <1>7, <1>8, Zenon DEF EventInv, AttributionInv

-----------------------------------------------------------------------------
(* Steps of the hook, the reader and the worker. *)

\* What the event steps other than WorkerAttribute leave of the invariant.
LEMMA QuietLifecycle ==
    ASSUME IInv, IdentityInv, UNCHANGED vars
    PROVE  /\ IInv' /\ IdentityInv'
           /\ \A e : Truthful(e) => Truthful(e)'
           /\ \A r, c : AddedOn(r, c) => AddedOn(r, c)'
<1>1. IInv' /\ IdentityInv'
      BY InvariantStep, IdentityStep, Zenon
<1> QED
    BY <1>1, Zenon DEF vars, storeVars, envVars, Truthful, Foreign, AddedOn

LEMMA HookLookupStep ==
    ASSUME EventInv, NEW c \in Cgroups, HookLookup(c)
    PROVE  AttributionInv'
<1> USE DEF EventInv, AttributionInv
<1>1. UNCHANGED vars /\ UNCHANGED <<ring, queue, worker, closing, facts, kills>>
      BY Zenon DEF HookLookup
<1>2. EventTypeInv'
  <2>1. scopeMap[c] \in Runs /\ Written \in SUBSET Runs
        BY Zenon DEF HookLookup, IInv, TypeInv, TypeOK, ScopeTypeOK, Written
  <2>2. counts' \in [Outcomes -> Nat]
        BY DEF HookLookup, Count, EventTypeInv, Outcomes
  <2> QED
      BY <1>1, <2>1, <2>2, Zenon DEF HookLookup, EventTypeInv
<1>3. event' = event
      BY <1>1, Zenon DEF event
<1>4. EventsAreTruthful' /\ ContainedIsAdded'
      BY <1>1, <1>3, QuietLifecycle, Zenon DEF EventsAreTruthful, ContainedIsAdded
<1> QED
    BY <1>1, <1>2, <1>4, Zenon DEF FactsBelongToCapturingScope, KillsOnlyCapturingScope

\* The record carries the cookie of the registration found, or of a later one
\* whose map entry reused the element.
LEMMA HookSubmitStep ==
    ASSUME DistinctCookies, EventInv, HookSubmit
    PROVE  AttributionInv'
<1> USE DEF EventInv, AttributionInv
<1>1. UNCHANGED vars /\ UNCHANGED <<queue, worker, closing, facts, kills>>
      BY Zenon DEF HookSubmit
<1>2. event' = event
      BY <1>1, Zenon DEF event
<1>3. hook'.pc = "idle" /\ hook' \in [pc : {"idle", "found"}, cgroup : Cgroups \cup {NoCgroup},
                                      run : Runs \cup {NoRun}, earlier : SUBSET Runs]
      BY Zenon DEF HookSubmit, IdleHook
<1>4. CASE counts' = Count("ringDrop") /\ UNCHANGED ring
  <2>1. counts' \in [Outcomes -> Nat]
        BY <1>4 DEF Count, EventTypeInv, Outcomes
  <2>2. EventTypeInv'
        BY <1>1, <1>3, <1>4, <2>1, Zenon DEF EventTypeInv
  <2>3. EventsAreTruthful' /\ ContainedIsAdded'
        BY <1>1, <1>2, <1>4, QuietLifecycle, Zenon DEF EventsAreTruthful, ContainedIsAdded
  <2> QED
      BY <1>1, <2>2, <2>3, Zenon DEF FactsBelongToCapturingScope, KillsOnlyCapturingScope
<1>5. ASSUME NEW r \in Copied, Len(ring) < RingSize, UNCHANGED counts,
             ring' = Append(ring, [cgroup |-> hook.cgroup, cookie |-> CookieOf[r],
                                   owners |-> {s \in Copied : s = hook.run \/ WrittenTo(s, hook.cgroup)}])
      PROVE  AttributionInv'
  <2> DEFINE owners == {s \in Copied : s = hook.run \/ WrittenTo(s, hook.cgroup)}
             e == [cgroup |-> hook.cgroup, cookie |-> CookieOf[r], owners |-> owners]
  <2>1. hook.run \in Runs /\ hook.cgroup \in Cgroups
        BY Zenon DEF HookSubmit, EventTypeInv
  <2>2. Copied \subseteq Runs /\ \A s \in Copied : s = hook.run \/ origin[s] # NoRequest
        BY <2>1, Zenon DEF Copied, Written
  <2>3. e \in KernelEvent
        BY <2>1, <2>2, ScopeAssumption, Zenon DEF KernelEvent
  <2>4. Truthful(e)
    <3> SUFFICES ASSUME NEW s \in Runs, CookieOf[s] = CookieOf[r], s \notin owners
                 PROVE  Foreign(s, hook.cgroup)
        BY Zenon DEF Truthful
    <3>1. s = r /\ s # hook.run /\ ~WrittenTo(s, hook.cgroup)
          BY <1>5, <2>2, Zenon DEF DistinctCookies
    <3> QED
        BY <1>5, <2>2, <3>1, Zenon DEF WrittenTo, Foreign
  <2> HIDE DEF e, owners
  <2>5. ring' = Append(ring, e)
        BY <1>5, Zenon DEF e, owners
  <2>6. /\ ring' \in Seq(KernelEvent) /\ Len(ring') <= RingSize
        /\ \A i \in DOMAIN ring' : (i \in DOMAIN ring /\ ring'[i] = ring[i]) \/ ring'[i] = e
        BY <1>5, <2>3, <2>5, EventAssumption DEF EventTypeInv
  <2>7. EventTypeInv'
        BY <1>1, <1>3, <1>5, <2>6, Zenon DEF EventTypeInv
  <2>8. \A f : Truthful(f) => Truthful(f)'
        BY <1>1, QuietLifecycle, Zenon
  <2>9. EventsAreTruthful'
    <3>1. ASSUME NEW i \in DOMAIN ring' PROVE Truthful(ring[i])'
          BY <2>4, <2>6, <2>8, Zenon DEF EventsAreTruthful
    <3> QED
        BY <1>1, <1>2, <2>8, <3>1, Zenon DEF EventsAreTruthful
  <2>10. ContainedIsAdded'
        BY <1>1, <1>2, QuietLifecycle, Zenon DEF ContainedIsAdded
  <2> QED
      BY <1>1, <2>7, <2>9, <2>10, Zenon DEF FactsBelongToCapturingScope, KillsOnlyCapturingScope
<1> QED
    BY <1>4, <1>5, Zenon DEF HookSubmit

\* Taking the first element of a queue of events.
LEMMA TailFacts ==
    ASSUME NEW s \in Seq(KernelEvent), s # <<>>
    PROVE  /\ Tail(s) \in Seq(KernelEvent) /\ Len(Tail(s)) = Len(s) - 1
           /\ Head(s) \in KernelEvent /\ Head(s) = s[1] /\ 1 \in DOMAIN s
           /\ \A i \in DOMAIN Tail(s) : i + 1 \in DOMAIN s /\ Tail(s)[i] = s[i + 1]
OBVIOUS

LEMMA SubmitStep ==
    ASSUME EventInv, Submit
    PROVE  AttributionInv'
<1> USE DEF EventInv, AttributionInv
<1>1. UNCHANGED vars /\ UNCHANGED <<hook, worker, closing, facts, kills>>
      BY Zenon DEF Submit
<1>2. event' = event
      BY <1>1, Zenon DEF event
<1>3. /\ ring' \in Seq(KernelEvent) /\ Len(ring') <= RingSize
      /\ \A i \in DOMAIN ring' : i + 1 \in DOMAIN ring /\ ring'[i] = ring[i + 1]
      /\ Head(ring) \in KernelEvent /\ Head(ring) = ring[1] /\ 1 \in DOMAIN ring
      BY TailFacts, EventAssumption DEF Submit, EventTypeInv
<1>4. counts' \in [Outcomes -> Nat]
      BY DEF Submit, Count, EventTypeInv, Outcomes
<1>5. /\ queue' \in Seq(KernelEvent) /\ Len(queue') <= QueueSize
      /\ \A i \in DOMAIN queue' : (i \in DOMAIN queue /\ queue'[i] = queue[i]) \/ queue'[i] = ring[1]
  <2>1. CASE UNCHANGED queue
        BY <2>1, Zenon DEF EventTypeInv
  <2>2. CASE queue' = Append(queue, ring[1]) /\ Len(queue) < QueueSize
        BY <1>3, <2>2, EventAssumption DEF EventTypeInv
  <2> QED
      BY <1>3, <2>1, <2>2, Zenon DEF Submit
<1>6. EventTypeInv'
      BY <1>1, <1>3, <1>4, <1>5, Zenon DEF EventTypeInv
<1>7. \A f : Truthful(f) => Truthful(f)'
      BY <1>1, QuietLifecycle, Zenon
<1>8. EventsAreTruthful'
  <2>1. ASSUME NEW i \in DOMAIN ring' PROVE Truthful(ring[i])'
        BY <1>3, <1>7, Zenon DEF EventsAreTruthful
  <2>2. ASSUME NEW i \in DOMAIN queue' PROVE Truthful(queue[i])'
        BY <1>3, <1>5, <1>7, Zenon DEF EventsAreTruthful
  <2> QED
      BY <1>1, <1>2, <1>7, <2>1, <2>2, Zenon DEF EventsAreTruthful
<1>9. ContainedIsAdded'
      BY <1>1, <1>2, QuietLifecycle, Zenon DEF ContainedIsAdded
<1> QED
    BY <1>1, <1>6, <1>8, <1>9, Zenon DEF FactsBelongToCapturingScope, KillsOnlyCapturingScope

LEMMA CloseStep ==
    ASSUME EventInv, Close
    PROVE  AttributionInv'
<1> USE DEF EventInv, AttributionInv
<1>1. UNCHANGED vars /\ UNCHANGED <<hook, ring, queue, worker, facts, kills, counts>> /\ closing' = TRUE
      BY Zenon DEF Close
<1>2. event' = event
      BY <1>1, SMTT(30) DEF event
<1>3. EventsAreTruthful' /\ ContainedIsAdded'
      BY <1>1, <1>2, QuietLifecycle, Zenon DEF EventsAreTruthful, ContainedIsAdded
<1> QED
    BY <1>1, <1>3, Zenon DEF EventTypeInv, FactsBelongToCapturingScope, KillsOnlyCapturingScope

LEMMA WorkerTakeStep ==
    ASSUME EventInv, WorkerTake
    PROVE  AttributionInv'
<1> USE DEF EventInv, AttributionInv
<1>1. UNCHANGED vars /\ UNCHANGED <<hook, ring, closing, facts, kills, counts>>
      BY Zenon DEF WorkerTake
<1>2. /\ queue' \in Seq(KernelEvent) /\ Len(queue') <= QueueSize
      /\ \A i \in DOMAIN queue' : i + 1 \in DOMAIN queue /\ queue'[i] = queue[i + 1]
      /\ Head(queue) \in KernelEvent /\ Head(queue) = queue[1] /\ 1 \in DOMAIN queue
      BY TailFacts, EventAssumption DEF WorkerTake, EventTypeInv
<1>3. worker' = [pc |-> "attribute", events |-> <<queue[1]>>, run |-> NoRun] /\ event' = queue[1]
      BY <1>2 DEF WorkerTake, event
<1>4. worker' \in WorkerRecord /\ worker'.events # <<>> /\ worker'.pc = "attribute"
  <2>1. <<queue[1]>> \in Seq(KernelEvent) /\ <<queue[1]>> # <<>>
        BY <1>2
  <2> QED
      BY <1>3, <2>1, Zenon DEF WorkerRecord
<1>5. EventTypeInv'
      BY <1>1, <1>2, <1>4, Zenon DEF EventTypeInv
<1>6. \A f : Truthful(f) => Truthful(f)'
      BY <1>1, QuietLifecycle, Zenon
<1>7. EventsAreTruthful'
  <2>1. ASSUME NEW i \in DOMAIN queue' PROVE Truthful(queue[i])'
        BY <1>2, <1>6, Zenon DEF EventsAreTruthful
  <2>2. Truthful(event)'
        BY <1>2, <1>3, <1>6, Zenon DEF EventsAreTruthful
  <2> QED
      BY <1>1, <1>6, <2>1, <2>2, Zenon DEF EventsAreTruthful
<1> QED
    BY <1>1, <1>4, <1>5, <1>7, Zenon DEF ContainedIsAdded, FactsBelongToCapturingScope, KillsOnlyCapturingScope

\* A fact is recorded for the Run the cookie names, if it is on the event's
\* cgroup: then it is not Foreign, so it held the cgroup.
LEMMA WorkerAttributeStep ==
    ASSUME EventInv, WorkerAttribute
    PROVE  EventInv'
<1> USE DEF EventInv, AttributionInv
<1>1. /\ UNCHANGED <<scopeVars, runStatus, runCgroup, runRegistered, runEnded, activeByCgroup,
                     latestByCgroup, liveByIdentity, terminating, tombstoneSeq, envVars, call,
                     replays, term, mon, overview>>
      /\ UNCHANGED <<hook, ring, queue, closing, kills>>
      /\ tombstones' \subseteq tombstones
      BY Zenon DEF WorkerAttribute, pruneTombstones
<1>2. IInv'
  <2>1. TypeInv'
        BY <1>1, Zenon DEF IInv, TypeInv, TypeOK, ScopeTypeOK, StoreTypeOK, HandlersWellFormed,
                    HoldsRegistrationMu, scopeVars, envVars
  <2>2. OwnInv'
        BY <1>1, OwnQuiet, Zenon DEF IInv, OwnInv, ownVars, scopeVars, envVars
  <2> QED
      BY <2>1, <2>2, Zenon DEF IInv, OwnInv
<1>3. IdentityInv'
      BY <1>1, IdentityQuiet, Zenon
<1>4. \A f : Truthful(f) => Truthful(f)'
      BY <1>1, Zenon DEF Truthful, Foreign, envVars
<1>5. worker.events # <<>> /\ event \in KernelEvent /\ Truthful(event) /\ worker \in WorkerRecord
      BY SMTT(30) DEF WorkerAttribute, EventTypeInv, WorkerRecord, EventsAreTruthful, event
<1> DEFINE r == attribute(event.cookie, tombstones')
<1>6. r # NoRun => r \in Runs /\ CookieOf[r] = event.cookie
  <2>1. event.cookie \in Cookies
        BY <1>5, Zenon DEF KernelEvent
  <2>2. CASE liveByIdentity[event.cookie] # NoRun
        BY <2>1, <2>2, Zenon DEF attribute, IInv, TypeInv, TypeOK, StoreTypeOK, IdentityInv
  <2>3. CASE liveByIdentity[event.cookie] = NoRun /\ TombstonesOf(event.cookie, tombstones') # {}
    <3>1. PICK t \in TombstonesOf(event.cookie, tombstones') : r = t.run
          BY <2>3, Zenon DEF attribute
    <3>2. t \in tombstones /\ t.cookie = event.cookie
          BY <1>1, <3>1, Zenon DEF TombstonesOf
    <3>3. t.run \in Runs
          BY <3>2, Zenon DEF IInv, TypeInv, TypeOK, StoreTypeOK, runTombstone
    <3> QED
        BY <3>1, <3>2, <3>3, Zenon DEF IdentityInv
  <2> QED
      BY <2>2, <2>3, Zenon DEF attribute
<1> HIDE DEF r
<1>7. CASE /\ worker' = IdleWorker /\ UNCHANGED facts
           /\ counts' = Count("unattributed") \/ counts' = Count("mismatch")
  <2>1. counts' \in [Outcomes -> Nat]
        BY <1>7, SMTT(30) DEF Count, EventTypeInv, Outcomes
  <2>2. worker'.pc = "idle" /\ worker' \in WorkerRecord
    <3>1. <<>> \in Seq(KernelEvent)
          OBVIOUS
    <3> QED
        BY <1>7, <3>1, Zenon DEF IdleWorker, WorkerRecord
  <2>3. EventTypeInv'
        BY <1>1, <1>7, <2>1, <2>2, SMTT(30) DEF EventTypeInv
  <2>4. EventsAreTruthful' /\ ContainedIsAdded'
        BY <1>1, <1>4, <2>2, Zenon DEF EventsAreTruthful, ContainedIsAdded
  <2> QED
      BY <1>1, <1>2, <1>3, <1>7, <2>3, <2>4, Zenon DEF FactsBelongToCapturingScope, KillsOnlyCapturingScope
<1>8. CASE /\ r # NoRun /\ RegisteredCgroup(r) /\ counts' = Count("recorded")
           /\ facts' = facts \cup {[run |-> r, owners |-> event.owners]}
           /\ worker' = [worker EXCEPT !.pc = "policy", !.run = r]
  <2>1. r \in event.owners
        BY <1>5, <1>6, <1>8, Zenon DEF Truthful, Foreign, RegisteredCgroup
  <2>2. counts' \in [Outcomes -> Nat]
        BY <1>8 DEF Count, EventTypeInv, Outcomes
  <2>3. worker' \in WorkerRecord /\ worker'.pc = "policy" /\ worker'.events = worker.events
        BY <1>5, <1>6, <1>8, Zenon DEF WorkerRecord
  <2>4. event' = event
        BY <2>3, Zenon DEF event
  <2>5. facts' \in SUBSET [run : Runs, owners : SUBSET Runs]
        BY <1>5, <1>6, <1>8 DEF EventTypeInv, KernelEvent
  <2>6. EventTypeInv'
        BY <1>1, <1>5, <2>2, <2>3, <2>5, SMTT(30) DEF EventTypeInv
  <2>7. EventsAreTruthful' /\ ContainedIsAdded'
        BY <1>1, <1>4, <1>5, <2>3, <2>4, Zenon DEF EventsAreTruthful, ContainedIsAdded
  <2>8. FactsBelongToCapturingScope'
        BY <1>8, <2>1 DEF FactsBelongToCapturingScope
  <2> QED
      BY <1>1, <1>2, <1>3, <2>6, <2>7, <2>8, Zenon DEF KillsOnlyCapturingScope
<1> QED
    BY <1>7, <1>8, Zenon DEF WorkerAttribute, r

LEMMA WorkerPolicyStep ==
    ASSUME EventInv, WorkerPolicy
    PROVE  AttributionInv'
<1> USE DEF EventInv, AttributionInv
<1>1. UNCHANGED vars /\ UNCHANGED <<hook, ring, queue, closing, facts, kills, counts>>
      BY Zenon DEF WorkerPolicy
<1>2. /\ \A f : Truthful(f) => Truthful(f)'
      /\ \A r, c : AddedOn(r, c) => AddedOn(r, c)'
      BY <1>1, QuietLifecycle, Zenon
<1>3. worker.events # <<>> /\ event \in KernelEvent /\ Truthful(event) /\ worker \in WorkerRecord
      BY DEF WorkerPolicy, EventTypeInv, WorkerRecord, EventsAreTruthful, event
<1>4. CASE worker' = IdleWorker
  <2>1. worker'.pc = "idle" /\ worker' \in WorkerRecord
    <3>1. <<>> \in Seq(KernelEvent)
          OBVIOUS
    <3> QED
        BY <1>4, <3>1, Zenon DEF IdleWorker, WorkerRecord
  <2>2. EventTypeInv'
        BY <1>1, <2>1, Zenon DEF EventTypeInv
  <2>3. EventsAreTruthful' /\ ContainedIsAdded'
        BY <1>1, <1>2, <2>1, Zenon DEF EventsAreTruthful, ContainedIsAdded
  <2> QED
      BY <1>1, <2>2, <2>3, Zenon DEF FactsBelongToCapturingScope, KillsOnlyCapturingScope
<1>5. CASE /\ activeRunForPolicyEvent(event.cgroup, event.cookie) # NoRun
           /\ worker' = [worker EXCEPT !.pc = "contain"]
  <2>1. worker' \in WorkerRecord /\ worker'.events = worker.events
        BY <1>3, <1>5, Zenon DEF WorkerRecord
  <2>2. event' = event
        BY <2>1, Zenon DEF event
  <2>3. EventTypeInv'
        BY <1>1, <1>3, <2>1, Zenon DEF EventTypeInv
  <2>4. EventsAreTruthful'
        BY <1>1, <1>2, <1>3, <2>2, Zenon DEF EventsAreTruthful
  <2>5. PICK r \in Runs : CookieOf[r] = event.cookie /\ AddedOn(r, event.cgroup)
    <3>1. liveByIdentity[event.cookie] \in Runs
          BY <1>3, <1>5, Zenon DEF activeRunForPolicyEvent, IInv, TypeInv, TypeOK, StoreTypeOK, KernelEvent
    <3> QED
        BY <1>5, <3>1, Zenon DEF activeRunForPolicyEvent, AddedOn
  <2>6. ContainedIsAdded'
        BY <1>2, <2>2, <2>5, Zenon DEF ContainedIsAdded
  <2> QED
      BY <1>1, <2>3, <2>4, <2>6, Zenon DEF FactsBelongToCapturingScope, KillsOnlyCapturingScope
<1> QED
    BY <1>4, <1>5, Zenon DEF WorkerPolicy

\* The registration killed has the event's cookie, so it is the Run that was
\* added on this cgroup: it is live and it held the cgroup.
LEMMA WorkerContainStep ==
    ASSUME DistinctCookies, EventInv, WorkerContain
    PROVE  AttributionInv'
<1> USE DEF EventInv, AttributionInv
<1>1. UNCHANGED vars /\ UNCHANGED <<hook, ring, queue, closing, facts, counts>> /\ worker' = IdleWorker
      BY Zenon DEF WorkerContain
<1>2. worker'.pc = "idle" /\ worker' \in WorkerRecord
  <2>1. <<>> \in Seq(KernelEvent)
        BY SMTT(30)
  <2> QED
      BY <1>1, <2>1, Zenon DEF IdleWorker, WorkerRecord
<1>3. event \in KernelEvent /\ Truthful(event)
      BY DEF WorkerContain, EventTypeInv, WorkerRecord, EventsAreTruthful, event
<1>4. kills' \in SUBSET [scope : Runs, owners : SUBSET Runs, live : BOOLEAN] /\ KillsOnlyCapturingScope'
  <2>1. CASE UNCHANGED kills
        BY <2>1, Zenon DEF EventTypeInv, KillsOnlyCapturingScope
  <2>2. CASE /\ WithActiveIdentity(event.cgroup, event.cookie)
             /\ kills' = kills \cup {[scope |-> active[event.cgroup], owners |-> event.owners,
                                      live |-> Live(active[event.cgroup])]}
    <3>1. PICK r \in Runs : CookieOf[r] = event.cookie /\ AddedOn(r, event.cgroup)
          BY Zenon DEF WorkerContain, ContainedIsAdded
    <3>2. active[event.cgroup] = r
          BY <1>3, <2>2, <3>1, Zenon DEF WithActiveIdentity, DistinctCookies, IInv, TypeInv, TypeOK, ScopeTypeOK,
                                KernelEvent
    <3>3. Live(r)
          BY <1>3, <3>1, <3>2, Zenon DEF IInv, ScopesMatchRuns, AddedOn, KernelEvent
    <3>4. r \in event.owners
          BY <1>3, <3>1, Zenon DEF Truthful, Foreign, AddedOn
    <3>5. kills' = kills \cup {[scope |-> r, owners |-> event.owners, live |-> TRUE]}
          BY <2>2, <3>2, <3>3, Zenon DEF Live
    <3>6. [scope |-> r, owners |-> event.owners, live |-> TRUE]
              \in [scope : Runs, owners : SUBSET Runs, live : BOOLEAN]
          BY <1>3, Zenon DEF KernelEvent
    <3>7. kills' \in SUBSET [scope : Runs, owners : SUBSET Runs, live : BOOLEAN]
          BY <3>5, <3>6, Zenon DEF EventTypeInv
    <3>8. KillsOnlyCapturingScope'
          BY <3>4, <3>5 DEF KillsOnlyCapturingScope
    <3> QED
        BY <3>7, <3>8, Zenon
  <2> QED
      BY <2>1, <2>2, Zenon DEF WorkerContain
<1>5. EventTypeInv'
      BY <1>1, <1>2, <1>4, Zenon DEF EventTypeInv
<1>6. EventsAreTruthful' /\ ContainedIsAdded'
      BY <1>1, <1>2, QuietLifecycle, Zenon DEF EventsAreTruthful, ContainedIsAdded
<1> QED
    BY <1>1, <1>4, <1>5, <1>6, Zenon DEF FactsBelongToCapturingScope

-----------------------------------------------------------------------------
(* Theorems. *)

LEMMA EventInitial == EventInit => EventInv
<1> SUFFICES ASSUME EventInit PROVE EventInv
    BY Zenon
<1>1. IInv /\ IdentityInv
      BY InvariantInit, IdentityInit, Zenon DEF EventInit
<1>2. <<>> \in Seq(KernelEvent) /\ Len(<<>>) = 0 /\ DOMAIN <<>> = {}
      OBVIOUS
<1>3. EventTypeInv
  <2>1. IdleWorker \in WorkerRecord /\ IdleWorker.pc = "idle"
        BY <1>2, Zenon DEF IdleWorker, WorkerRecord
  <2>2. counts \in [Outcomes -> Nat]
        BY Zenon DEF EventInit
  <2>3. hook.pc = "idle" /\ hook \in [pc : {"idle", "found"}, cgroup : Cgroups \cup {NoCgroup},
                                      run : Runs \cup {NoRun}, earlier : SUBSET Runs]
        BY Zenon DEF EventInit, IdleHook
  <2>4. Len(ring) <= RingSize /\ Len(queue) <= QueueSize
        BY <1>2, EventAssumption DEF EventInit
  <2> QED
      BY <1>2, <2>1, <2>2, <2>3, <2>4, Zenon DEF EventInit, EventTypeInv
<1> QED
    BY <1>1, <1>2, <1>3, Zenon DEF EventInit, EventInv, AttributionInv, EventsAreTruthful, ContainedIsAdded,
       FactsBelongToCapturingScope, KillsOnlyCapturingScope, IdleWorker

LEMMA EventInductive ==
    ASSUME DistinctCookies, EventInv, [EventNext]_allVars
    PROVE  EventInv'
<1>1. CASE UNCHANGED allVars
      BY <1>1, LifecycleStep, Zenon DEF allVars
<1>2. CASE Next /\ UNCHANGED eventVars
      BY <1>2, LifecycleStep, Zenon
<1>3. CASE WorkerAttribute
      BY <1>3, WorkerAttributeStep, Zenon
<1>4. CASE (\E c \in Cgroups : HookLookup(c)) \/ HookSubmit \/ Submit \/ Close \/ WorkerTake
           \/ WorkerPolicy \/ WorkerContain
  <2>1. AttributionInv'
        BY <1>4, HookLookupStep, HookSubmitStep, SubmitStep, CloseStep, WorkerTakeStep, WorkerPolicyStep,
           WorkerContainStep, Zenon
  <2>2. UNCHANGED vars
        BY <1>4, Zenon DEF HookLookup, HookSubmit, Submit, Close, WorkerTake, WorkerPolicy, WorkerContain
  <2>3. IInv' /\ IdentityInv'
        BY <2>2, QuietLifecycle, Zenon DEF EventInv
  <2> QED
      BY <2>1, <2>3, Zenon DEF EventInv
<1> QED
    BY <1>1, <1>2, <1>3, <1>4, Zenon DEF EventNext, EventStep

\* The invariant of the event path, on top of that of the Run lifecycle.
THEOREM EventInvariance ==
    ASSUME DistinctCookies
    PROVE  EventSpec => []EventInv
<1>1. EventInv /\ [EventNext]_allVars => EventInv'
      BY EventInductive, Zenon
<1> QED
    BY <1>1, EventInitial, PTL DEF EventSpec

\* However late the worker attributes a record, and however often the cgroup
\* was registered again meanwhile, a fact is recorded for a Run that held the
\* cgroup when the hook captured it (processKernel's check of the cookie and of
\* the Run's cgroup).
THEOREM FactsAreAttributed ==
    ASSUME DistinctCookies
    PROVE  EventSpec => []FactsBelongToCapturingScope
<1>1. EventInv => FactsBelongToCapturingScope
      BY Zenon DEF EventInv, AttributionInv
<1> QED
    BY <1>1, EventInvariance, PTL

\* A containment kills the live registration that held the cgroup at capture,
\* never its successor (ProcessAuditEvent, WithActiveIdentity).
THEOREM KillsAreAttributed ==
    ASSUME DistinctCookies
    PROVE  EventSpec => []KillsOnlyCapturingScope
<1>1. EventInv => KillsOnlyCapturingScope
      BY Zenon DEF EventInv, AttributionInv
<1> QED
    BY <1>1, EventInvariance, PTL

\* Hook, ring, queue and worker keep their types and their capacities.
THEOREM EventsAreTyped ==
    ASSUME DistinctCookies
    PROVE  EventSpec => []EventTypeOK
<1>1. EventInv => EventTypeOK
  <2> SUFFICES ASSUME EventInv PROVE EventTypeOK
      BY Zenon
  <2> USE DEF EventInv, AttributionInv, EventTypeInv
  <2>1. TypeOK
        BY Zenon DEF IInv, TypeInv
  <2>2. Len(ring) \in 0 .. RingSize /\ \A i \in DOMAIN ring : ring[i] \in KernelEvent
        BY EventAssumption
  <2>3. Len(queue) \in 0 .. QueueSize /\ \A i \in DOMAIN queue : queue[i] \in KernelEvent
        BY EventAssumption
  <2>4. worker.pc # "idle" => event \in KernelEvent
        BY DEF event, WorkerRecord
  <2> QED
      BY <2>1, <2>2, <2>3, <2>4, Zenon DEF EventTypeOK, WorkerRecord
<1> QED
    BY <1>1, EventInvariance, PTL

\* The terms of the balance: events held by the hook and by the worker, and
\* those that were recorded or lost.
InHook == IF hook.pc = "found" THEN 1 ELSE 0
InWorker == IF worker.pc = "attribute" THEN 1 ELSE 0
Accounted(n) == n["ringDrop"] + n["queueDrop"] + n["unattributed"] + n["mismatch"] + n["recorded"]

\* The balance, with what is accounted for in one term.
LEMMA BalanceTerms ==
    ASSUME NEW n \in [Outcomes -> Nat], NEW h \in Nat, NEW i \in Nat, NEW j \in Nat, NEW w \in Nat
    PROVE  /\ n["captured"] \in Nat /\ Accounted(n) \in Nat
           /\ n["captured"] = h + i + j + w + n["ringDrop"] + n["queueDrop"]
                                + n["unattributed"] + n["mismatch"] + n["recorded"]
              <=> n["captured"] = h + i + j + w + Accounted(n)
<1>1. PICK c \in Nat, p \in Nat, q \in Nat, u \in Nat, m \in Nat, k \in Nat :
          /\ n["captured"] = c /\ n["ringDrop"] = p /\ n["queueDrop"] = q
          /\ n["unattributed"] = u /\ n["mismatch"] = m /\ n["recorded"] = k
      BY Zenon DEF Outcomes
<1>2. Accounted(n) = p + q + u + m + k
      BY <1>1, Zenon DEF Accounted
<1>3. h + i + j + w + p + q + u + m + k = h + i + j + w + (p + q + u + m + k)
      OBVIOUS
<1> QED
    BY <1>1, <1>2, <1>3

\* Counting one outcome.
LEMMA CountFacts ==
    ASSUME counts \in [Outcomes -> Nat], NEW o \in Outcomes
    PROVE  IF o = "captured"
           THEN Count(o)["captured"] = counts["captured"] + 1 /\ Accounted(Count(o)) = Accounted(counts)
           ELSE Count(o)["captured"] = counts["captured"] /\ Accounted(Count(o)) = Accounted(counts) + 1
<1>1. Count(o)[o] = counts[o] + 1 /\ \A p \in Outcomes \ {o} : Count(o)[p] = counts[p]
      BY Zenon DEF Count
<1>2. PICK p \in Nat, q \in Nat, u \in Nat, m \in Nat, k \in Nat :
          /\ counts["ringDrop"] = p /\ counts["queueDrop"] = q /\ counts["unattributed"] = u
          /\ counts["mismatch"] = m /\ counts["recorded"] = k
      BY Zenon DEF Outcomes
<1>3. Accounted(counts) = p + q + u + m + k
      BY <1>2, Zenon DEF Accounted
<1>4. CASE o = "captured"
  <2>1. /\ Count(o)["ringDrop"] = p /\ Count(o)["queueDrop"] = q /\ Count(o)["unattributed"] = u
        /\ Count(o)["mismatch"] = m /\ Count(o)["recorded"] = k
        BY <1>1, <1>2, <1>4, Zenon DEF Outcomes
  <2> QED
      BY <1>1, <1>3, <1>4, <2>1, Zenon DEF Accounted
<1>5. CASE o # "captured"
  <2>1. Count(o)["captured"] = counts["captured"]
        BY <1>1, <1>5, Zenon DEF Outcomes
  <2>2. CASE o = "ringDrop"
    <3>1. /\ Count(o)["ringDrop"] = p + 1 /\ Count(o)["queueDrop"] = q /\ Count(o)["unattributed"] = u
          /\ Count(o)["mismatch"] = m /\ Count(o)["recorded"] = k
          BY <1>1, <1>2, <2>2, Zenon DEF Outcomes
    <3>2. Accounted(Count(o)) = (p + 1) + q + u + m + k
          BY <3>1, Zenon DEF Accounted
    <3> QED
        BY <1>3, <1>5, <2>1, <3>2
  <2>3. CASE o = "queueDrop"
    <3>1. /\ Count(o)["ringDrop"] = p /\ Count(o)["queueDrop"] = q + 1 /\ Count(o)["unattributed"] = u
          /\ Count(o)["mismatch"] = m /\ Count(o)["recorded"] = k
          BY <1>1, <1>2, <2>3, Zenon DEF Outcomes
    <3>2. Accounted(Count(o)) = p + (q + 1) + u + m + k
          BY <3>1, Zenon DEF Accounted
    <3> QED
        BY <1>3, <1>5, <2>1, <3>2
  <2>4. CASE o = "unattributed"
    <3>1. /\ Count(o)["ringDrop"] = p /\ Count(o)["queueDrop"] = q /\ Count(o)["unattributed"] = u + 1
          /\ Count(o)["mismatch"] = m /\ Count(o)["recorded"] = k
          BY <1>1, <1>2, <2>4, Zenon DEF Outcomes
    <3>2. Accounted(Count(o)) = p + q + (u + 1) + m + k
          BY <3>1, Zenon DEF Accounted
    <3> QED
        BY <1>3, <1>5, <2>1, <3>2
  <2>5. CASE o = "mismatch"
    <3>1. /\ Count(o)["ringDrop"] = p /\ Count(o)["queueDrop"] = q /\ Count(o)["unattributed"] = u
          /\ Count(o)["mismatch"] = m + 1 /\ Count(o)["recorded"] = k
          BY <1>1, <1>2, <2>5, Zenon DEF Outcomes
    <3>2. Accounted(Count(o)) = p + q + u + (m + 1) + k
          BY <3>1, Zenon DEF Accounted
    <3> QED
        BY <1>3, <1>5, <2>1, <3>2
  <2>6. CASE o = "recorded"
    <3>1. /\ Count(o)["ringDrop"] = p /\ Count(o)["queueDrop"] = q /\ Count(o)["unattributed"] = u
          /\ Count(o)["mismatch"] = m /\ Count(o)["recorded"] = k + 1
          BY <1>1, <1>2, <2>6, Zenon DEF Outcomes
    <3>2. Accounted(Count(o)) = p + q + u + m + (k + 1)
          BY <3>1, Zenon DEF Accounted
    <3> QED
        BY <1>3, <1>5, <2>1, <3>2
  <2> QED
      BY <1>5, <2>2, <2>3, <2>4, <2>5, <2>6, Zenon DEF Outcomes
<1> QED
    BY <1>4, <1>5, Zenon

\* A step moves an event by one place, or takes one in.
LEMMA BalanceStep ==
    ASSUME EventInv, EventTypeInv', EveryCaptureAccounted, EventStep
    PROVE  EveryCaptureAccounted'
<1>0. /\ EventTypeInv /\ counts \in [Outcomes -> Nat] /\ worker \in WorkerRecord
      /\ ring \in Seq(KernelEvent) /\ queue \in Seq(KernelEvent)
      BY SMTT(30) DEF EventInv, AttributionInv, EventTypeInv
<1>a. /\ InHook \in Nat /\ Len(ring) \in Nat /\ Len(queue) \in Nat /\ InWorker \in Nat
      /\ InHook' \in Nat /\ Len(ring') \in Nat /\ Len(queue') \in Nat /\ InWorker' \in Nat
      /\ counts' \in [Outcomes -> Nat]
      BY <1>0 DEF EventTypeInv, InHook, InWorker
<1>1. /\ counts["captured"] \in Nat /\ Accounted(counts) \in Nat
      /\ InHook \in Nat /\ Len(ring) \in Nat /\ Len(queue) \in Nat /\ InWorker \in Nat
      /\ counts["captured"] = InHook + Len(ring) + Len(queue) + InWorker + Accounted(counts)
  <2>1. counts["captured"] = InHook + Len(ring) + Len(queue) + InWorker
            + counts["ringDrop"] + counts["queueDrop"]
            + counts["unattributed"] + counts["mismatch"] + counts["recorded"]
        BY Zenon DEF EveryCaptureAccounted, InHook, InWorker
  <2>2. PICK n \in [Outcomes -> Nat], h \in Nat, i \in Nat, j \in Nat, w \in Nat :
            n = counts /\ h = InHook /\ i = Len(ring) /\ j = Len(queue) /\ w = InWorker
        BY <1>0, <1>a, Zenon
  <2>3. /\ n["captured"] \in Nat /\ Accounted(n) \in Nat
        /\ n["captured"] = h + i + j + w + n["ringDrop"] + n["queueDrop"]
                             + n["unattributed"] + n["mismatch"] + n["recorded"]
           <=> n["captured"] = h + i + j + w + Accounted(n)
        BY BalanceTerms
  <2> QED
      BY <1>a, <2>1, <2>2, <2>3, Zenon
<1>2. EveryCaptureAccounted' <=>
          counts'["captured"] = InHook' + Len(ring') + Len(queue') + InWorker' + Accounted(counts')
  <2>1. EveryCaptureAccounted' <=>
            counts'["captured"] = InHook' + Len(ring') + Len(queue') + InWorker'
                + counts'["ringDrop"] + counts'["queueDrop"]
                + counts'["unattributed"] + counts'["mismatch"] + counts'["recorded"]
        BY Zenon DEF EveryCaptureAccounted, InHook, InWorker
  <2>2. PICK n \in [Outcomes -> Nat], h \in Nat, i \in Nat, j \in Nat, w \in Nat :
            n = counts' /\ h = InHook' /\ i = Len(ring') /\ j = Len(queue') /\ w = InWorker'
        BY <1>a, Zenon
  <2>3. n["captured"] = h + i + j + w + n["ringDrop"] + n["queueDrop"]
                            + n["unattributed"] + n["mismatch"] + n["recorded"]
        <=> n["captured"] = h + i + j + w + Accounted(n)
        BY BalanceTerms
  <2> QED
      BY <2>1, <2>2, <2>3, Zenon
<1>3. ASSUME NEW c \in Cgroups, HookLookup(c) PROVE EveryCaptureAccounted'
  <2>1. InHook = 0 /\ InHook' = 1 /\ UNCHANGED <<ring, queue, worker>> /\ InWorker' = InWorker
        BY <1>3, Zenon DEF HookLookup, InHook, InWorker
  <2>2. counts'["captured"] = counts["captured"] + 1 /\ Accounted(counts') = Accounted(counts)
        BY <1>0, <1>3, CountFacts, Zenon DEF HookLookup, Outcomes
  <2> QED
      BY <1>1, <1>2, <2>1, <2>2
<1>4. ASSUME NEW o \in Outcomes \ {"captured"}, counts' = Count(o),
             InHook' + Len(ring') + Len(queue') + InWorker' = InHook + Len(ring) + Len(queue) + InWorker - 1,
             InHook' \in Nat, Len(ring') \in Nat, Len(queue') \in Nat, InWorker' \in Nat
      PROVE  EveryCaptureAccounted'
  <2>1. counts'["captured"] = counts["captured"] /\ Accounted(counts') = Accounted(counts) + 1
        BY <1>0, <1>4, CountFacts, Zenon
  <2> QED
      BY <1>1, <1>2, <1>4, <2>1
<1>5. ASSUME UNCHANGED counts,
             InHook' + Len(ring') + Len(queue') + InWorker' = InHook + Len(ring) + Len(queue) + InWorker,
             InHook' \in Nat, Len(ring') \in Nat, Len(queue') \in Nat, InWorker' \in Nat
      PROVE  EveryCaptureAccounted'
  <2>1. counts'["captured"] = counts["captured"] /\ Accounted(counts') = Accounted(counts)
        BY <1>5, Zenon
  <2> QED
      BY <1>1, <1>2, <1>5, <2>1, Zenon
<1>6. CASE HookSubmit
  <2>1. InHook = 1 /\ InHook' = 0 /\ UNCHANGED queue /\ InWorker' = InWorker
        BY <1>6, Zenon DEF HookSubmit, IdleHook, InHook, InWorker
  <2>2. \A e : Len(Append(ring, e)) = Len(ring) + 1
        BY <1>0
  <2>3. CASE UNCHANGED counts /\ \E e : ring' = Append(ring, e)
        BY <1>1, <1>5, <2>1, <2>2, <2>3
  <2>4. CASE counts' = Count("ringDrop") /\ UNCHANGED ring
        BY <1>1, <1>4, <2>1, <2>4 DEF Outcomes
  <2> QED
      BY <1>6, <2>3, <2>4, Zenon DEF HookSubmit
<1>7. CASE Submit
  <2>1. InHook' = InHook /\ Len(ring') = Len(ring) - 1 /\ Len(ring') \in Nat /\ InWorker' = InWorker
        BY <1>0, <1>7, TailFacts DEF Submit, InHook, InWorker
  <2>2. Len(Append(queue, Head(ring))) = Len(queue) + 1
        BY <1>0
  <2>3. CASE UNCHANGED counts /\ queue' = Append(queue, Head(ring))
        BY <1>1, <1>5, <2>1, <2>2, <2>3
  <2>4. CASE counts' = Count("queueDrop") /\ UNCHANGED queue
        BY <1>1, <1>4, <2>1, <2>4 DEF Outcomes
  <2> QED
      BY <1>7, <2>3, <2>4, Zenon DEF Submit
<1>8. CASE Close
      BY <1>8, Zenon DEF Close, EveryCaptureAccounted
<1>9. CASE WorkerTake
  <2>1. InHook' = InHook /\ UNCHANGED <<ring, counts>> /\ InWorker = 0 /\ InWorker' = 1
        BY <1>9, Zenon DEF WorkerTake, InHook, InWorker
  <2>2. Len(queue') = Len(queue) - 1 /\ Len(queue') \in Nat
        BY <1>0, <1>9, TailFacts DEF WorkerTake
  <2> QED
      BY <1>1, <1>5, <2>1, <2>2
<1>10. CASE WorkerAttribute
  <2>1. worker'.pc # "attribute"
    <3>1. IdleWorker.pc # "attribute" /\ \A r : [worker EXCEPT !.pc = "policy", !.run = r].pc # "attribute"
          BY <1>0, Zenon DEF IdleWorker, WorkerRecord
    <3> QED
        BY <1>10, <3>1, Zenon DEF WorkerAttribute
  <2>2. InHook' = InHook /\ UNCHANGED <<ring, queue>> /\ InWorker = 1 /\ InWorker' = 0
        BY <1>10, <2>1, Zenon DEF WorkerAttribute, InHook, InWorker
  <2>3. PICK o \in Outcomes \ {"captured"} : counts' = Count(o)
        BY <1>10, Zenon DEF WorkerAttribute, Outcomes
  <2> QED
      BY <1>1, <1>4, <2>2, <2>3
<1>11. CASE WorkerPolicy \/ WorkerContain
  <2>1. UNCHANGED <<hook, ring, queue, counts>> /\ worker.pc # "attribute" /\ worker'.pc # "attribute"
        BY <1>0, <1>11 DEF WorkerPolicy, WorkerContain, IdleWorker, WorkerRecord
  <2> QED
      BY <2>1, Zenon DEF EveryCaptureAccounted
<1> QED
    BY <1>3, <1>6, <1>7, <1>8, <1>9, <1>10, <1>11, Zenon DEF EventStep

\* Every record is in flight or counted once (the drop counters, reportError).
THEOREM CapturesAreAccounted ==
    ASSUME DistinctCookies
    PROVE  EventSpec => []EveryCaptureAccounted
<1>1. EventInit => EveryCaptureAccounted
      BY DEF EventInit, EveryCaptureAccounted, IdleHook, IdleWorker, Outcomes
<1>2. ASSUME EventInv, EventInv', EveryCaptureAccounted, [EventNext]_allVars
      PROVE  EveryCaptureAccounted'
  <2>1. CASE UNCHANGED eventVars
        BY <1>2, <2>1, Zenon DEF eventVars, EveryCaptureAccounted
  <2>2. CASE EventStep
        BY <1>2, <2>2, BalanceStep, Zenon DEF EventInv, AttributionInv
  <2> QED
      BY <1>2, <2>1, <2>2, Zenon DEF EventNext, allVars
<1>3. EventInv /\ EventInv' /\ EveryCaptureAccounted /\ [EventNext]_allVars => EveryCaptureAccounted'
      BY <1>2, Zenon
<1> QED
    BY <1>1, <1>3, EventInvariance, PTL DEF EventSpec
=============================================================================
