------------------------- MODULE RunLifecycleProofs -------------------------
(***************************************************************************)
(* Proofs about RunLifecycle, for every number of Runs, cgroups, handlers   *)
(* and every value of the TTLs and limits: its safety, that it implements   *)
(* RunPhase, and that a request never has two usable tokens.                *)
(***************************************************************************)
EXTENDS RunPhaseRefinement, TLAPS

-----------------------------------------------------------------------------
(* The inductive invariant. *)

\* A handler past its first step holds a real request, cgroup and Run.
HandlersWellFormed ==
    /\ \A x \in Callers : call[x].pc # "idle" =>
           call[x].request \in Requests /\ call[x].cgroup \in Cgroups
    /\ \A x \in Callers : HoldsRegistrationMu(x) => call[x].run \in Runs
    /\ \A t \in Threads : term[t].pc # "idle" => term[t].run \in Runs /\ term[t].status # "active"
    /\ mon.pc = "lookup" => mon.cgroup \in Cgroups
    /\ mon.pc = "fail" => mon.run \in Runs
    /\ \A r \in Runs : runStatus[r] # "none" => runCgroup[r] \in Cgroups
    /\ \A r \in terminating : runStatus[r] # "none"

TypeInv == TypeOK /\ HandlersWellFormed

Ending(t, r) == term[t].pc \in {"unregister", "complete"} /\ term[t].run = r

\* A Run whose scope is already gone but which is still in the tables.
Detached(r) == \E t \in Threads : term[t].pc = "complete" /\ term[t].run = r

\* A registration that holds the mutex and is not a Run yet.
Registering(x, r) == call[x].pc \in {"register", "add", "rollback"} /\ call[x].run = r

\* One registration at a time, of an identity nobody else has used.
RegistrationsAreFresh ==
    /\ \A x, y \in Callers : HoldsRegistrationMu(x) /\ HoldsRegistrationMu(y) => x = y
    /\ \A r \in Runs : origin[r] = NoRequest =>
           /\ runStatus[r] = "none"
           /\ \A c \in Cgroups : active[c] # r
           /\ \A x \in Callers : HoldsRegistrationMu(x) => call[x].run # r
    /\ \A x \in Callers, r \in Runs : Registering(x, r) => runStatus[r] = "none"
    /\ \A x \in Callers, c \in Cgroups : call[x].pc = "register" => active[c] # call[x].run
    /\ \A x \in Callers : call[x].pc \in {"add", "rollback"} => active[call[x].cgroup] = call[x].run

\* A termination in progress is the only one of its Run, which is still live.
TerminationsAreExclusive ==
    /\ \A t \in Threads, r \in Runs : Ending(t, r) => Live(r) /\ r \in terminating
    /\ \A t, u \in Threads, r \in Runs : Ending(t, r) /\ Ending(u, r) => t = u

\* Scopes and Runs name each other.
ScopesMatchRuns ==
    /\ \A r \in Runs : Live(r) /\ ~Detached(r) => active[runCgroup[r]] = r
    /\ \A r \in Runs, c \in Cgroups : Detached(r) => active[c] # r
    /\ \A r \in Runs, c \in Cgroups :
           active[c] = r /\ runStatus[r] # "none" => Live(r) /\ runCgroup[r] = c
    /\ \A r \in Runs, c, d \in Cgroups : active[c] = r /\ active[d] = r => c = d

EndedRunsAreTerminal ==
    \A r \in Runs : runEnded[r] # -1 => runStatus[r] \notin {"none", "active"}

IInv ==
    /\ TypeInv
    /\ ScopeMapAgreesWithManager
    /\ CgroupIndexIsLive
    /\ RegistrationsAreFresh
    /\ TerminationsAreExclusive
    /\ ScopesMatchRuns
    /\ EndedRunsAreTerminal

-----------------------------------------------------------------------------
(* Type correctness. *)

\* Dropping expired tombstones keeps them a set of tombstones.
LEMMA PruneType ==
    ASSUME NEW entries \in SUBSET runTombstone, NEW at
    PROVE  pruneTombstones(entries, at) \in SUBSET runTombstone
BY Zenon DEF pruneTombstones

\* Moving a termination to its next step keeps its record.
LEMMA TermPcType ==
    ASSUME NEW f \in [Threads -> TermRecord], NEW t \in Threads,
           NEW pc \in {"idle", "unregister", "complete", "notify"}
    PROVE  [f EXCEPT ![t].pc = pc] \in [Threads -> TermRecord]
BY Zenon DEF TermRecord

\* The initial state is well typed.
LEMMA TypeInit == Init => TypeInv
BY ScopeAssumption, StoreAssumption, LifecycleAssumption
   DEF Init, NewManager, NewRunStore, IdleCall, IdleTerm, IdleMon, TypeInv, TypeOK, ScopeTypeOK,
       StoreTypeOK, HandlersWellFormed, HoldsRegistrationMu, CallRecord, TermRecord, MonRecord,
       registrationReplay, Statuses, Threads

\* Every step keeps every variable well typed and every handler well formed.
LEMMA TypeStep == TypeInv /\ [Next]_vars => TypeInv'
<1> SUFFICES ASSUME TypeInv, [Next]_vars PROVE TypeInv'
    BY Zenon
<1> USE DEF TypeInv, TypeOK, ScopeTypeOK, StoreTypeOK, HandlersWellFormed, HoldsRegistrationMu,
            CallRecord, TermRecord, MonRecord, envVars, scopeVars, storeVars
<1>1. CASE Tick
      BY <1>1 DEF Tick
<1>2. ASSUME NEW r \in Runs, Violate(r) PROVE TypeInv'
      BY <1>2, Zenon DEF Violate
<1>3. ASSUME NEW x \in Callers, NEW q \in Requests, NEW c \in Cgroups, RegisterRequest(x, q, c)
      PROVE  TypeInv'
      BY <1>3, Zenon DEF RegisterRequest, IdleCall
<1>4. ASSUME NEW x \in Callers, RegisterLocked(x) PROVE TypeInv'
  <2>1. replays' \in [Requests -> registrationReplay \cup {NoReplay}]
        BY <1>4, Zenon DEF RegisterLocked, pruneRegistrationReplays
  <2>2. CASE call' = [call EXCEPT ![x] = IdleCall] /\ UNCHANGED origin
        BY <1>4, <2>1, <2>2 DEF RegisterLocked, IdleCall
  <2>3. ASSUME NEW r \in Runs,
               origin' = [origin EXCEPT ![r] = call[x].request],
               call' = [call EXCEPT ![x] = [@ EXCEPT !.pc = "register", !.run = r]]
        PROVE  TypeInv'
    <3> DEFINE new == [call[x] EXCEPT !.pc = "register", !.run = r]
    <3>1. call[x] \in CallRecord /\ call[x].request \in Requests /\ call[x].cgroup \in Cgroups
          BY <1>4, Zenon DEF RegisterLocked
    <3>2. new \in CallRecord
          BY <3>1, Zenon
    <3>3. /\ new.pc = "register" /\ new.run = r
          /\ new.request = call[x].request /\ new.cgroup = call[x].cgroup
          BY <3>1, Zenon
    <3> HIDE DEF new
    <3>4. call' = [call EXCEPT ![x] = new]
          BY <2>3, Zenon DEF new
    <3>5. call' \in [Callers -> CallRecord]
          BY <3>2, <3>4, Zenon
    <3>6. origin' \in [Runs -> Requests \cup {NoRequest}]
          BY <2>3, <3>1, Zenon
    <3>7. \A y \in Callers : /\ call'[y].pc # "idle" => call'[y].request \in Requests /\ call'[y].cgroup \in Cgroups
                             /\ call'[y].pc \notin {"idle", "waiting"} => call'[y].run \in Runs
          BY <3>1, <3>3, <3>4, Zenon
    <3> QED
        BY <1>4, <2>1, <3>5, <3>6, <3>7, Zenon DEF RegisterLocked
  <2> QED
      BY <1>4, <2>2, <2>3, Zenon DEF RegisterLocked
<1>5. ASSUME NEW x \in Callers, RegisterScope(x) PROVE TypeInv'
  <2>1. CASE ScopeRegister(call[x].cgroup, call[x].run) /\ call' = [call EXCEPT ![x].pc = "add"]
    <3>1. call' \in [Callers -> CallRecord]
          BY <2>1
    <3>2. ScopeTypeOK'
          BY <1>5, <2>1, Zenon DEF RegisterScope, ScopeRegister
    <3>3. \A y \in Callers : /\ call'[y].pc # "idle" => call'[y].request \in Requests /\ call'[y].cgroup \in Cgroups
                             /\ call'[y].pc \notin {"idle", "waiting"} => call'[y].run \in Runs
          BY <1>5, <2>1 DEF RegisterScope
    <3> QED
        BY <1>5, <3>1, <3>2, <3>3, Zenon DEF RegisterScope
  <2>2. CASE call' = [call EXCEPT ![x] = IdleCall] /\ UNCHANGED scopeVars
        BY <1>5, <2>2, Zenon DEF RegisterScope, IdleCall
  <2> QED
      BY <1>5, <2>1, <2>2, Zenon DEF RegisterScope
<1>6. ASSUME NEW x \in Callers, RegisterAdd(x) PROVE TypeInv'
  <2>1. call[x].run \in Runs /\ call[x].cgroup \in Cgroups /\ call[x].at \in Nat
        BY <1>6, Zenon DEF RegisterAdd
  <2>2. tombstones' \in SUBSET runTombstone
        BY <1>6, PruneType DEF RegisterAdd, Add, AddFails
  <2>3. CASE Add(call[x].run, call[x].cgroup, call[x].at) /\ call' = [call EXCEPT ![x].pc = "notify"]
    <3>1. call' \in [Callers -> CallRecord]
          BY <2>3
    <3>2. StoreTypeOK'
          BY <2>1, <2>2, <2>3, ScopeAssumption, Zenon DEF Add, Statuses
    <3>3. /\ \A r \in Runs : runStatus'[r] # "none" => runCgroup'[r] \in Cgroups
          /\ \A r \in terminating' : runStatus'[r] # "none"
          BY <2>1, <2>3, Zenon DEF Add
    <3> QED
        BY <1>6, <2>3, <3>1, <3>2, <3>3 DEF RegisterAdd
  <2>4. CASE AddFails(call[x].run, call[x].cgroup, call[x].at) /\ call' = [call EXCEPT ![x].pc = "rollback"]
    <3>1. call' \in [Callers -> CallRecord]
          BY <2>4
    <3> QED
        BY <1>6, <2>2, <2>4, <3>1 DEF RegisterAdd, AddFails
  <2> QED
      BY <1>6, <2>3, <2>4, Zenon DEF RegisterAdd
<1>7. ASSUME NEW x \in Callers, RegisterRollback(x) PROVE TypeInv'
      BY <1>7 DEF RegisterRollback, ScopeUnregister, ScopeUnregisterFails, IdleCall
<1>8. ASSUME NEW x \in Callers, RegisterNotify(x) PROVE TypeInv'
      BY <1>8, StoreAssumption DEF RegisterNotify, replayOf, RunChanged, validRunStatus, registrationReplay, IdleCall, Statuses
<1>9. ASSUME NEW t \in Finishers, NEW r \in Runs, FinishRun(t, r) PROVE TypeInv'
      BY <1>9 DEF FinishRun, TerminateBegin, beginTermination, TerminationBegins, Live, Statuses, Threads
<1>10. ASSUME NEW t \in Threads, TerminateUnregister(t) PROVE TypeInv'
  <2> DEFINE c == runCgroup[term[t].run]
  <2>1. CASE ScopeUnregister(c) /\ term' = [term EXCEPT ![t].pc = "complete"] /\ UNCHANGED <<storeVars, mon>>
    <3>1. term' \in [Threads -> TermRecord]
          BY <2>1, TermPcType, Zenon
    <3>2. ScopeTypeOK'
          BY <1>10, <2>1, Zenon DEF TerminateUnregister, ScopeUnregister
    <3> QED
        BY <1>10, <2>1, <3>1, <3>2 DEF TerminateUnregister
  <2>2. CASE /\ ScopeUnregisterFails(c) /\ abortTermination(term[t].run)
             /\ term' = [term EXCEPT ![t] = IdleTerm] /\ mon' = MonitorAfterAbort(t)
    <3>1. term' \in [Threads -> TermRecord]
          BY <2>2, Zenon DEF IdleTerm, Statuses
    <3>2. mon'.pc = "lookup" => mon'.cgroup \in Cgroups
          BY <2>2, Zenon DEF MonitorAfterAbort, IdleMon
    <3>3. mon' \in MonRecord /\ (mon'.pc = "fail" => mon'.run \in Runs)
          BY <2>2, Zenon DEF MonitorAfterAbort, IdleMon
    <3> QED
        BY <1>10, <2>2, <3>1, <3>2, <3>3, Zenon DEF TerminateUnregister, ScopeUnregisterFails, abortTermination, IdleTerm
  <2> QED
      BY <1>10, <2>1, <2>2, Zenon DEF TerminateUnregister
<1>11. ASSUME NEW t \in Threads, TerminateComplete(t) PROVE TypeInv'
  <2> DEFINE r == term[t].run
             at == term[t].at
             status == terminalStatus(r, term[t].status)
             kept == evictOldestTombstones(pruneTombstones(tombstones, at))
             new == [cookie |-> CookieOf[r], run |-> r, status |-> status,
                     expiresAt |-> at + TombstoneTTL, sequence |-> tombstoneSeq + 1]
  <2>1. completeTermination(r, term[t].status, at)
        BY <1>11, Zenon DEF TerminateComplete
  <2>2. r \in Runs /\ at \in Nat /\ status \in Statuses
    <3>1. r \in Runs /\ at \in Nat /\ term[t].status \in Statuses
          BY <1>11, Zenon DEF TerminateComplete
    <3>2. runStatus[r] # "none"
          BY <2>1, <3>1, Zenon DEF completeTermination
    <3> QED
        BY <3>1, <3>2, Zenon DEF terminalStatus
  <2>3. new \in runTombstone
        BY <2>2, ScopeAssumption, StoreAssumption DEF runTombstone
  <2>4. kept \in SUBSET runTombstone
        BY PruneType, Zenon DEF evictOldestTombstones
  <2>5. tombstones' \in SUBSET runTombstone
        BY <2>1, <2>3, <2>4, Zenon DEF completeTermination, ForgetIdentity, TombstonesOf
  <2>6. StoreTypeOK'
    <3>1. /\ runStatus' \in [Runs -> Statuses \cup {"none"}]
          /\ runEnded' \in [Runs -> Nat \cup {-1}]
          BY <2>1, <2>2, Zenon DEF completeTermination
    <3>2. /\ activeByCgroup' \in [Cgroups -> Runs \cup {NoRun}]
          /\ liveByIdentity' \in [Cookies -> Runs \cup {NoRun}]
          BY <2>1, <2>2, Zenon DEF completeTermination, ForgetIdentity
    <3>3. /\ terminating' \in SUBSET Runs /\ tombstoneSeq' \in Nat
          /\ UNCHANGED <<runCgroup, runRegistered, latestByCgroup>>
          BY <2>1 DEF completeTermination
    <3> QED
        BY <2>5, <3>1, <3>2, <3>3, Zenon
  <2>7. term' \in [Threads -> TermRecord]
        BY <1>11 DEF TerminateComplete
  <2>8. /\ \A s \in Runs : runStatus'[s] # "none" => runCgroup'[s] \in Cgroups
        /\ \A s \in terminating' : runStatus'[s] # "none"
        BY <2>1, <2>2, Zenon DEF completeTermination, ForgetIdentity, Statuses
  <2> QED
      BY <1>11, <2>6, <2>7, <2>8 DEF TerminateComplete
<1>12. ASSUME NEW t \in Threads, TerminateNotify(t) PROVE TypeInv'
      BY <1>12, Zenon DEF TerminateNotify, RunChanged, validRunStatus, IdleTerm, Statuses
<1>13. CASE MonitorTick
      BY <1>13, Zenon DEF MonitorTick, IdleMon
<1>14. CASE MonitorList
      BY <1>14, Zenon DEF MonitorList, ActiveIDs
<1>15. ASSUME NEW c \in Cgroups, MonitorCheck(c) PROVE TypeInv'
  <2>1. mon' \in MonRecord /\ mon'.pc # "fail" /\ (mon'.pc = "lookup" => mon'.cgroup \in Cgroups)
    <3>1. CASE mon' = [mon EXCEPT !.todo = @ \ {c}]
          BY <1>15, <3>1, Zenon DEF MonitorCheck
    <3>2. CASE /\ active[c] # NoRun
               /\ mon' = [mon EXCEPT !.todo = @ \ {c}, !.pc = "lookup", !.cgroup = c, !.seen = active[c]]
          BY <3>2, Zenon
    <3> QED
        BY <1>15, <3>1, <3>2, Zenon DEF MonitorCheck
  <2> QED
      BY <1>15, <2>1, Zenon DEF MonitorCheck
<1>16. CASE MonitorLookup
      BY <1>16, Zenon DEF MonitorLookup, IdleMon
<1>17. CASE MonitorFail
  <2>1. UNCHANGED <<scopeVars, envVars, call, replays, overview>>
        BY <1>17, Zenon DEF MonitorFail
  <2>2. CASE TerminateBegin(Monitor, mon.run, "failed", mon.at) /\ mon' = [mon EXCEPT !.pc = "scan"]
    <3>1. mon.run \in Runs /\ mon.at \in Nat /\ Monitor \in Threads
          BY <1>17, Zenon DEF MonitorFail, Threads
    <3>2. mon' \in MonRecord /\ mon'.pc = "scan"
          BY <2>2, Zenon
    <3>3. /\ term' \in [Threads -> TermRecord]
          /\ \A t \in Threads : term'[t].pc # "idle" => term'[t].run \in Runs /\ term'[t].status # "active"
          BY <2>2, <3>1, Zenon DEF TerminateBegin, Statuses
    <3>4. StoreTypeOK' /\ runStatus[mon.run] # "none"
          BY <2>2, <3>1, Zenon DEF TerminateBegin, beginTermination, TerminationBegins, Live
    <3> QED
        BY <2>1, <2>2, <3>1, <3>2, <3>3, <3>4, Zenon DEF TerminateBegin, beginTermination
  <2>3. CASE UNCHANGED <<storeVars, term>>
    <3>1. mon' \in MonRecord /\ mon'.pc \in {"scan", "cleanup"}
          BY <1>17 DEF MonitorFail, IdleMon
    <3> QED
        BY <2>1, <2>3, <3>1, Zenon
  <2> QED
      BY <1>17, <2>2, <2>3, Zenon DEF MonitorFail
<1>18. CASE MonitorCleanup
      BY <1>18, Zenon DEF MonitorCleanup, IdleMon, expiredActiveRunIDs
<1>19. ASSUME NEW r \in Runs, MonitorExpire(r) PROVE TypeInv'
  <2>1. mon' \in MonRecord /\ mon'.pc = "expire"
        BY <1>19, Zenon DEF MonitorExpire
  <2>2. CASE TerminateBegin(Monitor, r, "expired", mon.at)
        BY <1>19, <2>1, <2>2, Zenon DEF MonitorExpire, TerminateBegin, beginTermination, TerminationBegins, Live, Statuses, Threads
  <2>3. CASE UNCHANGED <<storeVars, term>>
        BY <1>19, <2>1, <2>3, Zenon DEF MonitorExpire
  <2> QED
      BY <1>19, <2>2, <2>3, Zenon DEF MonitorExpire
<1>20. CASE MonitorPrune
      BY <1>20, PruneType, Zenon DEF MonitorPrune, IdleMon
<1>21. CASE UNCHANGED vars
      BY <1>21, Zenon DEF vars
<1> QED
    BY <1>1, <1>2, <1>3, <1>4, <1>5, <1>6, <1>7, <1>8, <1>9, <1>10, <1>11, <1>12, <1>13, <1>14,
       <1>15, <1>16, <1>17, <1>18, <1>19, <1>20, <1>21, Zenon DEF Next, RegisterStep, TerminateStep, MonitorStep

\* TypeOK: every variable keeps its type, in every instance.
THEOREM TypeCorrect == Spec => []TypeOK
<1>1. Init => TypeInv
      BY TypeInit, Zenon
<1>2. TypeInv /\ [Next]_vars => TypeInv'
      BY TypeStep, Zenon
<1>3. TypeInv => TypeOK
      BY Zenon DEF TypeInv
<1> QED
    BY <1>1, <1>2, <1>3, PTL DEF Spec

-----------------------------------------------------------------------------
(* Ownership: the part of IInv that relates scopes, Runs and handlers. *)

OwnInv ==
    /\ ScopeMapAgreesWithManager
    /\ CgroupIndexIsLive
    /\ RegistrationsAreFresh
    /\ TerminationsAreExclusive
    /\ ScopesMatchRuns
    /\ EndedRunsAreTerminal

\* The variables OwnInv reads, those of the handlers apart.
ownVars == <<scopeMap, active, runStatus, runCgroup, runEnded, activeByCgroup>>

\* The empty entry of a table is not a Run.
LEMMA NoRunIsNoRun == \A r \in Runs : r # NoRun
BY ScopeAssumption, Zenon

\* Initially nothing is registered, running or bound.
LEMMA OwnInit == Init => OwnInv
BY ScopeAssumption
   DEF Init, NewManager, NewRunStore, IdleCall, IdleTerm, OwnInv, ScopeMapAgreesWithManager,
       CgroupIndexIsLive, RegistrationsAreFresh, TerminationsAreExclusive, ScopesMatchRuns,
       EndedRunsAreTerminal, HoldsRegistrationMu, Registering, Ending, Detached, Live, Threads

\* A step that touches neither the tables nor the handlers preserves OwnInv.
LEMMA OwnQuiet ==
    ASSUME OwnInv, UNCHANGED <<ownVars, terminating, origin, call, term>>
    PROVE  OwnInv'
BY DEF ownVars, OwnInv, ScopeMapAgreesWithManager, CgroupIndexIsLive, RegistrationsAreFresh,
       TerminationsAreExclusive, ScopesMatchRuns, EndedRunsAreTerminal, HoldsRegistrationMu,
       Registering, Ending, Detached, Live

\* A handler that goes idle while nothing else moves frees the mutex.
LEMMA FreshAfterIdle ==
    ASSUME RegistrationsAreFresh, NEW x \in Callers, call'[x].pc = "idle",
           \A y \in Callers \ {x} : call'[y] = call[y],
           UNCHANGED <<active, runStatus, origin>>
    PROVE  RegistrationsAreFresh'
<1>1. \A y \in Callers : call'[y].pc # "idle" => call'[y] = call[y]
      BY Zenon
<1>2. ASSUME NEW y \in Callers, HoldsRegistrationMu(y)' PROVE HoldsRegistrationMu(y) /\ call'[y] = call[y]
      BY <1>1, <1>2, Zenon DEF HoldsRegistrationMu
<1>3. \A y, z \in Callers : HoldsRegistrationMu(y)' /\ HoldsRegistrationMu(z)' => y = z
      BY <1>2, Zenon DEF RegistrationsAreFresh
<1>4. \A r \in Runs : origin'[r] = NoRequest =>
          /\ runStatus'[r] = "none"
          /\ \A c \in Cgroups : active'[c] # r
          /\ \A y \in Callers : HoldsRegistrationMu(y)' => call'[y].run # r
      BY <1>2 DEF RegistrationsAreFresh
<1>5. \A y \in Callers, r \in Runs : Registering(y, r)' => runStatus'[r] = "none"
      BY <1>1 DEF RegistrationsAreFresh, Registering
<1>6. /\ \A y \in Callers, c \in Cgroups : call'[y].pc = "register" => active'[c] # call'[y].run
      /\ \A y \in Callers : call'[y].pc \in {"add", "rollback"} => active'[call'[y].cgroup] = call'[y].run
      BY <1>1 DEF RegistrationsAreFresh
<1> QED
    BY <1>3, <1>4, <1>5, <1>6, Zenon DEF RegistrationsAreFresh

\* Removing the scope of a Run that is not live, or that is detached by the
\* same step, keeps the others matched.
LEMMA MatchAfterRemoval ==
    ASSUME TypeInv, ScopesMatchRuns, NEW r \in Runs, NEW c \in Cgroups,
           active[c] = r, active'[c] = NoRun, \A d \in Cgroups \ {c} : active'[d] = active[d],
           UNCHANGED <<runStatus, runCgroup, runEnded>>,
           ~Live(r) \/ Detached(r)',
           \A s \in Runs \ {r} : Detached(s)' <=> Detached(s)
    PROVE  ScopesMatchRuns'
<1>1. \A s \in Runs : Live(s)' <=> Live(s)
      BY Zenon DEF Live
<1>2. \A d \in Cgroups, s \in Runs : active'[d] = s => active[d] = s /\ s # r
  <2> SUFFICES ASSUME NEW d \in Cgroups, NEW s \in Runs, active'[d] = s
               PROVE  active[d] = s /\ s # r
      BY Zenon
  <2>1. d # c
        BY ScopeAssumption, Zenon
  <2>2. active[d] # r
        BY <2>1, Zenon DEF ScopesMatchRuns
  <2> QED
      BY <2>1, <2>2, Zenon
<1>3. ASSUME NEW s \in Runs, Live(s)', ~Detached(s)' PROVE active'[runCgroup'[s]] = s
  <2>1. s # r /\ Live(s) /\ ~Detached(s)
        BY <1>1, <1>3, Zenon
  <2>2. runCgroup[s] \in Cgroups /\ active[runCgroup[s]] = s
        BY <2>1, Zenon DEF ScopesMatchRuns, TypeInv, HandlersWellFormed, Live
  <2>3. runCgroup[s] # c
        BY <2>1, <2>2, Zenon
  <2> QED
      BY <2>2, <2>3, Zenon
<1>4. ASSUME NEW s \in Runs, NEW d \in Cgroups, Detached(s)' PROVE active'[d] # s
      BY <1>2, <1>4, Zenon DEF ScopesMatchRuns
<1>5. ASSUME NEW s \in Runs, NEW d \in Cgroups, active'[d] = s, runStatus'[s] # "none"
      PROVE  Live(s)' /\ runCgroup'[s] = d
      BY <1>1, <1>2, <1>5, Zenon DEF ScopesMatchRuns
<1>6. ASSUME NEW s \in Runs, NEW d \in Cgroups, NEW e \in Cgroups, active'[d] = s, active'[e] = s
      PROVE  d = e
      BY <1>2, <1>6, Zenon DEF ScopesMatchRuns
<1> QED
    BY <1>3, <1>4, <1>5, <1>6, Zenon DEF ScopesMatchRuns

\* A step that only moves registration handlers has to preserve only
\* RegistrationsAreFresh.
LEMMA OwnCallOnly ==
    ASSUME OwnInv, UNCHANGED <<ownVars, terminating, term>>, RegistrationsAreFresh'
    PROVE  OwnInv'
BY DEF ownVars, OwnInv, ScopeMapAgreesWithManager, CgroupIndexIsLive,
       TerminationsAreExclusive, ScopesMatchRuns, EndedRunsAreTerminal, Ending, Detached, Live

\* A step that only moves terminations has to preserve only that they are
\* exclusive, and which Runs are detached.
LEMMA OwnTermOnly ==
    ASSUME OwnInv, UNCHANGED <<ownVars, origin, call>>, TerminationsAreExclusive',
           \A r \in Runs : Detached(r)' <=> Detached(r)
    PROVE  OwnInv'
<1>1. (ScopeMapAgreesWithManager /\ CgroupIndexIsLive /\ EndedRunsAreTerminal)'
      BY Zenon DEF ownVars, OwnInv, ScopeMapAgreesWithManager, CgroupIndexIsLive, EndedRunsAreTerminal, Live
<1>2. RegistrationsAreFresh'
      BY Zenon DEF ownVars, OwnInv, RegistrationsAreFresh, HoldsRegistrationMu, Registering
<1>3. ScopesMatchRuns'
      BY Zenon DEF ownVars, OwnInv, ScopesMatchRuns, Live
<1> QED
    BY <1>1, <1>2, <1>3, Zenon DEF OwnInv

-----------------------------------------------------------------------------
(* Registration. *)

\* Before the mutex and on every early return only the handler moves.
LEMMA OwnRequest ==
    ASSUME TypeInv, OwnInv, NEW x \in Callers, NEW q \in Requests, NEW c \in Cgroups,
           RegisterRequest(x, q, c)
    PROVE  OwnInv'
<1>1. call[x].pc = "idle" /\ call'[x].pc = "waiting" /\ \A y \in Callers \ {x} : call'[y] = call[y]
      BY Zenon DEF RegisterRequest, IdleCall, TypeInv, TypeOK
<1>2. RegistrationsAreFresh'
      BY <1>1 DEF RegisterRequest, OwnInv, RegistrationsAreFresh, HoldsRegistrationMu, Registering,
                  scopeVars, storeVars, envVars
<1> QED
    BY <1>2, OwnCallOnly, Zenon DEF RegisterRequest, scopeVars, storeVars, envVars, ownVars

\* Under the mutex a fresh Run is drawn, or the request is answered.
LEMMA OwnLocked ==
    ASSUME TypeInv, OwnInv, NEW x \in Callers, RegisterLocked(x)
    PROVE  OwnInv'
<1>1. CASE call' = [call EXCEPT ![x] = IdleCall] /\ UNCHANGED origin
  <2>1. call'[x].pc = "idle" /\ \A y \in Callers \ {x} : call'[y] = call[y]
        BY <1>1, Zenon DEF IdleCall, TypeInv, TypeOK
  <2>2. RegistrationsAreFresh'
        BY <1>1, <2>1 DEF RegisterLocked, OwnInv, RegistrationsAreFresh, HoldsRegistrationMu, Registering,
                    scopeVars, storeVars
  <2> QED
      BY <2>2, OwnCallOnly, Zenon DEF RegisterLocked, scopeVars, storeVars, ownVars
<1>2. ASSUME NEW r \in Runs, origin[r] = NoRequest,
             origin' = [origin EXCEPT ![r] = call[x].request],
             call' = [call EXCEPT ![x] = [@ EXCEPT !.pc = "register", !.run = r]]
      PROVE  OwnInv'
  <2>1. /\ call'[x].pc = "register" /\ call'[x].run = r
        /\ \A y \in Callers \ {x} : call'[y] = call[y]
        BY <1>2 DEF TypeInv, TypeOK, CallRecord
  <2>2. \A y \in Callers : ~HoldsRegistrationMu(y)
        BY Zenon DEF RegisterLocked
  <2>3. origin'[r] # NoRequest /\ \A s \in Runs \ {r} : origin'[s] = origin[s]
        BY <1>2, LifecycleAssumption, Zenon DEF TypeInv, TypeOK, HandlersWellFormed, RegisterLocked
  <2>4. RegistrationsAreFresh'
    <3>1. UNCHANGED <<active, runStatus>> /\ RegistrationsAreFresh
          BY Zenon DEF RegisterLocked, OwnInv, scopeVars, storeVars
    <3>2. \A y \in Callers \ {x} : call'[y].pc \in {"idle", "waiting"}
          BY <2>1, <2>2, Zenon DEF HoldsRegistrationMu
    <3>3. runStatus[r] = "none" /\ \A c \in Cgroups : active[c] # r
          BY <1>2, <3>1, Zenon DEF RegistrationsAreFresh
    <3> QED
        BY <2>1, <2>3, <3>1, <3>2, <3>3 DEF RegistrationsAreFresh, HoldsRegistrationMu, Registering
  <2> QED
      BY <2>4, OwnCallOnly, Zenon DEF RegisterLocked, scopeVars, storeVars, ownVars
<1> QED
    BY <1>1, <1>2, Zenon DEF RegisterLocked

\* The manager binds the drawn Run to a free cgroup, or refuses.
LEMMA OwnScope ==
    ASSUME TypeInv, OwnInv, NEW x \in Callers, RegisterScope(x)
    PROVE  OwnInv'
<1> DEFINE r == call[x].run
           c == call[x].cgroup
<1>1. r \in Runs /\ c \in Cgroups
      BY Zenon DEF RegisterScope, TypeInv, HandlersWellFormed, HoldsRegistrationMu
<1>2. CASE call' = [call EXCEPT ![x] = IdleCall] /\ UNCHANGED scopeVars
  <2>1. call'[x].pc = "idle" /\ \A y \in Callers \ {x} : call'[y] = call[y]
        BY <1>2, Zenon DEF IdleCall, TypeInv, TypeOK
  <2>2. RegistrationsAreFresh'
        BY <1>2, <2>1, FreshAfterIdle, Zenon DEF RegisterScope, OwnInv, scopeVars, storeVars, envVars
  <2> QED
      BY <1>2, <2>2, OwnCallOnly, Zenon DEF RegisterScope, scopeVars, storeVars, ownVars
<1>3. CASE ScopeRegister(c, r) /\ call' = [call EXCEPT ![x].pc = "add"]
  <2>1. /\ call'[x].pc = "add" /\ call'[x].run = r /\ call'[x].cgroup = c
        /\ \A y \in Callers \ {x} : call'[y] = call[y]
        BY <1>3, Zenon DEF TypeInv, TypeOK, CallRecord
  <2>2. active[c] = NoRun /\ active'[c] = r /\ \A d \in Cgroups \ {c} : active'[d] = active[d]
        BY <1>1, <1>3, Zenon DEF ScopeRegister, Registrable, TypeInv, TypeOK, ScopeTypeOK
  <2>3. runStatus[r] = "none" /\ \A d \in Cgroups : active[d] # r
        BY <1>1, Zenon DEF RegisterScope, OwnInv, RegistrationsAreFresh, Registering
  <2>4. /\ \A y \in Callers \ {x} : ~HoldsRegistrationMu(y)
        /\ origin[r] # NoRequest
        BY <1>1, Zenon DEF RegisterScope, OwnInv, RegistrationsAreFresh, HoldsRegistrationMu
  <2>5. UNCHANGED <<storeVars, origin, term>>
        BY Zenon DEF RegisterScope, envVars
  <2>6. ScopeMapAgreesWithManager'
        BY <1>3, Zenon DEF ScopeRegister, ScopeMapAgreesWithManager, OwnInv
  <2>7. RegistrationsAreFresh'
    <3>1. RegistrationsAreFresh
          BY Zenon DEF OwnInv
    <3>2. \A y \in Callers \ {x} : ~HoldsRegistrationMu(y)'
          BY <2>1, <2>4, Zenon DEF HoldsRegistrationMu
    <3>3. \A y \in Callers : y # x => call'[y].pc \notin {"register", "add", "rollback"}
          BY <3>2 DEF HoldsRegistrationMu
    <3>4. ASSUME NEW s \in Runs, origin'[s] = NoRequest
          PROVE  /\ runStatus'[s] = "none"
                 /\ \A d \in Cgroups : active'[d] # s
                 /\ \A y \in Callers : HoldsRegistrationMu(y)' => call'[y].run # s
      <4>1. s # r
            BY <2>4, <2>5, <3>4, Zenon
      <4> QED
          BY <2>1, <2>2, <2>5, <3>1, <3>2, <3>4, <4>1, Zenon DEF RegistrationsAreFresh, storeVars
    <3>5. \A y \in Callers, s \in Runs : Registering(y, s)' => runStatus'[s] = "none"
          BY <2>1, <2>3, <2>5, <3>3, Zenon DEF Registering, storeVars
    <3> QED
        BY <2>1, <2>2, <3>2, <3>3, <3>4, <3>5, Zenon DEF RegistrationsAreFresh
  <2>8. ScopesMatchRuns'
    <3>1. ScopesMatchRuns
          BY Zenon DEF OwnInv
    <3>2. \A s \in Runs : (Live(s)' <=> Live(s)) /\ (Detached(s)' <=> Detached(s))
          BY <2>5, Zenon DEF Live, Detached, storeVars
    <3>3. ~Detached(r)
          BY <1>1, <2>3, Zenon DEF OwnInv, TerminationsAreExclusive, Ending, Detached, Live
    <3>4. ASSUME NEW s \in Runs, Live(s)', ~Detached(s)' PROVE active'[runCgroup'[s]] = s
      <4>1. runCgroup[s] \in Cgroups /\ active[runCgroup[s]] = s
            BY <3>1, <3>2, <3>4, Zenon DEF ScopesMatchRuns, TypeInv, HandlersWellFormed, Live
      <4> QED
          BY <2>2, <2>5, <4>1, ScopeAssumption, Zenon DEF storeVars
    <3>5. ASSUME NEW s \in Runs, NEW d \in Cgroups, Detached(s)' PROVE active'[d] # s
          BY <2>2, <3>1, <3>2, <3>3, <3>5, Zenon DEF ScopesMatchRuns
    <3>6. ASSUME NEW s \in Runs, NEW d \in Cgroups, active'[d] = s, runStatus'[s] # "none"
          PROVE  Live(s)' /\ runCgroup'[s] = d
      <4>1. s # r
            BY <2>3, <2>5, <3>6, Zenon DEF storeVars
      <4>2. active[d] = s
            BY <2>2, <3>6, <4>1, Zenon
      <4> QED
          BY <2>5, <3>1, <3>2, <3>6, <4>2, Zenon DEF ScopesMatchRuns, storeVars
    <3>7. ASSUME NEW s \in Runs, NEW d \in Cgroups, NEW e \in Cgroups, active'[d] = s, active'[e] = s
          PROVE  d = e
          BY <2>2, <2>3, <3>1, <3>7 DEF ScopesMatchRuns
    <3> QED
        BY <3>4, <3>5, <3>6, <3>7, Zenon DEF ScopesMatchRuns
  <2> QED
      BY <2>5, <2>6, <2>7, <2>8, Zenon DEF OwnInv, CgroupIndexIsLive, TerminationsAreExclusive, EndedRunsAreTerminal, Ending, Live, storeVars
<1> QED
    BY <1>2, <1>3, Zenon DEF RegisterScope

\* The Run enters the tables with its scope bound, or its scope is to go.
LEMMA OwnAdd ==
    ASSUME TypeInv, OwnInv, NEW x \in Callers, RegisterAdd(x)
    PROVE  OwnInv'
<1>0. PICK r \in Runs, c \in Cgroups : r = call[x].run /\ c = call[x].cgroup
      BY Zenon DEF RegisterAdd, TypeInv, HandlersWellFormed, HoldsRegistrationMu
<1>1. /\ runStatus[r] = "none" /\ active[c] = r /\ origin[r] # NoRequest
      /\ \A y \in Callers \ {x} : ~HoldsRegistrationMu(y)
      BY <1>0, Zenon DEF RegisterAdd, TypeInv, HandlersWellFormed, HoldsRegistrationMu, OwnInv,
             RegistrationsAreFresh, Registering
<1>2. CASE AddFails(r, c, call[x].at) /\ call' = [call EXCEPT ![x].pc = "rollback"]
  <2>1. /\ call'[x].pc = "rollback" /\ call'[x].run = r /\ call'[x].cgroup = c
        /\ \A y \in Callers \ {x} : call'[y] = call[y]
        BY <1>0, <1>2, Zenon DEF TypeInv, TypeOK, CallRecord
  <2>2. RegistrationsAreFresh'
        BY <1>1, <1>2, <2>1 DEF RegisterAdd, AddFails, OwnInv, RegistrationsAreFresh, HoldsRegistrationMu,
                                Registering, scopeVars, envVars
  <2> QED
      BY <1>2, <2>2, OwnCallOnly, Zenon DEF RegisterAdd, AddFails, scopeVars, ownVars
<1>3. CASE Add(r, c, call[x].at) /\ call' = [call EXCEPT ![x].pc = "notify"]
  <2>1. /\ call'[x].pc = "notify" /\ call'[x].run = r
        /\ \A y \in Callers \ {x} : call'[y] = call[y]
        BY <1>0, <1>3, Zenon DEF TypeInv, TypeOK, CallRecord
  <2>2. /\ runStatus'[r] = "active" /\ \A s \in Runs \ {r} : runStatus'[s] = runStatus[s]
        /\ runCgroup'[r] = c /\ \A s \in Runs \ {r} : runCgroup'[s] = runCgroup[s]
        /\ activeByCgroup[c] = NoRun
        /\ activeByCgroup'[c] = r /\ \A d \in Cgroups \ {c} : activeByCgroup'[d] = activeByCgroup[d]
        /\ UNCHANGED <<runEnded, terminating>>
        BY <1>1, <1>3, Zenon DEF Add, AddAccepts, TypeInv, TypeOK, StoreTypeOK
  <2>3. UNCHANGED <<scopeMap, active, origin, term>>
        BY Zenon DEF RegisterAdd, scopeVars, envVars
  <2>4. runEnded[r] = -1
        BY <1>1, Zenon DEF OwnInv, EndedRunsAreTerminal
  <2>5. \A s \in Runs \ {r} : Live(s)' <=> Live(s)
        BY <2>2, Zenon DEF Live
  <2>6. Live(r)' /\ ~Live(r)
        BY <1>1, <2>2, <2>4, Zenon DEF Live
  <2>7. \A s \in Runs : Detached(s)' <=> Detached(s)
        BY <2>3, Zenon DEF Detached
  <2>8. ~Detached(r)
        BY <1>1, <2>6, Zenon DEF OwnInv, TerminationsAreExclusive, Ending, Detached
  <2>9. CgroupIndexIsLive'
    <3>1. CgroupIndexIsLive
          BY Zenon DEF OwnInv
    <3>2. ASSUME NEW d \in Cgroups, activeByCgroup'[d] # NoRun
          PROVE  (Live(activeByCgroup[d]) /\ runCgroup[activeByCgroup[d]] = d)'
      <4>1. CASE d = c
            BY <2>2, <2>6, <4>1, Zenon DEF Live
      <4>2. CASE d # c
        <5>0. activeByCgroup[d] # NoRun /\ activeByCgroup \in [Cgroups -> Runs \cup {NoRun}]
              BY <2>2, <3>2, <4>2, Zenon DEF TypeInv, TypeOK, StoreTypeOK
        <5>1. PICK s \in Runs : s = activeByCgroup[d]
              BY <5>0, Zenon
        <5>2. Live(s) /\ runCgroup[s] = d
              BY <2>2, <3>1, <3>2, <4>2, <5>1, Zenon DEF CgroupIndexIsLive
        <5>3. s # r
              BY <2>6, <5>2, Zenon
        <5>4. activeByCgroup'[d] = s /\ runStatus'[s] = runStatus[s] /\ runCgroup'[s] = runCgroup[s]
              BY <2>2, <4>2, <5>1, <5>3, Zenon
        <5> QED
            BY <2>2, <5>2, <5>4, Zenon DEF Live
      <4> QED
          BY <4>1, <4>2, Zenon
    <3>3. ASSUME NEW s \in Runs, Live(s)' PROVE activeByCgroup'[runCgroup'[s]] = s
      <4>1. CASE s = r
            BY <2>2, <4>1, Zenon
      <4>2. CASE s # r
        <5>1. Live(s) /\ runCgroup[s] \in Cgroups /\ activeByCgroup[runCgroup[s]] = s
              BY <2>5, <3>1, <3>3, <4>2, Zenon DEF CgroupIndexIsLive, TypeInv, HandlersWellFormed, Live
        <5>2. runCgroup[s] # c
              BY <2>2, <5>1, ScopeAssumption, Zenon
        <5> QED
            BY <2>2, <4>2, <5>1, <5>2, Zenon
      <4> QED
          BY <4>1, <4>2, Zenon
    <3> QED
        BY <3>2, <3>3, Zenon DEF CgroupIndexIsLive
  <2>10. RegistrationsAreFresh'
    <3>1. RegistrationsAreFresh
          BY Zenon DEF OwnInv
    <3>2. \A y \in Callers \ {x} : ~HoldsRegistrationMu(y)'
          BY <1>1, <2>1, Zenon DEF HoldsRegistrationMu
    <3>3. \A y \in Callers : call'[y].pc \notin {"register", "add", "rollback"}
          BY <2>1, <3>2, Zenon DEF HoldsRegistrationMu
    <3>4. ASSUME NEW s \in Runs, origin'[s] = NoRequest
          PROVE  /\ runStatus'[s] = "none"
                 /\ \A d \in Cgroups : active'[d] # s
                 /\ \A y \in Callers : HoldsRegistrationMu(y)' => call'[y].run # s
      <4>1. s # r
            BY <1>1, <2>3, <3>4, Zenon
      <4> QED
          BY <2>1, <2>2, <2>3, <3>1, <3>2, <3>4, <4>1 DEF RegistrationsAreFresh
    <3> QED
        BY <3>2, <3>3, <3>4, Zenon DEF RegistrationsAreFresh, Registering
  <2>11. TerminationsAreExclusive'
        BY <2>2, <2>3, <2>5, <2>6, Zenon DEF OwnInv, TerminationsAreExclusive, Ending
  <2>12. ScopesMatchRuns'
    <3>1. ScopesMatchRuns
          BY Zenon DEF OwnInv
    <3>2. ASSUME NEW s \in Runs, Live(s)', ~Detached(s)' PROVE active'[runCgroup'[s]] = s
      <4>1. CASE s = r
            BY <1>1, <2>2, <2>3, <4>1, Zenon
      <4>2. CASE s # r
            BY <2>2, <2>3, <2>5, <2>7, <3>1, <3>2, <4>2, Zenon DEF ScopesMatchRuns
      <4> QED
          BY <4>1, <4>2, Zenon
    <3>3. ASSUME NEW s \in Runs, NEW d \in Cgroups, Detached(s)' PROVE active'[d] # s
          BY <2>3, <2>7, <3>1, <3>3, Zenon DEF ScopesMatchRuns
    <3>4. ASSUME NEW s \in Runs, NEW d \in Cgroups, active'[d] = s, runStatus'[s] # "none"
          PROVE  Live(s)' /\ runCgroup'[s] = d
      <4>1. CASE s = r
        <5>1. d = c
              BY <1>1, <2>3, <3>1, <3>4, <4>1, Zenon DEF ScopesMatchRuns
        <5> QED
            BY <2>2, <2>6, <4>1, <5>1, Zenon
      <4>2. CASE s # r
            BY <2>2, <2>3, <2>5, <3>1, <3>4, <4>2, Zenon DEF ScopesMatchRuns
      <4> QED
          BY <4>1, <4>2, Zenon
    <3>5. ASSUME NEW s \in Runs, NEW d \in Cgroups, NEW e \in Cgroups, active'[d] = s, active'[e] = s
          PROVE  d = e
          BY <2>3, <3>1, <3>5, Zenon DEF ScopesMatchRuns
    <3> QED
        BY <3>2, <3>3, <3>4, <3>5, Zenon DEF ScopesMatchRuns
  <2>13. EndedRunsAreTerminal'
        BY <2>2, <2>4, Zenon DEF OwnInv, EndedRunsAreTerminal
  <2> QED
      BY <2>3, <2>9, <2>10, <2>11, <2>12, <2>13, Zenon DEF OwnInv, ScopeMapAgreesWithManager
<1> QED
    BY <1>0, <1>2, <1>3, Zenon DEF RegisterAdd

\* The rollback removes the registration this handler made, or leaves it.
LEMMA OwnRollback ==
    ASSUME TypeInv, OwnInv, NEW x \in Callers, RegisterRollback(x)
    PROVE  OwnInv'
<1> DEFINE r == call[x].run
           c == call[x].cgroup
<1>1. /\ r \in Runs /\ c \in Cgroups
      /\ runStatus[r] = "none" /\ active[c] = r
      BY Zenon DEF RegisterRollback, TypeInv, HandlersWellFormed, HoldsRegistrationMu, OwnInv,
             RegistrationsAreFresh, Registering
<1>2. /\ call'[x].pc = "idle" /\ \A y \in Callers \ {x} : call'[y] = call[y]
      /\ UNCHANGED <<storeVars, origin, term>>
      BY Zenon DEF RegisterRollback, IdleCall, envVars, TypeInv, TypeOK
<1>3. CASE ScopeUnregisterFails(c)
  <2>1. RegistrationsAreFresh'
        BY <1>2, <1>3, FreshAfterIdle, Zenon DEF ScopeUnregisterFails, OwnInv, scopeVars, storeVars
  <2> QED
      BY <1>2, <1>3, <2>1, OwnCallOnly, Zenon DEF ScopeUnregisterFails, scopeVars, storeVars, ownVars
<1>4. CASE ScopeUnregister(c)
  <2>1. active'[c] = NoRun /\ \A d \in Cgroups \ {c} : active'[d] = active[d]
        BY <1>1, <1>4, Zenon DEF ScopeUnregister, TypeInv, TypeOK, ScopeTypeOK
  <2>2. ScopeMapAgreesWithManager'
        BY <1>4, Zenon DEF ScopeUnregister, ScopeMapAgreesWithManager, OwnInv
  <2>3. \A y \in Callers \ {x} : ~HoldsRegistrationMu(y)
        BY Zenon DEF RegisterRollback, OwnInv, RegistrationsAreFresh, HoldsRegistrationMu
  <2>4. RegistrationsAreFresh'
    <3>1. RegistrationsAreFresh
          BY Zenon DEF OwnInv
    <3>2. \A y \in Callers : ~HoldsRegistrationMu(y)'
          BY <1>2, <2>3, Zenon DEF HoldsRegistrationMu
    <3>3. \A y \in Callers : call'[y].pc \notin {"register", "add", "rollback"}
          BY <3>2, Zenon DEF HoldsRegistrationMu
    <3>4. \A s \in Runs : origin'[s] = NoRequest =>
              runStatus'[s] = "none" /\ \A d \in Cgroups : active'[d] # s
      <4>1. origin' = origin /\ runStatus' = runStatus
            BY <1>2, Zenon DEF storeVars
      <4>2. \A s \in Runs, d \in Cgroups : active'[d] = s => active[d] = s
            BY <2>1, NoRunIsNoRun, Zenon
      <4> QED
          BY <3>1, <4>1, <4>2, SMTT(30) DEF RegistrationsAreFresh
    <3> QED
        BY <3>2, <3>3, <3>4, Zenon DEF RegistrationsAreFresh, Registering
  <2>5. \A s \in Runs : (Live(s)' <=> Live(s)) /\ (Detached(s)' <=> Detached(s))
        BY <1>2, Zenon DEF Live, Detached, storeVars
  <2>6. ScopesMatchRuns'
    <3>1. ~Live(r)
          BY <1>1, Zenon DEF Live
    <3>2. ScopesMatchRuns /\ UNCHANGED <<runStatus, runCgroup, runEnded>>
          BY <1>2, Zenon DEF OwnInv, storeVars
    <3> HIDE DEF r, c
    <3> QED
        BY <1>1, <2>1, <2>5, <3>1, <3>2, MatchAfterRemoval, Zenon
  <2> QED
      BY <1>2, <2>2, <2>4, <2>6, Zenon DEF OwnInv, CgroupIndexIsLive, TerminationsAreExclusive, EndedRunsAreTerminal, Ending, Live, storeVars
<1> QED
    BY <1>3, <1>4, Zenon DEF RegisterRollback

\* The last step of a registration only releases the mutex.
LEMMA OwnNotify ==
    ASSUME TypeInv, OwnInv, NEW x \in Callers, RegisterNotify(x)
    PROVE  OwnInv'
<1>1. call'[x].pc = "idle" /\ \A y \in Callers \ {x} : call'[y] = call[y]
      BY Zenon DEF RegisterNotify, IdleCall, TypeInv, TypeOK
<1>2. RegistrationsAreFresh'
      BY <1>1, FreshAfterIdle, Zenon DEF RegisterNotify, OwnInv, scopeVars, storeVars, envVars
<1> QED
    BY <1>2, OwnCallOnly, Zenon DEF RegisterNotify, scopeVars, storeVars, ownVars

-----------------------------------------------------------------------------
(* Termination. *)

\* A termination begins only for a live Run nobody else is ending.
LEMMA OwnBegin ==
    ASSUME TypeInv, OwnInv, NEW t \in Threads, NEW r \in Runs, NEW status, NEW at,
           TerminateBegin(t, r, status, at), UNCHANGED <<scopeVars, origin, call>>
    PROVE  OwnInv'
<1>1. /\ term[t].pc = "idle" /\ term'[t].pc = "unregister" /\ term'[t].run = r
      /\ \A u \in Threads \ {t} : term'[u] = term[u]
      BY Zenon DEF TerminateBegin, TypeInv, TypeOK
<1>2. /\ Live(r) /\ r \notin terminating /\ terminating' = terminating \cup {r}
      /\ UNCHANGED <<runStatus, runCgroup, runEnded, activeByCgroup>>
      BY Zenon DEF TerminateBegin, beginTermination, TerminationBegins
<1>3. \A s \in Runs : Live(s)' <=> Live(s)
      BY <1>2, Zenon DEF Live
<1>4. \A s \in Runs : Detached(s)' <=> Detached(s)
      BY <1>1, Zenon DEF Detached
<1>5. TerminationsAreExclusive'
  <2>1. TerminationsAreExclusive
        BY Zenon DEF OwnInv
  <2>2. \A u \in Threads \ {t}, s \in Runs : Ending(u, s)' <=> Ending(u, s)
        BY <1>1, Zenon DEF Ending
  <2>3. \A s \in Runs : Ending(t, s)' <=> s = r
        BY <1>1, Zenon DEF Ending
  <2>4. \A u \in Threads : ~Ending(u, r)
        BY <1>2, <2>1, Zenon DEF TerminationsAreExclusive
  <2> QED
      BY <1>2, <1>3, <2>1, <2>2, <2>3, <2>4, Zenon DEF TerminationsAreExclusive
<1> QED
    BY <1>2, <1>4, <1>5, OwnTermOnly, Zenon DEF ownVars, scopeVars

\* The scope of the Run being ended goes, or its termination is taken back.
LEMMA OwnUnregister ==
    ASSUME TypeInv, OwnInv, NEW t \in Threads, TerminateUnregister(t)
    PROVE  OwnInv'
<1>0. PICK r \in Runs, c \in Cgroups : r = term[t].run /\ c = runCgroup[r]
  <2>1. term[t].run \in Runs
        BY Zenon DEF TerminateUnregister, TypeInv, HandlersWellFormed
  <2>2. runStatus[term[t].run] # "none"
        BY <2>1, Zenon DEF TerminateUnregister, OwnInv, TerminationsAreExclusive, Ending, Live
  <2> QED
      BY <2>1, <2>2, Zenon DEF TypeInv, HandlersWellFormed
<1>1. Live(r) /\ r \in terminating /\ \A u \in Threads \ {t} : ~Ending(u, r)
      BY <1>0, Zenon DEF TerminateUnregister, OwnInv, TerminationsAreExclusive, Ending
<1>2. CASE ScopeUnregisterFails(c) /\ abortTermination(r) /\ term' = [term EXCEPT ![t] = IdleTerm]
  <2>1. term'[t].pc = "idle" /\ \A u \in Threads \ {t} : term'[u] = term[u]
        BY <1>2, Zenon DEF IdleTerm, TypeInv, TypeOK
  <2>2. /\ terminating' = terminating \ {r}
        /\ UNCHANGED <<ownVars, origin, call>>
        BY <1>2, Zenon DEF TerminateUnregister, ScopeUnregisterFails, abortTermination, scopeVars, envVars, ownVars
  <2>3. \A s \in Runs : (Live(s)' <=> Live(s)) /\ (Detached(s)' <=> Detached(s))
        BY <1>0, <2>1, <2>2, Zenon DEF TerminateUnregister, Live, Detached, ownVars
  <2>4. TerminationsAreExclusive'
        BY <1>1, <2>1, <2>2, <2>3, Zenon DEF OwnInv, TerminationsAreExclusive, Ending
  <2> QED
      BY <2>2, <2>3, <2>4, OwnTermOnly, Zenon
<1>3. CASE ScopeUnregister(c) /\ term' = [term EXCEPT ![t].pc = "complete"] /\ UNCHANGED storeVars
  <2>1. /\ term'[t].pc = "complete" /\ term'[t].run = r
        /\ \A u \in Threads \ {t} : term'[u] = term[u]
        BY <1>0, <1>3, Zenon DEF TypeInv, TypeOK, TermRecord
  <2>2. active'[c] = NoRun /\ \A d \in Cgroups \ {c} : active'[d] = active[d]
        BY <1>3, Zenon DEF ScopeUnregister, TypeInv, TypeOK, ScopeTypeOK
  <2>3. UNCHANGED <<runStatus, runCgroup, runEnded, activeByCgroup, terminating, origin, call>>
        BY <1>3, Zenon DEF TerminateUnregister, storeVars, envVars
  <2>4. \A s \in Runs : Live(s)' <=> Live(s)
        BY <2>3, Zenon DEF Live
  <2>5. ~Detached(r)
        BY <1>0, <1>1, Zenon DEF TerminateUnregister, Detached, Ending
  <2>6. active[c] = r
        BY <1>0, <1>1, <2>5, Zenon DEF OwnInv, ScopesMatchRuns
  <2>7. Detached(r)' /\ \A s \in Runs \ {r} : Detached(s)' <=> Detached(s)
        BY <1>0, <2>1, Zenon DEF TerminateUnregister, Detached
  <2>8. ScopeMapAgreesWithManager'
        BY <1>3, Zenon DEF ScopeUnregister, ScopeMapAgreesWithManager, OwnInv
  <2>9. RegistrationsAreFresh'
    <3>1. \A x \in Callers : call[x].pc \in {"add", "rollback"} => call[x].cgroup # c
      <4>1. \A x \in Callers : call[x].pc \in {"add", "rollback"} => call[x].run \in Runs
            BY SMTT(30) DEF TypeInv, HandlersWellFormed, HoldsRegistrationMu
      <4>2. \A x \in Callers : call[x].pc \in {"add", "rollback"} =>
                runStatus[call[x].run] = "none" /\ active[call[x].cgroup] = call[x].run
            BY <4>1, Zenon DEF OwnInv, RegistrationsAreFresh, Registering
      <4> QED
          BY <1>1, <2>6, <4>2, Zenon DEF Live
    <3>2. \A x \in Callers : call[x].pc \in {"add", "rollback"} => call[x].cgroup \in Cgroups
          BY Zenon DEF TypeInv, HandlersWellFormed
    <3>3. \A x \in Callers : call[x].pc = "register" => call[x].run \in Runs
          BY Zenon DEF TypeInv, HandlersWellFormed, HoldsRegistrationMu
    <3>4. RegistrationsAreFresh
          BY Zenon DEF OwnInv
    <3>5. \A x \in Callers, d \in Cgroups : call'[x].pc = "register" => active'[d] # call'[x].run
          BY <2>2, <2>3, <3>3, <3>4, NoRunIsNoRun, Zenon DEF RegistrationsAreFresh
    <3>6. \A x \in Callers : call'[x].pc \in {"add", "rollback"} => active'[call'[x].cgroup] = call'[x].run
          BY <2>2, <2>3, <3>1, <3>2, <3>4, Zenon DEF RegistrationsAreFresh
    <3>7. \A s \in Runs, d \in Cgroups : origin'[s] = NoRequest => active'[d] # s
          BY <2>2, <2>3, <3>4, NoRunIsNoRun, Zenon DEF RegistrationsAreFresh
    <3>8. /\ \A x \in Callers : HoldsRegistrationMu(x)' <=> HoldsRegistrationMu(x)
          /\ \A x \in Callers, s \in Runs : Registering(x, s)' <=> Registering(x, s)
          BY <2>3, Zenon DEF HoldsRegistrationMu, Registering
    <3> QED
        BY <2>3, <3>4, <3>5, <3>6, <3>7, <3>8, Zenon DEF RegistrationsAreFresh
  <2>10. TerminationsAreExclusive'
        BY <1>0, <1>1, <2>1, <2>3, <2>4 DEF TerminateUnregister, OwnInv, TerminationsAreExclusive, Ending
  <2>11. ScopesMatchRuns'
        BY <2>2, <2>3, <2>6, <2>7, MatchAfterRemoval, Zenon DEF OwnInv
  <2> QED
      BY <2>3, <2>8, <2>9, <2>10, <2>11, Zenon DEF OwnInv, CgroupIndexIsLive, EndedRunsAreTerminal, Live
<1> QED
    BY <1>0, <1>2, <1>3, Zenon DEF TerminateUnregister

\* A detached Run ends and leaves the cgroup index.
LEMMA OwnComplete ==
    ASSUME TypeInv, OwnInv, NEW t \in Threads, TerminateComplete(t)
    PROVE  OwnInv'
<1>0. PICK r \in Runs : r = term[t].run
      BY Zenon DEF TerminateComplete, TypeInv, HandlersWellFormed
<1>1. /\ Live(r) /\ r \in terminating /\ \A u \in Threads \ {t} : ~Ending(u, r)
      /\ Detached(r)
      BY <1>0, Zenon DEF TerminateComplete, OwnInv, TerminationsAreExclusive, Ending, Detached
<1>2. PICK c \in Cgroups : c = runCgroup[r]
      BY <1>1, Zenon DEF TypeInv, HandlersWellFormed, Live
<1>3. completeTermination(r, term[t].status, term[t].at)
      BY <1>0, Zenon DEF TerminateComplete
<1>4. /\ term'[t].pc = "notify"
      /\ \A u \in Threads \ {t} : term'[u] = term[u]
      BY Zenon DEF TerminateComplete, TypeInv, TypeOK, TermRecord
<1>5. term[t].status \in Statuses /\ term[t].status # "active" /\ term[t].at \in Nat
      BY Zenon DEF TerminateComplete, TypeInv, TypeOK, HandlersWellFormed, TermRecord
<1>6. /\ runStatus'[r] \notin {"none", "active"} /\ runEnded'[r] # -1
      /\ \A s \in Runs \ {r} : runStatus'[s] = runStatus[s] /\ runEnded'[s] = runEnded[s]
  <2>1. /\ runStatus' = [runStatus EXCEPT ![r] = terminalStatus(r, term[t].status)]
        /\ runEnded' = [runEnded EXCEPT ![r] = term[t].at]
        BY <1>3, Zenon DEF completeTermination
  <2>2. terminalStatus(r, term[t].status) \notin {"none", "active"}
        BY <1>1, <1>5, Zenon DEF terminalStatus, Statuses, Live
  <2>3. runStatus \in [Runs -> Statuses \cup {"none"}] /\ runEnded \in [Runs -> Nat \cup {-1}]
        BY Zenon DEF TypeInv, TypeOK, StoreTypeOK
  <2> QED
      BY <1>5, <2>1, <2>2, <2>3
<1>7. /\ activeByCgroup'[c] = NoRun
      /\ \A d \in Cgroups \ {c} : activeByCgroup'[d] = activeByCgroup[d]
  <2>1. activeByCgroup[c] = r
        BY <1>1, <1>2, Zenon DEF OwnInv, CgroupIndexIsLive
  <2> QED
      BY <1>2, <1>3, <2>1, Zenon DEF completeTermination, ForgetIdentity, TypeInv, TypeOK, StoreTypeOK
<1>8. terminating' = terminating \ {r} /\ UNCHANGED <<runCgroup, scopeMap, active, origin, call>>
      BY <1>3, Zenon DEF TerminateComplete, completeTermination, ForgetIdentity, scopeVars, envVars
<1>9. ~Live(r)' /\ \A s \in Runs \ {r} : Live(s)' <=> Live(s)
      BY <1>6, Zenon DEF Live
<1>10. \A s \in Runs \ {r} : Detached(s)' <=> Detached(s)
      BY <1>0, <1>4, Zenon DEF TerminateComplete, Detached
<1>11. CgroupIndexIsLive'
  <2>1. \A s \in Runs \ {r} : Live(s) => runCgroup[s] # c /\ runCgroup[s] \in Cgroups
        BY <1>1, <1>2, Zenon DEF OwnInv, CgroupIndexIsLive, TypeInv, HandlersWellFormed, Live
  <2>2. \A d \in Cgroups \ {c} : activeByCgroup[d] # r
    <3> SUFFICES ASSUME NEW d \in Cgroups, activeByCgroup[d] = r PROVE d = c
        BY Zenon
    <3>1. r # NoRun /\ CgroupIndexIsLive
          BY ScopeAssumption, Zenon DEF OwnInv
    <3> QED
        BY <1>2, <3>1, Zenon DEF CgroupIndexIsLive
  <2>3. \A d \in Cgroups : activeByCgroup[d] # NoRun => activeByCgroup[d] \in Runs
        BY Zenon DEF TypeInv, TypeOK, StoreTypeOK
  <2>4. CgroupIndexIsLive
        BY Zenon DEF OwnInv
  <2> QED
      BY <1>7, <1>8, <1>9, <2>1, <2>2, <2>3, <2>4, Zenon DEF CgroupIndexIsLive
<1>12. RegistrationsAreFresh'
  <2>1. RegistrationsAreFresh
        BY Zenon DEF OwnInv
  <2>2. runStatus[r] # "none" /\ \A s \in Runs : runStatus'[s] = "none" <=> runStatus[s] = "none"
        BY <1>1, <1>6, Zenon DEF Live
  <2>3. /\ \A x \in Callers : HoldsRegistrationMu(x)' <=> HoldsRegistrationMu(x)
        /\ \A x \in Callers, s \in Runs : Registering(x, s)' <=> Registering(x, s)
        BY <1>8, Zenon DEF HoldsRegistrationMu, Registering
  <2> QED
      BY <1>8, <2>1, <2>2, <2>3, Zenon DEF RegistrationsAreFresh
<1>13. TerminationsAreExclusive'
      BY <1>1, <1>4, <1>8, <1>9, Zenon DEF OwnInv, TerminationsAreExclusive, Ending
<1>14. ScopesMatchRuns'
  <2>1. \A d \in Cgroups : active[d] # r
        BY <1>1, Zenon DEF OwnInv, ScopesMatchRuns
  <2>2. ~Detached(r)'
        BY <1>1, <1>4, Zenon DEF Detached, Ending
  <2>3. ScopesMatchRuns
        BY Zenon DEF OwnInv
  <2>4. ASSUME NEW s \in Runs, Live(s)', ~Detached(s)' PROVE active'[runCgroup'[s]] = s
        BY <1>8, <1>9, <1>10, <2>3, <2>4, Zenon DEF ScopesMatchRuns
  <2>5. ASSUME NEW s \in Runs, NEW d \in Cgroups, Detached(s)' PROVE active'[d] # s
        BY <1>8, <1>10, <2>1, <2>3, <2>5, Zenon DEF ScopesMatchRuns
  <2>6. ASSUME NEW s \in Runs, NEW d \in Cgroups, active'[d] = s, runStatus'[s] # "none"
        PROVE  Live(s)' /\ runCgroup'[s] = d
        BY <1>6, <1>8, <1>9, <2>1, <2>3, <2>6, Zenon DEF ScopesMatchRuns
  <2>7. \A s \in Runs, d, e \in Cgroups : active'[d] = s /\ active'[e] = s => d = e
        BY <1>8, <2>3, Zenon DEF ScopesMatchRuns
  <2> QED
      BY <2>4, <2>5, <2>6, <2>7, Zenon DEF ScopesMatchRuns
<1>15. EndedRunsAreTerminal'
      BY <1>6, Zenon DEF OwnInv, EndedRunsAreTerminal
<1> QED
    BY <1>8, <1>11, <1>12, <1>13, <1>14, <1>15, Zenon DEF OwnInv, ScopeMapAgreesWithManager

\* The callback of an ended Run frees its thread.
LEMMA OwnTerminateNotify ==
    ASSUME TypeInv, OwnInv, NEW t \in Threads, TerminateNotify(t)
    PROVE  OwnInv'
<1>1. term[t].pc = "notify" /\ term'[t].pc = "idle" /\ \A u \in Threads \ {t} : term'[u] = term[u]
      BY Zenon DEF TerminateNotify, IdleTerm, TypeInv, TypeOK
<1>2. UNCHANGED <<ownVars, terminating, origin, call>>
      BY Zenon DEF TerminateNotify, scopeVars, storeVars, envVars, ownVars
<1>3. \A s \in Runs : (Live(s)' <=> Live(s)) /\ (Detached(s)' <=> Detached(s))
      BY <1>1, <1>2, Zenon DEF Live, Detached, ownVars
<1>4. TerminationsAreExclusive'
      BY <1>1, <1>2, <1>3, Zenon DEF OwnInv, TerminationsAreExclusive, Ending
<1> QED
    BY <1>2, <1>3, <1>4, OwnTermOnly, Zenon

-----------------------------------------------------------------------------
(* Putting the actions together. *)

\* Every step of every goroutine preserves the ownership invariant.
LEMMA OwnStep == TypeInv /\ OwnInv /\ [Next]_vars => OwnInv'
<1> SUFFICES ASSUME TypeInv, OwnInv, [Next]_vars PROVE OwnInv'
    BY Zenon
<1>1. CASE Tick
      BY <1>1, OwnQuiet, Zenon DEF Tick, scopeVars, storeVars, ownVars
<1>2. ASSUME NEW r \in Runs, Violate(r) PROVE OwnInv'
      BY <1>2, OwnQuiet, Zenon DEF Violate, scopeVars, storeVars, ownVars
<1>3. ASSUME NEW x \in Callers, NEW q \in Requests, NEW c \in Cgroups, RegisterRequest(x, q, c)
      PROVE  OwnInv'
      BY <1>3, OwnRequest, Zenon
<1>4. ASSUME NEW x \in Callers, RegisterStep(x) PROVE OwnInv'
      BY <1>4, OwnLocked, OwnScope, OwnAdd, OwnRollback, OwnNotify, Zenon DEF RegisterStep
<1>5. ASSUME NEW t \in Finishers, NEW r \in Runs, FinishRun(t, r) PROVE OwnInv'
      BY <1>5, OwnBegin, Zenon DEF FinishRun, Threads, envVars
<1>6. ASSUME NEW t \in Threads, TerminateStep(t) PROVE OwnInv'
      BY <1>6, OwnUnregister, OwnComplete, OwnTerminateNotify, Zenon DEF TerminateStep
<1>7. CASE MonitorStep
  <2> USE DEF scopeVars, storeVars, envVars, ownVars
  <2>1. CASE MonitorTick \/ MonitorList \/ MonitorLookup \/ MonitorCleanup \/ MonitorPrune
        BY <2>1, OwnQuiet, Zenon DEF MonitorTick, MonitorList, MonitorLookup, MonitorCleanup, MonitorPrune
  <2>2. ASSUME NEW c \in Cgroups, MonitorCheck(c) PROVE OwnInv'
        BY <2>2, OwnQuiet, Zenon DEF MonitorCheck
  <2>3. CASE MonitorFail
    <3>1. CASE TerminateBegin(Monitor, mon.run, "failed", mon.at)
      <4>1. PICK r \in Runs : r = mon.run
            BY <2>3, Zenon DEF MonitorFail, TypeInv, HandlersWellFormed
      <4> QED
          BY <2>3, <3>1, <4>1, OwnBegin, Zenon DEF MonitorFail, Threads
    <3>2. CASE UNCHANGED <<storeVars, term>>
          BY <2>3, <3>2, OwnQuiet, Zenon DEF MonitorFail
    <3> QED
        BY <2>3, <3>1, <3>2, Zenon DEF MonitorFail
  <2>4. ASSUME NEW r \in Runs, MonitorExpire(r) PROVE OwnInv'
    <3>1. CASE TerminateBegin(Monitor, r, "expired", mon.at)
          BY <2>4, <3>1, OwnBegin, Zenon DEF MonitorExpire, Threads
    <3>2. CASE UNCHANGED <<storeVars, term>>
          BY <2>4, <3>2, OwnQuiet, Zenon DEF MonitorExpire
    <3> QED
        BY <2>4, <3>1, <3>2, Zenon DEF MonitorExpire
  <2> QED
      BY <1>7, <2>1, <2>2, <2>3, <2>4, Zenon DEF MonitorStep
<1>8. CASE UNCHANGED vars
      BY <1>8, OwnQuiet, Zenon DEF vars, scopeVars, storeVars, envVars, ownVars
<1> QED
    BY <1>1, <1>2, <1>3, <1>4, <1>5, <1>6, <1>7, <1>8, Zenon DEF Next

LEMMA InvariantInit == Init => IInv
BY TypeInit, OwnInit, Zenon DEF OwnInv, IInv

LEMMA InvariantStep == IInv /\ [Next]_vars => IInv'
BY TypeStep, OwnStep, Zenon DEF OwnInv, IInv

\* IInv holds in every reachable state.
THEOREM Invariance == Spec => []IInv
BY InvariantInit, InvariantStep, PTL DEF Spec

\* The kernel's map and the manager's table never disagree.
THEOREM MapAgreement == Spec => []ScopeMapAgreesWithManager
<1>1. IInv => ScopeMapAgreesWithManager
      BY Zenon DEF IInv
<1> QED
    BY <1>1, Invariance, PTL

\* A token that verifies belongs to a Run whose scope is bound.
THEOREM CredentialsAreScoped == Spec => []CredentialImpliesScope
<1>1. IInv => CredentialImpliesScope
  <2> SUFFICES ASSUME IInv, NEW r \in Runs, VerifyIngestToken(r, now)
               PROVE  scopeMap[runCgroup[r]] = r
      BY Zenon DEF CredentialImpliesScope
  <2>1. Live(r)
        BY Zenon DEF VerifyIngestToken, IInv, EndedRunsAreTerminal, Live
  <2>2. ~Detached(r)
        BY Zenon DEF VerifyIngestToken, IInv, TerminationsAreExclusive, Ending, Detached
  <2> QED
      BY <2>1, <2>2, Zenon DEF IInv, ScopesMatchRuns, ScopeMapAgreesWithManager
<1> QED
    BY <1>1, Invariance, PTL

\* Nothing is captured under a Run that has ended.
THEOREM EndedRunsAreNotCaptured == Spec => []EndedRunNotCaptured
<1>1. IInv => EndedRunNotCaptured
      BY Zenon DEF IInv, EndedRunNotCaptured, EndedRunsAreTerminal, ScopesMatchRuns, ScopeMapAgreesWithManager, Live
<1> QED
    BY <1>1, Invariance, PTL

\* A termination that calls Unregister removes its own Run's scope.
THEOREM TerminationsOwnTheirScopes == Spec => []TerminationOwnsItsScope
<1>1. IInv => TerminationOwnsItsScope
  <2> SUFFICES ASSUME IInv, NEW t \in Threads, term[t].pc = "unregister"
               PROVE  active[runCgroup[term[t].run]] = term[t].run
      BY Zenon DEF TerminationOwnsItsScope
  <2>1. PICK r \in Runs : r = term[t].run
        BY Zenon DEF IInv, TypeInv, HandlersWellFormed
  <2>2. Live(r) /\ ~Detached(r)
        BY <2>1, Zenon DEF IInv, TerminationsAreExclusive, Ending, Detached
  <2> QED
      BY <2>1, <2>2, Zenon DEF IInv, ScopesMatchRuns
<1> QED
    BY <1>1, Invariance, PTL

\* A rollback that calls Unregister removes the registration it made.
THEOREM RollbacksOwnTheirScopes == Spec => []RollbackOwnsItsScope
<1>1. IInv => RollbackOwnsItsScope
      BY Zenon DEF IInv, RegistrationsAreFresh, RollbackOwnsItsScope
<1> QED
    BY <1>1, Invariance, PTL

\* The cgroup index names exactly the live Runs.
THEOREM IndexIsLive == Spec => []CgroupIndexIsLive
<1>1. IInv => CgroupIndexIsLive
      BY Zenon DEF IInv
<1> QED
    BY <1>1, Invariance, PTL

\* An ended Run is never ended again and keeps its status.
THEOREM EndsAreFinal == Spec => EndIsFinal
<1> DEFINE Final == \A r \in Runs : runEnded[r] # -1 =>
                        runEnded'[r] = runEnded[r] /\ runStatus'[r] = runStatus[r]
<1>1. ASSUME IInv, [Next]_vars PROVE Final
  <2>1. CASE UNCHANGED <<runEnded, runStatus>>
        BY <2>1, Zenon
  <2>2. ASSUME NEW x \in Callers, RegisterAdd(x) PROVE Final
    <3>1. PICK r \in Runs, c \in Cgroups : r = call[x].run /\ c = call[x].cgroup
          BY <1>1, <2>2, Zenon DEF RegisterAdd, IInv, TypeInv, HandlersWellFormed, HoldsRegistrationMu
    <3>2. UNCHANGED runEnded /\ \A s \in Runs \ {r} : runStatus'[s] = runStatus[s]
          BY <1>1, <2>2, <3>1, Zenon DEF RegisterAdd, Add, AddFails, IInv, TypeInv, TypeOK, StoreTypeOK
    <3>3. runEnded[r] = -1
          BY <1>1, <2>2, <3>1, Zenon DEF RegisterAdd, IInv, RegistrationsAreFresh, Registering, EndedRunsAreTerminal
    <3> QED
        BY <3>2, <3>3, Zenon
  <2>3. ASSUME NEW t \in Threads, TerminateComplete(t) PROVE Final
    <3>1. PICK r \in Runs : r = term[t].run
          BY <1>1, <2>3, Zenon DEF TerminateComplete, IInv, TypeInv, HandlersWellFormed
    <3>2. \A s \in Runs \ {r} : runEnded'[s] = runEnded[s] /\ runStatus'[s] = runStatus[s]
          BY <1>1, <2>3, <3>1, Zenon DEF TerminateComplete, completeTermination, ForgetIdentity, IInv, TypeInv, TypeOK, StoreTypeOK
    <3>3. runEnded[r] = -1
          BY <1>1, <2>3, <3>1, Zenon DEF TerminateComplete, IInv, TerminationsAreExclusive, Ending, Live
    <3> QED
        BY <3>2, <3>3, Zenon
  <2> HIDE DEF Final
  <2> QED
    <3> USE DEF storeVars
    <3>1. CASE Tick \/ (\E r \in Runs : Violate(r)) \/ UNCHANGED vars
          BY <2>1, <3>1, Zenon DEF Tick, Violate, vars
    <3>2. CASE \E x \in Callers, q \in Requests, c \in Cgroups : RegisterRequest(x, q, c)
          BY <2>1, <3>2, Zenon DEF RegisterRequest
    <3>3. CASE \E x \in Callers : RegisterStep(x)
          BY <2>1, <2>2, <3>3, Zenon DEF RegisterStep, RegisterLocked, RegisterScope, RegisterRollback, RegisterNotify
    <3>4. CASE \E t \in Finishers, r \in Runs : FinishRun(t, r)
          BY <2>1, <3>4, Zenon DEF FinishRun, TerminateBegin, beginTermination
    <3>5. CASE \E t \in Threads : TerminateStep(t)
          BY <2>1, <2>3, <3>5, Zenon DEF TerminateStep, TerminateUnregister, TerminateNotify, abortTermination
    <3>6. CASE MonitorStep
          BY <2>1, <3>6, Zenon DEF MonitorStep, MonitorTick, MonitorList, MonitorCheck, MonitorLookup, MonitorFail,
             MonitorCleanup, MonitorExpire, MonitorPrune, TerminateBegin, beginTermination
    <3> QED
        BY <1>1, <3>1, <3>2, <3>3, <3>4, <3>5, <3>6, Zenon DEF Next
<1>2. IInv /\ [Next]_vars => [Final]_vars
      BY <1>1, Zenon
<1> QED
    BY <1>2, Invariance, PTL DEF Spec, EndIsFinal

\* Registered cgroups never overlap and never hold Core.
THEOREM ScopesAreDisjoint == Spec => []ActiveScopesDisjoint
<1>1. Init => ActiveScopesDisjoint
      BY Zenon DEF Init, NewManager, ActiveScopesDisjoint, ActiveIDs
<1>2. ASSUME IInv, ActiveScopesDisjoint, [Next]_vars PROVE ActiveScopesDisjoint'
  <2>1. CASE UNCHANGED active
        BY <1>2, <2>1, Zenon DEF ActiveScopesDisjoint, ActiveIDs, pathIsEqualOrAncestor, pathsOverlap
  <2>2. ASSUME NEW c \in Cgroups, ScopeUnregister(c) PROVE ActiveScopesDisjoint'
    <3>1. ActiveIDs' \subseteq ActiveIDs
          BY <1>2, <2>2, Zenon DEF ScopeUnregister, ActiveIDs, IInv, TypeInv, TypeOK, ScopeTypeOK
    <3> QED
        BY <1>2, <3>1, Zenon DEF ActiveScopesDisjoint, pathIsEqualOrAncestor, pathsOverlap
  <2>3. ASSUME NEW x \in Callers, RegisterScope(x), ScopeRegister(call[x].cgroup, call[x].run)
        PROVE  ActiveScopesDisjoint'
    <3>1. PICK c \in Cgroups : c = call[x].cgroup
          BY <1>2, <2>3, Zenon DEF RegisterScope, IInv, TypeInv, HandlersWellFormed
    <3>2. ActiveIDs' \subseteq ActiveIDs \cup {c}
          BY <1>2, <2>3, <3>1, Zenon DEF ScopeRegister, ActiveIDs, IInv, TypeInv, TypeOK, ScopeTypeOK
    <3>3. ~pathIsEqualOrAncestor(c, Core) /\ \A d \in ActiveIDs : ~pathsOverlap(d, c)
          BY <2>3, <3>1, Zenon DEF ScopeRegister, Registrable, ActiveIDs
    <3> QED
        BY <1>2, <3>2, <3>3, Zenon DEF ActiveScopesDisjoint, pathIsEqualOrAncestor, pathsOverlap
  <2>4. ASSUME NEW x \in Callers, RegisterRollback(x) PROVE ActiveScopesDisjoint'
        BY <1>2, <2>1, <2>2, <2>4, Zenon DEF RegisterRollback, ScopeUnregisterFails, scopeVars, IInv, TypeInv,
                                    HandlersWellFormed
  <2>5. ASSUME NEW t \in Threads, TerminateUnregister(t) PROVE ActiveScopesDisjoint'
    <3>1. runCgroup[term[t].run] \in Cgroups
          BY <1>2, <2>5, Zenon DEF TerminateUnregister, IInv, TypeInv, HandlersWellFormed, TerminationsAreExclusive,
                          Ending, Live
    <3> QED
        BY <2>1, <2>2, <2>5, <3>1, Zenon DEF TerminateUnregister, ScopeUnregisterFails, scopeVars
  <2> QED
    <3> USE DEF scopeVars
    <3>1. CASE Tick \/ (\E r \in Runs : Violate(r)) \/ UNCHANGED vars
          BY <2>1, <3>1, Zenon DEF Tick, Violate, vars
    <3>2. CASE \E x \in Callers, q \in Requests, c \in Cgroups : RegisterRequest(x, q, c)
          BY <2>1, <3>2, Zenon DEF RegisterRequest
    <3>3. CASE \E x \in Callers : RegisterStep(x)
          BY <2>1, <2>3, <2>4, <3>3, Zenon DEF RegisterStep, RegisterLocked, RegisterScope, RegisterAdd, RegisterNotify
    <3>4. CASE \E t \in Finishers, r \in Runs : FinishRun(t, r)
          BY <2>1, <3>4, Zenon DEF FinishRun
    <3>5. CASE \E t \in Threads : TerminateStep(t)
          BY <2>1, <2>5, <3>5, Zenon DEF TerminateStep, TerminateComplete, TerminateNotify
    <3>6. CASE MonitorStep
          BY <2>1, <3>6, Zenon DEF MonitorStep, MonitorTick, MonitorList, MonitorCheck, MonitorLookup, MonitorFail,
             MonitorCleanup, MonitorExpire, MonitorPrune
    <3> QED
        BY <1>2, <3>1, <3>2, <3>3, <3>4, <3>5, <3>6, Zenon DEF Next
<1>3. IInv /\ ActiveScopesDisjoint /\ [Next]_vars => ActiveScopesDisjoint'
      BY <1>2, Zenon
<1> QED
    BY <1>1, <1>3, Invariance, PTL DEF Spec

-----------------------------------------------------------------------------
(* Identities. *)

\* The identity index names live Runs only, a tombstone its own Run.
IdentityInv ==
    /\ IdentityNamesOneRun
    /\ \A t \in tombstones : CookieOf[t.run] = t.cookie
    /\ \A k \in Cookies : liveByIdentity[k] # NoRun =>
           Live(liveByIdentity[k]) /\ CookieOf[liveByIdentity[k]] = k

LEMMA IdentityInit == Init => IdentityInv
BY Zenon DEF Init, NewRunStore, IdentityInv, IdentityNamesOneRun, Live

\* Forgetting tombstones keeps identities unique.
LEMMA IdentityQuiet ==
    ASSUME IdentityInv, UNCHANGED <<runStatus, runEnded, liveByIdentity>>,
           tombstones' \subseteq tombstones
    PROVE  IdentityInv'
BY Zenon DEF IdentityInv, IdentityNamesOneRun, Live

\* Add takes an identity that no Run and no tombstone holds.
LEMMA IdentityAdd ==
    ASSUME IInv, IdentityInv, NEW r \in Runs, NEW c, NEW at, Add(r, c, at), runEnded[r] = -1
    PROVE  IdentityInv'
<1>t. /\ runStatus \in [Runs -> Statuses \cup {"none"}]
      /\ liveByIdentity \in [Cookies -> Runs \cup {NoRun}]
      /\ tombstones \in SUBSET runTombstone
      /\ CookieOf[r] \in Cookies
      BY ScopeAssumption, Zenon DEF IInv, TypeInv, TypeOK, StoreTypeOK
<1>1. /\ runStatus[r] = "none" /\ liveByIdentity[CookieOf[r]] = NoRun
      /\ \A t \in tombstones' : t \in tombstones /\ t.cookie # CookieOf[r]
      BY Zenon DEF Add, AddAccepts, TombstonesOf, pruneTombstones
<1>2. /\ UNCHANGED runEnded
      /\ runStatus' = [runStatus EXCEPT ![r] = "active"]
      /\ liveByIdentity' = [liveByIdentity EXCEPT ![CookieOf[r]] = r]
      BY Zenon DEF Add
<1>3. Live(r)' /\ \A s \in Runs \ {r} : Live(s)' <=> Live(s)
      BY <1>t, <1>1, <1>2, Zenon DEF Live
<1>4. \A s \in Runs : Live(s)' => liveByIdentity'[CookieOf[s]] = s
  <2> SUFFICES ASSUME NEW s \in Runs, Live(s)' PROVE liveByIdentity'[CookieOf[s]] = s
      BY Zenon
  <2>1. CASE s = r
        BY <1>t, <1>2, <2>1, Zenon
  <2>2. CASE s # r
    <3>1. liveByIdentity[CookieOf[s]] = s
          BY <1>3, <2>2, Zenon DEF IdentityInv, IdentityNamesOneRun
    <3>2. CookieOf[s] # CookieOf[r]
          BY <1>1, <3>1, NoRunIsNoRun, Zenon
    <3> QED
        BY <1>t, <1>2, <3>1, <3>2, ScopeAssumption, Zenon
  <2> QED
      BY <2>1, <2>2, Zenon
<1>5. \A t \in tombstones' : liveByIdentity'[t.cookie] = NoRun
  <2> SUFFICES ASSUME NEW t \in tombstones' PROVE liveByIdentity'[t.cookie] = NoRun
      BY Zenon
  <2>1. t \in tombstones /\ t.cookie # CookieOf[r]
        BY <1>1, Zenon
  <2>2. t.cookie \in Cookies
        BY <1>t, <2>1, Zenon DEF runTombstone
  <2>3. liveByIdentity[t.cookie] = NoRun
        BY <2>1, Zenon DEF IdentityInv, IdentityNamesOneRun
  <2> QED
      BY <1>t, <1>2, <2>1, <2>2, <2>3, Zenon
<1>6. \A k \in Cookies : liveByIdentity'[k] # NoRun =>
          Live(liveByIdentity[k])' /\ CookieOf[liveByIdentity'[k]] = k
      BY <1>t, <1>1, <1>2, <1>3, Zenon DEF IdentityInv, IdentityNamesOneRun
<1>7. \A t, u \in tombstones' : t.cookie = u.cookie => t = u
      BY <1>1, Zenon DEF IdentityInv, IdentityNamesOneRun
<1>8. \A t \in tombstones' : CookieOf[t.run] = t.cookie
      BY <1>1, Zenon DEF IdentityInv
<1> QED
    BY <1>4, <1>5, <1>6, <1>7, <1>8, Zenon DEF IdentityInv, IdentityNamesOneRun

\* The tombstone of an ended Run replaces its entry in the index.
LEMMA IdentityComplete ==
    ASSUME IInv, IdentityInv, NEW r \in Runs, NEW status, NEW at \in Nat, Live(r),
           completeTermination(r, status, at)
    PROVE  IdentityInv'
<1> DEFINE k == CookieOf[r]
           kept == evictOldestTombstones(pruneTombstones(tombstones, at))
           mine == [cookie |-> k, run |-> r, status |-> terminalStatus(r, status),
                    expiresAt |-> at + TombstoneTTL, sequence |-> tombstoneSeq + 1]
<1>t. /\ runStatus \in [Runs -> Statuses \cup {"none"}]
      /\ runEnded \in [Runs -> Nat \cup {-1}]
      /\ liveByIdentity \in [Cookies -> Runs \cup {NoRun}]
      /\ tombstones \in SUBSET runTombstone
      /\ k \in Cookies
      BY ScopeAssumption, Zenon DEF IInv, TypeInv, TypeOK, StoreTypeOK
<1>1. /\ runStatus' = [runStatus EXCEPT ![r] = terminalStatus(r, status)]
      /\ runEnded' = [runEnded EXCEPT ![r] = at]
      /\ liveByIdentity' = [liveByIdentity EXCEPT ![k] = NoRun]
      /\ tombstones' = (kept \ TombstonesOf(k, kept)) \cup {mine}
      BY Zenon DEF completeTermination, ForgetIdentity
<1>2. ~Live(r)' /\ \A s \in Runs \ {r} : Live(s)' <=> Live(s)
  <2>1. runEnded'[r] # -1
        BY <1>t, <1>1
  <2>2. \A s \in Runs \ {r} : runStatus'[s] = runStatus[s] /\ runEnded'[s] = runEnded[s]
        BY <1>t, <1>1, Zenon
  <2> QED
      BY <2>1, <2>2, Zenon DEF Live
<1>3. \A t \in tombstones' : t = mine \/ (t \in tombstones /\ t.cookie # k)
  <2>1. kept \subseteq tombstones
        BY Zenon DEF evictOldestTombstones, pruneTombstones
  <2> HIDE DEF kept, mine
  <2> QED
      BY <1>1, <2>1, Zenon DEF TombstonesOf
<1>4. mine.cookie = k /\ mine.run = r
      BY Zenon
<1> HIDE DEF mine, kept
<1>5. \A s \in Runs : Live(s)' => liveByIdentity'[CookieOf[s]] = s
  <2> SUFFICES ASSUME NEW s \in Runs, Live(s)' PROVE liveByIdentity'[CookieOf[s]] = s
      BY Zenon
  <2>1. s # r /\ Live(s) /\ CookieOf[s] \in Cookies
        BY <1>2, ScopeAssumption, Zenon
  <2>2. liveByIdentity[CookieOf[s]] = s /\ liveByIdentity[k] = r
        BY <2>1, Zenon DEF IdentityInv, IdentityNamesOneRun
  <2> QED
      BY <1>t, <1>1, <2>1, <2>2, Zenon
<1>6. \A t \in tombstones' : liveByIdentity'[t.cookie] = NoRun
      BY <1>t, <1>1, <1>3, <1>4 DEF IdentityInv, IdentityNamesOneRun, runTombstone
<1>7. \A t, u \in tombstones' : t.cookie = u.cookie => t = u
      BY <1>3, <1>4, Zenon DEF IdentityInv, IdentityNamesOneRun
<1>8. \A j \in Cookies : liveByIdentity'[j] # NoRun =>
          Live(liveByIdentity[j])' /\ CookieOf[liveByIdentity'[j]] = j
  <2> SUFFICES ASSUME NEW j \in Cookies, liveByIdentity'[j] # NoRun
               PROVE  Live(liveByIdentity[j])' /\ CookieOf[liveByIdentity'[j]] = j
      BY Zenon
  <2>1. j # k /\ liveByIdentity'[j] = liveByIdentity[j]
        BY <1>t, <1>1, Zenon
  <2>2. PICK s \in Runs : s = liveByIdentity[j]
        BY <1>t, <2>1, Zenon
  <2>3. Live(s) /\ CookieOf[s] = j /\ s # r
        BY <2>1, <2>2, Zenon DEF IdentityInv
  <2> QED
      BY <1>2, <2>1, <2>2, <2>3, Zenon
<1>9. \A t \in tombstones' : CookieOf[t.run] = t.cookie
      BY <1>3, <1>4, Zenon DEF IdentityInv
<1> QED
    BY <1>5, <1>6, <1>7, <1>8, <1>9, Zenon DEF IdentityInv, IdentityNamesOneRun

\* Every step keeps identities unique.
LEMMA IdentityStep ==
    ASSUME IInv, IdentityInv, [Next]_vars
    PROVE  IdentityInv'
<1>1. CASE UNCHANGED <<runStatus, runEnded, liveByIdentity>> /\ tombstones' \subseteq tombstones
      BY <1>1, IdentityQuiet, Zenon
<1>2. ASSUME NEW x \in Callers, RegisterAdd(x) PROVE IdentityInv'
  <2>1. PICK r \in Runs : r = call[x].run
        BY <1>2, Zenon DEF RegisterAdd, IInv, TypeInv, HandlersWellFormed, HoldsRegistrationMu
  <2>2. runEnded[r] = -1
        BY <1>2, <2>1, Zenon DEF RegisterAdd, IInv, RegistrationsAreFresh, Registering, EndedRunsAreTerminal
  <2>3. CASE Add(r, call[x].cgroup, call[x].at)
        BY <2>2, <2>3, IdentityAdd, Zenon
  <2>4. CASE AddFails(r, call[x].cgroup, call[x].at)
        BY <1>1, <2>4, Zenon DEF AddFails, pruneTombstones
  <2> QED
      BY <1>2, <2>1, <2>3, <2>4, Zenon DEF RegisterAdd
<1>3. ASSUME NEW t \in Threads, TerminateComplete(t) PROVE IdentityInv'
  <2>1. PICK r \in Runs, at \in Nat : r = term[t].run /\ at = term[t].at
        BY <1>3, Zenon DEF TerminateComplete, IInv, TypeInv, TypeOK, HandlersWellFormed, TermRecord
  <2>2. Live(r)
        BY <1>3, <2>1, Zenon DEF TerminateComplete, IInv, TerminationsAreExclusive, Ending
  <2>3. completeTermination(r, term[t].status, at)
        BY <1>3, <2>1, Zenon DEF TerminateComplete
  <2> QED
      BY <2>2, <2>3, IdentityComplete, Zenon
<1> QED
  <2> USE DEF storeVars
  <2>1. CASE Tick \/ (\E r \in Runs : Violate(r)) \/ UNCHANGED vars
        BY <1>1, <2>1, Zenon DEF Tick, Violate, vars
  <2>2. CASE \E x \in Callers, q \in Requests, c \in Cgroups : RegisterRequest(x, q, c)
        BY <1>1, <2>2, Zenon DEF RegisterRequest
  <2>3. CASE \E x \in Callers : RegisterStep(x)
        BY <1>1, <1>2, <2>3, Zenon DEF RegisterStep, RegisterLocked, RegisterScope, RegisterRollback, RegisterNotify
  <2>4. CASE \E t \in Finishers, r \in Runs : FinishRun(t, r)
        BY <1>1, <2>4, Zenon DEF FinishRun, TerminateBegin, beginTermination
  <2>5. CASE \E t \in Threads : TerminateStep(t)
        BY <1>1, <1>3, <2>5, Zenon DEF TerminateStep, TerminateUnregister, TerminateNotify, abortTermination
  <2>6. CASE MonitorStep
        BY <1>1, <2>6, Zenon DEF MonitorStep, MonitorTick, MonitorList, MonitorCheck, MonitorLookup, MonitorFail,
           MonitorCleanup, MonitorExpire, MonitorPrune, TerminateBegin, beginTermination, pruneTombstones
  <2> QED
      BY <2>1, <2>2, <2>3, <2>4, <2>5, <2>6, Zenon DEF Next

\* Whatever cookies the registrations draw, an identity never names two Runs,
\* live or within their attribution windows.
THEOREM IdentitiesNameOneRun == Spec => []IdentityNamesOneRun
<1>1. Init => IdentityInv
      BY IdentityInit, Zenon
<1>2. IInv /\ IdentityInv /\ [Next]_vars => IdentityInv'
      BY IdentityStep, Zenon
<1>3. IdentityInv => IdentityNamesOneRun
      BY Zenon DEF IdentityInv
<1> QED
    BY <1>1, <1>2, <1>3, Invariance, PTL DEF Spec
-----------------------------------------------------------------------------
(* Which Runs are active, beyond IInv. *)

LiveRunsAreActive ==
    \A r \in Runs : /\ Live(r) => runStatus[r] = "active"
                    /\ r \in terminating => Live(r)

\* The part of the state a Run's phase depends on.
lifeVars == <<runStatus, runEnded, runRegistered, terminating, now>>

\* What a step may do to it.
Clock == now' = now + 1 /\ UNCHANGED <<runStatus, runEnded, runRegistered, terminating>>

Added(r) ==
    /\ runStatus[r] = "none"
    /\ runStatus' = [runStatus EXCEPT ![r] = "active"]
    /\ \E at \in Nat : runRegistered' = [runRegistered EXCEPT ![r] = at]
    /\ UNCHANGED <<runEnded, terminating, now>>

Begun(r) ==
    /\ Live(r) /\ r \notin terminating
    /\ terminating' = terminating \cup {r}
    /\ UNCHANGED <<runStatus, runEnded, runRegistered, now>>

Aborted(r) ==
    /\ r \in terminating
    /\ terminating' = terminating \ {r}
    /\ UNCHANGED <<runStatus, runEnded, runRegistered, now>>

Completed(r) ==
    /\ r \in terminating
    /\ terminating' = terminating \ {r}
    /\ \E status \in Statuses, at \in Nat :
           /\ status # "active"
           /\ runStatus' = [runStatus EXCEPT ![r] = terminalStatus(r, status)]
           /\ runEnded' = [runEnded EXCEPT ![r] = at]
    /\ UNCHANGED <<runRegistered, now>>

LifeStep ==
    \/ UNCHANGED lifeVars
    \/ Clock
    \/ \E r \in Runs : Added(r) \/ Begun(r) \/ Aborted(r) \/ Completed(r)

\* Every step of the system does one of these things to the life of Runs.
LEMMA StepsOfLife == IInv /\ [Next]_vars => LifeStep
<1> SUFFICES ASSUME IInv, [Next]_vars PROVE LifeStep
    BY Zenon
<1> USE DEF lifeVars
<1>t. TypeInv /\ TerminationsAreExclusive
      BY Zenon DEF IInv
<1>1. CASE Tick
      BY <1>1, Zenon DEF Tick, LifeStep, Clock, storeVars
<1>2. ASSUME NEW r \in Runs, Violate(r) PROVE LifeStep
      BY <1>2, Zenon DEF Violate, LifeStep, storeVars
<1>3. ASSUME NEW x \in Callers, NEW q \in Requests, NEW c \in Cgroups, RegisterRequest(x, q, c)
      PROVE  LifeStep
      BY <1>3, Zenon DEF RegisterRequest, LifeStep, storeVars, envVars
<1>4. ASSUME NEW x \in Callers, RegisterStep(x) PROVE LifeStep
  <2>1. CASE RegisterLocked(x)
        BY <2>1, Zenon DEF RegisterLocked, LifeStep, storeVars, envVars
  <2>2. CASE RegisterScope(x)
        BY <2>2, Zenon DEF RegisterScope, LifeStep, storeVars, envVars
  <2>3. CASE RegisterAdd(x)
    <3>1. call[x].run \in Runs /\ call[x].at \in Nat
          BY <2>3, <1>t, Zenon DEF RegisterAdd, TypeInv, TypeOK, HandlersWellFormed, HoldsRegistrationMu, CallRecord
    <3>2. CASE Add(call[x].run, call[x].cgroup, call[x].at)
          BY <2>3, <3>1, <3>2, Zenon DEF RegisterAdd, Add, AddAccepts, Added, LifeStep, envVars
    <3>3. CASE AddFails(call[x].run, call[x].cgroup, call[x].at)
          BY <2>3, <3>3, Zenon DEF RegisterAdd, AddFails, LifeStep, envVars
    <3> QED
        BY <2>3, <3>2, <3>3, Zenon DEF RegisterAdd
  <2>4. CASE RegisterRollback(x)
        BY <2>4, Zenon DEF RegisterRollback, LifeStep, storeVars, envVars
  <2>5. CASE RegisterNotify(x)
        BY <2>5, Zenon DEF RegisterNotify, LifeStep, storeVars, envVars
  <2> QED
      BY <1>4, <2>1, <2>2, <2>3, <2>4, <2>5, Zenon DEF RegisterStep
<1>5. ASSUME NEW t \in Threads, NEW r \in Runs, NEW status, NEW at,
             TerminateBegin(t, r, status, at), UNCHANGED envVars
      PROVE  LifeStep
      BY <1>5, Zenon DEF TerminateBegin, beginTermination, TerminationBegins, Begun, LifeStep, envVars
<1>6. ASSUME NEW t \in Finishers, NEW r \in Runs, FinishRun(t, r) PROVE LifeStep
      BY <1>5, <1>6, Zenon DEF FinishRun, Threads
<1>7. ASSUME NEW t \in Threads, TerminateStep(t) PROVE LifeStep
  <2>1. CASE TerminateUnregister(t)
    <3>1. term[t].run \in Runs /\ term[t].run \in terminating
          BY <2>1, <1>t, Zenon DEF TerminateUnregister, TypeInv, HandlersWellFormed, TerminationsAreExclusive, Ending
    <3> QED
        BY <2>1, <3>1, Zenon DEF TerminateUnregister, abortTermination, Aborted, LifeStep, storeVars, envVars
  <2>2. CASE TerminateComplete(t)
    <3>1. /\ term[t].run \in Runs /\ term[t].at \in Nat
          /\ term[t].status \in Statuses /\ term[t].status # "active"
          BY <2>2, <1>t, Zenon DEF TerminateComplete, TypeInv, TypeOK, HandlersWellFormed, TermRecord
    <3>2. Completed(term[t].run)
          BY <2>2, <3>1, Zenon DEF TerminateComplete, completeTermination, Completed, envVars
    <3> QED
        BY <3>1, <3>2, Zenon DEF LifeStep
  <2>3. CASE TerminateNotify(t)
        BY <2>3, Zenon DEF TerminateNotify, LifeStep, storeVars, envVars
  <2> QED
      BY <1>7, <2>1, <2>2, <2>3, Zenon DEF TerminateStep
<1>8. CASE MonitorStep
  <2>1. CASE MonitorTick \/ MonitorList \/ MonitorLookup \/ MonitorCleanup \/ MonitorPrune
        BY <2>1, Zenon DEF MonitorTick, MonitorList, MonitorLookup, MonitorCleanup, MonitorPrune,
                    LifeStep, storeVars, envVars
  <2>2. ASSUME NEW c \in Cgroups, MonitorCheck(c) PROVE LifeStep
        BY <2>2, Zenon DEF MonitorCheck, LifeStep, storeVars, envVars
  <2>3. CASE MonitorFail
    <3>1. mon.run \in Runs /\ Monitor \in Threads
          BY <2>3, <1>t, Zenon DEF MonitorFail, TypeInv, HandlersWellFormed, Threads
    <3> QED
        BY <2>3, <3>1, <1>5, Zenon DEF MonitorFail, LifeStep, storeVars, envVars
  <2>4. ASSUME NEW r \in Runs, MonitorExpire(r) PROVE LifeStep
    <3>1. Monitor \in Threads
          BY Zenon DEF Threads
    <3> QED
        BY <2>4, <3>1, <1>5, Zenon DEF MonitorExpire, LifeStep, storeVars, envVars
  <2> QED
      BY <1>8, <2>1, <2>2, <2>3, <2>4, Zenon DEF MonitorStep
<1>9. CASE UNCHANGED vars
      BY <1>9, Zenon DEF vars, storeVars, envVars, LifeStep
<1> QED
    BY <1>1, <1>2, <1>3, <1>4, <1>6, <1>7, <1>8, <1>9, Zenon DEF Next

\* A live Run is active, and only live Runs are being terminated.
LEMMA LifeInvariant == Spec => []LiveRunsAreActive
<1>1. Init => LiveRunsAreActive
      BY Zenon DEF Init, NewRunStore, LiveRunsAreActive, Live
<1>2. ASSUME IInv, LiveRunsAreActive, LifeStep PROVE LiveRunsAreActive'
  <2> SUFFICES ASSUME NEW s \in Runs
               PROVE  /\ Live(s)' => runStatus'[s] = "active"
                      /\ s \in terminating' => Live(s)'
      BY Zenon DEF LiveRunsAreActive
  <2>t. /\ runStatus \in [Runs -> Statuses \cup {"none"}]
        /\ runEnded \in [Runs -> Nat \cup {-1}]
        /\ runRegistered \in [Runs -> Nat]
        BY <1>2, Zenon DEF IInv, TypeInv, TypeOK, StoreTypeOK
  <2>1. CASE UNCHANGED lifeVars \/ Clock
        BY <1>2, <2>1, Zenon DEF lifeVars, Clock, LiveRunsAreActive, Live
  <2>2. ASSUME NEW r \in Runs, Added(r) \/ Begun(r) \/ Aborted(r)
        PROVE  (Live(s)' => runStatus'[s] = "active") /\ (s \in terminating' => Live(s)')
        BY <1>2, <2>2, <2>t, Zenon DEF Added, Begun, Aborted, LiveRunsAreActive, Live
  <2>3. ASSUME NEW r \in Runs, Completed(r)
        PROVE  (Live(s)' => runStatus'[s] = "active") /\ (s \in terminating' => Live(s)')
    <3>1. runEnded'[r] # -1 /\ r \notin terminating'
          BY <2>3, <2>t DEF Completed
    <3>2. s # r => /\ runEnded'[s] = runEnded[s] /\ runStatus'[s] = runStatus[s]
                   /\ s \in terminating' => s \in terminating
          BY <2>3, <2>t, Zenon DEF Completed
    <3> QED
        BY <1>2, <3>1, <3>2, Zenon DEF LiveRunsAreActive, Live
  <2> QED
      BY <1>2, <2>1, <2>2, <2>3, Zenon DEF LifeStep
<1> QED
    BY <1>1, <1>2, StepsOfLife, Invariance, PTL DEF Spec
-----------------------------------------------------------------------------
(* The refinement. *)

\* The phases after a step that gives Run r, and no other, a new phase.
LEMMA OnePhaseMoves ==
    ASSUME NEW r \in Runs, NEW p, PhaseOf(r)' = p,
           \A s \in Runs \ {r} : PhaseOf(s)' = PhaseOf(s)
    PROVE  [s \in Runs |-> PhaseOf(s)]' = [[s \in Runs |-> PhaseOf(s)] EXCEPT ![r] = p]
BY Zenon

\* Each thing a step does to the life of Runs is a step of RunPhase.
LEMMA LifeStepsArePhaseSteps ==
    ASSUME IInv, LiveRunsAreActive, LifeStep
    PROVE  [RunPhases!PhaseNext]_(RunPhases!phaseVars)
<1> DEFINE phases == [s \in Runs |-> PhaseOf(s)]
           expired == {s \in Runs : Expired(s)}
<1>t. /\ runStatus \in [Runs -> Statuses \cup {"none"}]
      /\ runEnded \in [Runs -> Nat \cup {-1}]
      /\ runRegistered \in [Runs -> Nat]
      /\ terminating \in SUBSET Runs /\ now \in Nat
      /\ TokenTTL \in Nat /\ RunTTL \in Nat
      BY StoreAssumption, Zenon DEF IInv, TypeInv, TypeOK, StoreTypeOK
<1>1. CASE UNCHANGED lifeVars
  <2>1. phases' = phases
        BY <1>1, Zenon DEF lifeVars, PhaseOf
  <2>2. expired' = expired
        BY <1>1, Zenon DEF lifeVars, Expired, runExpiry, tokenExpiry
  <2> QED
      BY <2>1, <2>2, Zenon DEF RunPhases!phaseVars
<1>2. CASE Clock
  <2>1. phases' = phases
        BY <1>2, Zenon DEF Clock, PhaseOf
  <2>2. \A s \in expired' : s \in Runs /\ phases[s] # "absent"
        BY <1>2, Zenon DEF Clock, Expired, PhaseOf
  <2>3. expired' = expired \cup expired'
    <3>1. \A s \in Runs : Expired(s) => Expired(s)'
          BY <1>2, <1>t DEF Clock, Expired, runExpiry, tokenExpiry
    <3> QED
        BY <3>1, Zenon
  <2>4. RunPhases!Lapse(expired')
        BY <2>1, <2>2, <2>3, Zenon DEF RunPhases!Lapse
  <2> QED
      BY <2>4, Zenon DEF RunPhases!PhaseNext
<1>3. ASSUME NEW r \in Runs, Added(r) PROVE RunPhases!PhaseNext
  <2>1. r \notin terminating
        BY <1>3, Zenon DEF Added, LiveRunsAreActive, Live
  <2>2. PhaseOf(r) = "absent" /\ PhaseOf(r)' = "active"
        BY <1>3, <1>t, <2>1, Zenon DEF Added, PhaseOf
  <2>3. \A s \in Runs \ {r} : PhaseOf(s)' = PhaseOf(s)
        BY <1>3, <1>t, Zenon DEF Added, PhaseOf
  <2>4. phases' = [phases EXCEPT ![r] = "active"]
        BY <2>2, <2>3, OnePhaseMoves, Zenon
  <2>5. \A s \in Runs \ {r} : Expired(s)' <=> Expired(s)
        BY <1>3, <1>t, Zenon DEF Added, Expired, runExpiry, tokenExpiry
  <2>6. ~Expired(r)
        BY <1>3, Zenon DEF Added, Expired
  <2>7. expired' \in {expired, expired \cup {r}}
        BY <2>5, <2>6, Zenon
  <2>8. RunPhases!Register(r)
        BY <2>2, <2>4, <2>7, Zenon DEF RunPhases!Register, RunPhases!Move
  <2> QED
      BY <2>8, Zenon DEF RunPhases!PhaseNext
<1>4. ASSUME NEW r \in Runs, Begun(r) PROVE RunPhases!PhaseNext
  <2>1. PhaseOf(r) = "active" /\ PhaseOf(r)' = "ending"
        BY <1>4, Zenon DEF Begun, PhaseOf, LiveRunsAreActive, Live
  <2>2. \A s \in Runs \ {r} : PhaseOf(s)' = PhaseOf(s)
        BY <1>4, Zenon DEF Begun, PhaseOf
  <2>3. phases' = [phases EXCEPT ![r] = "ending"]
        BY <2>1, <2>2, OnePhaseMoves, Zenon
  <2>4. expired' = expired
        BY <1>4, Zenon DEF Begun, Expired, runExpiry, tokenExpiry
  <2>5. RunPhases!BeginEnd(r)
        BY <2>1, <2>3, <2>4, Zenon DEF RunPhases!BeginEnd, RunPhases!Move
  <2> QED
      BY <2>5, Zenon DEF RunPhases!PhaseNext
<1>5. ASSUME NEW r \in Runs, Aborted(r) PROVE RunPhases!PhaseNext
  <2>1. PhaseOf(r) = "ending" /\ PhaseOf(r)' = "active"
        BY <1>5, Zenon DEF Aborted, PhaseOf, LiveRunsAreActive, Live
  <2>2. \A s \in Runs \ {r} : PhaseOf(s)' = PhaseOf(s)
        BY <1>5, Zenon DEF Aborted, PhaseOf
  <2>3. phases' = [phases EXCEPT ![r] = "active"]
        BY <2>1, <2>2, OnePhaseMoves, Zenon
  <2>4. expired' = expired
        BY <1>5, Zenon DEF Aborted, Expired, runExpiry, tokenExpiry
  <2>5. RunPhases!AbortEnd(r)
        BY <2>1, <2>3, <2>4, Zenon DEF RunPhases!AbortEnd, RunPhases!Move
  <2> QED
      BY <2>5, Zenon DEF RunPhases!PhaseNext
<1>6. ASSUME NEW r \in Runs, Completed(r) PROVE RunPhases!PhaseNext
  <2>1. PICK status \in Statuses : status # "active" /\
            runStatus' = [runStatus EXCEPT ![r] = terminalStatus(r, status)]
        BY <1>6, Zenon DEF Completed
  <2>2. runStatus[r] = "active" /\ r \in terminating
        BY <1>6, Zenon DEF Completed, LiveRunsAreActive, Live
  <2>3. runStatus'[r] = status /\ status \notin {"none", "active"}
        BY <2>1, <2>2, <1>t, Zenon DEF terminalStatus, Statuses
  <2>4. PhaseOf(r) = "ending" /\ PhaseOf(r)' = "ended"
        BY <1>6, <2>2, <2>3, Zenon DEF Completed, PhaseOf
  <2>5. \A s \in Runs \ {r} : PhaseOf(s)' = PhaseOf(s)
        BY <1>6, <2>1, <1>t, Zenon DEF Completed, PhaseOf
  <2>6. phases' = [phases EXCEPT ![r] = "ended"]
        BY <2>4, <2>5, OnePhaseMoves, Zenon
  <2>7. \A s \in Runs : (runStatus'[s] # "none") <=> (runStatus[s] # "none")
        BY <2>1, <2>2, <2>3, <1>t, Zenon
  <2>8. expired' = expired
        BY <1>6, <2>7, Zenon DEF Completed, Expired, runExpiry, tokenExpiry
  <2>9. RunPhases!CompleteEnd(r)
        BY <2>4, <2>6, <2>8, Zenon DEF RunPhases!CompleteEnd, RunPhases!Move
  <2> QED
      BY <2>9, Zenon DEF RunPhases!PhaseNext
<1> QED
    BY <1>1, <1>2, <1>3, <1>4, <1>5, <1>6, Zenon DEF LifeStep

\* The registration, finish, monitor and expiry handlers over the Run store
\* implement RunPhase, which CheckpointIngest is built on.
THEOREM LifecycleImplementsRunPhase == Spec => ImplementsRunPhase
<1>1. Init => RunPhases!PhaseInit
      BY Zenon DEF Init, NewRunStore, RunPhases!PhaseInit, PhaseOf, Expired
<1>2. IInv /\ LiveRunsAreActive /\ [Next]_vars => [RunPhases!PhaseNext]_(RunPhases!phaseVars)
      BY StepsOfLife, LifeStepsArePhaseSteps, Zenon
<1> QED
    BY <1>1, <1>2, Invariance, LifeInvariant, PTL DEF Spec, ImplementsRunPhase, RunPhases!PhaseSpec

\* VerifyIngestToken and RunPhase agree on who may send.
THEOREM TokensFollowThePhase == Spec => []AuthorizationAgrees
<1>1. IInv => AuthorizationAgrees
  <2> SUFFICES ASSUME IInv, NEW r \in Runs
               PROVE  VerifyIngestToken(r, now) <=> RunPhases!Authorized(r)
      BY Zenon DEF AuthorizationAgrees
  <2>1. /\ runRegistered[r] \in Nat /\ now \in Nat
        /\ TokenTTL \in Nat /\ RunTTL \in Nat
        BY StoreAssumption, Zenon DEF IInv, TypeInv, TypeOK, StoreTypeOK
  <2> QED
      BY <2>1 DEF VerifyIngestToken, RunPhases!Authorized, PhaseOf, Expired, runExpiry, tokenExpiry
<1> QED
    BY <1>1, Invariance, PTL

-----------------------------------------------------------------------------
(* One credential per request. *)

\* The Run is in the table and its token has not expired.
Usable(r) == runStatus[r] # "none" /\ now < tokenExpiry(r)

\* The replay entry of its request names the Run, for as long as its token lives.
Remembered(r) ==
    /\ replays[origin[r]] # NoReplay
    /\ replays[origin[r]].run = r
    /\ replays[origin[r]].expiresAt = tokenExpiry(r)

\* Its registration has added it and not entered it among the replays yet.
Answering(r) == \E x \in Callers : call[x].pc = "notify" /\ call[x].run = r

\* A Run whose token lives is remembered under its request, or about to be; a
\* registration that goes on has found no entry, and keeps the mutex.
CredInv ==
    /\ \A x \in Callers : call[x].at <= now
    /\ \A x \in Callers : HoldsRegistrationMu(x) =>
           replays[call[x].request] = NoReplay /\ origin[call[x].run] = call[x].request
    /\ \A x \in Callers : call[x].pc = "notify" => runRegistered[call[x].run] = call[x].at
    /\ \A r \in Runs : Usable(r) => Remembered(r) \/ Answering(r)

LEMMA CredTypes ==
    ASSUME IInv
    PROVE  /\ now \in Nat /\ TokenTTL \in Nat
           /\ runStatus \in [Runs -> Statuses \cup {"none"}] /\ runRegistered \in [Runs -> Nat]
           /\ origin \in [Runs -> Requests \cup {NoRequest}]
           /\ call \in [Callers -> CallRecord]
           /\ replays \in [Requests -> registrationReplay \cup {NoReplay}]
           /\ \A x \in Callers : call[x].at \in Nat
           /\ \A x \in Callers : call[x].pc # "idle" => call[x].request \in Requests
           /\ \A x \in Callers : HoldsRegistrationMu(x) => call[x].run \in Runs
           /\ \A x, y \in Callers : HoldsRegistrationMu(x) /\ HoldsRegistrationMu(y) => x = y
           /\ \A r \in Runs : runStatus[r] # "none" => origin[r] \in Requests
           /\ \A r \in Runs : origin[r] = NoRequest => runStatus[r] = "none"
           /\ \A r \in Runs, x \in Callers : origin[r] = NoRequest /\ HoldsRegistrationMu(x) => call[x].run # r
<1>1. /\ now \in Nat /\ TokenTTL \in Nat
      /\ runStatus \in [Runs -> Statuses \cup {"none"}] /\ runRegistered \in [Runs -> Nat]
      /\ origin \in [Runs -> Requests \cup {NoRequest}]
      /\ call \in [Callers -> CallRecord]
      /\ replays \in [Requests -> registrationReplay \cup {NoReplay}]
      BY StoreAssumption, Zenon DEF IInv, TypeInv, TypeOK, StoreTypeOK
<1>2. \A x \in Callers : call[x].at \in Nat
      BY <1>1, Zenon DEF CallRecord
<1>3. /\ \A x \in Callers : call[x].pc # "idle" => call[x].request \in Requests
      /\ \A x \in Callers : HoldsRegistrationMu(x) => call[x].run \in Runs
      BY Zenon DEF IInv, TypeInv, HandlersWellFormed
<1>4. /\ \A x, y \in Callers : HoldsRegistrationMu(x) /\ HoldsRegistrationMu(y) => x = y
      /\ \A r \in Runs : origin[r] = NoRequest => runStatus[r] = "none"
      /\ \A r \in Runs, x \in Callers : origin[r] = NoRequest /\ HoldsRegistrationMu(x) => call[x].run # r
      BY Zenon DEF IInv, RegistrationsAreFresh
<1>5. \A r \in Runs : runStatus[r] # "none" => origin[r] \in Requests
      BY <1>1, <1>4, Zenon
<1> QED
    BY <1>1, <1>2, <1>3, <1>4, <1>5, Zenon

LEMMA CredInit == Init => CredInv
BY DEF Init, NewRunStore, IdleCall, CredInv, HoldsRegistrationMu, Usable

\* Steps of other handlers, and of time.
LEMMA CredQuiet ==
    ASSUME IInv, CredInv, now' \in Nat, now' >= now, UNCHANGED <<call, replays, origin, runRegistered>>,
           \A r \in Runs : runStatus'[r] # "none" => runStatus[r] # "none"
    PROVE  CredInv'
<1>1. \A x \in Callers : call'[x].at <= now'
      BY CredTypes DEF CredInv
<1>2. ASSUME NEW r \in Runs, Usable(r)' PROVE Remembered(r)' \/ Answering(r)'
  <2>1. Usable(r)
        BY <1>2, CredTypes DEF Usable, tokenExpiry
  <2>2. Remembered(r) \/ Answering(r)
        BY <2>1, Zenon DEF CredInv
  <2> QED
      BY <2>2, Zenon DEF Remembered, Answering, tokenExpiry
<1> QED
    BY <1>1, <1>2, Zenon DEF CredInv, HoldsRegistrationMu

\* A step of a registration that does not end in an answer.
LEMMA CredCallOnly ==
    ASSUME IInv, CredInv, NEW x \in Callers, NEW m \in CallRecord,
           UNCHANGED <<replays, origin, now, runRegistered, runStatus>>,
           call' = [call EXCEPT ![x] = m],
           call[x].pc # "notify", m.at <= now, m.pc # "notify",
           m.pc \notin {"idle", "waiting"} =>
               HoldsRegistrationMu(x) /\ m.request = call[x].request /\ m.run = call[x].run
    PROVE  CredInv'
<1>1. call'[x] = m /\ \A y \in Callers \ {x} : call'[y] = call[y]
      BY CredTypes, Zenon
<1>2. \A y \in Callers : call'[y].at <= now'
      BY <1>1, Zenon DEF CredInv
<1>3. \A y \in Callers : HoldsRegistrationMu(y)' =>
          replays'[call'[y].request] = NoReplay /\ origin'[call'[y].run] = call'[y].request
      BY <1>1 DEF CredInv, HoldsRegistrationMu
<1>4. \A y \in Callers : call'[y].pc = "notify" => runRegistered'[call'[y].run] = call'[y].at
      BY <1>1 DEF CredInv
<1>5. ASSUME NEW r \in Runs, Usable(r)' PROVE Remembered(r)' \/ Answering(r)'
  <2>1. Remembered(r) \/ Answering(r)
        BY <1>5, Zenon DEF CredInv, Usable, tokenExpiry
  <2> QED
      BY <1>1, <2>1, Zenon DEF Remembered, Answering, tokenExpiry
<1> QED
    BY <1>2, <1>3, <1>4, <1>5, Zenon DEF CredInv

LEMMA CredLocked ==
    ASSUME IInv, CredInv, NEW x \in Callers, RegisterLocked(x)
    PROVE  CredInv'
<1> DEFINE kept == pruneRegistrationReplays(call[x].at)
<1>1. /\ call[x].pc = "waiting" /\ replays' = kept /\ UNCHANGED <<now, runRegistered, runStatus>>
      /\ \A y \in Callers : ~HoldsRegistrationMu(y)
      BY Zenon DEF RegisterLocked, storeVars
<1>2. call[x].at \in Nat /\ call[x].at <= now /\ call[x].request \in Requests
      BY <1>1, CredTypes, Zenon DEF CredInv
<1>3. \A q \in Requests : kept[q] = NoReplay \/ (kept[q] = replays[q] /\ ~(call[x].at >= replays[q].expiresAt))
      BY Zenon DEF pruneRegistrationReplays
<1>4. \A q \in Requests : replays[q] # NoReplay /\ kept[q] = NoReplay => call[x].at >= replays[q].expiresAt
      BY Zenon DEF pruneRegistrationReplays
<1> HIDE DEF kept
<1>5. ASSUME NEW r \in Runs, Usable(r)' PROVE Remembered(r) /\ replays'[origin[r]] = replays[origin[r]]
  <2>1. Usable(r)
        BY <1>1, <1>5, Zenon DEF Usable, tokenExpiry
  <2>2. Remembered(r)
        BY <1>1, <2>1, Zenon DEF CredInv, Answering, HoldsRegistrationMu
  <2>3. origin[r] \in Requests
        BY <2>1, CredTypes, Zenon DEF Usable
  <2>4. ~(call[x].at >= tokenExpiry(r))
        BY <1>2, <2>1, CredTypes DEF Usable, tokenExpiry
  <2>5. kept[origin[r]] # NoReplay
        BY <1>4, <2>2, <2>3, <2>4, Zenon DEF Remembered
  <2> QED
      BY <1>1, <1>3, <2>2, <2>3, <2>5, Zenon
<1>6. CASE call' = [call EXCEPT ![x] = IdleCall] /\ UNCHANGED origin
  <2>1. call'[x] = IdleCall /\ \A y \in Callers \ {x} : call'[y] = call[y]
        BY <1>6, CredTypes, Zenon
  <2>2. \A y \in Callers : call'[y].at <= now'
        BY <1>1, <2>1, CredTypes DEF CredInv, IdleCall
  <2>3. \A y \in Callers : ~HoldsRegistrationMu(y)' /\ call'[y].pc # "notify"
        BY <1>1, <2>1 DEF HoldsRegistrationMu, IdleCall
  <2>4. \A r \in Runs : Usable(r)' => Remembered(r)'
        BY <1>1, <1>5, <1>6, Zenon DEF Remembered, tokenExpiry
  <2> QED
      BY <2>2, <2>3, <2>4, Zenon DEF CredInv
<1>7. ASSUME NEW s \in Runs, origin[s] = NoRequest, ~AnsweredFromReplays(call[x].request, kept),
             origin' = [origin EXCEPT ![s] = call[x].request],
             call' = [call EXCEPT ![x] = [@ EXCEPT !.pc = "register", !.run = s]]
      PROVE  CredInv'
  <2>1. /\ call'[x] = [call[x] EXCEPT !.pc = "register", !.run = s]
        /\ \A y \in Callers \ {x} : call'[y] = call[y]
        BY <1>7, CredTypes, Zenon
  <2>2. /\ call'[x].pc = "register" /\ call'[x].run = s /\ call'[x].request = call[x].request
        /\ call'[x].at = call[x].at
        BY <2>1, CredTypes DEF CallRecord
  <2>3. \A y \in Callers : call'[y].at <= now'
        BY <1>1, <2>1, <2>2, Zenon DEF CredInv
  <2>4. \A y \in Callers : HoldsRegistrationMu(y)' => y = x
        BY <1>1, <2>1, Zenon DEF HoldsRegistrationMu
  <2>5. origin'[s] = call[x].request /\ \A r \in Runs \ {s} : origin'[r] = origin[r]
        BY <1>7, CredTypes, Zenon
  <2>6. replays'[call[x].request] = NoReplay
        BY <1>1, <1>7, Zenon DEF AnsweredFromReplays
  <2>7. \A y \in Callers : call'[y].pc # "notify"
        BY <1>1, <2>1, <2>2, Zenon DEF HoldsRegistrationMu
  <2>8. ASSUME NEW r \in Runs, Usable(r)' PROVE Remembered(r)'
    <3>1. r # s
          BY <1>1, <1>7, <2>8, CredTypes, Zenon DEF Usable
    <3> QED
        BY <1>1, <1>5, <2>5, <2>8, <3>1 DEF Remembered, tokenExpiry
  <2> QED
      BY <2>2, <2>3, <2>4, <2>5, <2>6, <2>7, <2>8, Zenon DEF CredInv
<1> QED
    BY <1>6, <1>7, Zenon DEF RegisterLocked, kept

LEMMA CredAdd ==
    ASSUME IInv, CredInv, NEW x \in Callers, RegisterAdd(x)
    PROVE  CredInv'
<1>1. /\ call[x].pc = "add" /\ HoldsRegistrationMu(x) /\ call[x].run \in Runs /\ call[x].at <= now
      /\ call[x].at \in Nat /\ call[x] \in CallRecord
      BY CredTypes, Zenon DEF RegisterAdd, HoldsRegistrationMu, CredInv
<1>2. UNCHANGED <<replays, origin, now>>
      BY Zenon DEF RegisterAdd, envVars
<1>3. CASE AddFails(call[x].run, call[x].cgroup, call[x].at) /\ call' = [call EXCEPT ![x].pc = "rollback"]
  <2>1. [call[x] EXCEPT !.pc = "rollback"] \in CallRecord
        BY <1>1, Zenon DEF CallRecord
  <2>2. call' = [call EXCEPT ![x] = [call[x] EXCEPT !.pc = "rollback"]]
        BY <1>3, CredTypes, Zenon
  <2>3. UNCHANGED <<runRegistered, runStatus>>
        BY <1>3, Zenon DEF AddFails
  <2> QED
      BY <1>1, <1>2, <2>1, <2>2, <2>3, CredCallOnly, Zenon DEF CallRecord
<1>4. CASE Add(call[x].run, call[x].cgroup, call[x].at) /\ call' = [call EXCEPT ![x].pc = "notify"]
  <2> DEFINE r == call[x].run
  <2>1. /\ runRegistered'[r] = call[x].at
        /\ \A s \in Runs \ {r} : runRegistered'[s] = runRegistered[s] /\ runStatus'[s] = runStatus[s]
        BY <1>1, <1>4, CredTypes, Zenon DEF Add
  <2>2. /\ call'[x].pc = "notify" /\ call'[x].run = call[x].run /\ call'[x].request = call[x].request
        /\ call'[x].at = call[x].at
        /\ \A y \in Callers \ {x} : call'[y] = call[y]
        BY <1>1, <1>4, CredTypes, Zenon DEF CallRecord
  <2>3. \A y \in Callers : call'[y].at <= now'
        BY <1>2, <2>2, Zenon DEF CredInv
  <2>4. \A y \in Callers : HoldsRegistrationMu(y)' => y = x
        BY <1>1, <2>2, CredTypes, Zenon DEF HoldsRegistrationMu
  <2>5. replays'[call'[x].request] = NoReplay /\ origin'[call'[x].run] = call'[x].request
        BY <1>1, <1>2, <2>2, Zenon DEF CredInv
  <2>6. ASSUME NEW s \in Runs, Usable(s)' PROVE Remembered(s)' \/ Answering(s)'
    <3>1. CASE s = r
          BY <2>2, <3>1, Zenon DEF Answering
    <3>2. CASE s # r
      <4>1. Usable(s)
            BY <1>2, <2>1, <2>6, <3>2, Zenon DEF Usable, tokenExpiry
      <4>2. Remembered(s) \/ Answering(s)
            BY <4>1, Zenon DEF CredInv
      <4> QED
          BY <1>1, <1>2, <2>1, <2>2, <3>2, <4>2, Zenon DEF Remembered, Answering, tokenExpiry
    <3> QED
        BY <3>1, <3>2, Zenon
  <2>7. \A y \in Callers : call'[y].pc = "notify" => y = x
        BY <2>4, Zenon DEF HoldsRegistrationMu
  <2> QED
      BY <2>1, <2>2, <2>3, <2>4, <2>5, <2>6, <2>7, Zenon DEF CredInv
<1> QED
    BY <1>3, <1>4, Zenon DEF RegisterAdd

LEMMA CredNotify ==
    ASSUME IInv, CredInv, NEW x \in Callers, RegisterNotify(x)
    PROVE  CredInv'
<1> DEFINE q == call[x].request
           r == call[x].run
<1>1. /\ call[x].pc = "notify" /\ HoldsRegistrationMu(x) /\ r \in Runs /\ q \in Requests
      /\ replays[q] = NoReplay /\ origin[r] = q /\ runRegistered[r] = call[x].at
      BY CredTypes, Zenon DEF RegisterNotify, HoldsRegistrationMu, CredInv
<1>2. UNCHANGED <<origin, now, runStatus, runRegistered>>
      BY Zenon DEF RegisterNotify, envVars, storeVars
<1>3. call'[x] = IdleCall /\ \A y \in Callers \ {x} : call'[y] = call[y]
      BY CredTypes, Zenon DEF RegisterNotify
<1>4. replays'[q] = replayOf(x) /\ \A p \in Requests \ {q} : replays'[p] = replays[p]
      BY <1>1, CredTypes, Zenon DEF RegisterNotify
<1>5. replayOf(x).run = r /\ replayOf(x).expiresAt = tokenExpiry(r) /\ replayOf(x) # NoReplay
  <2>1. replayOf(x).run = r /\ replayOf(x).expiresAt = call[x].at + TokenTTL
        BY Zenon DEF replayOf
  <2>2. replayOf(x) \in registrationReplay
        BY <1>1, CredTypes DEF replayOf, registrationReplay, IInv, TypeInv, HandlersWellFormed
  <2> QED
      BY <1>1, <2>1, <2>2, LifecycleAssumption, Zenon DEF tokenExpiry, registrationReplay
<1>6. \A y \in Callers : ~HoldsRegistrationMu(y)'
      BY <1>1, <1>3, CredTypes DEF HoldsRegistrationMu, IdleCall
<1>7. \A y \in Callers : call'[y].at <= now'
      BY <1>2, <1>3, CredTypes DEF CredInv, IdleCall
<1>8. ASSUME NEW s \in Runs, Usable(s)' PROVE Remembered(s)'
  <2>1. Usable(s) /\ origin[s] \in Requests
        BY <1>2, <1>8, CredTypes, Zenon DEF Usable, tokenExpiry
  <2>2. CASE s = r
        BY <1>1, <1>2, <1>4, <1>5, <2>2, Zenon DEF Remembered, tokenExpiry
  <2>3. CASE s # r
    <3>1. ~Answering(s)
          BY <1>1, <2>3, CredTypes, Zenon DEF Answering, HoldsRegistrationMu
    <3>2. Remembered(s) /\ origin[s] # q
          BY <1>1, <2>1, <3>1, Zenon DEF CredInv, Remembered
    <3> QED
        BY <1>2, <1>4, <2>1, <3>2, Zenon DEF Remembered, tokenExpiry
  <2> QED
      BY <2>2, <2>3, Zenon
<1>9. \A y \in Callers : call'[y].pc # "notify"
      BY <1>6, Zenon DEF HoldsRegistrationMu
<1> QED
    BY <1>6, <1>7, <1>8, <1>9, Zenon DEF CredInv

LEMMA CredRegister ==
    ASSUME IInv, CredInv, NEW x \in Callers, RegisterStep(x)
    PROVE  CredInv'
<1>1. \A y \in Callers : call[y] \in CallRecord /\ call[y].at <= now
      BY CredTypes, Zenon DEF CredInv
<1>2. IdleCall \in CallRecord /\ IdleCall.pc = "idle" /\ IdleCall.at <= now
      BY CredTypes DEF IdleCall, CallRecord
<1>3. CASE RegisterScope(x)
  <2>1. call[x].pc = "register" /\ HoldsRegistrationMu(x) /\ UNCHANGED <<replays, origin, now, runRegistered, runStatus>>
        BY <1>3, Zenon DEF RegisterScope, HoldsRegistrationMu, storeVars, envVars
  <2>2. CASE call' = [call EXCEPT ![x] = IdleCall]
        BY <1>2, <2>1, <2>2, CredCallOnly, Zenon
  <2>3. CASE call' = [call EXCEPT ![x].pc = "add"]
    <3> DEFINE m == [call[x] EXCEPT !.pc = "add"]
    <3>1. m \in CallRecord /\ m.pc = "add" /\ m.at = call[x].at /\ m.request = call[x].request /\ m.run = call[x].run
          BY <1>1, Zenon DEF CallRecord
    <3>2. call' = [call EXCEPT ![x] = m]
          BY <2>3, CredTypes, Zenon
    <3> HIDE DEF m
    <3> QED
        BY <1>1, <2>1, <3>1, <3>2, CredCallOnly, Zenon
  <2> QED
      BY <1>3, <2>2, <2>3, Zenon DEF RegisterScope
<1>4. CASE RegisterRollback(x)
  <2>1. /\ call[x].pc = "rollback" /\ call' = [call EXCEPT ![x] = IdleCall]
        /\ UNCHANGED <<replays, origin, now, runRegistered, runStatus>>
        BY <1>4, Zenon DEF RegisterRollback, storeVars, envVars
  <2> QED
      BY <1>2, <2>1, CredCallOnly, Zenon
<1> QED
    BY <1>3, <1>4, CredLocked, CredAdd, CredNotify, Zenon DEF RegisterStep

\* Terminations keep a Run in the table, and touch no registration.
LEMMA CredTerminate ==
    ASSUME IInv, NEW t \in Threads, TerminateStep(t)
    PROVE  /\ UNCHANGED <<call, replays, origin, now, runRegistered>>
           /\ \A r \in Runs : runStatus'[r] # "none" => runStatus[r] # "none"
<1>1. CASE TerminateUnregister(t) \/ TerminateNotify(t)
      BY <1>1, Zenon DEF TerminateUnregister, TerminateNotify, abortTermination, storeVars, envVars
<1>2. CASE TerminateComplete(t)
  <2>1. /\ term[t].run \in Runs /\ runStatus[term[t].run] # "none"
        /\ runStatus' = [runStatus EXCEPT ![term[t].run] = terminalStatus(term[t].run, term[t].status)]
        BY <1>2, Zenon DEF TerminateComplete, completeTermination, IInv, TypeInv, HandlersWellFormed
  <2> QED
      BY <1>2, <2>1, CredTypes, Zenon DEF TerminateComplete, completeTermination, envVars
<1> QED
    BY <1>1, <1>2, Zenon DEF TerminateStep

LEMMA CredStep == IInv /\ CredInv /\ [Next]_vars => CredInv'
<1> SUFFICES ASSUME IInv, CredInv, [Next]_vars PROVE CredInv'
    BY Zenon
<1>t. now \in Nat
      BY CredTypes, Zenon
<1>1. CASE Tick
      BY <1>1, <1>t, CredQuiet DEF Tick, storeVars
<1>2. CASE UNCHANGED vars \/ \E r \in Runs : Violate(r)
      BY <1>2, <1>t, CredQuiet, SMTT(15) DEF Violate, vars, storeVars, envVars
<1>3. ASSUME NEW x \in Callers, NEW q \in Requests, NEW c \in Cgroups, RegisterRequest(x, q, c) PROVE CredInv'
  <2> DEFINE m == [IdleCall EXCEPT !.pc = "waiting", !.request = q, !.cgroup = c, !.at = now]
  <2>1. m \in CallRecord /\ m.pc = "waiting" /\ m.at = now
        BY <1>t, Zenon DEF IdleCall, CallRecord
  <2>2. call[x].pc = "idle" /\ call' = [call EXCEPT ![x] = m]
        /\ UNCHANGED <<replays, origin, now, runRegistered, runStatus>>
        BY <1>3, Zenon DEF RegisterRequest, storeVars, envVars
  <2> HIDE DEF m
  <2>3. now <= now
        BY <1>t
  <2>4. m.at <= now /\ call[x].pc # "notify" /\ m.pc # "notify" /\ m.pc \in {"idle", "waiting"}
        BY <2>1, <2>2, <2>3, Zenon
  <2> QED
      BY <2>1, <2>2, <2>4, CredCallOnly, Zenon
<1>4. CASE \E t \in Threads : TerminateStep(t)
      BY <1>4, <1>t, CredTerminate, CredQuiet
<1>5. ASSUME NEW t \in Finishers, NEW r \in Runs, FinishRun(t, r) PROVE CredInv'
  <2>1. UNCHANGED <<call, replays, origin, now, runRegistered, runStatus>>
        BY <1>5, Zenon DEF FinishRun, TerminateBegin, beginTermination, envVars
  <2> QED
      BY <1>t, <2>1, CredQuiet
<1>6. CASE MonitorStep
  <2>1. UNCHANGED <<call, replays, origin, now, runRegistered, runStatus>>
        BY <1>6, Zenon DEF MonitorStep, MonitorTick, MonitorList, MonitorCheck, MonitorLookup, MonitorFail, MonitorCleanup,
                    MonitorExpire, MonitorPrune, TerminateBegin, beginTermination, storeVars, envVars
  <2> QED
      BY <1>t, <2>1, CredQuiet
<1> QED
    BY <1>1, <1>2, <1>3, <1>4, <1>5, <1>6, CredRegister, Zenon DEF Next

\* A retried registration never leaves two Runs whose tokens are accepted.
THEOREM RequestsHoldOneCredential == Spec => []OneCredentialPerRequest
<1>1. IInv /\ CredInv => OneCredentialPerRequest
  <2> SUFFICES ASSUME IInv, CredInv, NEW r \in Runs, NEW s \in Runs, r # s, origin[r] = origin[s],
                      VerifyIngestToken(r, now), VerifyIngestToken(s, now)
               PROVE  FALSE
      BY Zenon DEF OneCredentialPerRequest
  <2>1. Usable(r) /\ Usable(s)
        BY Zenon DEF VerifyIngestToken, Usable
  <2>2. (Remembered(r) \/ Answering(r)) /\ (Remembered(s) \/ Answering(s))
        BY <2>1, Zenon DEF CredInv
  <2>3. ~(Remembered(r) /\ Remembered(s))
        BY Zenon DEF Remembered
  <2>4. ~(Answering(r) /\ Answering(s))
        BY CredTypes, Zenon DEF Answering, HoldsRegistrationMu
  <2>5. \A u \in Runs : Answering(u) => replays[origin[u]] = NoReplay
        BY DEF Answering, CredInv, HoldsRegistrationMu
  <2> QED
      BY <2>2, <2>3, <2>4, <2>5, Zenon DEF Remembered
<1> QED
    BY <1>1, CredInit, CredStep, Invariance, PTL DEF Spec
=============================================================================
