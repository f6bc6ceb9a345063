-------------------------- MODULE CheckpointProofs --------------------------
(***************************************************************************)
(* Proofs about checkpoints, for any number of Runs, handlers, keys and     *)
(* attempts and any limits.  CheckpointIngest: idempotency, the hand-off to *)
(* the pipeline and the rate limit.  CheckpointDelivery: what the client of *)
(* a Run may believe of its receipts and of the requests it gave up.        *)
(***************************************************************************)
EXTENDS CheckpointDelivery, FiniteSetTheorems, TLAPS

-----------------------------------------------------------------------------
(* The inductive invariant. *)

\* A request being handled is a real one.
HandlersHoldRequests ==
    \A h \in Handlers : handler[h].pc \in {"charge", "body"} => handler[h].request \in CheckpointRequest

\* No bucket was updated in the future.
BucketsAreCurrent == \A r \in Runs : rateUpdated[r] <= clock

\* While its Run has not ended, the state holds what the pipeline took.
LogIsCurrent ==
    \A r \in Runs : /\ phase[r] # "ended" => enqueued[r] = log[r]
                    /\ r \notin opened => log[r] = <<>>
                    /\ phase[r] = "ended" => r \notin opened

\* What the pipeline took: record i was sent under no sequence or under i, and
\* no key occurs twice.
EnqueuedIsWellFormed ==
    \A r \in Runs :
        /\ \A i \in DOMAIN enqueued[r] :
               enqueued[r][i].run = r /\ enqueued[r][i].sequence \in {0, i}
        /\ \A i, j \in DOMAIN enqueued[r] :
               enqueued[r][i].key = enqueued[r][j].key /\ enqueued[r][i].key # NoKey => i = j

IngestTypeInv == TypeOK /\ HandlersHoldRequests /\ BucketsAreCurrent

IngestInv ==
    /\ IngestTypeInv
    /\ LogIsCurrent
    /\ EnqueuedIsWellFormed
    /\ ReceiptsAreEnqueued

-----------------------------------------------------------------------------
(* Functions and sequences. *)

\* Changing a function at one argument keeps its type.
LEMMA ExceptType ==
    ASSUME NEW S, NEW T, NEW f \in [S -> T], NEW x, NEW v \in T
    PROVE  [f EXCEPT ![x] = v] \in [S -> T]
BY Zenon

\* Appending adds one last element and keeps the others.
LEMMA AppendFacts ==
    ASSUME NEW S, NEW s \in Seq(S), NEW e \in S
    PROVE  /\ DOMAIN Append(s, e) = DOMAIN s \cup {Len(s) + 1}
           /\ Len(s) + 1 \notin DOMAIN s
           /\ Append(s, e)[Len(s) + 1] = e
           /\ \A i \in DOMAIN s : Append(s, e)[i] = s[i]
<1>1. DOMAIN s = 1..Len(s) /\ Len(s) \in Nat
      OBVIOUS
<1>2. DOMAIN Append(s, e) = 1..(Len(s) + 1)
      OBVIOUS
<1>3. 1..(Len(s) + 1) = 1..Len(s) \cup {Len(s) + 1}
      BY <1>1
<1> QED
    BY <1>1, <1>2, <1>3

-----------------------------------------------------------------------------
(* Type correctness. *)

\* An answer keeps the handler table well formed.
LEMMA ReplyType ==
    ASSUME IngestTypeInv, NEW h \in Handlers, NEW status \in Statuses, NEW number \in Nat,
           Reply(h, status, number)
    PROVE  (handler \in [Handlers -> HandlerRecord] /\ HandlersHoldRequests)'
BY Zenon DEF IngestTypeInv, TypeOK, Reply, HandlerRecord, HandlersHoldRequests

\* A step that only answers keeps every type.
LEMMA OnlyReplyType ==
    ASSUME IngestTypeInv, NEW h \in Handlers, NEW status \in Statuses, Reply(h, status, 0),
           UNCHANGED <<phaseVars, stateVars, clock, enqueued, historyVars>>
    PROVE  IngestTypeInv'
<1>1. (handler \in [Handlers -> HandlerRecord] /\ HandlersHoldRequests)'
      BY ReplyType, Zenon
<1> QED
    BY <1>1, Zenon DEF IngestTypeInv, TypeOK, BucketsAreCurrent, PhaseTypeOK, phaseVars, stateVars, historyVars

\* A bucket never holds a negative number of tokens.
LEMMA RefillType ==
    ASSUME IngestTypeInv, NEW r \in Runs
    PROVE  refillCheckpointTokens(r) \in Nat
BY IngestAssumption DEF IngestTypeInv, TypeOK, BucketsAreCurrent, refillCheckpointTokens, Least

\* Recording a receipt keeps the set of receipts.
LEMMA ReceiptType ==
    ASSUME IngestTypeInv, NEW q \in CheckpointRequest, NEW n \in Nat
    PROVE  receipts \cup {[request |-> q, number |-> n]} \in
               SUBSET [request : CheckpointRequest, number : Nat]
BY DEF IngestTypeInv, TypeOK

\* The initial state is well typed.
LEMMA IngestTypeInit == IngestInit => IngestTypeInv
BY IngestAssumption
   DEF IngestInit, IngestTypeInv, TypeOK, HandlersHoldRequests, BucketsAreCurrent, PhaseInit,
       PhaseTypeOK, Phases, HandlerRecord, Idle

\* The life of a Run keeps every type.
LEMMA RunStepType == IngestTypeInv /\ RunStep => IngestTypeInv'
<1> SUFFICES ASSUME IngestTypeInv, RunStep PROVE IngestTypeInv'
    BY Zenon
<1>1. PhaseTypeOK'
  <2>1. ASSUME NEW r \in Runs, Register(r) \/ BeginEnd(r) \/ AbortEnd(r) \/ CompleteEnd(r) \/ Lapse({r})
        PROVE  PhaseTypeOK'
        BY <2>1, Zenon DEF IngestTypeInv, TypeOK, PhaseTypeOK, Register, BeginEnd, AbortEnd, CompleteEnd,
                    Lapse, Move, Phases
  <2> QED
      BY <2>1, Zenon DEF RunStep
<1>2. /\ opened' \in SUBSET Runs
      /\ log' \in [Runs -> Seq(CheckpointRequest)]
      /\ retainedBytes' \in [Runs -> Nat]
      /\ checkpointBytes' \in Nat
      /\ UNCHANGED <<rateTokens, rateUpdated>>
  <2>1. CASE UNCHANGED stateVars
        BY <2>1, Zenon DEF IngestTypeInv, TypeOK, stateVars
  <2>2. ASSUME NEW r \in Runs, dropCheckpointStateLocked(r)
        PROVE  /\ opened' \in SUBSET Runs
               /\ log' \in [Runs -> Seq(CheckpointRequest)]
               /\ retainedBytes' \in [Runs -> Nat]
               /\ checkpointBytes' \in Nat
               /\ UNCHANGED <<rateTokens, rateUpdated>>
        BY <2>2 DEF IngestTypeInv, TypeOK, dropCheckpointStateLocked
  <2> QED
      BY <2>1, <2>2, Zenon DEF RunStep
<1> QED
    BY <1>1, <1>2, SMTT(30) DEF RunStep, IngestTypeInv, TypeOK, HandlersHoldRequests, BucketsAreCurrent, historyVars

\* So does an accepted request.
LEMMA AcceptNewType ==
    ASSUME IngestTypeInv, NEW h \in Handlers, AcceptNew(h)
    PROVE  IngestTypeInv'
<1> DEFINE q == handler[h].request
           n == Len(log[q.run]) + 1
<1>1. q \in CheckpointRequest /\ q.run \in Runs /\ q.body \in Bodies
      BY Zenon DEF AcceptNew, IngestTypeInv, HandlersHoldRequests, CheckpointRequest
<1>2. log[q.run] \in Seq(CheckpointRequest) /\ enqueued[q.run] \in Seq(CheckpointRequest) /\ n \in Nat
      BY <1>1 DEF IngestTypeInv, TypeOK
<1>3. /\ (log \in [Runs -> Seq(CheckpointRequest)])'
      /\ (enqueued \in [Runs -> Seq(CheckpointRequest)])'
  <2>1. Append(log[q.run], q) \in Seq(CheckpointRequest) /\ Append(enqueued[q.run], q) \in Seq(CheckpointRequest)
    <3> HIDE DEF q
    <3> QED
        BY <1>1, <1>2
  <2>2. /\ log' = [log EXCEPT ![q.run] = Append(log[q.run], q)]
        /\ enqueued' = [enqueued EXCEPT ![q.run] = Append(enqueued[q.run], q)]
        BY Zenon DEF AcceptNew
  <2>3. log \in [Runs -> Seq(CheckpointRequest)] /\ enqueued \in [Runs -> Seq(CheckpointRequest)]
        BY Zenon DEF IngestTypeInv, TypeOK
  <2> QED
      BY <2>1, <2>2, <2>3, ExceptType, Zenon
<1>4. retainedBytes' \in [Runs -> Nat] /\ checkpointBytes' \in Nat
  <2>1. BodySize[q.body] \in Nat
        BY <1>1, IngestAssumption, Zenon
  <2>2. retainedBytes[q.run] \in Nat /\ checkpointBytes \in Nat
        BY <1>1, Zenon DEF IngestTypeInv, TypeOK
  <2>3. retainedBytes' = [retainedBytes EXCEPT ![q.run] = retainedBytes[q.run] + BodySize[q.body]]
        BY Zenon DEF AcceptNew
  <2>4. checkpointBytes' = checkpointBytes + BodySize[q.body]
        BY Zenon DEF AcceptNew
  <2>5. retainedBytes \in [Runs -> Nat]
        BY Zenon DEF IngestTypeInv, TypeOK
  <2>6. retainedBytes[q.run] + BodySize[q.body] \in Nat /\ checkpointBytes + BodySize[q.body] \in Nat
        BY <2>1, <2>2
  <2> QED
      BY <2>3, <2>4, <2>5, <2>6, ExceptType, Zenon
<1>5. (handler \in [Handlers -> HandlerRecord] /\ HandlersHoldRequests)'
      BY <1>2, ReplyType, SMTT(15) DEF AcceptNew, Statuses
<1>6. (receipts \in SUBSET [request : CheckpointRequest, number : Nat])'
      BY <1>1, <1>2, ReceiptType, Zenon DEF AcceptNew
<1> QED
    BY <1>3, <1>4, <1>5, <1>6, Zenon DEF AcceptNew, IngestTypeInv, TypeOK, PhaseTypeOK, BucketsAreCurrent, phaseVars

\* So does a charged or refused one.
LEMMA ChargeType ==
    ASSUME IngestTypeInv, NEW h \in Handlers, authorizeAndCharge(h)
    PROVE  IngestTypeInv'
<1> DEFINE r == handler[h].request.run
<1>1. r \in Runs
      BY Zenon DEF authorizeAndCharge, IngestTypeInv, HandlersHoldRequests, CheckpointRequest
<1>2. refillCheckpointTokens(r) \in Nat
      BY <1>1, RefillType, Zenon
<1>3. rateTokens' \in [Runs -> Nat] /\ charges' \in [Runs -> Seq(Nat)]
  <2>1. charges[r] \in Seq(Nat) /\ Append(charges[r], clock) \in Seq(Nat)
        BY <1>1 DEF IngestTypeInv, TypeOK
  <2>2. PICK k \in Nat : rateTokens' = [rateTokens EXCEPT ![r] = k]
    <3>1. CASE refillCheckpointTokens(r) < 1
      <4>1. ~(refillCheckpointTokens(r) >= 1)
            BY <1>2, <3>1
      <4>2. rateTokens' = [rateTokens EXCEPT ![r] = refillCheckpointTokens(r)]
            BY <4>1, Zenon DEF authorizeAndCharge, Charge
      <4> QED
          BY <1>2, <4>2, Zenon
    <3>2. CASE refillCheckpointTokens(r) >= 1
      <4>1. refillCheckpointTokens(r) - 1 \in Nat
            BY <1>2, <3>2
      <4>2. rateTokens' = [rateTokens EXCEPT ![r] = refillCheckpointTokens(r) - 1]
        <5>1. ~(refillCheckpointTokens(r) < 1)
              BY <1>2, <3>2, SMTT(30)
        <5> QED
            BY <5>1, Zenon DEF authorizeAndCharge, Charge
      <4> QED
          BY <4>1, <4>2, Zenon
    <3> QED
        BY <1>2, <3>1, <3>2
  <2>3. charges' = charges \/ charges' = [charges EXCEPT ![r] = Append(charges[r], clock)]
        BY Zenon DEF authorizeAndCharge, Charge
  <2>4. rateTokens' \in [Runs -> Nat]
        BY <2>2, Zenon DEF IngestTypeInv, TypeOK
  <2>5. charges' \in [Runs -> Seq(Nat)]
        BY <2>1, <2>3, Zenon DEF IngestTypeInv, TypeOK
  <2> QED
      BY <2>4, <2>5, Zenon
<1>4. (handler \in [Handlers -> HandlerRecord] /\ HandlersHoldRequests)'
  <2>1. CASE Reply(h, 429, 0)
        BY <2>1, ReplyType DEF Statuses
  <2>2. CASE handler' = [handler EXCEPT ![h].pc = "body"]
        BY <2>2, Zenon DEF authorizeAndCharge, IngestTypeInv, TypeOK, HandlerRecord, HandlersHoldRequests
  <2> QED
      BY <2>1, <2>2, Zenon DEF authorizeAndCharge, Charge
<1>5. rateUpdated' \in [Runs -> Nat] /\ BucketsAreCurrent' /\ opened' \in SUBSET Runs
      BY <1>1 DEF authorizeAndCharge, IngestTypeInv, TypeOK, BucketsAreCurrent
<1> QED
    BY <1>3, <1>4, <1>5, Zenon DEF authorizeAndCharge, IngestTypeInv, TypeOK, PhaseTypeOK, phaseVars

\* Every step keeps every type.
LEMMA IngestTypeStep == IngestTypeInv /\ [Next]_ingestVars => IngestTypeInv'
<1> SUFFICES ASSUME IngestTypeInv, [Next]_ingestVars PROVE IngestTypeInv'
    BY Zenon
<1> USE DEF IngestTypeInv, TypeOK, PhaseTypeOK, HandlersHoldRequests, BucketsAreCurrent,
            phaseVars, stateVars, historyVars
<1>1. CASE Tick
      BY <1>1 DEF Tick
<1>2. CASE RunStep
      BY <1>2, RunStepType, Zenon
<1>3. ASSUME NEW h \in Handlers, NEW q \in CheckpointRequest, Receive(h, q) PROVE IngestTypeInv'
      BY <1>3, Zenon DEF Receive, Idle, HandlerRecord
<1>4. ASSUME NEW h \in Handlers, handler' = [handler EXCEPT ![h] = Idle],
             UNCHANGED <<phaseVars, stateVars, clock, enqueued, historyVars>>
      PROVE  IngestTypeInv'
      BY <1>4, Zenon DEF Idle, HandlerRecord
<1>5. ASSUME NEW h \in Handlers, HandlerStep(h) PROVE IngestTypeInv'
  <2>1. CASE authorizeAndCharge(h)
        BY <2>1, ChargeType, Zenon
  <2>2. CASE Unauthorized(h) \/ RejectBody(h) \/ AcceptConflict(h) \/ AcceptUnavailable(h)
        BY <2>2, OnlyReplyType
        DEF Unauthorized, RejectBody, AcceptConflict, AcceptUnavailable, Statuses
  <2>3. CASE Cancelled(h)
        BY <2>3, <1>4, Zenon DEF Cancelled
  <2>4. CASE AcceptReplay(h)
    <3>1. handler[h].request \in CheckpointRequest
          BY <2>4, Zenon DEF AcceptReplay
    <3>2. PICK i \in Replays(handler[h].request) :
              /\ Reply(h, 200, i)
              /\ receipts' = receipts \cup {[request |-> handler[h].request, number |-> i]}
          BY <2>4, Zenon DEF AcceptReplay
    <3>3. i \in Nat
      <4>1. log[handler[h].request.run] \in Seq(CheckpointRequest)
            BY <3>1, Zenon DEF CheckpointRequest
      <4>2. i \in DOMAIN log[handler[h].request.run]
            BY <3>2, Zenon DEF Replays, Found
      <4> QED
          BY <4>1, <4>2
    <3>4. (handler \in [Handlers -> HandlerRecord] /\ HandlersHoldRequests)'
          BY <3>2, <3>3, ReplyType DEF Statuses
    <3>5. (receipts \in SUBSET [request : CheckpointRequest, number : Nat])'
          BY <3>1, <3>2, <3>3, ReceiptType, Zenon
    <3> QED
        BY <2>4, <3>4, <3>5, Zenon DEF AcceptReplay
  <2>5. CASE AcceptNew(h)
        BY <2>5, AcceptNewType, Zenon
  <2> QED
      BY <1>5, <2>1, <2>2, <2>3, <2>4, <2>5, Zenon DEF HandlerStep
<1>6. CASE UNCHANGED ingestVars
      BY <1>6, Zenon DEF ingestVars
<1> QED
    BY <1>1, <1>2, <1>3, <1>4, <1>5, <1>6, Zenon DEF Next, Replied

\* Every reachable state is well typed.
THEOREM IngestTypeCorrect == Spec => []TypeOK
<1>1. IngestTypeInv => TypeOK
      BY Zenon DEF IngestTypeInv
<1> QED
    BY <1>1, IngestTypeInit, IngestTypeStep, PTL DEF Spec

-----------------------------------------------------------------------------
(* Records and receipts. *)

RecordInv == LogIsCurrent /\ EnqueuedIsWellFormed /\ ReceiptsAreEnqueued

\* Before any Run exists there is nothing to disagree about.
LEMMA RecordInit == IngestInit => RecordInv
BY DEF IngestInit, PhaseInit, RecordInv, LogIsCurrent, EnqueuedIsWellFormed, ReceiptsAreEnqueued

\* A step that leaves the Runs and their records alone.
LEMMA RecordQuiet ==
    ASSUME RecordInv, UNCHANGED <<phase, opened, log, enqueued, receipts>>
    PROVE  RecordInv'
BY Zenon DEF RecordInv, LogIsCurrent, EnqueuedIsWellFormed, ReceiptsAreEnqueued

\* authorizeAndCharge opens a state only for a Run that has not ended.
LEMMA RecordCharge ==
    ASSUME IngestTypeInv, RecordInv, NEW h \in Handlers, authorizeAndCharge(h)
    PROVE  RecordInv'
<1>1. LogIsCurrent'
      BY Zenon DEF RecordInv, LogIsCurrent, authorizeAndCharge, Authorized, phaseVars
<1> QED
    BY <1>1, Zenon DEF RecordInv, EnqueuedIsWellFormed, ReceiptsAreEnqueued, authorizeAndCharge

\* A Run's state goes when the Run ends, and only then.
LEMMA RecordRun == IngestTypeInv /\ RecordInv /\ RunStep => RecordInv'
<1> SUFFICES ASSUME IngestTypeInv, RecordInv, RunStep PROVE RecordInv'
    BY Zenon
<1>1. LogIsCurrent'
  <2>1. ASSUME NEW r \in Runs, Register(r) \/ BeginEnd(r) \/ AbortEnd(r), UNCHANGED stateVars, UNCHANGED enqueued
        PROVE  LogIsCurrent'
        BY <2>1, Zenon DEF RecordInv, LogIsCurrent, Register, BeginEnd, AbortEnd, Move, stateVars,
                    IngestTypeInv, TypeOK, PhaseTypeOK
  <2>2. ASSUME NEW r \in Runs, CompleteEnd(r), dropCheckpointStateLocked(r), UNCHANGED enqueued
        PROVE  LogIsCurrent'
        BY <2>2, Zenon DEF RecordInv, LogIsCurrent, CompleteEnd, Move, dropCheckpointStateLocked,
                    IngestTypeInv, TypeOK, PhaseTypeOK
  <2>3. ASSUME NEW r \in Runs, Lapse({r}), UNCHANGED stateVars, UNCHANGED enqueued
        PROVE  LogIsCurrent'
        BY <2>3, Zenon DEF RecordInv, LogIsCurrent, Lapse, stateVars
  <2> QED
      BY <2>1, <2>2, <2>3, Zenon DEF RunStep
<1> QED
    BY <1>1, Zenon DEF RunStep, RecordInv, EnqueuedIsWellFormed, ReceiptsAreEnqueued, historyVars

\* A replay answers with a record the pipeline took.
LEMMA RecordReplay ==
    ASSUME IngestTypeInv, RecordInv, NEW h \in Handlers, AcceptReplay(h)
    PROVE  RecordInv'
<1> DEFINE q == handler[h].request
<1>1. q \in CheckpointRequest /\ q.run \in Runs
      BY Zenon DEF AcceptReplay, IngestTypeInv, HandlersHoldRequests, CheckpointRequest
<1>2. PICK i \in Replays(q) : receipts' = receipts \cup {[request |-> q, number |-> i]}
      BY Zenon DEF AcceptReplay
<1>3. enqueued[q.run] = log[q.run]
      BY <1>1, Zenon DEF AcceptReplay, Authorized, RecordInv, LogIsCurrent
<1>4. i \in DOMAIN enqueued[q.run] /\ enqueued[q.run][i] = q
      BY <1>2, <1>3, Zenon DEF Replays, Found
<1>5. ReceiptsAreEnqueued'
      BY <1>2, <1>4 DEF AcceptReplay, RecordInv, ReceiptsAreEnqueued
<1> QED
    BY <1>5, Zenon DEF AcceptReplay, RecordInv, LogIsCurrent, EnqueuedIsWellFormed, phaseVars, stateVars

\* A new record extends what the pipeline took by a fresh key and the next
\* sequence.
LEMMA RecordNew ==
    ASSUME IngestTypeInv, RecordInv, NEW h \in Handlers, AcceptNew(h)
    PROVE  RecordInv'
<1> DEFINE q == handler[h].request
           r == q.run
           old == enqueued[r]
           n == Len(old) + 1
<1>1. q \in CheckpointRequest /\ r \in Runs
      BY Zenon DEF AcceptNew, IngestTypeInv, HandlersHoldRequests, CheckpointRequest
<1>2. log[r] = old /\ r \in opened /\ phase[r] = "active"
      BY <1>1, Zenon DEF AcceptNew, Authorized, Fits, RecordInv, LogIsCurrent
<1>3. old \in Seq(CheckpointRequest) /\ enqueued \in [Runs -> Seq(CheckpointRequest)]
      BY <1>1, Zenon DEF IngestTypeInv, TypeOK
<1>4. Found(q) = {} /\ q.sequence \in {0, n}
      BY <1>2, Zenon DEF AcceptNew, IsNew, Conflicts, Follows
<1>5. \A i \in DOMAIN old : q.key # NoKey => old[i].key # q.key
      BY <1>2, <1>4, Zenon DEF Found
<1>6. enqueued' = [enqueued EXCEPT ![r] = Append(old, q)]
      BY Zenon DEF AcceptNew
<1>7. /\ DOMAIN Append(old, q) = DOMAIN old \cup {n}
      /\ n \notin DOMAIN old
      /\ Append(old, q)[n] = q
      /\ \A i \in DOMAIN old : Append(old, q)[i] = old[i]
  <2> HIDE DEF old, q
  <2> QED
      BY <1>1, <1>3, AppendFacts
<1>8. enqueued'[r] = Append(old, q) /\ \A s \in Runs \ {r} : enqueued'[s] = enqueued[s]
      BY <1>1, <1>3, <1>6, Zenon
<1>9. LogIsCurrent'
  <2>1. log'[r] = Append(log[r], q) /\ \A s \in Runs \ {r} : log'[s] = log[s]
        BY <1>1, Zenon DEF AcceptNew, IngestTypeInv, TypeOK
  <2>2. UNCHANGED <<phase, opened>>
        BY Zenon DEF AcceptNew, phaseVars
  <2> HIDE DEF q
  <2> QED
      BY <1>2, <1>8, <2>1, <2>2, Zenon DEF RecordInv, LogIsCurrent
<1>10. EnqueuedIsWellFormed'
  <2> HIDE DEF q, n, old
  <2> SUFFICES ASSUME NEW s \in Runs
               PROVE  /\ \A i \in DOMAIN enqueued'[s] :
                             enqueued'[s][i].run = s /\ enqueued'[s][i].sequence \in {0, i}
                      /\ \A i, j \in DOMAIN enqueued'[s] :
                             enqueued'[s][i].key = enqueued'[s][j].key /\ enqueued'[s][i].key # NoKey => i = j
      BY Zenon DEF EnqueuedIsWellFormed
  <2>1. CASE s # r
        BY <2>1, <1>8 DEF RecordInv, EnqueuedIsWellFormed
  <2>2. CASE s = r
    <3>1. \A i \in DOMAIN old : old[i].run = r /\ old[i].sequence \in {0, i}
          BY <1>1, Zenon DEF RecordInv, EnqueuedIsWellFormed, old
    <3>2. \A i, j \in DOMAIN old : old[i].key = old[j].key /\ old[i].key # NoKey => i = j
          BY <1>1, Zenon DEF RecordInv, EnqueuedIsWellFormed, old
    <3> QED
        BY <2>2, <3>1, <3>2, <1>4, <1>5, <1>7, <1>8
  <2> QED
      BY <2>1, <2>2, Zenon
<1>11. ReceiptsAreEnqueued'
  <2>1. receipts' = receipts \cup {[request |-> q, number |-> n]}
        BY <1>2, Zenon DEF AcceptNew
  <2>2. \A a \in receipts : a.request.run \in Runs
        BY Zenon DEF IngestTypeInv, TypeOK, CheckpointRequest
  <2> HIDE DEF n
  <2>3. ASSUME NEW a \in receipts
        PROVE  /\ a.number \in DOMAIN enqueued'[a.request.run]
               /\ enqueued'[a.request.run][a.number] = a.request
    <3>1. a.number \in DOMAIN enqueued[a.request.run] /\ enqueued[a.request.run][a.number] = a.request
          BY <2>3, Zenon DEF RecordInv, ReceiptsAreEnqueued
    <3>2. CASE a.request.run = r
      <4>1. a.number \in DOMAIN old /\ old[a.number] = a.request
            BY <3>1, <3>2, Zenon
      <4>2. a.number \in DOMAIN Append(old, q) /\ Append(old, q)[a.number] = a.request
            BY <4>1, <1>7, Zenon
      <4> QED
          BY <3>2, <4>2, <1>8, Zenon
    <3>3. CASE a.request.run # r
      <4>1. enqueued'[a.request.run] = enqueued[a.request.run]
            BY <2>2, <2>3, <3>3, <1>8, Zenon
      <4> QED
          BY <3>1, <4>1, Zenon
    <3> QED
        BY <3>2, <3>3, Zenon
  <2>4. n \in DOMAIN enqueued'[r] /\ enqueued'[r][n] = q
        BY <1>7, <1>8, Zenon
  <2> QED
      BY <2>1, <2>3, <2>4 DEF ReceiptsAreEnqueued
<1> QED
    BY <1>9, <1>10, <1>11, Zenon DEF RecordInv

\* Every step keeps the records and the receipts in agreement.
LEMMA RecordStep == IngestTypeInv /\ RecordInv /\ [Next]_ingestVars => RecordInv'
<1> SUFFICES ASSUME IngestTypeInv, RecordInv, [Next]_ingestVars PROVE RecordInv'
    BY Zenon
<1> USE DEF phaseVars, stateVars, historyVars
<1>1. CASE Tick \/ UNCHANGED ingestVars
      BY <1>1, RecordQuiet, Zenon DEF Tick, ingestVars
<1>2. CASE RunStep
      BY <1>2, RecordRun, Zenon
<1>3. ASSUME NEW h \in Handlers, NEW q \in CheckpointRequest, Receive(h, q) PROVE RecordInv'
      BY <1>3, RecordQuiet, Zenon DEF Receive
<1>4. ASSUME NEW h \in Handlers, HandlerStep(h) PROVE RecordInv'
  <2>1. CASE Unauthorized(h) \/ RejectBody(h) \/ Cancelled(h) \/ AcceptConflict(h) \/ AcceptUnavailable(h)
        BY <2>1, RecordQuiet, Zenon DEF Unauthorized, RejectBody, Cancelled, AcceptConflict, AcceptUnavailable
  <2> QED
      BY <1>4, <2>1, RecordCharge, RecordReplay, RecordNew, Zenon DEF HandlerStep
<1>5. CASE UNCHANGED <<phaseVars, stateVars, clock, enqueued, historyVars>>
      BY <1>5, RecordQuiet, Zenon
<1> QED
    BY <1>1, <1>2, <1>3, <1>4, <1>5, Zenon DEF Next

\* The inductive invariant holds in every reachable state.
THEOREM IngestInvariance == Spec => []IngestInv
<1>1. IngestTypeInv /\ RecordInv => IngestInv
      BY Zenon DEF RecordInv, IngestInv
<1>2. IngestInit => IngestTypeInv /\ RecordInv
      BY IngestTypeInit, RecordInit, Zenon
<1>3. (IngestTypeInv /\ RecordInv) /\ [Next]_ingestVars => (IngestTypeInv /\ RecordInv)'
      BY IngestTypeStep, RecordStep, Zenon
<1> QED
    BY <1>1, <1>2, <1>3, PTL DEF Spec

\* The late step of a handler never brings back the state of an ended Run.
THEOREM EndedRunsHoldNothing == Spec => []EndedRunHoldsNothing
<1>1. IngestInv => EndedRunHoldsNothing
      BY Zenon DEF IngestInv, LogIsCurrent, EndedRunHoldsNothing
<1> QED
    BY <1>1, IngestInvariance, PTL

\* The pipeline has taken the retained records, once each and in order.
THEOREM HandOffIsExact == Spec => []EnqueuedIsLog
<1>1. IngestInv => EnqueuedIsLog
      BY Zenon DEF IngestInv, LogIsCurrent, EnqueuedIsLog, IngestTypeInv, TypeOK
<1> QED
    BY <1>1, IngestInvariance, PTL

\* Every receipt names a record the pipeline took (accept answers after
\* Enqueue returned).
THEOREM ReceiptsFollowTheHandOff == Spec => []ReceiptsAreEnqueued
<1>1. IngestInv => ReceiptsAreEnqueued
      BY Zenon DEF IngestInv
<1> QED
    BY <1>1, IngestInvariance, PTL

\* Replays are idempotent and records are never shared, whatever mix of
\* sequences and keys the clients send.
THEOREM IdempotentReceipts == Spec => []ReceiptsAreStable
<1>1. IngestInv => ReceiptsAreStable
  <2> SUFFICES ASSUME IngestInv, NEW a \in receipts, NEW b \in receipts, a.request.run = b.request.run
               PROVE  /\ a.request = b.request => a.number = b.number
                      /\ a.number = b.number => a.request = b.request
                      /\ a.request.key = b.request.key /\ a.request.key # NoKey => a = b
      BY Zenon DEF ReceiptsAreStable
  <2>1. /\ a \in [request : CheckpointRequest, number : Nat]
        /\ b \in [request : CheckpointRequest, number : Nat]
        BY Zenon DEF IngestInv, IngestTypeInv, TypeOK
  <2>2. PICK took : took = enqueued[a.request.run]
        BY Zenon
  <2>3. /\ a.number \in DOMAIN took /\ took[a.number] = a.request
        /\ b.number \in DOMAIN took /\ took[b.number] = b.request
        BY <2>2, Zenon DEF IngestInv, ReceiptsAreEnqueued
  <2>4. /\ a.request.sequence \in {0, a.number} /\ b.request.sequence \in {0, b.number}
        /\ a.request.key = b.request.key /\ a.request.key # NoKey => a.number = b.number
        BY <2>1, <2>2, <2>3 DEF IngestInv, EnqueuedIsWellFormed, CheckpointRequest
  <2>5. a.request.sequence # 0 \/ a.request.key # NoKey
        BY <2>1, Zenon DEF CheckpointRequest
  <2>6. a.number = b.number => a.request = b.request
        BY <2>3, Zenon
  <2>7. a.request = b.request => a.number = b.number
        BY <2>4, <2>5, Zenon
  <2>8. a.number = b.number => a = b
        BY <2>1, <2>6
  <2> QED
      BY <2>4, <2>6, <2>7, <2>8, Zenon
<1> QED
    BY <1>1, IngestInvariance, PTL

-----------------------------------------------------------------------------
(* The rate limit. *)

\* What each past charge leaves for the present: the charges from it on and the
\* tokens in the bucket are paid for by the burst and the time since.
RateInv ==
    \A r \in Runs :
        /\ r \in opened =>
               /\ rateTokens[r] <= RequestsPerSecond
               /\ \A i \in DOMAIN charges[r] :
                      (Len(charges[r]) - i) + 1 + rateTokens[r]
                          <= RequestsPerSecond + (rateUpdated[r] - charges[r][i])
        /\ r \notin opened /\ phase[r] # "ended" => charges[r] = <<>>

\* Time that passes pays for the tokens it adds.
LEMMA RefillIsPaid ==
    ASSUME NEW since \in Int, NEW before \in Nat, NEW after \in Nat, NEW limit \in Nat,
           NEW updated \in Nat, NEW at \in Nat, NEW charge \in Nat,
           since + before <= limit + (updated - charge), after <= before + (at - updated)
    PROVE  since + after <= limit + (at - charge)
OBVIOUS

\* A charge is paid for by the bucket, whatever the history.
LEMMA RateCharge ==
    ASSUME IngestInv, RateInv, RateIsBounded, NEW h \in Handlers, authorizeAndCharge(h)
    PROVE  RateInv' /\ RateIsBounded'
<1> DEFINE r == handler[h].request.run
           old == charges[r]
           tokens == refillCheckpointTokens(r)
           Limit == RequestsPerSecond
<1>1. r \in Runs /\ phase[r] = "active" /\ clock \in Nat /\ Limit \in Nat /\ Limit >= 1
      BY IngestAssumption DEF authorizeAndCharge, Authorized, IngestInv, IngestTypeInv, TypeOK,
                              HandlersHoldRequests, CheckpointRequest
<1>2. old \in Seq(Nat) /\ rateTokens[r] \in Nat /\ rateUpdated[r] \in Nat /\ rateUpdated[r] <= clock
      BY <1>1, Zenon DEF IngestInv, IngestTypeInv, TypeOK, BucketsAreCurrent
<1>3. tokens \in Nat /\ tokens <= Limit
      BY <1>1, <1>2 DEF refillCheckpointTokens, Least
<1>7. Len(old) \in Nat /\ DOMAIN old = 1..Len(old) /\ \A i \in DOMAIN old : old[i] \in Nat
  <2> HIDE DEF old
  <2> QED
      BY <1>2
<1>4. \A i \in DOMAIN old : (Len(old) - i) + 1 + tokens <= Limit + (clock - old[i])
  <2>1. CASE r \in opened
    <3>1. tokens <= rateTokens[r] + (clock - rateUpdated[r])
          BY <1>1, <1>2, <2>1 DEF refillCheckpointTokens, Least
    <3>2. \A i \in DOMAIN old : (Len(old) - i) + 1 + rateTokens[r] <= Limit + (rateUpdated[r] - old[i])
          BY <1>1, <2>1, Zenon DEF RateInv
    <3>3. \A i \in DOMAIN old : i \in Nat /\ old[i] \in Nat
          BY <1>7
    <3>4. Len(old) \in Nat
          BY <1>7, Zenon
    <3> SUFFICES ASSUME NEW i \in DOMAIN old
                 PROVE  (Len(old) - i) + 1 + tokens <= Limit + (clock - old[i])
        BY Zenon
    <3>5. /\ (Len(old) - i) + 1 + rateTokens[r] <= Limit + (rateUpdated[r] - old[i])
          /\ i \in Nat /\ old[i] \in Nat
          BY <3>2, <3>3, Zenon
    <3>6. (Len(old) - i) + 1 \in Int
          BY <3>4, <3>5
    <3> HIDE DEF old, tokens, Limit
    <3> QED
        BY <1>1, <1>2, <1>3, <3>1, <3>5, <3>6, RefillIsPaid, Zenon
  <2>2. CASE r \notin opened
        BY <1>1, <2>2 DEF RateInv
  <2> QED
      BY <2>1, <2>2, Zenon
<1>5. /\ opened' = opened \cup {r} /\ rateUpdated'[r] = clock /\ UNCHANGED phase
      /\ \A s \in Runs \ {r} : /\ charges'[s] = charges[s] /\ rateTokens'[s] = rateTokens[s]
                               /\ rateUpdated'[s] = rateUpdated[s]
      BY <1>1, Zenon DEF authorizeAndCharge, Charge, phaseVars, IngestInv, IngestTypeInv, TypeOK
<1>6. \/ /\ charges'[r] = old /\ rateTokens'[r] = tokens
      \/ /\ charges'[r] = Append(old, clock) /\ rateTokens'[r] = tokens - 1 /\ tokens >= 1
      BY <1>1, Zenon DEF authorizeAndCharge, Charge, IngestInv, IngestTypeInv, TypeOK
<1>a. /\ DOMAIN Append(old, clock) = DOMAIN old \cup {Len(old) + 1}
      /\ Append(old, clock)[Len(old) + 1] = clock
      /\ \A i \in DOMAIN old : Append(old, clock)[i] = old[i]
      /\ Len(Append(old, clock)) = Len(old) + 1
  <2> HIDE DEF old
  <2> QED
      BY <1>1, <1>2, AppendFacts
<1>8. /\ rateTokens'[r] <= Limit
      /\ \A i \in DOMAIN charges'[r] :
             (Len(charges'[r]) - i) + 1 + rateTokens'[r] <= Limit + (clock - charges'[r][i])
  <2>1. CASE charges'[r] = old /\ rateTokens'[r] = tokens
        BY <2>1, <1>3, <1>4, Zenon
  <2>2. CASE charges'[r] = Append(old, clock) /\ rateTokens'[r] = tokens - 1 /\ tokens >= 1
    <3>2. \A i \in DOMAIN old : ((Len(old) + 1) - i) + 1 + (tokens - 1) <= Limit + (clock - old[i])
      <4> HIDE DEF old, tokens, Limit
      <4> QED
          BY <1>1, <1>3, <1>4, <1>7
    <3>3. ((Len(old) + 1) - (Len(old) + 1)) + 1 + (tokens - 1) <= Limit + (clock - clock)
      <4> HIDE DEF old, tokens, Limit
      <4> QED
          BY <1>1, <1>3, <1>7
    <3>4. rateTokens'[r] <= Limit
      <4> HIDE DEF tokens, Limit
      <4> QED
          BY <2>2, <1>1, <1>3
    <3> HIDE DEF old, tokens, Limit
    <3> QED
        BY <2>2, <1>a, <3>2, <3>3, <3>4, Zenon
  <2> QED
      BY <1>6, <2>1, <2>2, Zenon
<1>9. RateInv'
  <2> SUFFICES ASSUME NEW s \in Runs
               PROVE  /\ s \in opened' =>
                             /\ rateTokens'[s] <= Limit
                             /\ \A i \in DOMAIN charges'[s] :
                                    (Len(charges'[s]) - i) + 1 + rateTokens'[s]
                                        <= Limit + (rateUpdated'[s] - charges'[s][i])
                      /\ s \notin opened' /\ phase'[s] # "ended" => charges'[s] = <<>>
      BY Zenon DEF RateInv
  <2>1. CASE s = r
        BY <2>1, <1>5, <1>8, Zenon
  <2>2. CASE s # r
        BY <2>2, <1>5, Zenon DEF RateInv
  <2> QED
      BY <2>1, <2>2, Zenon
<1>10. RateIsBounded'
  <2> SUFFICES ASSUME NEW s \in Runs, NEW i \in DOMAIN charges'[s], NEW j \in DOMAIN charges'[s], i <= j
               PROVE  (j - i) + 1 <= Limit + (charges'[s][j] - charges'[s][i])
      BY Zenon DEF RateIsBounded
  <2>1. CASE s # r \/ charges'[s] = charges[s]
        BY <2>1, <1>5, Zenon DEF RateIsBounded
  <2>2. CASE s = r /\ charges'[r] = Append(old, clock) /\ tokens >= 1
    <3>2. CASE i \in DOMAIN old /\ j \in DOMAIN old
      <4>1. (j - i) + 1 <= Limit + (charges[r][j] - charges[r][i])
            BY <1>1, <3>2, Zenon DEF RateIsBounded
      <4>2. charges'[s][j] = charges[r][j] /\ charges'[s][i] = charges[r][i]
            BY <2>2, <1>a, <3>2, Zenon
      <4> QED
          BY <4>1, <4>2, Zenon
    <3>3. CASE i \in DOMAIN old /\ j = Len(old) + 1
      <4>1. (Len(old) - i) + 1 + tokens <= Limit + (clock - old[i])
            BY <1>4, <3>3, Zenon
      <4>2. charges'[s][j] = clock /\ charges'[s][i] = old[i]
            BY <2>2, <1>a, <3>3, Zenon
      <4>3. i \in Nat /\ old[i] \in Nat
            BY <1>7, <3>3
      <4> HIDE DEF old, tokens, Limit
      <4> QED
          BY <1>1, <1>3, <1>7, <2>2, <3>3, <4>1, <4>2, <4>3
    <3>4. CASE i = Len(old) + 1
      <4>1. j = i
        <5>1. j \in DOMAIN old \cup {Len(old) + 1}
              BY <2>2, <1>a, Zenon
        <5> HIDE DEF old
        <5> QED
            BY <1>7, <3>4, <5>1
      <4>2. charges'[s][i] = clock
            BY <2>2, <1>a, <3>4, Zenon
      <4> HIDE DEF old, Limit
      <4> QED
          BY <1>1, <1>7, <3>4, <4>1, <4>2
    <3>5. i \in DOMAIN old \cup {Len(old) + 1} /\ j \in DOMAIN old \cup {Len(old) + 1}
          BY <2>2, <1>a, Zenon
    <3> QED
        BY <3>2, <3>3, <3>4, <3>5, Zenon
  <2> QED
      BY <1>6, <2>1, <2>2, Zenon
<1> QED
    BY <1>9, <1>10, Zenon

\* The life of a Run drops its bucket only when it ends.
LEMMA RateRun ==
    ASSUME IngestInv, RateInv, RunStep
    PROVE  RateInv'
<1>1. UNCHANGED <<charges, rateTokens, rateUpdated>>
      BY Zenon DEF RunStep, dropCheckpointStateLocked, stateVars, historyVars
<1>2. phase \in [Runs -> Phases]
      BY Zenon DEF IngestInv, IngestTypeInv, TypeOK, PhaseTypeOK
<1>3. ASSUME NEW r \in Runs, Register(r) \/ BeginEnd(r) \/ AbortEnd(r) \/ Lapse({r}), UNCHANGED stateVars
      PROVE  RateInv'
  <2>1. \A s \in Runs : phase'[s] # "ended" => phase[s] # "ended"
        BY <1>2, <1>3, Zenon DEF Register, BeginEnd, AbortEnd, Lapse, Move
  <2> QED
      BY <1>1, <1>3, <2>1, Zenon DEF RateInv, stateVars
<1>4. ASSUME NEW r \in Runs, CompleteEnd(r), dropCheckpointStateLocked(r)
      PROVE  RateInv'
  <2>1. /\ phase'[r] = "ended" /\ opened' = opened \ {r}
        /\ \A s \in Runs \ {r} : phase'[s] = phase[s]
        BY <1>2, <1>4, Zenon DEF CompleteEnd, Move, dropCheckpointStateLocked
  <2> QED
      BY <1>1, <2>1, Zenon DEF RateInv
<1> QED
    BY <1>3, <1>4, Zenon DEF RunStep

\* In every stretch of time a Run is charged at most a burst and the refill,
\* for every limit and every pace of requests.
THEOREM RatesAreBounded == Spec => []RateIsBounded
<1>1. IngestInit => RateInv /\ RateIsBounded
      BY DEF IngestInit, RateInv, RateIsBounded
<1>2. ASSUME IngestInv, RateInv /\ RateIsBounded, [Next]_ingestVars PROVE (RateInv /\ RateIsBounded)'
  <2>1. CASE UNCHANGED <<phase, opened, charges, rateTokens, rateUpdated>>
        BY <1>2, <2>1, Zenon DEF RateInv, RateIsBounded
  <2>2. CASE RunStep
    <3>1. RateIsBounded'
          BY <1>2, <2>2, Zenon DEF RunStep, RateIsBounded, historyVars
    <3> QED
        BY <1>2, <2>2, <3>1, RateRun, Zenon
  <2>3. ASSUME NEW h \in Handlers, authorizeAndCharge(h) PROVE (RateInv /\ RateIsBounded)'
        BY <1>2, <2>3, RateCharge, Zenon
  <2>4. ASSUME NEW h \in Handlers, HandlerStep(h) PROVE (RateInv /\ RateIsBounded)'
    <3>1. \/ authorizeAndCharge(h)
          \/ UNCHANGED <<phase, opened, charges, rateTokens, rateUpdated>>
      <4>1. CASE Unauthorized(h) \/ RejectBody(h) \/ Cancelled(h) \/ AcceptConflict(h) \/ AcceptUnavailable(h)
            BY <4>1 DEF Unauthorized, RejectBody, Cancelled, AcceptConflict, AcceptUnavailable,
                        phaseVars, stateVars, historyVars
      <4>2. CASE AcceptReplay(h)
            BY <4>2, SMTT(30) DEF AcceptReplay, phaseVars, stateVars
      <4>3. CASE AcceptNew(h)
            BY <4>3, Zenon DEF AcceptNew, phaseVars
      <4> QED
          BY <2>4, <4>1, <4>2, <4>3, Zenon DEF HandlerStep
    <3> QED
        BY <2>1, <2>3, <3>1, Zenon
  <2>5. CASE Tick \/ UNCHANGED ingestVars \/ UNCHANGED <<phaseVars, stateVars, clock, enqueued, historyVars>>
        BY <2>1, <2>5, Zenon DEF Tick, ingestVars, phaseVars, stateVars, historyVars
  <2>6. ASSUME NEW h \in Handlers, NEW q \in CheckpointRequest, Receive(h, q)
        PROVE  (RateInv /\ RateIsBounded)'
        BY <2>1, <2>6, Zenon DEF Receive, phaseVars, stateVars, historyVars
  <2> QED
      BY <1>2, <2>2, <2>4, <2>5, <2>6, Zenon DEF Next
<1> QED
    BY <1>1, <1>2, IngestInvariance, PTL DEF Spec

-----------------------------------------------------------------------------
(* Sums over sets of Runs. *)

\* Induction, stated with a set.
LEMMA SetInduction ==
    ASSUME NEW S, 0 \in S, \A k \in Nat : k \in S => k + 1 \in S
    PROVE  \A k \in Nat : k \in S
<1> DEFINE T == Nat \ S
<1> SUFFICES ASSUME T # {} PROVE FALSE
    BY Zenon
<1>1. T \subseteq Nat
      BY Zenon
<1>2. PICK m \in T : \A u \in T : ~(<<u, m>> \in OpToRel(<, Nat))
      BY <1>1, NatLessThanWellFounded, WFMin, Zenon
<1>3. \A u \in T : ~(u < m)
      BY <1>1, <1>2, Zenon DEF OpToRel
<1>4. m \in Nat /\ m \notin S /\ m # 0
      BY <1>2, Zenon
<1>5. m - 1 \in Nat /\ m - 1 < m /\ (m - 1) + 1 = m
      BY <1>4
<1>6. m - 1 \in S
      BY <1>3, <1>5, Zenon
<1> QED
    BY <1>4, <1>5, <1>6, Zenon

\* The element the fold takes first, and what is left.
Picked(s) == CHOOSE x \in s : TRUE
Rest(s) == s \ {Picked(s)}

\* One step of the fold.
FoldStep(f, w, s) == IF s = {} THEN 0 ELSE w[Picked(s)] + f[Rest(s)]

\* f is the function that MapThenSumSet chooses for the weights w.
IsFold(f, S, w) == f = [s \in SUBSET S |-> FoldStep(f, w, s)]

\* The sum of w over S.
SumOver(w, S) == MapThenSumSet(LAMBDA r : w[r], S)

\* The elements of S have weights.
Weighs(w, S) == \A x \in S : w[x] \in Nat

\* The elements of S weigh the same.
SameWeights(w, v, S) == \A x \in S : w[x] = v[x]

\* Any element of a set may be taken first.
TakesAny(f, S, w) == \A s \in SUBSET S : \A x \in s : f[s] = w[x] + f[s \ {x}]

\* The weight of x grows by n, the others stay.
Grown(w, v, S, x, n) == v[x] = w[x] + n /\ \A y \in S \ {x} : v[y] = w[y]

\* Two folds give U one sum.
AgreeOn(f, g, U) == f[U] = g[U]

\* What is left is smaller.
LEMMA RestIsSmaller ==
    ASSUME NEW s, IsFiniteSet(s), s # {}
    PROVE  /\ Picked(s) \in s /\ Rest(s) \subseteq s /\ IsFiniteSet(Rest(s))
           /\ Cardinality(s) \in Nat /\ Cardinality(Rest(s)) \in Nat
           /\ Cardinality(s) = Cardinality(Rest(s)) + 1
<1>1. Picked(s) \in s
      BY Zenon DEF Picked
<1>2. IsFiniteSet(Rest(s)) /\ Cardinality(Rest(s)) = Cardinality(s) - 1
      BY <1>1, FS_RemoveElement, Zenon DEF Rest
<1>3. Cardinality(s) \in Nat /\ Cardinality(Rest(s)) \in Nat
      BY <1>2, FS_CardinalityType, Zenon
<1>4. Cardinality(s) = Cardinality(Rest(s)) + 1
      BY <1>2, <1>3
<1> QED
    BY <1>1, <1>2, <1>3, <1>4, Zenon DEF Rest

\* The recursion of MapThenSumSet has a solution on finite sets.
LEMMA FoldExists ==
    ASSUME NEW S, IsFiniteSet(S), NEW w, Weighs(w, S)
    PROVE  \E f : f \in [SUBSET S -> Nat] /\ IsFold(f, S, w)
<1> DEFINE Upto(k) == \E f \in [SUBSET S -> Nat] :
                          \A s \in SUBSET S : Cardinality(s) <= k => f[s] = FoldStep(f, w, s)
           L == {k \in Nat : Upto(k)}
<1>1. \A s \in SUBSET S : IsFiniteSet(s) /\ Cardinality(s) \in Nat
      BY FS_Subset, FS_CardinalityType, Zenon
<1>2. ASSUME NEW f \in [SUBSET S -> Nat], NEW s \in SUBSET S
      PROVE  FoldStep(f, w, s) \in Nat
  <2>1. CASE s = {}
        BY <2>1, Zenon DEF FoldStep
  <2>2. CASE s # {}
    <3>1. Picked(s) \in S /\ Rest(s) \in SUBSET S
          BY <1>1, <2>2, RestIsSmaller, Zenon
    <3>2. w[Picked(s)] \in Nat /\ f[Rest(s)] \in Nat
          BY <3>1, Zenon DEF Weighs
    <3>3. w[Picked(s)] + f[Rest(s)] \in Nat
          BY <3>2
    <3> QED
        BY <2>2, <3>3, Zenon DEF FoldStep
  <2> QED
      BY <2>1, <2>2, Zenon
<1>3. 0 \in L
  <2> DEFINE f == [s \in SUBSET S |-> 0]
  <2>1. f \in [SUBSET S -> Nat]
        BY Zenon
  <2>2. ASSUME NEW s \in SUBSET S, Cardinality(s) <= 0 PROVE f[s] = FoldStep(f, w, s)
    <3>1. Cardinality(s) = 0
          BY <1>1, <2>2
    <3>2. s = {}
          BY <1>1, <3>1, FS_EmptySet, Zenon
    <3> QED
        BY <3>2, Zenon DEF FoldStep
  <2> HIDE DEF f
  <2>3. Upto(0) /\ 0 \in Nat
        BY <2>1, <2>2, Zenon
  <2> QED
      BY <2>3, Zenon
<1>4. ASSUME NEW k \in Nat, k \in L PROVE k + 1 \in L
  <2>1. PICK f \in [SUBSET S -> Nat] : \A s \in SUBSET S : Cardinality(s) <= k => f[s] = FoldStep(f, w, s)
        BY <1>4, Zenon
  <2> DEFINE g == [s \in SUBSET S |-> FoldStep(f, w, s)]
  <2>2. g \in [SUBSET S -> Nat]
        BY <1>2, Zenon
  <2>3. \A s \in SUBSET S : g[s] = FoldStep(f, w, s)
        BY Zenon
  <2> HIDE DEF g
  <2>4. ASSUME NEW s \in SUBSET S, Cardinality(s) <= k + 1 PROVE g[s] = FoldStep(g, w, s)
    <3>1. CASE s = {}
          BY <2>3, <3>1, Zenon DEF FoldStep
    <3>2. CASE s # {}
      <4>1. Rest(s) \in SUBSET S /\ Cardinality(s) = Cardinality(Rest(s)) + 1 /\ Cardinality(Rest(s)) \in Nat
            BY <1>1, <3>2, RestIsSmaller, Zenon
      <4>2. Cardinality(Rest(s)) <= k
            BY <2>4, <4>1
      <4>3. g[Rest(s)] = f[Rest(s)]
            BY <2>1, <2>3, <4>1, <4>2, Zenon
      <4> QED
          BY <2>3, <3>2, <4>3, Zenon DEF FoldStep
    <3> QED
        BY <3>1, <3>2, Zenon
  <2>5. Upto(k + 1) /\ k + 1 \in Nat
    <3>1. k + 1 \in Nat
          OBVIOUS
    <3> QED
        BY <2>2, <2>4, <3>1, Zenon
  <2> QED
      BY <2>5, Zenon
<1> HIDE DEF L
<1>5. \A k \in Nat : k \in L
      BY <1>3, <1>4, SetInduction, Zenon
<1>6. Cardinality(S) \in Nat /\ \A s \in SUBSET S : Cardinality(s) <= Cardinality(S)
      BY FS_CardinalityType, FS_Subset, Zenon
<1>7. PICK f \in [SUBSET S -> Nat] : \A s \in SUBSET S : Cardinality(s) <= Cardinality(S) => f[s] = FoldStep(f, w, s)
      BY <1>5, <1>6, Zenon DEF L
<1>8. f = [s \in SUBSET S |-> FoldStep(f, w, s)]
  <2>1. f = [s \in SUBSET S |-> f[s]]
        BY <1>7, Zenon
  <2>2. \A s \in SUBSET S : f[s] = FoldStep(f, w, s)
        BY <1>6, <1>7, Zenon
  <2> QED
      BY <2>1, <2>2, Zenon
<1> QED
    BY <1>8, Zenon DEF IsFold

\* SumOver is the value of such a function.
LEMMA SumIsFold ==
    ASSUME NEW S, IsFiniteSet(S), NEW w, Weighs(w, S)
    PROVE  \E f : IsFold(f, S, w) /\ SumOver(w, S) = f[S]
<1>1. PICK f : f = CHOOSE g : IsFold(g, S, w)
      BY Zenon
<1>2. IsFold(f, S, w)
      BY <1>1, FoldExists, Zenon
<1>3. SumOver(w, S) = f[S]
      BY <1>1, Zenon DEF SumOver, MapThenSumSet, MapThenFoldSet, IsFold, FoldStep, Picked, Rest
<1> QED
    BY <1>2, <1>3, Zenon

\* Two such functions agree where their weights do.
LEMMA FoldsAgree ==
    ASSUME NEW S, NEW T, NEW w, NEW v, NEW f, NEW g, IsFold(f, S, w), IsFold(g, T, v),
           NEW U, IsFiniteSet(U), U \in SUBSET S, U \in SUBSET T, SameWeights(w, v, U)
    PROVE  AgreeOn(f, g, U)
<1> DEFINE L == {k \in Nat : \A s \in SUBSET U : Cardinality(s) = k => f[s] = g[s]}
<1>1. \A s \in SUBSET U : /\ IsFiniteSet(s) /\ Cardinality(s) \in Nat
                          /\ f[s] = FoldStep(f, w, s) /\ g[s] = FoldStep(g, v, s)
      BY FS_Subset, FS_CardinalityType, Zenon DEF IsFold
<1>2. 0 \in L
  <2>1. \A s \in SUBSET U : Cardinality(s) = 0 => f[s] = g[s]
        BY <1>1, FS_EmptySet, Zenon DEF FoldStep
  <2>2. 0 \in Nat
        BY Zenon
  <2> QED
      BY <2>1, <2>2, Zenon
<1>3. ASSUME NEW k \in Nat, k \in L PROVE k + 1 \in L
  <2>1. ASSUME NEW s \in SUBSET U, Cardinality(s) = k + 1 PROVE f[s] = g[s]
    <3>1. k + 1 # 0
          OBVIOUS
    <3>2. s # {}
          BY <2>1, <3>1, FS_EmptySet, Zenon
    <3>3. /\ Picked(s) \in U /\ Rest(s) \in SUBSET U
          /\ Cardinality(s) = Cardinality(Rest(s)) + 1 /\ Cardinality(Rest(s)) \in Nat
          BY <1>1, <3>2, RestIsSmaller, Zenon
    <3>4. Cardinality(Rest(s)) = k
          BY <2>1, <3>3
    <3>5. f[Rest(s)] = g[Rest(s)] /\ w[Picked(s)] = v[Picked(s)]
          BY <1>3, <3>3, <3>4, Zenon DEF SameWeights
    <3> QED
        BY <1>1, <3>2, <3>5, Zenon DEF FoldStep
  <2>2. k + 1 \in Nat
        OBVIOUS
  <2> QED
      BY <2>1, <2>2, Zenon
<1> HIDE DEF L
<1>4. \A k \in Nat : k \in L
      BY <1>2, <1>3, SetInduction, Zenon
<1>5. Cardinality(U) \in Nat
      BY FS_CardinalityType, Zenon
<1> QED
    BY <1>4, <1>5, Zenon DEF L, AgreeOn

\* The order in which the elements are taken does not matter.
LEMMA FoldTakesAny ==
    ASSUME NEW S, IsFiniteSet(S), NEW w, Weighs(w, S), NEW f, IsFold(f, S, w), f \in [SUBSET S -> Nat]
    PROVE  TakesAny(f, S, w)
<1> DEFINE L == {k \in Nat : \A s \in SUBSET S : Cardinality(s) = k => \A x \in s : f[s] = w[x] + f[s \ {x}]}
<1>1. \A s \in SUBSET S : IsFiniteSet(s) /\ Cardinality(s) \in Nat /\ f[s] = FoldStep(f, w, s) /\ f[s] \in Nat
      BY FS_Subset, FS_CardinalityType, Zenon DEF IsFold
<1>2. 0 \in L
  <2>1. \A s \in SUBSET S : Cardinality(s) = 0 => s = {}
        BY <1>1, FS_EmptySet, Zenon
  <2>2. 0 \in Nat
        BY Zenon
  <2> QED
      BY <2>1, <2>2, Zenon
<1>3. ASSUME NEW k \in Nat, k \in L PROVE k + 1 \in L
  <2>1. ASSUME NEW s \in SUBSET S, Cardinality(s) = k + 1, NEW x \in s PROVE f[s] = w[x] + f[s \ {x}]
    <3>0. PICK c : c = Picked(s)
          BY Zenon
    <3>1. /\ c \in s /\ Rest(s) \in SUBSET S /\ Rest(s) = s \ {c}
          /\ Cardinality(s) = Cardinality(Rest(s)) + 1 /\ Cardinality(Rest(s)) \in Nat
          BY <1>1, <2>1, <3>0, RestIsSmaller, Zenon DEF Rest
    <3>2. f[s] = w[c] + f[s \ {c}]
          BY <1>1, <2>1, <3>0, <3>1, Zenon DEF FoldStep
    <3>3. CASE x = c
          BY <3>2, <3>3, Zenon
    <3>4. CASE x # c
      <4>1. Cardinality(s \ {c}) = k /\ s \ {c} \in SUBSET S /\ x \in s \ {c}
            BY <2>1, <3>1, <3>4
      <4>2. f[s \ {c}] = w[x] + f[(s \ {c}) \ {x}]
            BY <1>3, <4>1, Zenon
      <4>3. Cardinality(s \ {x}) = Cardinality(s) - 1
            BY <1>1, <2>1, FS_RemoveElement, Zenon
      <4>4. Cardinality(s \ {x}) = k
            BY <2>1, <4>3
      <4>5. s \ {x} \in SUBSET S /\ c \in s \ {x}
            BY <2>1, <3>1, <3>4, Zenon
      <4>6. f[s \ {x}] = w[c] + f[(s \ {x}) \ {c}]
            BY <1>3, <4>4, <4>5, Zenon
      <4>7. (s \ {x}) \ {c} = (s \ {c}) \ {x}
            BY Zenon
      <4>8. PICK m : m = f[(s \ {c}) \ {x}]
            BY Zenon
      <4>9. m \in Nat /\ w[c] \in Nat /\ w[x] \in Nat
        <5>1. (s \ {c}) \ {x} \in SUBSET S /\ c \in S /\ x \in S
              BY <2>1, <3>1, Zenon
        <5> QED
            BY <1>1, <4>8, <5>1, Zenon DEF Weighs
      <4>10. f[s] = w[c] + (w[x] + m) /\ f[s \ {x}] = w[c] + m
             BY <3>2, <4>2, <4>6, <4>7, <4>8, Zenon
      <4> QED
          BY <4>9, <4>10
    <3> QED
        BY <3>3, <3>4, Zenon
  <2>2. k + 1 \in Nat
        OBVIOUS
  <2> QED
      BY <2>1, <2>2, Zenon
<1> HIDE DEF L
<1>4. \A k \in Nat : k \in L
      BY <1>2, <1>3, SetInduction, Zenon
<1> QED
    BY <1>1, <1>4, Zenon DEF L, TakesAny

\* What sums do: nothing sums to zero, an element adds its weight, and a sum
\* depends on the weights of its elements only.
LEMMA SumOfNone == ASSUME NEW w PROVE SumOver(w, {}) = 0
<1>1. Weighs(w, {}) /\ IsFiniteSet({})
      BY FS_EmptySet, Zenon DEF Weighs
<1>2. PICK f : IsFold(f, {}, w) /\ SumOver(w, {}) = f[{}]
      BY <1>1, SumIsFold, Zenon
<1> QED
    BY <1>2, Zenon DEF IsFold, FoldStep

LEMMA SumOfSame ==
    ASSUME NEW S, IsFiniteSet(S), NEW w, NEW v, Weighs(w, S), SameWeights(w, v, S)
    PROVE  SumOver(w, S) = SumOver(v, S)
<1>1. Weighs(v, S)
      BY Zenon DEF Weighs, SameWeights
<1>2. PICK f : IsFold(f, S, w) /\ SumOver(w, S) = f[S]
      BY SumIsFold, Zenon
<1>3. PICK g : IsFold(g, S, v) /\ SumOver(v, S) = g[S]
      BY <1>1, SumIsFold, Zenon
<1>4. S \in SUBSET S
      BY Zenon
<1>5. AgreeOn(f, g, S)
      BY <1>2, <1>3, <1>4, FoldsAgree, Zenon
<1> QED
    BY <1>2, <1>3, <1>5, Zenon DEF AgreeOn

LEMMA SumOfMore ==
    ASSUME NEW S, IsFiniteSet(S), NEW w, Weighs(w, S), NEW x \in S
    PROVE  /\ SumOver(w, S \ {x}) \in Nat /\ IsFiniteSet(S \ {x})
           /\ SumOver(w, S) = w[x] + SumOver(w, S \ {x})
<1> DEFINE T == S \ {x}
<1>1. IsFiniteSet(T) /\ T \in SUBSET S /\ Weighs(w, T)
      BY FS_RemoveElement, Zenon DEF Weighs
<1>2. PICK f : f \in [SUBSET S -> Nat] /\ IsFold(f, S, w)
      BY FoldExists, Zenon
<1>3. f[S] = w[x] + f[T]
  <2>1. TakesAny(f, S, w)
        BY <1>2, FoldTakesAny, Zenon
  <2>2. S \in SUBSET S
        BY Zenon
  <2> QED
      BY <2>1, <2>2, Zenon DEF TakesAny
<1>4. PICK g : IsFold(g, S, w) /\ SumOver(w, S) = g[S]
      BY SumIsFold, Zenon
<1> HIDE DEF T
<1>5. PICK h : IsFold(h, T, w) /\ SumOver(w, T) = h[T]
      BY <1>1, SumIsFold, Zenon
<1>7. /\ S \in SUBSET S /\ T \in SUBSET S /\ T \in SUBSET T
      /\ SameWeights(w, w, S) /\ SameWeights(w, w, T)
      BY <1>1, Zenon DEF SameWeights
<1>6. AgreeOn(g, f, S)
      BY <1>2, <1>4, <1>7, FoldsAgree, Zenon
<1>8. AgreeOn(h, f, T)
      BY <1>1, <1>2, <1>5, <1>7, FoldsAgree, Zenon
<1>9. f[T] \in Nat
      BY <1>1, <1>2, Zenon
<1> QED
    BY <1>1, <1>3, <1>4, <1>5, <1>6, <1>8, <1>9, Zenon DEF T, AgreeOn

\* A weight of an element that grows makes the sum grow as much.
LEMMA SumGrows ==
    ASSUME NEW S, IsFiniteSet(S), NEW w, Weighs(w, S), NEW x \in S, NEW n \in Nat,
           NEW v, Grown(w, v, S, x, n)
    PROVE  SumOver(v, S) = SumOver(w, S) + n
<1> DEFINE T == S \ {x}
<1>1. SumOver(w, T) \in Nat /\ IsFiniteSet(T) /\ SumOver(w, S) = w[x] + SumOver(w, T)
      BY SumOfMore, Zenon
<1>2. w[x] \in Nat /\ w[x] + n \in Nat /\ \A y \in S : w[y] \in Nat
      BY DEF Weighs
<1>3. Weighs(v, S) /\ Weighs(w, T)
      BY <1>2, Zenon DEF Weighs, Grown
<1>4. SumOver(v, S) = v[x] + SumOver(v, T)
      BY <1>3, SumOfMore, Zenon
<1>5. SumOver(v, T) = SumOver(w, T)
  <2>1. SameWeights(w, v, T)
        BY Zenon DEF SameWeights, Grown
  <2> QED
      BY <1>1, <1>3, <2>1, SumOfSame, Zenon
<1>6. SumOver(v, S) = (w[x] + n) + SumOver(w, T)
      BY <1>4, <1>5, Zenon DEF Grown
<1> HIDE DEF T
<1> QED
    BY <1>1, <1>2, <1>6

-----------------------------------------------------------------------------
(* The byte budget. *)

\* What BytesBalance rests on: the Runs with a state are finitely many, and a
\* Run without one retains nothing.
ByteInv ==
    /\ opened \in SUBSET Runs /\ IsFiniteSet(opened)
    /\ retainedBytes \in [Runs -> Nat] /\ checkpointBytes \in Nat
    /\ \A r \in Runs \ opened : retainedBytes[r] = 0
    /\ checkpointBytes = SumOver(retainedBytes, opened)
    /\ checkpointBytes <= CapacityBytesTotal

\* A state is opened with nothing retained.
LEMMA ByteOpen ==
    ASSUME ByteInv, NEW r \in Runs, opened' = opened \cup {r}, UNCHANGED <<retainedBytes, checkpointBytes>>
    PROVE  ByteInv'
<1>1. CASE r \in opened
  <2>1. opened' = opened
        BY <1>1, Zenon
  <2> QED
      BY <2>1, Zenon DEF ByteInv
<1>2. CASE r \notin opened
  <2>0. PICK now : now = opened'
        BY Zenon
  <2>1. /\ IsFiniteSet(now) /\ now \in SUBSET Runs /\ r \in now /\ Weighs(retainedBytes, now)
        BY <1>2, <2>0, FS_AddElement, Zenon DEF ByteInv, Weighs
  <2>2. SumOver(retainedBytes, now) = retainedBytes[r] + SumOver(retainedBytes, now \ {r})
        BY <2>1, SumOfMore, Zenon
  <2>3. SumOver(retainedBytes, now) = 0 + checkpointBytes /\ checkpointBytes \in Nat
    <3>1. now \ {r} = opened /\ retainedBytes[r] = 0
          BY <1>2, <2>0, Zenon DEF ByteInv
    <3> QED
        BY <2>2, <3>1, Zenon DEF ByteInv
  <2>4. 0 + checkpointBytes = checkpointBytes
        BY <2>3
  <2> QED
      BY <2>0, <2>1, <2>3, <2>4, Zenon DEF ByteInv
<1> QED
    BY <1>1, <1>2, Zenon

\* An acceptance adds the body to its Run and to the total, which has room.
LEMMA ByteAccept ==
    ASSUME ByteInv, NEW h \in Handlers, AcceptNew(h), handler[h].request \in CheckpointRequest
    PROVE  ByteInv'
<1> DEFINE q == handler[h].request
           n == BodySize[q.body]
           old == retainedBytes
<1>1. q.run \in Runs /\ q.body \in Bodies
      BY Zenon DEF CheckpointRequest
<1>2. n \in Nat
      BY <1>1, IngestAssumption
<1>3. /\ q.run \in opened /\ checkpointBytes + n <= CapacityBytesTotal
      /\ retainedBytes' = [retainedBytes EXCEPT ![q.run] = retainedBytes[q.run] + n]
      /\ checkpointBytes' = checkpointBytes + n /\ opened' = opened
      BY Zenon DEF AcceptNew, Fits
<1> HIDE DEF q, n
<1>4. /\ opened \in SUBSET Runs /\ IsFiniteSet(opened) /\ Weighs(old, opened)
      /\ retainedBytes \in [Runs -> Nat] /\ retainedBytes[q.run] \in Nat
      BY <1>1, Zenon DEF ByteInv, Weighs
<1>5. retainedBytes' \in [Runs -> Nat]
  <2>1. retainedBytes[q.run] + n \in Nat
        BY <1>2, <1>4
  <2> QED
      BY <1>3, <1>4, <2>1, Zenon
<1>6. /\ retainedBytes'[q.run] = retainedBytes[q.run] + n
      /\ \A r \in Runs \ {q.run} : retainedBytes'[r] = retainedBytes[r]
      BY <1>1, <1>3, <1>4, Zenon
<1>7. SumOver(retainedBytes', opened) = SumOver(old, opened) + n
  <2>1. Grown(old, retainedBytes', opened, q.run, n)
        BY <1>4, <1>6, Zenon DEF Grown
  <2> QED
      BY <1>2, <1>3, <1>4, <2>1, SumGrows, Zenon
<1>8. checkpointBytes' \in Nat
      BY <1>2, <1>3 DEF ByteInv
<1> QED
    BY <1>3, <1>4, <1>5, <1>6, <1>7, <1>8, Zenon DEF ByteInv

\* The end of a Run takes what it retained off the total, which held it.
LEMMA ByteDrop ==
    ASSUME ByteInv, NEW r \in Runs, dropCheckpointStateLocked(r)
    PROVE  ByteInv'
<1> DEFINE rest == opened \ {r}
<1>1. /\ opened' = rest /\ retainedBytes' = [retainedBytes EXCEPT ![r] = 0]
      /\ checkpointBytes' = IF checkpointBytes < retainedBytes[r] THEN 0 ELSE checkpointBytes - retainedBytes[r]
      BY Zenon DEF dropCheckpointStateLocked
<1>2. /\ retainedBytes' \in [Runs -> Nat] /\ retainedBytes'[r] = 0 /\ retainedBytes[r] \in Nat
      /\ \A s \in Runs \ {r} : retainedBytes'[s] = retainedBytes[s]
  <2>1. 0 \in Nat
        BY Zenon
  <2> QED
      BY <1>1, <2>1, Zenon DEF ByteInv
<1>3. rest \in SUBSET Runs /\ IsFiniteSet(rest) /\ Weighs(retainedBytes, opened) /\ Weighs(retainedBytes, rest)
      BY FS_RemoveElement, Zenon DEF ByteInv, Weighs
<1>4. SumOver(retainedBytes, rest) \in Nat /\ checkpointBytes = retainedBytes[r] + SumOver(retainedBytes, rest)
  <2>1. CASE r \in opened
        BY <1>3, <2>1, SumOfMore, Zenon DEF ByteInv
  <2>2. CASE r \notin opened
    <3>1. rest = opened /\ retainedBytes[r] = 0
          BY <2>2, Zenon DEF ByteInv
    <3> QED
        BY <3>1 DEF ByteInv
  <2> QED
      BY <2>1, <2>2, Zenon
<1>5. SumOver(retainedBytes', rest) = SumOver(retainedBytes, rest)
  <2>1. SameWeights(retainedBytes, retainedBytes', rest)
        BY <1>2, Zenon DEF SameWeights, ByteInv
  <2> QED
      BY <1>3, <2>1, SumOfSame, Zenon
<1>6. PICK n : n = SumOver(retainedBytes, rest)
      BY Zenon
<1>7. checkpointBytes' = n /\ n \in Nat /\ n <= checkpointBytes
      BY <1>1, <1>2, <1>4, <1>6
<1>8. n <= CapacityBytesTotal
      BY <1>4, <1>6, <1>7, <1>2, IngestAssumption DEF ByteInv
<1> HIDE DEF rest
<1>9. \A s \in Runs \ rest : retainedBytes'[s] = 0
      BY <1>2, Zenon DEF ByteInv, rest
<1> QED
    BY <1>1, <1>2, <1>3, <1>5, <1>6, <1>7, <1>8, <1>9, Zenon DEF ByteInv

\* The store's byte total is the sum of what the Runs retain and within its cap,
\* for any number of Runs and however acceptances and terminations interleave.
THEOREM BytesAreBalanced == Spec => []BytesBalance
<1>1. IngestInit => ByteInv
  <2> SUFFICES ASSUME IngestInit PROVE ByteInv
      BY Zenon
  <2>1. opened = {} /\ retainedBytes = [r \in Runs |-> 0] /\ checkpointBytes = 0
        BY Zenon DEF IngestInit
  <2>2. IsFiniteSet(opened) /\ SumOver(retainedBytes, opened) = 0
        BY <2>1, FS_EmptySet, SumOfNone, Zenon
  <2>3. 0 <= CapacityBytesTotal /\ 0 \in Nat
        BY IngestAssumption
  <2> QED
      BY <2>1, <2>2, <2>3, Zenon DEF ByteInv
<1>2. ASSUME IngestInv, ByteInv, [Next]_ingestVars PROVE ByteInv'
  <2>1. ASSUME UNCHANGED stateVars PROVE ByteInv'
    <3>1. UNCHANGED <<opened, retainedBytes, checkpointBytes>>
          BY <2>1, Zenon DEF stateVars
    <3> QED
        BY <1>2, <3>1, Zenon DEF ByteInv
  <2>2. CASE RunStep
        BY <1>2, <2>1, <2>2, ByteDrop, Zenon DEF RunStep
  <2>3. ASSUME NEW h \in Handlers, HandlerStep(h) PROVE ByteInv'
    <3>1. CASE authorizeAndCharge(h)
      <4>1. handler[h].request.run \in Runs
            BY <1>2, <3>1, Zenon DEF authorizeAndCharge, IngestInv, IngestTypeInv, HandlersHoldRequests, CheckpointRequest
      <4>2. /\ opened' = opened \cup {handler[h].request.run}
            /\ UNCHANGED <<retainedBytes, checkpointBytes>>
            BY <3>1, Zenon DEF authorizeAndCharge
      <4> QED
          BY <1>2, <4>1, <4>2, ByteOpen, Zenon
    <3>2. CASE AcceptNew(h)
      <4>1. handler[h].request \in CheckpointRequest
            BY <1>2, <3>2, Zenon DEF AcceptNew, IngestInv, IngestTypeInv, HandlersHoldRequests
      <4> QED
          BY <1>2, <3>2, <4>1, ByteAccept, Zenon
    <3>3. CASE Unauthorized(h) \/ RejectBody(h) \/ Cancelled(h) \/ AcceptConflict(h) \/ AcceptUnavailable(h)
          BY <2>1, <3>3, Zenon DEF Unauthorized, RejectBody, Cancelled, AcceptConflict, AcceptUnavailable
    <3>4. CASE AcceptReplay(h)
          BY <2>1, <3>4, Zenon DEF AcceptReplay
    <3> QED
        BY <2>3, <3>1, <3>2, <3>3, <3>4, Zenon DEF HandlerStep
  <2>4. CASE Tick \/ UNCHANGED ingestVars \/ UNCHANGED <<phaseVars, stateVars, clock, enqueued, historyVars>>
        BY <2>1, <2>4, Zenon DEF Tick, ingestVars
  <2>5. ASSUME NEW h \in Handlers, NEW q \in CheckpointRequest, Receive(h, q) PROVE ByteInv'
        BY <2>1, <2>5, Zenon DEF Receive
  <2> QED
      BY <1>2, <2>2, <2>3, <2>4, <2>5, Zenon DEF Next
<1>3. ByteInv => BytesBalance
      BY Zenon DEF ByteInv, BytesBalance, SumOver
<1> QED
    BY <1>1, <1>2, <1>3, IngestInvariance, PTL DEF Spec

-----------------------------------------------------------------------------
(* The client: what it was told, and what it gave up, agree with Core. *)

ClientRecord ==
    [pc : {"idle", "send", "wait"}, call : {"checkpoint", "retry_pending"}, attempt : Nat, next : Nat \ {0},
     pending : CheckpointRequest \cup {NoRequest}, handler : Handlers \cup {NoHandler}]

DeliveryTypeInv ==
    /\ client \in [Runs -> ClientRecord]
    /\ made \in [Runs -> Nat]
    /\ acked \in [Runs -> Seq(CheckpointRequest)]
    /\ dropped \in SUBSET CheckpointRequest
    /\ \A r \in Runs : /\ client[r].pc # "idle" => client[r].pending # NoRequest
                       /\ client[r].pc = "wait" => client[r].handler \in Handlers

\* A handler that may still accept the request.
Carries(h, q) == handler[h].pc \in {"charge", "body"} /\ handler[h].request = q

\* An accepting answer has its receipt.
AnswersHaveReceipts ==
    \A h \in Handlers : handler[h].pc = "replied" /\ handler[h].status \in {200, 201} =>
        [request |-> handler[h].request, number |-> handler[h].number] \in receipts

\* Everything sent so far was built before, and a pending request was not given up.
RequestsAreOld ==
    /\ \A h \in Handlers, q \in CheckpointRequest : Carries(h, q) => q.body <= made[q.run]
    /\ \A r \in Runs : \A i \in DOMAIN enqueued[r] : enqueued[r][i].body <= made[r]
    /\ \A q \in dropped : q.body <= made[q.run]

PendingIsNext ==
    \A r \in Runs : client[r].pending # NoRequest =>
        /\ client[r].pending.run = r
        /\ client[r].pending.sequence = client[r].next
        /\ client[r].pending.body <= made[r]
        /\ client[r].pending \notin dropped

\* The acknowledged prefix of what the pipeline took.
AckedIsEnqueued ==
    \A r \in Runs :
        /\ client[r].next = Len(acked[r]) + 1
        /\ \A i \in DOMAIN acked[r] : i \in DOMAIN enqueued[r] /\ enqueued[r][i] = acked[r][i]

\* A handler that has answered the request with no receipt.
Refused(h, q) ==
    handler[h].pc = "replied" /\ handler[h].request = q /\ handler[h].status \notin {200, 201}

\* The first call for a request, while only Core has answered it.
FirstCall(r) ==
    /\ client[r].pc \in {"send", "wait"} /\ client[r].call = "checkpoint"
    /\ client[r].pending \notin relayed

\* During that call only the handler waited for can accept the request, and an
\* answer that is no receipt means that it was not.
FirstCallIsExact ==
    \A r \in Runs, q \in CheckpointRequest : FirstCall(r) /\ client[r].pending = q =>
        /\ \A h \in Handlers : Carries(h, q) => client[r].pc = "wait" /\ h = client[r].handler
        /\ Accepted(q) =>
               /\ client[r].pc = "wait"
               /\ \A h \in Handlers : /\ ~Carries(h, q)
                                      /\ h = client[r].handler => ~Refused(h, q)

\* What was given up on an answer of Core is in no handler any more.
DroppedIsGone ==
    \A q \in dropped \ relayed : ~Accepted(q) /\ \A h \in Handlers : ~Carries(h, q)

Unrelayed(r) == \A q \in relayed : q.run # r

\* The pipeline is at most the pending request ahead of the receipts taken.
OneAhead ==
    /\ \A r \in Runs : Unrelayed(r) =>
           \/ Len(enqueued[r]) = Len(acked[r])
           \/ /\ client[r].pending # NoRequest
              /\ Len(enqueued[r]) = Len(acked[r]) + 1
              /\ enqueued[r][Len(acked[r]) + 1] = client[r].pending
    /\ \A h \in Handlers, q \in CheckpointRequest : Carries(h, q) /\ Unrelayed(q.run) =>
           q = client[q.run].pending \/ q.sequence \in 1..Len(acked[q.run])

TruthInv ==
    /\ RequestsAreOld /\ PendingIsNext /\ AckedIsEnqueued
    /\ FirstCallIsExact /\ DroppedIsGone /\ OneAhead

DeliveryInv == IngestInv /\ DeliveryTypeInv /\ AnswersHaveReceipts /\ TruthInv

-----------------------------------------------------------------------------
LEMMA DeliveryTypes ==
    ASSUME IngestInv, DeliveryTypeInv
    PROVE  /\ \A r \in Runs : /\ client[r] \in ClientRecord /\ made[r] \in Nat /\ acked[r] \in Seq(CheckpointRequest)
                              /\ Len(acked[r]) \in Nat /\ DOMAIN acked[r] = 1..Len(acked[r])
                              /\ enqueued[r] \in Seq(CheckpointRequest) /\ Len(enqueued[r]) \in Nat
                              /\ DOMAIN enqueued[r] = 1..Len(enqueued[r])
           /\ \A r \in Runs : /\ client[r].next \in Nat \ {0} /\ client[r].pc \in {"idle", "send", "wait"}
                              /\ client[r].pending \in CheckpointRequest \cup {NoRequest}
                              /\ client[r].attempt \in Nat /\ client[r].call \in {"checkpoint", "retry_pending"}
                              /\ client[r].handler \in Handlers \cup {NoHandler}
           /\ \A h \in Handlers : /\ handler[h] \in HandlerRecord
                                  /\ handler[h].pc \in {"charge", "body"} => handler[h].request \in CheckpointRequest
           /\ \A q \in CheckpointRequest : q.run \in Runs /\ q.body \in Nat /\ q.sequence \in 0..MaxSequence /\ q # NoRequest
           /\ MaxSequence \in Nat
<1>1. /\ client \in [Runs -> ClientRecord] /\ made \in [Runs -> Nat] /\ acked \in [Runs -> Seq(CheckpointRequest)]
      /\ enqueued \in [Runs -> Seq(CheckpointRequest)] /\ handler \in [Handlers -> HandlerRecord]
      BY Zenon DEF DeliveryTypeInv, IngestInv, IngestTypeInv, TypeOK
<1>2. ASSUME NEW r \in Runs
      PROVE  /\ client[r] \in ClientRecord /\ made[r] \in Nat /\ acked[r] \in Seq(CheckpointRequest)
             /\ Len(acked[r]) \in Nat /\ DOMAIN acked[r] = 1..Len(acked[r])
             /\ enqueued[r] \in Seq(CheckpointRequest) /\ Len(enqueued[r]) \in Nat
             /\ DOMAIN enqueued[r] = 1..Len(enqueued[r])
  <2>1. client[r] \in ClientRecord /\ made[r] \in Nat /\ acked[r] \in Seq(CheckpointRequest)
        /\ enqueued[r] \in Seq(CheckpointRequest)
        BY <1>1, Zenon
  <2> QED
      BY <2>1
<1>3. ASSUME NEW c \in ClientRecord
      PROVE  /\ c.next \in Nat \ {0} /\ c.pc \in {"idle", "send", "wait"}
             /\ c.pending \in CheckpointRequest \cup {NoRequest}
             /\ c.attempt \in Nat /\ c.call \in {"checkpoint", "retry_pending"}
             /\ c.handler \in Handlers \cup {NoHandler}
      BY Zenon DEF ClientRecord
<1>4. \A h \in Handlers : /\ handler[h] \in HandlerRecord
                          /\ handler[h].pc \in {"charge", "body"} => handler[h].request \in CheckpointRequest
      BY <1>1, Zenon DEF IngestInv, IngestTypeInv, HandlersHoldRequests
<1>5. /\ \A q \in CheckpointRequest : q.run \in Runs /\ q.body \in Nat /\ q.sequence \in 0..MaxSequence /\ q # NoRequest
      /\ MaxSequence \in Nat
      BY IngestAssumption, DeliveryAssumption, Zenon DEF CheckpointRequest
<1> QED
    BY <1>2, <1>3, <1>4, <1>5, Zenon

LEMMA DeliveryInit == Init => DeliveryInv
<1> SUFFICES ASSUME Init PROVE DeliveryInv
    BY Zenon
<1>1. IngestInv
      BY IngestTypeInit, RecordInit, Zenon DEF Init, RecordInv, IngestInv
<1>2. DeliveryTypeInv
      BY DEF Init, DeliveryTypeInv, ClientRecord
<1>3. AnswersHaveReceipts
      BY Zenon DEF Init, IngestInit, AnswersHaveReceipts, Idle
<1>4. \A h \in Handlers : handler[h].pc = "idle"
      BY Zenon DEF Init, IngestInit, Idle
<1>5. \A r \in Runs : /\ enqueued[r] = <<>> /\ acked[r] = <<>> /\ client[r].pending = NoRequest
                      /\ client[r].pc = "idle" /\ client[r].next = 1
      BY Zenon DEF Init, IngestInit
<1>6. dropped = {}
      BY Zenon DEF Init
<1> QED
    BY <1>1, <1>2, <1>3, <1>4, <1>5, <1>6
       DEF DeliveryInv, TruthInv, RequestsAreOld, PendingIsNext, AckedIsEnqueued, FirstCallIsExact, FirstCall,
           DroppedIsGone, OneAhead, Carries

-----------------------------------------------------------------------------
(* Core's side of a step. *)

\* A pending request is one Core can receive, so every step is one of Core's.
LEMMA DeliveryIsIngest ==
    ASSUME IngestInv, DeliveryTypeInv, [DeliveryNext]_vars
    PROVE  [Next]_ingestVars
<1>1. CASE UNCHANGED vars
      BY <1>1, Zenon DEF vars
<1>2. CASE CoreStep
      BY <1>2, Zenon DEF CoreStep, Next
<1>3. ASSUME NEW r \in Runs, checkpoint(r) \/ retry_pending(r) \/ ConnectionLost(r) \/ RelayUnavailable(r)
      PROVE  UNCHANGED ingestVars
      BY <1>3, Zenon DEF checkpoint, retry_pending, ConnectionLost, RelayUnavailable
<1>4. ASSUME NEW r \in Runs, SendReaches(r) PROVE Next
  <2>1. client[r].pc = "send" /\ client[r].pending \in CheckpointRequest
        BY <1>4, DeliveryTypes, Zenon DEF SendReaches, DeliveryTypeInv
  <2> QED
      BY <1>4, <2>1, Zenon DEF SendReaches, Next
<1>5. ASSUME NEW r \in Runs, Answer(r) PROVE [Next]_ingestVars
  <2>1. client[r].handler \in Handlers \cup {NoHandler}
        BY DeliveryTypes, Zenon
  <2>2. CASE client[r].handler \in Handlers
        BY <1>5, <2>2, Zenon DEF Answer, serverVars, Next
  <2>3. CASE client[r].handler = NoHandler
    <3>1. handler' = [handler EXCEPT ![NoHandler] = Idle] /\ DOMAIN handler = Handlers
          BY <1>5, <2>3, Zenon DEF Answer, Replied, IngestInv, IngestTypeInv, TypeOK
    <3>2. handler' = handler
          BY <3>1, DeliveryAssumption, Zenon DEF IngestInv, IngestTypeInv, TypeOK
    <3> QED
        BY <1>5, <3>2, Zenon DEF Answer, serverVars, ingestVars
  <2> QED
      BY <2>1, <2>2, <2>3, Zenon
<1>6. ASSUME NEW h \in Handlers, Unread(h) PROVE Next
      BY <1>6, Zenon DEF Unread, serverVars, Next
<1> QED
    BY <1>1, <1>2, <1>3, <1>4, <1>5, <1>6, Zenon DEF DeliveryNext, ClientStep

\* The handlers after a step of Core's own: as they were, free, or further on
\* with the same request.
HandlerMoves(h) ==
    \/ handler'[h] = handler[h]
    \/ handler'[h].pc = "idle"
    \/ /\ handler[h].pc \in {"charge", "body"} /\ handler'[h].pc \in {"charge", "body", "replied"}
       /\ handler'[h].request = handler[h].request

LEMMA ReplyMoves ==
    ASSUME IngestInv, NEW h \in Handlers, NEW status, NEW number, Reply(h, status, number),
           handler[h].pc \in {"charge", "body"}
    PROVE  /\ \A g \in Handlers : HandlerMoves(g)
           /\ handler'[h].pc = "replied" /\ handler'[h].status = status /\ handler'[h].number = number
           /\ handler'[h].request = handler[h].request
           /\ \A g \in Handlers \ {h} : handler'[g] = handler[g]
<1>1. handler \in [Handlers -> HandlerRecord] /\ handler[h] \in HandlerRecord
      BY Zenon DEF IngestInv, IngestTypeInv, TypeOK
<1>2. /\ handler'[h] = [handler[h] EXCEPT !.pc = "replied", !.status = status, !.number = number]
      /\ \A g \in Handlers \ {h} : handler'[g] = handler[g]
      BY <1>1, Zenon DEF Reply
<1>3. /\ handler'[h].pc = "replied" /\ handler'[h].status = status /\ handler'[h].number = number
      /\ handler'[h].request = handler[h].request
      BY <1>1, <1>2, Zenon DEF HandlerRecord
<1> QED
    BY <1>2, <1>3, Zenon DEF HandlerMoves

LEMMA CoreMoves ==
    ASSUME IngestInv, CoreStep
    PROVE  /\ UNCHANGED clientVars
           /\ \A h \in Handlers : HandlerMoves(h)
           /\ UNCHANGED enqueued \/ \E h \in Handlers : AcceptNew(h)
           /\ AnswersHaveReceipts => AnswersHaveReceipts'
<1>0. UNCHANGED clientVars /\ handler \in [Handlers -> HandlerRecord]
      BY Zenon DEF CoreStep, IngestInv, IngestTypeInv, TypeOK
<1>1. CASE Tick \/ RunStep
  <2>1. UNCHANGED <<handler, enqueued, receipts>>
        BY <1>1, Zenon DEF Tick, RunStep, historyVars
  <2> QED
      BY <1>0, <2>1, Zenon DEF HandlerMoves, AnswersHaveReceipts
<1>2. ASSUME NEW h \in Handlers, NEW status \in {400, 401, 409, 429, 503}, Reply(h, status, 0),
             handler[h].pc \in {"charge", "body"}, UNCHANGED <<enqueued, receipts>>
      PROVE  /\ \A g \in Handlers : HandlerMoves(g)
             /\ AnswersHaveReceipts => AnswersHaveReceipts'
  <2>1. /\ \A g \in Handlers : HandlerMoves(g)
        /\ handler'[h].status = status /\ \A g \in Handlers \ {h} : handler'[g] = handler[g]
        BY <1>2, ReplyMoves
  <2>2. status \notin {200, 201}
        BY <1>2
  <2> QED
      BY <1>2, <2>1, <2>2 DEF AnswersHaveReceipts
<1>3. ASSUME NEW h \in Handlers, authorizeAndCharge(h)
      PROVE  /\ \A g \in Handlers : HandlerMoves(g)
             /\ AnswersHaveReceipts => AnswersHaveReceipts'
  <2>1. handler[h].pc = "charge" /\ UNCHANGED <<enqueued, receipts>>
        BY <1>3, Zenon DEF authorizeAndCharge
  <2>2. CASE Reply(h, 429, 0)
        BY <1>2, <2>1, <2>2
  <2>3. CASE handler' = [handler EXCEPT ![h].pc = "body"]
    <3>1. /\ handler'[h].pc = "body" /\ handler'[h].request = handler[h].request
          /\ \A g \in Handlers \ {h} : handler'[g] = handler[g]
          BY <1>0, <2>3, Zenon DEF HandlerRecord
    <3> QED
        BY <2>1, <3>1 DEF HandlerMoves, AnswersHaveReceipts
  <2> QED
      BY <1>3, <2>2, <2>3, Zenon DEF authorizeAndCharge, Charge
<1>4. ASSUME NEW h \in Handlers, Cancelled(h)
      PROVE  /\ \A g \in Handlers : HandlerMoves(g)
             /\ AnswersHaveReceipts => AnswersHaveReceipts'
  <2>1. /\ handler'[h].pc = "idle" /\ \A g \in Handlers \ {h} : handler'[g] = handler[g]
        /\ UNCHANGED receipts
        BY <1>0, <1>4, Zenon DEF Cancelled, Idle, historyVars
  <2> QED
      BY <2>1 DEF HandlerMoves, AnswersHaveReceipts
<1>5. ASSUME NEW h \in Handlers, NEW status \in {200, 201}, NEW n, Reply(h, status, n), handler[h].pc = "body",
             receipts' = receipts \cup {[request |-> handler[h].request, number |-> n]}
      PROVE  /\ \A g \in Handlers : HandlerMoves(g)
             /\ AnswersHaveReceipts => AnswersHaveReceipts'
  <2>1. /\ \A g \in Handlers : HandlerMoves(g)
        /\ handler'[h].number = n /\ handler'[h].request = handler[h].request
        /\ \A g \in Handlers \ {h} : handler'[g] = handler[g]
        BY <1>5, ReplyMoves
  <2> QED
      BY <1>5, <2>1 DEF AnswersHaveReceipts
<1>6. ASSUME NEW h \in Handlers, HandlerStep(h)
      PROVE  /\ \A g \in Handlers : HandlerMoves(g)
             /\ UNCHANGED enqueued \/ AcceptNew(h)
             /\ AnswersHaveReceipts => AnswersHaveReceipts'
  <2>1. CASE Unauthorized(h) \/ RejectBody(h) \/ AcceptConflict(h) \/ AcceptUnavailable(h)
    <3>1. Reply(h, 400, 0) \/ Reply(h, 401, 0) \/ Reply(h, 409, 0) \/ Reply(h, 503, 0)
          BY <2>1, Zenon DEF Unauthorized, RejectBody, AcceptConflict, AcceptUnavailable
    <3>2. handler[h].pc \in {"charge", "body"} /\ UNCHANGED <<enqueued, receipts>>
          BY <2>1, Zenon DEF Unauthorized, RejectBody, AcceptConflict, AcceptUnavailable, historyVars
    <3> QED
        BY <1>2, <3>1, <3>2
  <2>2. CASE AcceptReplay(h)
    <3>1. PICK i \in Replays(handler[h].request) :
              /\ Reply(h, 200, i)
              /\ receipts' = receipts \cup {[request |-> handler[h].request, number |-> i]}
          BY <2>2, Zenon DEF AcceptReplay
    <3>2. handler[h].pc = "body" /\ UNCHANGED enqueued
          BY <2>2, Zenon DEF AcceptReplay
    <3> QED
        BY <1>5, <3>1, <3>2, Zenon
  <2>3. CASE AcceptNew(h)
        BY <1>5, <2>3, Zenon DEF AcceptNew
  <2>4. CASE authorizeAndCharge(h)
        BY <1>3, <2>4, Zenon DEF authorizeAndCharge
  <2>5. CASE Cancelled(h)
        BY <1>4, <2>5, Zenon DEF Cancelled
  <2> QED
      BY <1>6, <2>1, <2>2, <2>3, <2>4, <2>5, Zenon DEF HandlerStep
<1> QED
    BY <1>0, <1>1, <1>6, Zenon DEF CoreStep, Tick, RunStep

\* A handler that answers is free for another request.
LEMMA ReleaseMoves ==
    ASSUME IngestInv, NEW h \in Handlers \cup {NoHandler}, Replied(h)
    PROVE  /\ \A g \in Handlers : handler'[g] = handler[g] \/ handler'[g].pc = "idle"
           /\ AnswersHaveReceipts /\ UNCHANGED receipts => AnswersHaveReceipts'
<1>1. /\ handler \in [Handlers -> HandlerRecord] /\ handler' = [handler EXCEPT ![h] = Idle]
      BY Zenon DEF Replied, IngestInv, IngestTypeInv, TypeOK
<1>2. \A g \in Handlers : handler'[g] = handler[g] \/ handler'[g] = Idle
      BY <1>1, Zenon
<1> QED
    BY <1>2 DEF Idle, AnswersHaveReceipts

\* An accepted record follows the ones before it and has not been taken yet.
LEMMA NewRecord ==
    ASSUME DeliveryInv, NEW h \in Handlers, AcceptNew(h)
    PROVE  \E q \in CheckpointRequest :
               /\ Carries(h, q) /\ q.run \in Runs
               /\ handler'[h].pc = "replied" /\ handler'[h].status = 201
               /\ enqueued'[q.run] = Append(enqueued[q.run], q)
               /\ \A s \in Runs \ {q.run} : enqueued'[s] = enqueued[s]
               /\ q.sequence \in {0, Len(enqueued[q.run]) + 1}
<1>1. PICK q : q = handler[h].request
      BY Zenon
<1>2. /\ handler[h].pc = "body" /\ Authorized(q.run) /\ IsNew(q) /\ Reply(h, 201, Len(log[q.run]) + 1)
      /\ enqueued' = [enqueued EXCEPT ![q.run] = Append(@, q)]
      BY <1>1, Zenon DEF AcceptNew
<1>3. q \in CheckpointRequest /\ q.run \in Runs
      BY <1>1, <1>2, DeliveryTypes, Zenon DEF DeliveryInv
<1>4. enqueued \in [Runs -> Seq(CheckpointRequest)]
      BY Zenon DEF DeliveryInv, IngestInv, IngestTypeInv, TypeOK
<1>5. enqueued'[q.run] = Append(enqueued[q.run], q) /\ \A s \in Runs \ {q.run} : enqueued'[s] = enqueued[s]
      BY <1>2, <1>3, <1>4, Zenon
<1>6. log[q.run] = enqueued[q.run]
      BY <1>2, <1>3, Zenon DEF Authorized, DeliveryInv, IngestInv, LogIsCurrent
<1>7. Follows(q)
      BY <1>2, Zenon DEF IsNew, Conflicts
<1>8. q.sequence \in {0, Len(enqueued[q.run]) + 1}
      BY <1>6, <1>7, Zenon DEF Follows
<1>9. handler'[h].pc = "replied" /\ handler'[h].status = 201
      BY <1>2, ReplyMoves DEF DeliveryInv
<1> QED
    BY <1>1, <1>2, <1>3, <1>5, <1>8, <1>9, Zenon DEF Carries

\* The pipeline keeps what it took, and takes what a handler carried.
LEMMA CoreGrows ==
    ASSUME DeliveryInv, CoreStep
    PROVE  \A r \in Runs :
               /\ \A i \in DOMAIN enqueued[r] : i \in DOMAIN enqueued'[r] /\ enqueued'[r][i] = enqueued[r][i]
               /\ \A i \in DOMAIN enqueued'[r] :
                      \/ i \in DOMAIN enqueued[r] /\ enqueued'[r][i] = enqueued[r][i]
                      \/ \E h \in Handlers : /\ Carries(h, enqueued'[r][i]) /\ enqueued'[r][i].run = r
                                             /\ handler'[h].pc = "replied" /\ handler'[h].status = 201
<1>1. CASE UNCHANGED enqueued
      BY <1>1, Zenon
<1>2. ASSUME NEW h \in Handlers, AcceptNew(h), NEW s \in Runs
      PROVE  /\ \A i \in DOMAIN enqueued[s] : i \in DOMAIN enqueued'[s] /\ enqueued'[s][i] = enqueued[s][i]
             /\ \A i \in DOMAIN enqueued'[s] :
                    \/ i \in DOMAIN enqueued[s] /\ enqueued'[s][i] = enqueued[s][i]
                    \/ \E g \in Handlers : /\ Carries(g, enqueued'[s][i]) /\ enqueued'[s][i].run = s
                                           /\ handler'[g].pc = "replied" /\ handler'[g].status = 201
  <2>1. PICK q \in CheckpointRequest :
            /\ Carries(h, q) /\ q.run \in Runs
            /\ handler'[h].pc = "replied" /\ handler'[h].status = 201
            /\ enqueued'[q.run] = Append(enqueued[q.run], q)
            /\ \A u \in Runs \ {q.run} : enqueued'[u] = enqueued[u]
        BY <1>2, NewRecord
  <2>2. CASE s # q.run
        BY <2>1, <2>2
  <2>3. CASE s = q.run
    <3>1. enqueued[s] \in Seq(CheckpointRequest)
          BY DeliveryTypes, Zenon DEF DeliveryInv
    <3>2. /\ DOMAIN enqueued'[s] = DOMAIN enqueued[s] \cup {Len(enqueued[s]) + 1}
          /\ enqueued'[s][Len(enqueued[s]) + 1] = q
          /\ \A i \in DOMAIN enqueued[s] : enqueued'[s][i] = enqueued[s][i]
          BY <2>1, <2>3, <3>1, AppendFacts
    <3>3. \A i \in DOMAIN enqueued'[s] : i \in DOMAIN enqueued[s] \/ enqueued'[s][i] = q
          BY <3>2, Zenon
    <3> QED
        BY <2>1, <2>3, <3>2, <3>3, Zenon
  <2> QED
      BY <2>2, <2>3, Zenon
<1> QED
    BY <1>1, <1>2, CoreMoves, Zenon DEF DeliveryInv

LEMMA CoreTruth ==
    ASSUME DeliveryInv, CoreStep
    PROVE  TruthInv'
<1>0. UNCHANGED <<client, made, acked, dropped, relayed>> /\ \A h \in Handlers : HandlerMoves(h)
      BY CoreMoves, Zenon DEF DeliveryInv, clientVars
<1>1. \A h \in Handlers : handler'[h].pc \in {"charge", "body"} =>
          handler[h].pc \in {"charge", "body"} /\ handler'[h].request = handler[h].request
      BY <1>0, Zenon DEF HandlerMoves
<1>2. \A q : \A h \in Handlers : Carries(h, q)' => Carries(h, q)
      BY <1>1, Zenon DEF Carries
<1>3. ASSUME NEW q \in CheckpointRequest, Accepted(q)'
      PROVE  \/ Accepted(q)
             \/ \E h \in Handlers : Carries(h, q) /\ handler'[h].pc = "replied" /\ handler'[h].status = 201
  <2>1. PICK i \in DOMAIN enqueued'[q.run] : enqueued'[q.run][i] = q
        BY <1>3, Zenon DEF Accepted
  <2>2. q.run \in Runs
        BY DeliveryTypes, Zenon DEF DeliveryInv
  <2> QED
      BY <2>1, <2>2, CoreGrows DEF Accepted
<1>4. RequestsAreOld'
  <2>1. RequestsAreOld
        BY Zenon DEF DeliveryInv, TruthInv
  <2>2. \A h \in Handlers, q \in CheckpointRequest : Carries(h, q)' => q.body <= made'[q.run]
        BY <1>0, <1>2, <2>1, Zenon DEF RequestsAreOld
  <2>3. ASSUME NEW r \in Runs, NEW i \in DOMAIN enqueued'[r] PROVE enqueued'[r][i].body <= made'[r]
    <3>1. CASE i \in DOMAIN enqueued[r] /\ enqueued'[r][i] = enqueued[r][i]
          BY <1>0, <2>1, <3>1, Zenon DEF RequestsAreOld
    <3>2. ASSUME NEW h \in Handlers, NEW q, q = enqueued'[r][i], Carries(h, q), q.run = r
          PROVE  enqueued'[r][i].body <= made'[r]
      <4>1. q \in CheckpointRequest
            BY <3>2, DeliveryTypes, Zenon DEF Carries, DeliveryInv
      <4> QED
          BY <1>0, <2>1, <3>2, <4>1, Zenon DEF RequestsAreOld
    <3> QED
        BY <3>1, <3>2, CoreGrows
  <2>4. \A q \in dropped' : q.body <= made'[q.run]
        BY <1>0, <2>1, Zenon DEF RequestsAreOld
  <2> QED
      BY <2>2, <2>3, <2>4, Zenon DEF RequestsAreOld
<1>5. PendingIsNext'
      BY <1>0, Zenon DEF DeliveryInv, TruthInv, PendingIsNext
<1>6. AckedIsEnqueued'
  <2>1. AckedIsEnqueued
        BY Zenon DEF DeliveryInv, TruthInv
  <2> QED
      BY <1>0, <2>1, CoreGrows DEF AckedIsEnqueued
<1>7. FirstCallIsExact'
  <2> SUFFICES ASSUME NEW r \in Runs, NEW q \in CheckpointRequest, FirstCall(r), client[r].pending = q
               PROVE  /\ \A h \in Handlers : Carries(h, q)' => client[r].pc = "wait" /\ h = client[r].handler
                      /\ Accepted(q)' =>
                             /\ client[r].pc = "wait"
                             /\ \A h \in Handlers : /\ ~Carries(h, q)'
                                                    /\ h = client[r].handler => ~Refused(h, q)'
      BY <1>0, Zenon DEF FirstCallIsExact, FirstCall
  <2>1. /\ \A h \in Handlers : Carries(h, q) => client[r].pc = "wait" /\ h = client[r].handler
        /\ Accepted(q) =>
               /\ client[r].pc = "wait"
               /\ \A h \in Handlers : /\ ~Carries(h, q)
                                      /\ h = client[r].handler => ~Refused(h, q)
        BY Zenon DEF DeliveryInv, TruthInv, FirstCallIsExact
  <2>2. CASE Accepted(q)' /\ ~Accepted(q)
    <3>1. PICK g \in Handlers : Carries(g, q) /\ handler'[g].pc = "replied" /\ handler'[g].status = 201
          BY <1>3, <2>2, ZenonT(30)
    <3>2. g = client[r].handler /\ client[r].pc = "wait" /\ ~Carries(g, q)' /\ ~Refused(g, q)'
          BY <2>1, <3>1, Zenon DEF Carries, Refused
    <3> QED
        BY <1>2, <2>1, <3>2, Zenon
  <2>3. CASE Accepted(q)
    <3>1. \A h \in Handlers : ~Carries(h, q) /\ Refused(h, q)' => Refused(h, q)
          BY <1>0 DEF HandlerMoves, Carries, Refused
    <3> QED
        BY <1>2, <2>1, <2>3, <3>1, Zenon
  <2>4. CASE ~Accepted(q)'
        BY <1>2, <2>1, <2>4, Zenon
  <2> QED
      BY <2>2, <2>3, <2>4, Zenon
<1>8. DroppedIsGone'
  <2> SUFFICES ASSUME NEW q \in dropped \ relayed PROVE ~Accepted(q)' /\ \A h \in Handlers : ~Carries(h, q)'
      BY <1>0, Zenon DEF DroppedIsGone
  <2>1. q \in CheckpointRequest /\ ~Accepted(q) /\ \A h \in Handlers : ~Carries(h, q)
        BY Zenon DEF DeliveryInv, DeliveryTypeInv, TruthInv, DroppedIsGone
  <2> QED
      BY <1>2, <1>3, <2>1, Zenon
<1>9. OneAhead'
  <2>0. OneAhead /\ \A r : Unrelayed(r)' <=> Unrelayed(r)
        BY <1>0, Zenon DEF DeliveryInv, TruthInv, Unrelayed
  <2>1. ASSUME NEW h \in Handlers, NEW q \in CheckpointRequest, Carries(h, q)', Unrelayed(q.run)'
        PROVE  q = client'[q.run].pending \/ q.sequence \in 1..Len(acked'[q.run])
        BY <1>0, <1>2, <2>0, <2>1, Zenon DEF OneAhead
  <2>2. CASE UNCHANGED enqueued
        BY <1>0, <2>0, <2>1, <2>2, Zenon DEF OneAhead
  <2>3. ASSUME NEW h \in Handlers, AcceptNew(h) PROVE OneAhead'
    <3>1. PICK q \in CheckpointRequest :
              /\ Carries(h, q) /\ q.run \in Runs
              /\ enqueued'[q.run] = Append(enqueued[q.run], q)
              /\ \A s \in Runs \ {q.run} : enqueued'[s] = enqueued[s]
              /\ q.sequence \in {0, Len(enqueued[q.run]) + 1}
          BY <2>3, NewRecord, Zenon
    <3>2. PICK r \in Runs : r = q.run
          BY <3>1, Zenon
    <3>3. ASSUME Unrelayed(r)
          PROVE  /\ client[r].pending # NoRequest /\ Len(enqueued'[r]) = Len(acked[r]) + 1
                 /\ enqueued'[r][Len(acked[r]) + 1] = client[r].pending
      <4>1. q = client[r].pending \/ q.sequence \in 1..Len(acked[r])
            BY <2>0, <3>1, <3>2, <3>3, Zenon DEF OneAhead
      <4>2. /\ Len(enqueued[r]) \in Nat /\ Len(acked[r]) \in Nat /\ q.sequence \in Nat
            /\ enqueued[r] \in Seq(CheckpointRequest) /\ q # NoRequest
            BY DeliveryTypes DEF DeliveryInv
      <4>3. Len(enqueued[r]) = Len(acked[r]) \/ Len(enqueued[r]) = Len(acked[r]) + 1
            BY <2>0, <3>3, Zenon DEF OneAhead
      <4>4. q.sequence = 0 \/ q.sequence = Len(enqueued[r]) + 1
            BY <3>1, <3>2, Zenon
      <4>5. q.sequence \notin 1..Len(acked[r])
            BY <4>2, <4>3, <4>4
      <4>6. q = client[r].pending
            BY <4>1, <4>5, Zenon
      <4>7. q.sequence = Len(acked[r]) + 1
            BY <4>2, <4>6, Zenon DEF DeliveryInv, TruthInv, PendingIsNext, AckedIsEnqueued
      <4>8. Len(enqueued[r]) = Len(acked[r])
            BY <4>2, <4>4, <4>7
      <4>9. enqueued'[r] = Append(enqueued[r], q)
            BY <3>1, <3>2, Zenon
      <4>10. Len(enqueued'[r]) = Len(enqueued[r]) + 1 /\ enqueued'[r][Len(enqueued[r]) + 1] = q
            BY <4>2, <4>9, AppendFacts
      <4> QED
          BY <4>2, <4>6, <4>8, <4>10, Zenon
    <3>4. ASSUME NEW s \in Runs, Unrelayed(s)
          PROVE  \/ Len(enqueued'[s]) = Len(acked[s])
                 \/ /\ client[s].pending # NoRequest
                    /\ Len(enqueued'[s]) = Len(acked[s]) + 1
                    /\ enqueued'[s][Len(acked[s]) + 1] = client[s].pending
      <4>1. CASE s = r
            BY <3>3, <3>4, <4>1, Zenon
      <4>2. CASE s # r
        <5>1. enqueued'[s] = enqueued[s]
              BY <3>1, <3>2, <4>2, Zenon
        <5> QED
            BY <2>0, <3>4, <5>1, Zenon DEF OneAhead
      <4> QED
          BY <4>1, <4>2, Zenon
    <3> QED
        BY <1>0, <2>0, <2>1, <3>4, Zenon DEF OneAhead
  <2> QED
      BY <2>2, <2>3, CoreMoves, Zenon DEF DeliveryInv
<1> QED
    BY <1>4, <1>5, <1>6, <1>7, <1>8, <1>9, Zenon DEF TruthInv

-----------------------------------------------------------------------------
(* The clients' side of a step. *)

\* No handler took on a request, and the pipeline nothing.
HandlersRest == UNCHANGED enqueued /\ \A h \in Handlers : handler'[h] = handler[h] \/ handler'[h].pc = "idle"

LEMMA RestFacts ==
    ASSUME HandlersRest
    PROVE  /\ \A q : \A h \in Handlers : Carries(h, q)' => Carries(h, q)
           /\ \A q : \A h \in Handlers : Refused(h, q)' => Refused(h, q)
           /\ \A q : Accepted(q)' <=> Accepted(q)
BY Zenon DEF HandlersRest, Carries, Refused, Accepted

\* Nothing that concerns the clients moved.
LEMMA RestTruth ==
    ASSUME TruthInv, HandlersRest, UNCHANGED <<client, made, acked, dropped, relayed>>
    PROVE  TruthInv'
<1>1. UNCHANGED enqueued /\ \A r : (Unrelayed(r)' <=> Unrelayed(r)) /\ (FirstCall(r)' <=> FirstCall(r))
      BY Zenon DEF HandlersRest, Unrelayed, FirstCall
<1>2. RequestsAreOld' /\ PendingIsNext' /\ AckedIsEnqueued' /\ DroppedIsGone'
      BY <1>1, RestFacts, Zenon DEF TruthInv, RequestsAreOld, PendingIsNext, AckedIsEnqueued, DroppedIsGone
<1>3. FirstCallIsExact'
      BY <1>1, RestFacts, Zenon DEF TruthInv, FirstCallIsExact
<1>4. OneAhead'
      BY <1>1, RestFacts, Zenon DEF TruthInv, OneAhead
<1> QED
    BY <1>2, <1>3, <1>4, Zenon DEF TruthInv

\* Core cannot have accepted the request, and will not.
Impossible(q) == ~Accepted(q) /\ \A h \in Handlers : ~Carries(h, q)

\* One client moves on with, or away from, its pending request p.
LEMMA OneClient ==
    ASSUME DeliveryInv, HandlersRest, UNCHANGED made, relayed \subseteq relayed',
           NEW r \in Runs, NEW p \in CheckpointRequest, client[r].pending = p,
           \A s \in Runs \ {r} : client'[s] = client[s] /\ acked'[s] = acked[s],
           client'[r].pending # NoRequest =>
               client'[r].pending = p /\ client'[r].next = client[r].next /\ UNCHANGED dropped,
           client'[r].next = Len(acked'[r]) + 1,
           \A i \in DOMAIN acked'[r] : i \in DOMAIN enqueued[r] /\ enqueued[r][i] = acked'[r][i],
           FirstCall(r)' => Impossible(p)',
           dropped' = dropped \/ (dropped' = dropped \cup {p} /\ (p \in relayed' \/ Impossible(p)')),
           Unrelayed(r)' =>
               /\ \/ Len(enqueued[r]) = Len(acked'[r])
                  \/ /\ client'[r].pending # NoRequest
                     /\ Len(enqueued[r]) = Len(acked'[r]) + 1
                     /\ enqueued[r][Len(acked'[r]) + 1] = p
               /\ \A h \in Handlers, q \in CheckpointRequest : Carries(h, q)' /\ q.run = r =>
                      q = client'[r].pending \/ q.sequence \in 1..Len(acked'[r])
    PROVE  TruthInv'
<1>0. TruthInv /\ UNCHANGED enqueued
      BY Zenon DEF DeliveryInv, HandlersRest
<1>1. p.run = r /\ p.sequence = client[r].next /\ p.body <= made[r] /\ p \notin dropped
      BY <1>0, DeliveryTypes, Zenon DEF TruthInv, PendingIsNext, DeliveryInv
<1>2. RequestsAreOld'
  <2>1. \A q \in dropped' : q.body <= made'[q.run]
        BY <1>0, <1>1, SMTT(15) DEF TruthInv, RequestsAreOld
  <2>2. \A h \in Handlers, q \in CheckpointRequest : Carries(h, q)' => q.body <= made'[q.run]
        BY <1>0, RestFacts, Zenon DEF TruthInv, RequestsAreOld
  <2> QED
      BY <1>0, <2>1, <2>2, Zenon DEF TruthInv, RequestsAreOld
<1>3. PendingIsNext'
  <2> SUFFICES ASSUME NEW s \in Runs, client'[s].pending # NoRequest
               PROVE  /\ client'[s].pending.run = s
                      /\ client'[s].pending.sequence = client'[s].next
                      /\ client'[s].pending.body <= made'[s]
                      /\ client'[s].pending \notin dropped'
      BY Zenon DEF PendingIsNext
  <2>1. CASE s = r
        BY <1>1, <2>1, Zenon
  <2>2. CASE s # r
    <3>1. /\ client'[s] = client[s] /\ client[s].pending.run = s /\ client[s].pending # p
          /\ client[s].pending.sequence = client[s].next /\ client[s].pending.body <= made[s]
          /\ client[s].pending \notin dropped
          BY <1>0, <1>1, <2>2, Zenon DEF TruthInv, PendingIsNext
    <3> QED
        BY <3>1, Zenon
  <2> QED
      BY <2>1, <2>2, Zenon
<1>4. AckedIsEnqueued'
      BY <1>0, Zenon DEF TruthInv, AckedIsEnqueued
<1>5. FirstCallIsExact'
  <2> SUFFICES ASSUME NEW s \in Runs, NEW q \in CheckpointRequest, FirstCall(s)', client'[s].pending = q
               PROVE  /\ \A h \in Handlers : Carries(h, q)' => client'[s].pc = "wait" /\ h = client'[s].handler
                      /\ Accepted(q)' =>
                             /\ client'[s].pc = "wait"
                             /\ \A h \in Handlers : /\ ~Carries(h, q)'
                                                    /\ h = client'[s].handler => ~Refused(h, q)'
      BY Zenon DEF FirstCallIsExact
  <2>1. CASE s = r
    <3>1. q = p
          BY <2>1, DeliveryTypes, Zenon DEF DeliveryInv
    <3> QED
        BY <2>1, <3>1, Zenon DEF Impossible
  <2>2. CASE s # r
    <3>1. client'[s] = client[s] /\ FirstCall(s)
          BY <2>2, Zenon DEF FirstCall
    <3>2. /\ \A h \in Handlers : Carries(h, q) => client[s].pc = "wait" /\ h = client[s].handler
          /\ Accepted(q) =>
                 /\ client[s].pc = "wait"
                 /\ \A h \in Handlers : /\ ~Carries(h, q)
                                        /\ h = client[s].handler => ~Refused(h, q)
          BY <1>0, <3>1, Zenon DEF TruthInv, FirstCallIsExact
    <3> QED
        BY <3>1, <3>2, RestFacts, Zenon
  <2> QED
      BY <2>1, <2>2, Zenon
<1>6. DroppedIsGone'
  <2> SUFFICES ASSUME NEW q \in dropped' \ relayed' PROVE Impossible(q)'
      BY Zenon DEF DroppedIsGone, Impossible
  <2>1. CASE q \in dropped
    <3>1. Impossible(q)
          BY <1>0, <2>1, Zenon DEF TruthInv, DroppedIsGone, Impossible
    <3> QED
        BY <3>1, RestFacts, Zenon DEF Impossible
  <2>2. CASE q \notin dropped
        BY <2>2, Zenon
  <2> QED
      BY <2>1, <2>2, Zenon
<1>7. OneAhead'
  <2>1. \A s : Unrelayed(s)' => Unrelayed(s)
        BY Zenon DEF Unrelayed
  <2>2. ASSUME NEW s \in Runs, Unrelayed(s)'
        PROVE  \/ Len(enqueued'[s]) = Len(acked'[s])
               \/ /\ client'[s].pending # NoRequest
                  /\ Len(enqueued'[s]) = Len(acked'[s]) + 1
                  /\ enqueued'[s][Len(acked'[s]) + 1] = client'[s].pending
    <3>1. CASE s = r
          BY <1>0, <2>2, <3>1, Zenon
    <3>2. CASE s # r
      <4>1. client'[s] = client[s] /\ acked'[s] = acked[s] /\ Unrelayed(s)
            BY <2>1, <2>2, <3>2, Zenon
      <4> QED
          BY <1>0, <4>1, Zenon DEF TruthInv, OneAhead
    <3> QED
        BY <3>1, <3>2, Zenon
  <2>3. ASSUME NEW h \in Handlers, NEW q \in CheckpointRequest, Carries(h, q)', Unrelayed(q.run)'
        PROVE  q = client'[q.run].pending \/ q.sequence \in 1..Len(acked'[q.run])
    <3>1. CASE q.run = r
          BY <2>3, <3>1, Zenon
    <3>2. CASE q.run # r
      <4>1. q.run \in Runs /\ Carries(h, q) /\ Unrelayed(q.run)
            BY <2>1, <2>3, RestFacts, DeliveryTypes, Zenon DEF DeliveryInv
      <4>2. client'[q.run] = client[q.run] /\ acked'[q.run] = acked[q.run]
            BY <3>2, <4>1, Zenon
      <4> QED
          BY <1>0, <4>1, <4>2, Zenon DEF TruthInv, OneAhead
    <3> QED
        BY <3>1, <3>2, Zenon
  <2> QED
      BY <2>2, <2>3, Zenon DEF OneAhead
<1> QED
    BY <1>2, <1>3, <1>4, <1>5, <1>6, <1>7, Zenon DEF TruthInv

\* What OneClient needs when the receipts taken stay the same.
LEMMA SameReceipts ==
    ASSUME DeliveryInv, HandlersRest, relayed \subseteq relayed', UNCHANGED acked,
           NEW r \in Runs, NEW p \in CheckpointRequest, client[r].pending = p,
           client'[r].next = client[r].next,
           client'[r].pending = p \/ (Unrelayed(r)' => Impossible(p)')
    PROVE  /\ client'[r].next = Len(acked'[r]) + 1
           /\ \A i \in DOMAIN acked'[r] : i \in DOMAIN enqueued[r] /\ enqueued[r][i] = acked'[r][i]
           /\ Unrelayed(r)' =>
                  /\ \/ Len(enqueued[r]) = Len(acked'[r])
                     \/ /\ client'[r].pending # NoRequest
                        /\ Len(enqueued[r]) = Len(acked'[r]) + 1
                        /\ enqueued[r][Len(acked'[r]) + 1] = p
                  /\ \A h \in Handlers, q \in CheckpointRequest : Carries(h, q)' /\ q.run = r =>
                         q = client'[r].pending \/ q.sequence \in 1..Len(acked'[r])
<1>0. TruthInv /\ UNCHANGED enqueued /\ p # NoRequest
      BY DeliveryTypes, Zenon DEF DeliveryInv, HandlersRest
<1>1. /\ client'[r].next = Len(acked'[r]) + 1
      /\ \A i \in DOMAIN acked'[r] : i \in DOMAIN enqueued[r] /\ enqueued[r][i] = acked'[r][i]
      BY <1>0, Zenon DEF TruthInv, AckedIsEnqueued
<1>2. ASSUME Unrelayed(r)'
      PROVE  /\ \/ Len(enqueued[r]) = Len(acked'[r])
                \/ /\ client'[r].pending # NoRequest
                   /\ Len(enqueued[r]) = Len(acked'[r]) + 1
                   /\ enqueued[r][Len(acked'[r]) + 1] = p
             /\ \A h \in Handlers, q \in CheckpointRequest : Carries(h, q)' /\ q.run = r =>
                    q = client'[r].pending \/ q.sequence \in 1..Len(acked'[r])
  <2>1. Unrelayed(r)
        BY <1>2, Zenon DEF Unrelayed
  <2>2. /\ \/ Len(enqueued[r]) = Len(acked[r])
           \/ Len(enqueued[r]) = Len(acked[r]) + 1 /\ enqueued[r][Len(acked[r]) + 1] = p
        /\ \A h \in Handlers, q \in CheckpointRequest : Carries(h, q)' /\ q.run = r =>
               q = p \/ q.sequence \in 1..Len(acked[r])
        BY <1>0, <2>1, RestFacts, Zenon DEF TruthInv, OneAhead
  <2>3. CASE client'[r].pending = p
        BY <1>0, <2>2, <2>3, Zenon
  <2>4. CASE Impossible(p)'
    <3>1. ~Accepted(p) /\ \A h \in Handlers : ~Carries(h, p)'
          BY <2>4, RestFacts, Zenon DEF Impossible
    <3>2. p.run = r /\ DOMAIN enqueued[r] = 1..Len(enqueued[r]) /\ Len(acked[r]) \in Nat
          BY <1>0, DeliveryTypes, Zenon DEF TruthInv, PendingIsNext, DeliveryInv
    <3>3. ~(Len(enqueued[r]) = Len(acked[r]) + 1 /\ enqueued[r][Len(acked[r]) + 1] = p)
          BY <3>1, <3>2 DEF Accepted
    <3> QED
        BY <2>2, <3>1, <3>3, Zenon
  <2> QED
      BY <1>2, <2>3, <2>4, Zenon
<1> QED
    BY <1>1, <1>2, Zenon

\* The new record of a client keeps the clients well formed.
LEMMA ClientMoves ==
    ASSUME DeliveryInv, NEW r \in Runs, NEW c \in ClientRecord, client' = [client EXCEPT ![r] = c],
           c.pc # "idle" => c.pending # NoRequest, c.pc = "wait" => c.handler \in Handlers
    PROVE  /\ client'[r] = c /\ \A s \in Runs \ {r} : client'[s] = client[s]
           /\ made' \in [Runs -> Nat] /\ acked' \in [Runs -> Seq(CheckpointRequest)]
              /\ dropped' \in SUBSET CheckpointRequest => DeliveryTypeInv'
<1>1. client \in [Runs -> ClientRecord]
      BY Zenon DEF DeliveryInv, DeliveryTypeInv
<1>2. client'[r] = c /\ \A s \in Runs \ {r} : client'[s] = client[s]
      BY <1>1, Zenon
<1>3. client' \in [Runs -> ClientRecord]
      BY <1>1, ExceptType, Zenon
<1>4. \A s \in Runs : /\ client'[s].pc # "idle" => client'[s].pending # NoRequest
                      /\ client'[s].pc = "wait" => client'[s].handler \in Handlers
      BY <1>2, Zenon DEF DeliveryInv, DeliveryTypeInv
<1> QED
    BY <1>2, <1>3, <1>4, Zenon DEF DeliveryTypeInv

\* The fields of a client that a call returns to.
LEMMA ReturnedFields ==
    ASSUME DeliveryInv, NEW r \in Runs
    PROVE  /\ Returned(r) \in ClientRecord /\ Returned(r).pc = "idle"
           /\ Returned(r).pending = client[r].pending /\ Returned(r).next = client[r].next
<1>1. client[r] \in ClientRecord
      BY DeliveryTypes, Zenon DEF DeliveryInv
<1> QED
    BY <1>1, Zenon DEF Returned, ClientRecord

LEMMA KeepTruth ==
    ASSUME DeliveryInv, HandlersRest, relayed \subseteq relayed', NEW r \in Runs, client[r].pc \in {"send", "wait"},
           client' = [client EXCEPT ![r] = Returned(r)], UNCHANGED <<made, acked, dropped>>
    PROVE  TruthInv' /\ DeliveryTypeInv'
<1>1. PICK p \in CheckpointRequest : client[r].pending = p
      BY DeliveryTypes, Zenon DEF DeliveryInv, DeliveryTypeInv
<1>2. /\ client'[r] = Returned(r) /\ \A s \in Runs \ {r} : client'[s] = client[s]
      /\ DeliveryTypeInv'
      BY ClientMoves, ReturnedFields, Zenon DEF DeliveryInv, DeliveryTypeInv
<1>3. client'[r].pending = p /\ client'[r].next = client[r].next /\ ~FirstCall(r)'
      BY <1>1, <1>2, ReturnedFields, Zenon DEF FirstCall
<1> QED
    BY <1>1, <1>2, <1>3, SameReceipts, OneClient, Zenon

\* The same request is sent again, or given up, after an answer of Core or of
\* the relay.
LEMMA FailedTruth ==
    ASSUME DeliveryInv, HandlersRest, relayed \subseteq relayed', NEW r \in Runs, client[r].pc \in {"send", "wait"},
           NEW status, Failed(r, status), NEW p, client[r].pending = p,
           client[r].call = "checkpoint" => p \in relayed' \/ Impossible(p)'
    PROVE  TruthInv' /\ DeliveryTypeInv'
<1>1. p \in CheckpointRequest /\ p # NoRequest /\ p.run = r /\ client[r] \in ClientRecord /\ p \notin dropped
      BY DeliveryTypes, Zenon DEF DeliveryInv, DeliveryTypeInv, TruthInv, PendingIsNext
<1>2. CASE /\ client' = [client EXCEPT ![r] = [client[r] EXCEPT !.pc = "send", !.attempt = client[r].attempt + 1,
                                                                   !.handler = NoHandler]]
           /\ UNCHANGED <<made, acked, dropped>>
  <2>1. PICK c : c = [client[r] EXCEPT !.pc = "send", !.attempt = client[r].attempt + 1, !.handler = NoHandler]
        BY Zenon
  <2>2. client[r].attempt + 1 \in Nat
        BY DeliveryTypes DEF DeliveryInv
  <2>3. /\ c \in ClientRecord /\ c.pc = "send" /\ c.pending = p /\ c.next = client[r].next /\ c.call = client[r].call
        BY <1>1, <2>1, <2>2, Zenon DEF ClientRecord
  <2>4. client' = [client EXCEPT ![r] = c]
        BY <1>2, <2>1, Zenon
  <2>5. /\ client'[r] = c /\ \A s \in Runs \ {r} : client'[s] = client[s]
        /\ DeliveryTypeInv'
        BY <1>1, <1>2, <2>3, <2>4, ClientMoves, Zenon DEF DeliveryInv, DeliveryTypeInv
  <2>6. FirstCall(r)' => Impossible(p)'
        BY <2>3, <2>5, Zenon DEF FirstCall
  <2> QED
      BY <1>1, <1>2, <2>3, <2>5, <2>6, SameReceipts, OneClient, Zenon
<1>3. CASE /\ client[r].call = "checkpoint"
           /\ client' = [client EXCEPT ![r] = [Returned(r) EXCEPT !.pending = NoRequest]]
           /\ dropped' = dropped \cup {client[r].pending}
           /\ UNCHANGED <<made, acked>>
  <2>1. PICK c : c = [Returned(r) EXCEPT !.pending = NoRequest]
        BY Zenon
  <2>2. c \in ClientRecord /\ c.pc = "idle" /\ c.pending = NoRequest /\ c.next = client[r].next
        BY <2>1, ReturnedFields, Zenon DEF ClientRecord
  <2>3. client' = [client EXCEPT ![r] = c] /\ dropped' = dropped \cup {p}
        BY <1>3, <2>1, Zenon
  <2>4. /\ client'[r] = c /\ \A s \in Runs \ {r} : client'[s] = client[s]
        /\ DeliveryTypeInv'
        BY <1>1, <1>3, <2>2, <2>3, ClientMoves, Zenon DEF DeliveryInv, DeliveryTypeInv
  <2>5. ~FirstCall(r)' /\ (Unrelayed(r)' => Impossible(p)')
        BY <1>1, <1>3, <2>2, <2>4, Zenon DEF FirstCall, Unrelayed
  <2>6. /\ client'[r].next = Len(acked'[r]) + 1
        /\ \A i \in DOMAIN acked'[r] : i \in DOMAIN enqueued[r] /\ enqueued[r][i] = acked'[r][i]
        /\ Unrelayed(r)' =>
               /\ \/ Len(enqueued[r]) = Len(acked'[r])
                  \/ /\ client'[r].pending # NoRequest
                     /\ Len(enqueued[r]) = Len(acked'[r]) + 1
                     /\ enqueued[r][Len(acked'[r]) + 1] = p
               /\ \A h \in Handlers, q \in CheckpointRequest : Carries(h, q)' /\ q.run = r =>
                      q = client'[r].pending \/ q.sequence \in 1..Len(acked'[r])
        BY <1>1, <1>3, <2>2, <2>4, <2>5, SameReceipts, Zenon
  <2>7. \A s \in Runs \ {r} : client'[s] = client[s] /\ acked'[s] = acked[s]
        BY <1>3, <2>4, Zenon
  <2>8. client'[r].pending = NoRequest /\ (p \in relayed' \/ Impossible(p)') /\ UNCHANGED made
        BY <1>3, <2>2, <2>4, Zenon
  <2> QED
      BY <1>1, <2>3, <2>4, <2>5, <2>6, <2>7, <2>8, OneClient, Zenon
<1>4. CASE client' = [client EXCEPT ![r] = Returned(r)] /\ UNCHANGED <<made, acked, dropped>>
      BY <1>4, KeepTruth, Zenon
<1> QED
    BY <1>2, <1>3, <1>4, Zenon DEF Failed, HTTPError

\* A receipt is taken.
LEMMA AcceptTruth ==
    ASSUME DeliveryInv, HandlersRest, UNCHANGED relayed, NEW r \in Runs, client[r].pc \in {"send", "wait"},
           _accept_pending(r), NEW p, client[r].pending = p,
           p.sequence \in DOMAIN enqueued[r], enqueued[r][p.sequence] = p
    PROVE  TruthInv' /\ DeliveryTypeInv'
<1>1. /\ p \in CheckpointRequest /\ p # NoRequest /\ p.run = r /\ client[r] \in ClientRecord
      /\ p.sequence = client[r].next /\ client[r].next = Len(acked[r]) + 1
      BY DeliveryTypes, Zenon DEF DeliveryInv, DeliveryTypeInv, TruthInv, PendingIsNext, AckedIsEnqueued
<1>2. /\ acked \in [Runs -> Seq(CheckpointRequest)] /\ acked[r] \in Seq(CheckpointRequest) /\ Len(acked[r]) \in Nat
      /\ DOMAIN enqueued[r] = 1..Len(enqueued[r]) /\ Len(enqueued[r]) \in Nat /\ DOMAIN acked[r] = 1..Len(acked[r])
      BY DeliveryTypes, Zenon DEF DeliveryInv, DeliveryTypeInv
<1>3. PICK c : c = [Returned(r) EXCEPT !.pending = NoRequest, !.next = p.sequence + 1]
      BY Zenon
<1>4. p.sequence + 1 \in Nat \ {0} /\ p.sequence + 1 = Len(acked[r]) + 2
      BY <1>1, <1>2
<1>5. c \in ClientRecord /\ c.pc = "idle" /\ c.pending = NoRequest /\ c.next = p.sequence + 1
      BY <1>3, <1>4, ReturnedFields, Zenon DEF ClientRecord
<1>6. /\ client' = [client EXCEPT ![r] = c] /\ acked' = [acked EXCEPT ![r] = Append(@, p)]
      /\ UNCHANGED <<made, dropped>>
      BY <1>3, Zenon DEF _accept_pending
<1>7. acked'[r] = Append(acked[r], p) /\ \A s \in Runs \ {r} : acked'[s] = acked[s]
      BY <1>2, <1>6, Zenon
<1>8. /\ DOMAIN acked'[r] = DOMAIN acked[r] \cup {Len(acked[r]) + 1} /\ acked'[r][Len(acked[r]) + 1] = p
      /\ \A i \in DOMAIN acked[r] : acked'[r][i] = acked[r][i]
      /\ Len(acked'[r]) = Len(acked[r]) + 1
      BY <1>1, <1>2, <1>7, AppendFacts
<1>9. acked' \in [Runs -> Seq(CheckpointRequest)]
  <2>1. Append(acked[r], p) \in Seq(CheckpointRequest)
        BY <1>1, <1>2
  <2> QED
      BY <1>2, <1>6, <2>1, ExceptType, Zenon
<1>10. /\ client'[r] = c /\ \A s \in Runs \ {r} : client'[s] = client[s]
       /\ DeliveryTypeInv'
       BY <1>5, <1>6, <1>9, ClientMoves, Zenon DEF DeliveryInv, DeliveryTypeInv
<1>11. client'[r].next = Len(acked'[r]) + 1 /\ client'[r].pending = NoRequest /\ ~FirstCall(r)'
       BY <1>2, <1>4, <1>5, <1>8, <1>10 DEF FirstCall
<1>12. \A i \in DOMAIN acked'[r] : i \in DOMAIN enqueued[r] /\ enqueued[r][i] = acked'[r][i]
       BY <1>1, <1>8 DEF DeliveryInv, TruthInv, AckedIsEnqueued
<1>13. ASSUME Unrelayed(r)' PROVE Len(enqueued[r]) = Len(acked'[r])
  <2>1. Unrelayed(r)
        BY <1>13, Zenon DEF Unrelayed
  <2>2. Len(enqueued[r]) = Len(acked[r]) \/ Len(enqueued[r]) = Len(acked[r]) + 1
        BY <2>1, Zenon DEF DeliveryInv, TruthInv, OneAhead
  <2> QED
      BY <1>1, <1>2, <1>8, <2>2
<1>14. ASSUME Unrelayed(r)', NEW h \in Handlers, NEW q \in CheckpointRequest, Carries(h, q)', q.run = r
       PROVE  q.sequence \in 1..Len(acked'[r])
  <2>1. Unrelayed(r) /\ Carries(h, q)
        BY <1>14, RestFacts, Zenon DEF Unrelayed
  <2>2. q = p \/ q.sequence \in 1..Len(acked[r])
        BY <1>14, <2>1, Zenon DEF DeliveryInv, TruthInv, OneAhead
  <2> QED
      BY <1>1, <1>2, <1>8, <2>2
<1> QED
    BY <1>1, <1>6, <1>7, <1>10, <1>11, <1>12, <1>13, <1>14, OneClient, Zenon

\* checkpoint: the request is new to everyone.
LEMMA CheckpointTruth ==
    ASSUME DeliveryInv, NEW r \in Runs, checkpoint(r)
    PROVE  TruthInv' /\ DeliveryTypeInv'
<1>0. /\ client[r].pc = "idle" /\ client[r].pending = NoRequest /\ made[r] + 1 \in Bodies
      /\ client[r].next <= MaxSequence
      /\ made' = [made EXCEPT ![r] = @ + 1] /\ UNCHANGED <<handler, enqueued, acked, dropped, relayed>>
      BY Zenon DEF checkpoint, ingestVars
<1>1. PICK k, p, c :
          /\ k \in Keys
          /\ p = [run |-> r, sequence |-> client[r].next, key |-> k, body |-> made[r] + 1]
          /\ c = [client[r] EXCEPT !.pc = "send", !.call = "checkpoint", !.attempt = 0, !.pending = p]
          /\ client' = [client EXCEPT ![r] = c]
      BY Zenon DEF checkpoint
<1>2. /\ client[r] \in ClientRecord /\ client[r].next \in Nat \ {0} /\ made \in [Runs -> Nat] /\ made[r] \in Nat
      /\ MaxSequence \in Nat
      BY DeliveryTypes, Zenon DEF DeliveryInv, DeliveryTypeInv
<1>3. p.run = r /\ p.sequence = client[r].next /\ p.body = made[r] + 1
      BY <1>1, Zenon
<1>4. p \in CheckpointRequest
  <2>1. client[r].next \in 0..MaxSequence /\ client[r].next # 0
        BY <1>0, <1>2
  <2> QED
      BY <1>0, <1>1, <2>1, Zenon DEF CheckpointRequest
<1>5. c \in ClientRecord /\ c.pc = "send" /\ c.pending = p /\ c.next = client[r].next
      BY <1>1, <1>2, <1>4, Zenon DEF ClientRecord
<1>6. made'[r] = made[r] + 1 /\ (\A s \in Runs \ {r} : made'[s] = made[s]) /\ made' \in [Runs -> Nat]
      BY <1>0, <1>2
<1>7. /\ client'[r] = c /\ \A s \in Runs \ {r} : client'[s] = client[s]
      /\ DeliveryTypeInv'
  <2>1. acked' \in [Runs -> Seq(CheckpointRequest)] /\ dropped' \in SUBSET CheckpointRequest
        BY <1>0, Zenon DEF DeliveryInv, DeliveryTypeInv
  <2>2. p # NoRequest
        BY <1>4, DeliveryTypes, Zenon DEF DeliveryInv
  <2> QED
      BY <1>1, <1>5, <1>6, <2>1, <2>2, ClientMoves, Zenon
<1>8. TruthInv /\ \A q \in CheckpointRequest : q.run \in Runs /\ q.body \in Nat /\ made[q.run] \in Nat /\ q # NoRequest
      BY DeliveryTypes, Zenon DEF DeliveryInv
<1>9. \A s \in Runs : made[s] \in Nat /\ made'[s] \in Nat /\ made[s] <= made'[s]
      BY <1>2, <1>6
<1>10. /\ \A q : \A h \in Handlers : Carries(h, q)' <=> Carries(h, q)
       /\ \A q : \A h \in Handlers : Refused(h, q)' <=> Refused(h, q)
       /\ \A q : Accepted(q)' <=> Accepted(q)
       /\ \A s : Unrelayed(s)' <=> Unrelayed(s)
       BY <1>0, Zenon DEF Carries, Refused, Accepted, Unrelayed
<1>11. ~Accepted(p) /\ (\A h \in Handlers : ~Carries(h, p)) /\ p \notin dropped
  <2>1. p.body # made[r] /\ ~(p.body <= made[r])
        BY <1>2, <1>3
  <2>2. \A i \in DOMAIN enqueued[r] : enqueued[r][i] # p
        BY <1>8, <2>1, Zenon DEF TruthInv, RequestsAreOld
  <2> QED
      BY <1>3, <1>4, <1>8, <2>1, <2>2, Zenon DEF TruthInv, RequestsAreOld, Accepted
<1>12. RequestsAreOld'
  <2>1. \A h \in Handlers, q \in CheckpointRequest : Carries(h, q)' => q.body <= made'[q.run]
    <3>1. ASSUME NEW h \in Handlers, NEW q \in CheckpointRequest, Carries(h, q) PROVE q.body <= made'[q.run]
      <4>1. q.body <= made[q.run] /\ q.run \in Runs /\ q.body \in Nat
            BY <1>8, <3>1, Zenon DEF TruthInv, RequestsAreOld
      <4> QED
          BY <1>9, <4>1
    <3> QED
        BY <1>10, <3>1, Zenon
  <2>2. ASSUME NEW s \in Runs, NEW i \in DOMAIN enqueued[s] PROVE enqueued[s][i].body <= made'[s]
    <3>1. enqueued[s][i].body <= made[s]
          BY <1>8, Zenon DEF TruthInv, RequestsAreOld
    <3>2. enqueued[s][i] \in CheckpointRequest
          BY DeliveryTypes DEF DeliveryInv
    <3>3. enqueued[s][i].body \in Nat
          BY <1>8, <3>2, Zenon
    <3> QED
        BY <1>9, <3>1, <3>3
  <2>3. ASSUME NEW q \in dropped PROVE q.body <= made'[q.run]
    <3>1. q \in CheckpointRequest /\ q.body <= made[q.run]
          BY <1>8, Zenon DEF TruthInv, RequestsAreOld, DeliveryInv, DeliveryTypeInv
    <3>2. q.run \in Runs /\ q.body \in Nat
          BY <1>8, <3>1, Zenon
    <3> QED
        BY <1>9, <3>1, <3>2
  <2> QED
      BY <1>0, <2>1, <2>2, <2>3, Zenon DEF RequestsAreOld
<1>13. PendingIsNext'
  <2>1. p.body <= made'[r]
        BY <1>2, <1>3, <1>6
  <2> QED
      BY <1>0, <1>3, <1>5, <1>6, <1>7, <1>8, <1>11, <2>1 DEF TruthInv, PendingIsNext
<1>14. AckedIsEnqueued'
      BY <1>0, <1>5, <1>7, <1>8, Zenon DEF TruthInv, AckedIsEnqueued
<1>15. FirstCallIsExact'
  <2> SUFFICES ASSUME NEW s \in Runs, NEW q \in CheckpointRequest, FirstCall(s)', client'[s].pending = q
               PROVE  /\ \A h \in Handlers : Carries(h, q) => client'[s].pc = "wait" /\ h = client'[s].handler
                      /\ Accepted(q) =>
                             /\ client'[s].pc = "wait"
                             /\ \A h \in Handlers : /\ ~Carries(h, q)
                                                    /\ h = client'[s].handler => ~Refused(h, q)
      BY <1>10, Zenon DEF FirstCallIsExact
  <2>1. CASE s = r
        BY <1>5, <1>7, <1>11, <2>1, Zenon
  <2>2. CASE s # r
    <3>1. client'[s] = client[s] /\ FirstCall(s)
          BY <1>0, <1>7, <2>2, Zenon DEF FirstCall
    <3> QED
        BY <1>8, <3>1, Zenon DEF TruthInv, FirstCallIsExact
  <2> QED
      BY <2>1, <2>2, Zenon
<1>16. DroppedIsGone'
      BY <1>0, <1>8, <1>10, Zenon DEF TruthInv, DroppedIsGone
<1>17. OneAhead'
  <2>1. ASSUME NEW s \in Runs, Unrelayed(s)
        PROVE  \/ Len(enqueued[s]) = Len(acked[s])
               \/ /\ client'[s].pending # NoRequest
                  /\ Len(enqueued[s]) = Len(acked[s]) + 1
                  /\ enqueued[s][Len(acked[s]) + 1] = client'[s].pending
        BY <1>0, <1>7, <1>8, <2>1, Zenon DEF TruthInv, OneAhead
  <2>2. ASSUME NEW h \in Handlers, NEW q \in CheckpointRequest, Carries(h, q), Unrelayed(q.run)
        PROVE  q = client'[q.run].pending \/ q.sequence \in 1..Len(acked[q.run])
        BY <1>0, <1>7, <1>8, <2>2, Zenon DEF TruthInv, OneAhead
  <2> QED
      BY <1>0, <1>10, <2>1, <2>2, Zenon DEF OneAhead
<1> QED
    BY <1>7, <1>12, <1>13, <1>14, <1>15, <1>16, <1>17, Zenon DEF TruthInv

\* _send: one more handler carries the pending request.
LEMMA SendTruth ==
    ASSUME DeliveryInv, NEW r \in Runs, SendReaches(r)
    PROVE  TruthInv' /\ DeliveryTypeInv' /\ AnswersHaveReceipts'
<1>1. PICK g, p, c :
          /\ g \in Handlers
          /\ p = client[r].pending /\ c = [client[r] EXCEPT !.pc = "wait", !.handler = g]
          /\ Receive(g, p) /\ client' = [client EXCEPT ![r] = c]
      BY Zenon DEF SendReaches
<1>2. client[r].pc = "send" /\ UNCHANGED <<made, acked, dropped, relayed>> /\ UNCHANGED <<enqueued, receipts>>
      BY <1>1, Zenon DEF SendReaches, Receive, historyVars
<1>3. p \in CheckpointRequest /\ p # NoRequest /\ client[r] \in ClientRecord /\ TruthInv /\ p.run = r
      /\ p.body <= made[r] /\ p \notin dropped
      BY <1>1, <1>2, DeliveryTypes, Zenon DEF DeliveryInv, DeliveryTypeInv, TruthInv, PendingIsNext
<1>4. /\ c \in ClientRecord /\ c.pc = "wait" /\ c.handler = g /\ c.pending = p /\ c.next = client[r].next
      /\ c.call = client[r].call
      BY <1>1, <1>3, Zenon DEF ClientRecord
<1>5. /\ client'[r] = c /\ \A s \in Runs \ {r} : client'[s] = client[s]
      /\ DeliveryTypeInv'
      BY <1>1, <1>2, <1>3, <1>4, ClientMoves, Zenon DEF DeliveryInv, DeliveryTypeInv
<1>6. \A s \in Runs : client'[s].pending = client[s].pending /\ client'[s].next = client[s].next
      BY <1>1, <1>4, <1>5, Zenon
<1>7. /\ handler'[g].pc = "charge" /\ handler'[g].request = p /\ \A h \in Handlers \ {g} : handler'[h] = handler[h]
      BY <1>1, Zenon DEF Receive, Idle, DeliveryInv, IngestInv, IngestTypeInv, TypeOK
<1>8. /\ \A q : \A h \in Handlers : Carries(h, q)' => Carries(h, q) \/ (h = g /\ q = p)
      /\ \A q : \A h \in Handlers : Refused(h, q)' => Refused(h, q)
      /\ \A q : Accepted(q)' <=> Accepted(q)
      /\ \A s : Unrelayed(s)' <=> Unrelayed(s)
  <2>1. /\ \A q : \A h \in Handlers : Carries(h, q)' => Carries(h, q) \/ (h = g /\ q = p)
        /\ \A q : \A h \in Handlers : Refused(h, q)' => Refused(h, q)
        BY <1>7, Zenon DEF Carries, Refused
  <2> QED
      BY <1>2, <2>1, Zenon DEF Accepted, Unrelayed
<1>9. RequestsAreOld'
      BY <1>2, <1>3, <1>8, Zenon DEF TruthInv, RequestsAreOld
<1>10. PendingIsNext' /\ AckedIsEnqueued'
      BY <1>2, <1>3, <1>6, Zenon DEF TruthInv, PendingIsNext, AckedIsEnqueued
<1>11. FirstCallIsExact'
  <2> SUFFICES ASSUME NEW s \in Runs, NEW q \in CheckpointRequest, FirstCall(s)', client'[s].pending = q
               PROVE  /\ \A h \in Handlers : Carries(h, q)' => client'[s].pc = "wait" /\ h = client'[s].handler
                      /\ Accepted(q)' =>
                             /\ client'[s].pc = "wait"
                             /\ \A h \in Handlers : /\ ~Carries(h, q)'
                                                    /\ h = client'[s].handler => ~Refused(h, q)'
      BY Zenon DEF FirstCallIsExact
  <2>1. CASE s = r
    <3>1. q = p /\ FirstCall(r)
          BY <1>1, <1>2, <1>4, <1>5, <2>1 DEF FirstCall
    <3>2. ~Accepted(p) /\ \A h \in Handlers : ~Carries(h, p)
          BY <1>1, <1>2, <1>3, <3>1, Zenon DEF TruthInv, FirstCallIsExact
    <3> QED
        BY <1>4, <1>5, <1>8, <2>1, <3>1, <3>2, Zenon
  <2>2. CASE s # r
    <3>1. client'[s] = client[s] /\ FirstCall(s) /\ client[s].pending = q
          BY <1>2, <1>5, <2>2, Zenon DEF FirstCall
    <3>2. q # p
          BY <1>3, <2>2, <3>1, DeliveryTypes, SMTT(15) DEF TruthInv, PendingIsNext, DeliveryInv
    <3>3. /\ \A h \in Handlers : Carries(h, q) => client[s].pc = "wait" /\ h = client[s].handler
          /\ Accepted(q) =>
                 /\ client[s].pc = "wait"
                 /\ \A h \in Handlers : /\ ~Carries(h, q)
                                        /\ h = client[s].handler => ~Refused(h, q)
          BY <1>3, <3>1, Zenon DEF TruthInv, FirstCallIsExact
    <3> QED
        BY <1>8, <3>1, <3>2, <3>3, Zenon
  <2> QED
      BY <2>1, <2>2, Zenon
<1>12. DroppedIsGone'
      BY <1>2, <1>3, <1>8, Zenon DEF TruthInv, DroppedIsGone
<1>13. OneAhead'
  <2>1. ASSUME NEW s \in Runs, Unrelayed(s)
        PROVE  \/ Len(enqueued[s]) = Len(acked[s])
               \/ /\ client'[s].pending # NoRequest
                  /\ Len(enqueued[s]) = Len(acked[s]) + 1
                  /\ enqueued[s][Len(acked[s]) + 1] = client'[s].pending
        BY <1>3, <1>6, <2>1, Zenon DEF TruthInv, OneAhead
  <2>2. ASSUME NEW h \in Handlers, NEW q \in CheckpointRequest, Carries(h, q)', Unrelayed(q.run)
        PROVE  q = client'[q.run].pending \/ q.sequence \in 1..Len(acked[q.run])
    <3>1. CASE q = p
          BY <1>3, <1>4, <1>5, <3>1, Zenon
    <3>2. CASE q # p
      <4>1. Carries(h, q) /\ q.run \in Runs
            BY <1>8, <2>2, <3>2, DeliveryTypes, Zenon DEF DeliveryInv
      <4> QED
          BY <1>3, <1>6, <2>2, <4>1, Zenon DEF TruthInv, OneAhead
    <3> QED
        BY <3>1, <3>2, Zenon
  <2> QED
      BY <1>2, <1>8, <2>1, <2>2, Zenon DEF OneAhead
<1>14. AnswersHaveReceipts'
      BY <1>2, <1>7, SMTT(15) DEF DeliveryInv, AnswersHaveReceipts
<1> QED
    BY <1>5, <1>9, <1>10, <1>11, <1>12, <1>13, <1>14, Zenon DEF TruthInv

\* The answer of Core reaches the client that waits for it.
LEMMA AnswerTruth ==
    ASSUME DeliveryInv, NEW r \in Runs, Answer(r)
    PROVE  TruthInv' /\ DeliveryTypeInv' /\ AnswersHaveReceipts'
<1>1. PICK h, p : h = client[r].handler /\ p = client[r].pending
      BY Zenon
<1>2. /\ client[r].pc = "wait" /\ handler[h].request = p /\ Replied(h) /\ handler[h].pc = "replied"
      /\ UNCHANGED <<enqueued, receipts, relayed>>
      BY <1>1, Zenon DEF Answer, Awaits, Replied, serverVars, historyVars
<1>3. /\ h \in Handlers /\ p \in CheckpointRequest /\ p.run = r /\ p.sequence \in Nat /\ TruthInv
      BY <1>1, <1>2, DeliveryTypes, SMTT(15) DEF DeliveryInv, DeliveryTypeInv, TruthInv, PendingIsNext
<1>4. HandlersRest /\ AnswersHaveReceipts'
      BY <1>2, <1>3, ReleaseMoves, Zenon DEF DeliveryInv, HandlersRest
<1>5. CASE /\ handler[h].status \in {200, 201} /\ handler[h].number = p.sequence
           /\ _accept_pending(r)
  <2>1. [request |-> p, number |-> p.sequence] \in receipts
        BY <1>2, <1>3, <1>5, Zenon DEF DeliveryInv, AnswersHaveReceipts
  <2>2. p.sequence \in DOMAIN enqueued[r] /\ enqueued[r][p.sequence] = p
        BY <1>3, <2>1, Zenon DEF DeliveryInv, IngestInv, ReceiptsAreEnqueued
  <2> QED
      BY <1>1, <1>2, <1>4, <1>5, <2>2, AcceptTruth, Zenon
<1>6. CASE handler[h].status \notin {200, 201} /\ Failed(r, handler[h].status)
  <2>1. Refused(h, p) /\ ~Carries(h, p)
        BY <1>2, <1>6, Zenon DEF Refused, Carries
  <2>2. client[r].call = "checkpoint" => p \in relayed \/ Impossible(p)
        BY <1>1, <1>2, <1>3, <2>1, Zenon DEF TruthInv, FirstCallIsExact, FirstCall, Impossible
  <2>3. Impossible(p) => Impossible(p)'
        BY <1>4, RestFacts, Zenon DEF Impossible
  <2>4. PICK status : status = handler[h].status
        BY Zenon
  <2>5. Failed(r, status) /\ client[r].pending = p /\ relayed \subseteq relayed'
        BY <1>1, <1>2, <1>6, <2>4, Zenon
  <2>6. client[r].call = "checkpoint" => p \in relayed' \/ Impossible(p)'
        BY <1>2, <2>2, <2>3, Zenon
  <2> QED
      BY <1>2, <1>4, <2>5, <2>6, FailedTruth, Zenon
<1> QED
    BY <1>1, <1>5, <1>6, Zenon DEF Answer

LEMMA DeliveryInvStep == DeliveryInv /\ [DeliveryNext]_vars => DeliveryInv'
<1> SUFFICES ASSUME DeliveryInv, [DeliveryNext]_vars PROVE DeliveryInv'
    BY Zenon
<1>1. IngestInv'
  <2>1. [Next]_ingestVars
        BY DeliveryIsIngest, Zenon DEF DeliveryInv
  <2> QED
      BY <2>1, IngestTypeStep, RecordStep, Zenon DEF DeliveryInv, IngestInv, RecordInv
<1>2. CASE CoreStep
  <2>1. DeliveryTypeInv' /\ AnswersHaveReceipts'
        BY <1>2, CoreMoves, Zenon DEF clientVars, DeliveryInv, DeliveryTypeInv
  <2> QED
      BY <1>1, <1>2, <2>1, CoreTruth, Zenon DEF DeliveryInv
<1>3. ASSUME UNCHANGED <<handler, enqueued, receipts>>
      PROVE  HandlersRest /\ AnswersHaveReceipts'
      BY <1>3, Zenon DEF HandlersRest, DeliveryInv, AnswersHaveReceipts
<1>4. ASSUME NEW r \in Runs, checkpoint(r) PROVE DeliveryInv'
  <2>1. AnswersHaveReceipts'
        BY <1>3, <1>4, Zenon DEF checkpoint, ingestVars, historyVars
  <2> QED
      BY <1>1, <1>4, <2>1, CheckpointTruth, Zenon DEF DeliveryInv
<1>5. ASSUME NEW r \in Runs, retry_pending(r) PROVE DeliveryInv'
  <2>1. PICK p, c : /\ p = client[r].pending
                    /\ c = [client[r] EXCEPT !.pc = "send", !.call = "retry_pending", !.attempt = 0]
        BY Zenon
  <2>2. /\ client' = [client EXCEPT ![r] = c] /\ p # NoRequest /\ UNCHANGED <<made, acked, dropped, relayed>>
        /\ HandlersRest /\ AnswersHaveReceipts'
        BY <1>3, <1>5, <2>1, Zenon DEF retry_pending, ingestVars, historyVars
  <2>3. client[r] \in ClientRecord /\ p \in CheckpointRequest
        BY <2>1, <2>2, DeliveryTypes, Zenon DEF DeliveryInv
  <2>4. c \in ClientRecord /\ c.pc = "send" /\ c.call = "retry_pending" /\ c.pending = p /\ c.next = client[r].next
        BY <2>1, <2>3, Zenon DEF ClientRecord
  <2>5. /\ client'[r] = c /\ \A s \in Runs \ {r} : client'[s] = client[s]
        /\ DeliveryTypeInv'
        BY <2>2, <2>4, ClientMoves, Zenon DEF DeliveryInv, DeliveryTypeInv
  <2>6. ~FirstCall(r)' /\ client'[r].pending = p /\ client'[r].next = client[r].next
        BY <2>4, <2>5, Zenon DEF FirstCall
  <2>7. TruthInv'
        BY <2>1, <2>2, <2>3, <2>5, <2>6, SameReceipts, OneClient, Zenon
  <2> QED
      BY <1>1, <2>2, <2>5, <2>7, Zenon DEF DeliveryInv
<1>6. ASSUME NEW r \in Runs, ConnectionLost(r) PROVE DeliveryInv'
  <2>1. /\ client[r].pc \in {"send", "wait"} /\ client' = [client EXCEPT ![r] = Returned(r)]
        /\ UNCHANGED <<made, acked, dropped, relayed>> /\ HandlersRest /\ AnswersHaveReceipts'
        BY <1>3, <1>6, Zenon DEF ConnectionLost, Ambiguous, ingestVars, historyVars
  <2> QED
      BY <1>1, <2>1, KeepTruth, Zenon DEF DeliveryInv
<1>7. ASSUME NEW r \in Runs, RelayUnavailable(r) PROVE DeliveryInv'
  <2>1. PICK p : p = client[r].pending
        BY Zenon
  <2>2. /\ client[r].pc \in {"send", "wait"} /\ Failed(r, 503) /\ relayed' = relayed \cup {p}
        /\ HandlersRest /\ AnswersHaveReceipts'
        BY <1>3, <1>7, <2>1, Zenon DEF RelayUnavailable, ingestVars, historyVars
  <2> QED
      BY <1>1, <2>1, <2>2, FailedTruth, Zenon DEF DeliveryInv
<1>8. ASSUME NEW h \in Handlers, Unread(h) PROVE DeliveryInv'
  <2>1. UNCHANGED <<client, made, acked, dropped, relayed>> /\ UNCHANGED <<enqueued, receipts>>
        BY <1>8, Zenon DEF Unread, serverVars, clientVars, historyVars
  <2>2. HandlersRest /\ AnswersHaveReceipts'
        BY <1>8, <2>1, ReleaseMoves, Zenon DEF Unread, DeliveryInv, HandlersRest
  <2>3. DeliveryTypeInv'
        BY <2>1, Zenon DEF DeliveryInv, DeliveryTypeInv
  <2>4. TruthInv'
        BY <2>1, <2>2, RestTruth, Zenon DEF DeliveryInv
  <2> QED
      BY <1>1, <2>2, <2>3, <2>4, Zenon DEF DeliveryInv
<1>9. CASE UNCHANGED vars
  <2>1. UNCHANGED <<client, made, acked, dropped, relayed, handler, enqueued, receipts>>
        BY <1>9, Zenon DEF vars, clientVars, ingestVars, historyVars
  <2> QED
      BY <1>1, <1>3, <2>1, RestTruth, Zenon DEF DeliveryInv, DeliveryTypeInv
<1> QED
    BY <1>1, <1>2, <1>4, <1>5, <1>6, <1>7, <1>8, <1>9, SendTruth, AnswerTruth, Zenon
       DEF DeliveryNext, ClientStep, DeliveryInv

\* The inductive invariant holds of Core and the clients of all Runs together.
THEOREM DeliveryInvariance == DeliverySpec => []DeliveryInv
BY DeliveryInit, DeliveryInvStep, PTL DEF DeliverySpec

\* What a client was told is accepted is what Core handed to the pipeline, and
\* what it gave up on Core's own answers Core never took, for any number of Runs
\* and handlers and any lost answers and retries (IngestClient).
THEOREM ClientsTellTheTruth == DeliverySpec => []ClientTellsTheTruth
<1>1. DeliveryInv => ClientTellsTheTruth
      BY Zenon DEF DeliveryInv, TruthInv, AckedIsEnqueued, DroppedIsGone, ClientTellsTheTruth
<1> QED
    BY <1>1, DeliveryInvariance, PTL

\* A client with nothing pending, none of whose requests the relay may hold,
\* numbers its next checkpoint as Core expects it.
THEOREM ClientsStayInStep == DeliverySpec => []ClientInStep
<1>1. DeliveryInv => ClientInStep
  <2> SUFFICES ASSUME DeliveryInv, NEW r \in Runs, Unrelayed(r), client[r].pending = NoRequest
               PROVE  client[r].next = Len(enqueued[r]) + 1
      BY Zenon DEF ClientInStep, Unrelayed
  <2> QED
      BY Zenon DEF DeliveryInv, TruthInv, AckedIsEnqueued, OneAhead
<1> QED
    BY <1>1, DeliveryInvariance, PTL
=============================================================================
