-------------------------- MODULE CheckpointIngest --------------------------
(***************************************************************************)
(* internal/api/checkpoint.go: the Agent-facing endpoint that accepts,      *)
(* replays or refuses checkpoints.  A request is handled in two critical    *)
(* sections of RunStore.mu, authorizeAndCharge and accept; the body is read *)
(* between them, and the Run may end there.                                 *)
(*                                                                         *)
(* Sequences are contiguous, so the maps bySequence and byKey of a Run are  *)
(* one sequence, log: entry i is the request accepted under sequence i.     *)
(* The fingerprint is a digest of the whole request.                        *)
(***************************************************************************)
EXTENDS RunPhase, Integers, Sequences, FiniteSetsExt

CONSTANTS Handlers,            \* concurrent requests
          Keys, NoKey,         \* idempotency_key values; the absent one
          Bodies,              \* the remaining content of a request
          NoRequest,
          BodySize,            \* what a body is charged: its bytes plus overhead
          MaxSequence,         \* bound on the sequences clients name
          RequestsPerSecond, CapacityPerRun, CapacityBytesPerRun, CapacityBytesTotal,
          MaxClock             \* bound on the clock

\* validateCheckpointRequest: a sequence (0 when absent), a key, or both.
CheckpointRequest ==
    {q \in [run : Runs, sequence : 0..MaxSequence, key : Keys \cup {NoKey}, body : Bodies] :
        q.sequence # 0 \/ q.key # NoKey}

ASSUME IngestAssumption ==
    /\ NoKey \notin Keys
    /\ NoRequest \notin CheckpointRequest
    /\ BodySize \in [Bodies -> Nat \ {0}]
    /\ MaxSequence \in Nat
    /\ RequestsPerSecond \in Nat \ {0}
    /\ CapacityPerRun \in Nat /\ CapacityBytesPerRun \in Nat /\ CapacityBytesTotal \in Nat
    /\ MaxClock \in Nat

VARIABLES opened,          \* Runs with a checkpointRunState
          log,             \* bySequence and byKey
          rateTokens, rateUpdated,
          retainedBytes,
          checkpointBytes, \* RunStore.checkpointBytes
          handler,
          clock,           \* in units of 1/RequestsPerSecond seconds
          enqueued,        \* what onAccepted has taken, in order
          receipts,        \* history: every 200 and 201
          charges          \* history: when each request of a Run was charged

stateVars == <<opened, log, rateTokens, rateUpdated, retainedBytes, checkpointBytes>>
historyVars == <<receipts, charges>>
ingestVars == <<phaseVars, stateVars, handler, clock, enqueued, historyVars>>

Statuses == {200, 201, 400, 401, 409, 429, 503}

\* number is the sequence of the record a 200 or a 201 returns, else 0.
HandlerRecord ==
    [pc : {"idle", "charge", "body", "replied"}, request : CheckpointRequest \cup {NoRequest},
     status : Statuses \cup {0}, number : Nat]

Idle == [pc |-> "idle", request |-> NoRequest, status |-> 0, number |-> 0]

IngestInit ==
    /\ PhaseInit
    /\ opened = {}
    /\ log = [r \in Runs |-> <<>>]
    /\ rateTokens = [r \in Runs |-> 0]
    /\ rateUpdated = [r \in Runs |-> 0]
    /\ retainedBytes = [r \in Runs |-> 0]
    /\ checkpointBytes = 0
    /\ handler = [h \in Handlers |-> Idle]
    /\ clock = 0
    /\ enqueued = [r \in Runs |-> <<>>]
    /\ receipts = {}
    /\ charges = [r \in Runs |-> <<>>]

-----------------------------------------------------------------------------
(* A request. *)

Receive(h, q) ==
    /\ handler[h].pc = "idle"
    /\ handler' = [handler EXCEPT ![h] = [Idle EXCEPT !.pc = "charge", !.request = q]]
    /\ UNCHANGED <<phaseVars, stateVars, clock, enqueued, historyVars>>

Reply(h, status, number) ==
    handler' = [handler EXCEPT ![h] = [@ EXCEPT !.pc = "replied", !.status = status, !.number = number]]

\* The response is written, or its client is gone.
Replied(h) ==
    /\ handler[h].pc = "replied"
    /\ handler' = [handler EXCEPT ![h] = Idle]

\* The request's context is cancelled: the client is gone and reads no answer.
Cancelled(h) ==
    /\ handler[h].pc \in {"charge", "body"}
    /\ handler' = [handler EXCEPT ![h] = Idle]
    /\ UNCHANGED <<phaseVars, stateVars, clock, enqueued, historyVars>>

Least(a, b) == IF a < b THEN a ELSE b

MutantRefill(r) ==
    IF r \in opened THEN rateTokens[r] + (clock - rateUpdated[r]) ELSE RequestsPerSecond

\* A new state starts with a full bucket.
refillCheckpointTokens(r) ==
    IF r \in opened THEN Least(rateTokens[r] + (clock - rateUpdated[r]), RequestsPerSecond)
    ELSE RequestsPerSecond

Charge(h) ==
    LET r      == handler[h].request.run
        tokens == refillCheckpointTokens(r)
    IN  \/ /\ tokens < 1
           /\ rateTokens' = [rateTokens EXCEPT ![r] = tokens]
           /\ Reply(h, 429, 0)
           /\ UNCHANGED charges
        \/ /\ tokens >= 1
           /\ rateTokens' = [rateTokens EXCEPT ![r] = tokens - 1]
           /\ charges' = [charges EXCEPT ![r] = Append(@, clock)]
           /\ handler' = [handler EXCEPT ![h].pc = "body"]

authorizeAndCharge(h) ==
    LET r == handler[h].request.run
    IN  /\ handler[h].pc = "charge"
        /\ Authorized(r)
        /\ opened' = opened \cup {r}
        /\ rateUpdated' = [rateUpdated EXCEPT ![r] = clock]
        /\ Charge(h)
        /\ UNCHANGED <<phaseVars, log, retainedBytes, checkpointBytes, clock, enqueued, receipts>>

\* Both critical sections refuse a Run that is not authorized when they run.
Unauthorized(h) ==
    /\ handler[h].pc \in {"charge", "body"}
    /\ ~Authorized(handler[h].request.run)
    /\ Reply(h, 401, 0)
    /\ UNCHANGED <<phaseVars, stateVars, clock, enqueued, historyVars>>

\* Content type, size, JSON or field validation (400, 413, 415).
RejectBody(h) ==
    /\ handler[h].pc = "body"
    /\ Reply(h, 400, 0)
    /\ UNCHANGED <<phaseVars, stateVars, clock, enqueued, historyVars>>

-----------------------------------------------------------------------------
(* accept. *)

\* The retained records that share the request's sequence or key.
Found(q) ==
    {i \in DOMAIN log[q.run] :
        i = q.sequence \/ (q.key # NoKey /\ log[q.run][i].key = q.key)}

MutantReplays(q) == Found(q)

\* checkpointReplay: the one record found whose fingerprint is the request's.
Replays(q) == {i \in Found(q) : Found(q) = {i} /\ log[q.run][i] = q}

Follows(q) == q.sequence \in {0, Len(log[q.run]) + 1}

Conflicts(q) ==
    /\ Replays(q) = {}
    /\ Found(q) # {} \/ ~Follows(q)

Fits(q) ==
    /\ q.run \in opened
    /\ Len(log[q.run]) < CapacityPerRun
    /\ retainedBytes[q.run] + BodySize[q.body] <= CapacityBytesPerRun
    /\ checkpointBytes + BodySize[q.body] <= CapacityBytesTotal

AcceptReplay(h) ==
    LET q == handler[h].request
    IN  /\ handler[h].pc = "body" /\ Authorized(q.run)
        /\ \E i \in Replays(q) :
               /\ Reply(h, 200, i)
               /\ receipts' = receipts \cup {[request |-> q, number |-> i]}
        /\ UNCHANGED <<phaseVars, stateVars, clock, enqueued, charges>>

AcceptConflict(h) ==
    LET q == handler[h].request
    IN  /\ handler[h].pc = "body" /\ Authorized(q.run)
        /\ Conflicts(q)
        /\ Reply(h, 409, 0)
        /\ UNCHANGED <<phaseVars, stateVars, clock, enqueued, historyVars>>

IsNew(q) == Replays(q) = {} /\ ~Conflicts(q)

\* No room, or the clock, the random source or onAccepted fails.
AcceptUnavailable(h) ==
    LET q == handler[h].request
    IN  /\ handler[h].pc = "body" /\ Authorized(q.run)
        /\ IsNew(q)
        /\ Reply(h, 503, 0)
        /\ UNCHANGED <<phaseVars, stateVars, clock, enqueued, historyVars>>

\* onAccepted takes the record, then the state is updated.
AcceptNew(h) ==
    LET q == handler[h].request
        r == q.run
        n == Len(log[r]) + 1
    IN  /\ handler[h].pc = "body" /\ Authorized(r)
        /\ IsNew(q) /\ Fits(q)
        /\ enqueued' = [enqueued EXCEPT ![r] = Append(@, q)]
        /\ log' = [log EXCEPT ![r] = Append(@, q)]
        /\ retainedBytes' = [retainedBytes EXCEPT ![r] = @ + BodySize[q.body]]
        /\ checkpointBytes' = checkpointBytes + BodySize[q.body]
        /\ Reply(h, 201, n)
        /\ receipts' = receipts \cup {[request |-> q, number |-> n]}
        /\ UNCHANGED <<phaseVars, opened, rateTokens, rateUpdated, clock, charges>>

-----------------------------------------------------------------------------
(* The Run's life. *)

MutantDropKeepsTotal(r) ==
    /\ opened' = opened \ {r}
    /\ log' = [log EXCEPT ![r] = <<>>]
    /\ retainedBytes' = [retainedBytes EXCEPT ![r] = 0]
    /\ UNCHANGED <<rateTokens, rateUpdated, checkpointBytes>>

MutantDropKeepsState(r) == UNCHANGED stateVars

dropCheckpointStateLocked(r) ==
    /\ opened' = opened \ {r}
    /\ log' = [log EXCEPT ![r] = <<>>]
    /\ retainedBytes' = [retainedBytes EXCEPT ![r] = 0]
    /\ checkpointBytes' = IF checkpointBytes < retainedBytes[r] THEN 0
                          ELSE checkpointBytes - retainedBytes[r]
    /\ UNCHANGED <<rateTokens, rateUpdated>>

RunStep ==
    /\ \/ /\ \E r \in Runs : Register(r) \/ BeginEnd(r) \/ AbortEnd(r)
          /\ UNCHANGED stateVars
       \/ \E r \in Runs : CompleteEnd(r) /\ dropCheckpointStateLocked(r)
       \/ \E r \in Runs : Lapse({r}) /\ UNCHANGED stateVars
    /\ UNCHANGED <<handler, clock, enqueued, historyVars>>

Tick ==
    /\ clock < MaxClock
    /\ clock' = clock + 1
    /\ UNCHANGED <<phaseVars, stateVars, handler, enqueued, historyVars>>

HandlerStep(h) ==
    \/ authorizeAndCharge(h)
    \/ Unauthorized(h)
    \/ RejectBody(h)
    \/ Cancelled(h)
    \/ AcceptReplay(h)
    \/ AcceptConflict(h)
    \/ AcceptUnavailable(h)
    \/ AcceptNew(h)

\* Any client that holds a Run's token may send any request.
Next ==
    \/ Tick
    \/ RunStep
    \/ \E h \in Handlers, q \in CheckpointRequest : Receive(h, q)
    \/ \E h \in Handlers : HandlerStep(h)
    \/ \E h \in Handlers : Replied(h) /\ UNCHANGED <<phaseVars, stateVars, clock, enqueued, historyVars>>

Spec == IngestInit /\ [][Next]_ingestVars
-----------------------------------------------------------------------------
(* Properties. *)

\* Every variable has its type.
TypeOK ==
    /\ PhaseTypeOK
    /\ opened \in SUBSET Runs
    /\ log \in [Runs -> Seq(CheckpointRequest)]
    /\ rateTokens \in [Runs -> Nat]
    /\ rateUpdated \in [Runs -> Nat]
    /\ retainedBytes \in [Runs -> Nat]
    /\ checkpointBytes \in Nat
    /\ handler \in [Handlers -> HandlerRecord]
    /\ clock \in Nat
    /\ enqueued \in [Runs -> Seq(CheckpointRequest)]
    /\ receipts \in SUBSET [request : CheckpointRequest, number : Nat]
    /\ charges \in [Runs -> Seq(Nat)]

\* The store's byte total is what the Runs with a state retain, however
\* acceptances and terminations interleave, so the clamp at zero in
\* dropCheckpointStateLocked never hides a loss, and it stays within the cap.
BytesBalance ==
    /\ checkpointBytes = MapThenSumSet(LAMBDA r : retainedBytes[r], opened)
    /\ checkpointBytes <= CapacityBytesTotal

\* A handler that was charged before its Run ended does not bring the dropped
\* state of the Run back.
EndedRunHoldsNothing ==
    \A r \in Runs : phase[r] = "ended" => r \notin opened /\ log[r] = <<>>

\* docs/checkpoint-ingest.md: a failed hand-off consumes no sequence and a
\* replay does not hand off again.  The pipeline has taken exactly the retained
\* records, once each and in sequence order.
EnqueuedIsLog == \A r \in opened : enqueued[r] = log[r]

\* The receipts for one Run: a repeated request gets the record it got first,
\* two records never answer for one key, and one record never answers for two
\* requests.
ReceiptsAreStable ==
    \A a, b \in receipts : a.request.run = b.request.run =>
        /\ a.request = b.request => a.number = b.number
        /\ a.number = b.number => a.request = b.request
        /\ a.request.key = b.request.key /\ a.request.key # NoKey => a = b

\* A receipt outlives the handler: the record it names was handed to the
\* pipeline under that sequence and is never replaced.
ReceiptsAreEnqueued ==
    \A a \in receipts :
        /\ a.number \in DOMAIN enqueued[a.request.run]
        /\ enqueued[a.request.run][a.number] = a.request

\* In every stretch of time, and not only since its first request, a Run is
\* charged at most a burst of RequestsPerSecond and one request for each unit
\* that passes.
RateIsBounded ==
    \A r \in Runs : \A i, j \in DOMAIN charges[r] :
        i <= j => (j - i) + 1 <= RequestsPerSecond + (charges[r][j] - charges[r][i])
=============================================================================
