--------------------------- MODULE EvidenceWriter ---------------------------
(***************************************************************************)
(* store.Writer: a bounded queue, one goroutine that writes batches, a      *)
(* circuit breaker with a bounded buffer of recent records, probes that     *)
(* flush it, and the drain at shutdown.  Gap identifiers and wording of the *)
(* diagnostics are left out.                                                *)
(***************************************************************************)
EXTENDS EvidenceStore

CONSTANTS Records,        \* 1 .. the number of records ever submitted
          Invalid,        \* records that Redactor.Apply refuses
          SizeOf,         \* bytes a record takes in the recent buffer
          QueueCapacity, RecentCapacity, RecentBytes, BatchSize

ASSUME WriterAssumption ==
    /\ Records \subseteq Nat /\ Invalid \subseteq Records /\ Severity \in [Records -> 1..3]
    /\ SizeOf \in [Records -> Nat \ {0}]
    /\ QueueCapacity \in Nat \ {0} /\ RecentCapacity \in Nat \ {0} /\ RecentBytes \in Nat \ {0}
    /\ BatchSize \in 1 .. QueueCapacity /\ BatchSize <= MaxBatch

VARIABLES queue, batch,
          recent, recentBytes,
          circuitOpen,
          queueDrops, storeDrops,
          writerClosing,
          writerPhase,    \* the goroutine: "run", then "probe", "flush", "done"
          closeErr,
          accepted,       \* history: records for which Submit returned true, in order
          lost            \* history: records counted in queueDrops or storeDrops

writerVars == <<queue, batch, recent, recentBytes, circuitOpen, queueDrops, storeDrops,
                writerClosing, writerPhase, closeErr, accepted, lost>>

NewWriter ==
    /\ queue = <<>> /\ batch = <<>> /\ recent = <<>> /\ recentBytes = 0
    /\ circuitOpen = FALSE
    /\ queueDrops = 0 /\ storeDrops = 0
    /\ writerClosing = FALSE /\ writerPhase = "run" /\ closeErr = FALSE
    /\ accepted = <<>> /\ lost = {}

\* Redactor.Apply and Record.validate.
Apply(record) == record \notin Invalid

\* Submit never waits: the record is queued, counted as lost, or refused
\* without a count because the writer is closing.
Submit(record) ==
    /\ \/ writerClosing /\ UNCHANGED <<queue, queueDrops, storeDrops, accepted, lost>>
       \/ /\ ~writerClosing /\ ~Apply(record)
          /\ storeDrops' = storeDrops + 1 /\ lost' = lost \cup {record}
          /\ UNCHANGED <<queue, queueDrops, accepted>>
       \/ /\ ~writerClosing /\ Apply(record) /\ Len(queue) < QueueCapacity
          /\ queue' = Append(queue, record) /\ accepted' = Append(accepted, record)
          /\ UNCHANGED <<queueDrops, storeDrops, lost>>
       \/ /\ ~writerClosing /\ Apply(record) /\ Len(queue) >= QueueCapacity
          /\ queueDrops' = queueDrops + 1 /\ lost' = lost \cup {record}
          /\ UNCHANGED <<queue, storeDrops, accepted>>
    /\ UNCHANGED <<batch, recent, recentBytes, circuitOpen, writerClosing, writerPhase, closeErr>>

\* A record that does not fit is not counted.
MutantBufferOne(state, record) ==
    IF Len(state.recent) >= RecentCapacity \/ state.bytes + SizeOf[record] > RecentBytes
    THEN state
    ELSE [state EXCEPT !.recent = Append(@, record), !.bytes = @ + SizeOf[record]]

\* One record of buffer's loop.
BufferOne(state, record) ==
    IF Len(state.recent) >= RecentCapacity \/ state.bytes + SizeOf[record] > RecentBytes
    THEN [state EXCEPT !.lost = @ \cup {record}]
    ELSE [state EXCEPT !.recent = Append(@, record), !.bytes = @ + SizeOf[record]]

Buffered(records) ==
    LET after[i \in 0 .. Len(records)] ==
            IF i = 0 THEN [recent |-> recent, bytes |-> recentBytes, lost |-> {}]
            ELSE BufferOne(after[i - 1], records[i])
    IN  after[Len(records)]

buffer(records) ==
    LET b == Buffered(records)
    IN  /\ recent' = b.recent /\ recentBytes' = b.bytes
        /\ storeDrops' = storeDrops + Cardinality(b.lost) /\ lost' = lost \cup b.lost

\* An open circuit lets new batches through.
MutantFlush(records) ==
    \E o \in AppendBatch(records) :
        /\ Store(records, o)
        /\ circuitOpen' = (circuitOpen \/ ~o.ok)
        /\ IF o.ok THEN UNCHANGED <<recent, recentBytes, storeDrops, lost>> ELSE buffer(records)

\* flush: to the store, or to the recent buffer when the circuit is open or
\* the append fails.
flush(records) ==
    \/ circuitOpen /\ buffer(records) /\ UNCHANGED <<circuitOpen, storeVars>>
    \/ /\ ~circuitOpen
       /\ \E o \in AppendBatch(records) :
             /\ Store(records, o)
             /\ circuitOpen' = ~o.ok
             /\ IF o.ok THEN UNCHANGED <<recent, recentBytes, storeDrops, lost>> ELSE buffer(records)

ProbeSends == circuitOpen /\ recent # <<>>

\* The circuit closes although the append failed.
MutantProbeCloses ==
    /\ ProbeSends
    /\ \E o \in AppendBatch(recent) :
          /\ Store(recent, o)
          /\ recent' = IF o.ok THEN <<>> ELSE recent
          /\ recentBytes' = IF o.ok THEN 0 ELSE recentBytes
          /\ circuitOpen' = FALSE

\* The buffer is emptied although the append failed.
MutantProbe ==
    /\ ProbeSends
    /\ \E o \in AppendBatch(recent) :
          /\ Store(recent, o)
          /\ recent' = <<>> /\ recentBytes' = 0
          /\ circuitOpen' = ~o.ok

\* probe: the whole recent buffer is one batch.
probe ==
    /\ ProbeSends
    /\ \E o \in AppendBatch(recent) :
          /\ Store(recent, o)
          /\ recent' = IF o.ok THEN <<>> ELSE recent
          /\ recentBytes' = IF o.ok THEN 0 ELSE recentBytes
          /\ circuitOpen' = ~o.ok

\* run: a record is received; a full batch is flushed.
Receive ==
    /\ writerPhase = "run" /\ queue # <<>>
    /\ queue' = Tail(queue)
    /\ LET filled == Append(batch, Head(queue))
       IN  \/ Len(filled) >= BatchSize /\ flush(filled) /\ batch' = <<>>
           \/ /\ Len(filled) < BatchSize /\ batch' = filled
              /\ UNCHANGED <<recent, recentBytes, storeDrops, lost, circuitOpen, storeVars>>
    /\ UNCHANGED <<queueDrops, writerClosing, writerPhase, closeErr, accepted>>

FlushTick ==
    /\ writerPhase = "run" /\ batch # <<>>
    /\ flush(batch) /\ batch' = <<>>
    /\ UNCHANGED <<queue, queueDrops, writerClosing, writerPhase, closeErr, accepted>>

RetryTick ==
    /\ writerPhase = "run" /\ probe
    /\ UNCHANGED <<queue, batch, queueDrops, storeDrops, lost, writerClosing, writerPhase, closeErr, accepted>>

\* What is still queued is left there.
MutantDrain ==
    /\ writerPhase = "run" /\ writerClosing
    /\ writerPhase' = "probe"
    /\ UNCHANGED <<queue, batch, recent, recentBytes, circuitOpen, queueDrops, storeDrops, writerClosing,
                   closeErr, accepted, lost, storeVars>>

\* run after cancel: the whole queue joins the batch, then one last probe ...
Drain ==
    /\ writerPhase = "run" /\ writerClosing
    /\ batch' = batch \o queue /\ queue' = <<>>
    /\ writerPhase' = "probe"
    /\ UNCHANGED <<recent, recentBytes, circuitOpen, queueDrops, storeDrops, writerClosing,
                   closeErr, accepted, lost, storeVars>>

LastProbe ==
    /\ writerPhase = "probe" /\ writerPhase' = "flush"
    /\ \/ probe
       \/ ~ProbeSends /\ UNCHANGED <<recent, recentBytes, circuitOpen, storeVars>>
    /\ UNCHANGED <<queue, batch, queueDrops, storeDrops, lost, writerClosing, closeErr, accepted>>

\* ... and one flush; what stays in the recent buffer is reported.
LastFlush ==
    /\ writerPhase = "flush" /\ writerPhase' = "done"
    /\ \/ batch # <<>> /\ flush(batch)
       \/ batch = <<>> /\ UNCHANGED <<recent, recentBytes, storeDrops, lost, circuitOpen, storeVars>>
    /\ batch' = <<>>
    /\ closeErr' = (recent' # <<>>)
    /\ UNCHANGED <<queue, queueDrops, writerClosing, accepted>>

Worker == Receive \/ FlushTick \/ RetryTick \/ Drain \/ LastProbe \/ LastFlush

\* Close begins: no Submit succeeds from here on.
BeginClose ==
    /\ ~writerClosing /\ writerClosing' = TRUE
    /\ UNCHANGED <<queue, batch, recent, recentBytes, circuitOpen, queueDrops, storeDrops,
                   writerPhase, closeErr, accepted, lost>>

\* The check managedDiagnostics adds to the diagnostics page.
DiagnosticsWarn == circuitOpen \/ queueDrops # 0 \/ storeDrops # 0

-----------------------------------------------------------------------------
InFlight == Range(queue) \cup Range(batch) \cup Range(recent)
=============================================================================
