---------------------------- MODULE EvidencePath ----------------------------
(***************************************************************************)
(* Evidence on its way through the managed Core: the pipeline worker emits  *)
(* each record to the writer and then to the live stream, handlers report   *)
(* Run changes to the writer, and serveManaged shuts all of it down: the    *)
(* pipeline, the hub, the writer, the database, each wait with a timeout.   *)
(***************************************************************************)
EXTENDS EvidenceWriter

CONSTANT PipelineCapacity

ASSUME PathAssumption == PipelineCapacity \in Nat

VARIABLES next,           \* the record made last
          inputs,         \* RuntimePipeline.queue
          pipeClosing,
          emitting,       \* the record emit has submitted and not yet published
          hubClosed, published,
          core,           \* progress of the shutdown
          failed          \* serveManaged will return an error

pathVars == <<next, inputs, pipeClosing, emitting, hubClosed, published, core, failed>>
evidenceVars == <<storeVars, writerVars, pathVars>>

NoRecord == 0

EvidenceInit ==
    /\ OpenSQLite /\ NewWriter
    /\ next = 0
    /\ inputs = <<>> /\ pipeClosing = FALSE /\ emitting = NoRecord
    /\ hubClosed = FALSE /\ published = {}
    /\ core = "serving" /\ failed = FALSE

NewRecord == next + 1 \in Records /\ next' = next + 1

\* RuntimePipeline.submit: queued, or counted and refused.
SubmitInput ==
    /\ NewRecord
    /\ inputs' = IF ~pipeClosing /\ Len(inputs) < PipelineCapacity THEN Append(inputs, next') ELSE inputs
    /\ UNCHANGED <<storeVars, writerVars, pipeClosing, emitting, hubClosed, published, core, failed>>

\* RuntimePipeline.RunChanged, on the goroutine of a handler.
RunChangedRecord ==
    /\ NewRecord
    /\ Submit(next')
    /\ UNCHANGED <<storeVars, inputs, pipeClosing, emitting, hubClosed, published, core, failed>>

\* emit: redaction may refuse the record; otherwise it goes to the writer,
\* and to the hub whatever the writer answered.
EmitSubmit ==
    /\ emitting = NoRecord /\ inputs # <<>>
    /\ inputs' = Tail(inputs)
    /\ IF Apply(Head(inputs))
       THEN Submit(Head(inputs)) /\ emitting' = Head(inputs)
       ELSE UNCHANGED <<writerVars, emitting>>
    /\ UNCHANGED <<storeVars, next, pipeClosing, hubClosed, published, core, failed>>

EmitPublish ==
    /\ emitting # NoRecord
    /\ emitting' = NoRecord
    /\ published' = IF hubClosed THEN published ELSE published \cup {emitting}
    /\ UNCHANGED <<storeVars, writerVars, next, inputs, pipeClosing, hubClosed, core, failed>>

\* shutdown: pipeline.Close, which waits for the worker or its timeout.
ClosePipeline ==
    /\ core = "serving" /\ core' = "pipeline"
    /\ pipeClosing' = TRUE
    /\ UNCHANGED <<storeVars, writerVars, next, inputs, emitting, hubClosed, published, failed>>

PipelineClosed ==
    /\ core = "pipeline" /\ core' = "hub"
    /\ \/ inputs = <<>> /\ emitting = NoRecord /\ UNCHANGED failed
       \/ failed' = TRUE
    /\ UNCHANGED <<storeVars, writerVars, next, inputs, pipeClosing, emitting, hubClosed, published>>

\* The deferred calls of serveManaged, last registered first.
CloseHub ==
    /\ core = "hub" /\ core' = "writer"
    /\ hubClosed' = TRUE
    /\ UNCHANGED <<storeVars, writerVars, next, inputs, pipeClosing, emitting, published, failed>>

CloseWriter ==
    /\ core = "writer" /\ core' = "wait"
    /\ BeginClose
    /\ UNCHANGED <<storeVars, next, inputs, pipeClosing, emitting, hubClosed, published, failed>>

WriterClosed ==
    /\ core = "wait" /\ core' = "database"
    /\ \/ writerPhase = "done" /\ failed' = (failed \/ closeErr)
       \/ failed' = TRUE
    /\ UNCHANGED <<storeVars, writerVars, next, inputs, pipeClosing, emitting, hubClosed, published>>

CloseDatabase ==
    /\ core = "database" /\ core' = "closed"
    /\ \E ok \in BOOLEAN : CloseSQLite(ok) /\ failed' = (failed \/ ~ok)
    /\ UNCHANGED <<writerVars, next, inputs, pipeClosing, emitting, hubClosed, published>>

WorkerStep == Worker /\ UNCHANGED pathVars
StorageStep == (StorageFails \/ StorageRecovers) /\ UNCHANGED <<writerVars, pathVars>>

ShutdownStep == PipelineClosed \/ CloseHub \/ CloseWriter \/ WriterClosed \/ CloseDatabase

EvidenceNext ==
    \/ SubmitInput \/ RunChangedRecord \/ EmitSubmit \/ EmitPublish
    \/ ClosePipeline \/ ShutdownStep
    \/ WorkerStep \/ StorageStep

\* The writer's goroutine keeps running: its select serves a ticker that has
\* fired, and the queue, in the end.  Every wait of the shutdown has a timeout.
EvidenceFairness ==
    /\ WF_evidenceVars(Receive /\ UNCHANGED pathVars)
    /\ WF_evidenceVars(FlushTick /\ UNCHANGED pathVars)
    /\ WF_evidenceVars(RetryTick /\ UNCHANGED pathVars)
    /\ WF_evidenceVars(ShutdownStep)

EvidenceSpec == EvidenceInit /\ [][EvidenceNext]_evidenceVars /\ EvidenceFairness

-----------------------------------------------------------------------------
\* The bytes of the records of a buffer.
BytesOf(records) ==
    LET sum[i \in 0 .. Len(records)] == IF i = 0 THEN 0 ELSE sum[i - 1] + SizeOf[records[i]]
    IN  sum[Len(records)]

\* Every record Submit accepted is in exactly one place: queue, batch, recent
\* buffer, database (or pruned from it), or counted as dropped; the counters
\* count every lost record once, and recentBytes is what the buffer holds, within
\* its two limits.  What
\* the live stream has shown is among these records: the hub closes before the
\* writer starts to refuse without a count.
EvidenceBalance ==
    /\ Range(accepted) \subseteq InFlight \cup rows \cup pruned \cup lost
    /\ Len(queue) + Len(batch) + Len(recent) + Cardinality(rows \cup pruned)
         + Cardinality(Range(accepted) \cap lost) = Len(accepted)
    /\ queueDrops + storeDrops = Cardinality(lost)
    /\ recentBytes = BytesOf(recent)
    /\ Len(recent) <= RecentCapacity /\ recentBytes <= RecentBytes
    /\ published \subseteq Range(accepted) \cup lost

\* While a record waits in the queue, a batch or the recent buffer, no record
\* accepted after it reaches the database: recovery keeps the order.
NoOvertaking ==
    \A i, j \in DOMAIN accepted :
        i < j /\ accepted[i] \in InFlight => accepted[j] \notin rows \cup pruned

\* As long as the diagnostics show no warning, every record the writer was
\* given is stored, or still in the queue or the current batch: a closed
\* circuit leaves nothing behind in the recent buffer.
QuietMeansStored ==
    ~DiagnosticsWarn =>
        /\ lost = {}
        /\ Range(accepted) \subseteq rows \cup pruned \cup Range(queue) \cup Range(batch)

\* If serveManaged ends without an error, the pipeline has emptied its queue
\* and every accepted record is in the database, was pruned, or is counted.
CleanExitLosesNothing ==
    core = "closed" /\ ~failed =>
        /\ inputs = <<>> /\ emitting = NoRecord
        /\ Range(accepted) \subseteq rows \cup pruned \cup lost

\* Once the storage works again for good, the circuit does not stay open: as
\* long as the writer is not closed, probes empty the recent buffer and close
\* it (a closed circuit leaves nothing in the buffer, see QuietMeansStored).
EvidenceSettles == <>[]healthy => []<>(~circuitOpen \/ writerClosing)
=============================================================================
