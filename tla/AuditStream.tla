----------------------------- MODULE AuditStream -----------------------------
(***************************************************************************)
(* A standalone audit with a dashboard: the lines RunAudit emits pass       *)
(* through a JSON line sink to the hub, the overview counters and the drop  *)
(* diagnostics.  Output arrives in arbitrary chunks of symbols: an EOL, a   *)
(* blank, or a header, which stands for all the bytes of one JSON record.   *)
(***************************************************************************)
EXTENDS Integers, Sequences, FiniteSets, SequencesExt

CONSTANTS Headers,            \* records the audit emits
          MaxLine,            \* maxJSONLineBytes, in symbols
          CounterMax,         \* math.MaxUint64
          MaxInput, MaxChunk  \* bounds on what is written, in all and at once

ASSUME SinkAssumption ==
    MaxLine \in Nat \ {0} /\ CounterMax \in Nat /\ MaxInput \in Nat /\ MaxChunk \in Nat

VARIABLES written,            \* history: everything written to the sink
          sink,               \* [buffer, discardLine]
          feed,               \* history: the messages the hub took
          totals,             \* [status, kernelEvents, policyHits, blocked]
          dropTotal,          \* DiagnosticsState.drops, for one event type
          loadAttach,         \* DiagnosticsState.loadAttach.Status
          auditRun            \* runAudit: "loading", "streaming", "closed"

auditVars == <<written, sink, feed, totals, dropTotal, loadAttach, auditRun>>

\* What a header decides: recordHeader, with "" for a field left out.
Malformed == [valid |-> FALSE, record |-> "", event |-> "", result |-> "", dropped |-> 0]
EOL == [Malformed EXCEPT !.event = "eol"]
EmptyLine == [Malformed EXCEPT !.event = "blank"]

\* startLiveAPI.
AuditInit ==
    /\ written = <<>> /\ sink = [buffer |-> <<>>, discardLine |-> FALSE] /\ feed = <<>>
    /\ totals = [status |-> "active", kernelEvents |-> 0, policyHits |-> 0, blocked |-> 0]
    /\ dropTotal = 0 /\ loadAttach = "unknown" /\ auditRun = "loading"

-----------------------------------------------------------------------------
KernelFact(h) == h.record = "" /\ h.event \notin {"drop_notice", "self_diag"}

\* The classification in publishLine.
MessageSource(h) ==
    CASE h.record = "" -> IF KernelFact(h) THEN "kernel_fact" ELSE "diagnostic"
      [] h.record = "agent_checkpoint" -> "agent_claim"
      [] h.record = "containment_result" -> "containment_result"
      [] h.record \in {"derived_record_error", "drop_notice", "self_diag"} -> "diagnostic"
      [] OTHER -> "policy_decision"

\* A drop notice needs a positive count to be published.
DropNotice(h) == "drop_notice" = IF h.record # "" THEN h.record ELSE h.event
Publishable(h) == h.valid /\ (DropNotice(h) => h.dropped > 0)

\* ObserveEvent refuses the whole update when any counter it moves is full.
ObserveEvent(o, h) ==
    IF o.kernelEvents = CounterMax \/ (h.result = "blocked" /\ o.blocked = CounterMax) THEN o
    ELSE [o EXCEPT !.kernelEvents = @ + 1, !.blocked = IF h.result = "blocked" THEN @ + 1 ELSE @]

ObservePolicyHit(o) == IF o.policyHits = CounterMax THEN o ELSE [o EXCEPT !.policyHits = @ + 1]

ObserveDrop(total, count) == IF total > CounterMax - count THEN total ELSE total + count

\* publishLine: publish on the hub, then OnPublished.
publishLine(state, h) ==
    IF ~Publishable(h) THEN state
    ELSE [state EXCEPT
            !.feed = Append(@, [source |-> MessageSource(h), header |-> h]),
            !.overview = IF KernelFact(h) THEN ObserveEvent(@, h)
                         ELSE IF h.record = "policy_decision" THEN ObservePolicyHit(@) ELSE @,
            !.drops = IF DropNotice(h) THEN ObserveDrop(@, h.dropped) ELSE @]

\* The record of a line: json.Unmarshal takes one value among blanks.
Decoded(line) ==
    LET solid == SelectSeq(line, LAMBDA s : s # EmptyLine)
    IN  IF Len(solid) = 1 THEN solid[1] ELSE Malformed

\* The rest of a line too long is taken for a line.
MutantTake(state, piece) ==
    IF Len(state.buffer) + Len(piece) > MaxLine THEN [state EXCEPT !.buffer = <<>>]
    ELSE [state EXCEPT !.buffer = @ \o piece]

\* One piece of a line joins the buffer, or makes the rest of its line discarded.
Take(state, piece) ==
    IF state.discardLine THEN state
    ELSE IF Len(state.buffer) + Len(piece) > MaxLine
         THEN [state EXCEPT !.buffer = <<>>, !.discardLine = TRUE]
         ELSE [state EXCEPT !.buffer = @ \o piece]

\* A complete line that is neither discarded nor blank is published.
Complete(state) ==
    LET published == IF state.discardLine \/ ToSet(state.buffer) \subseteq {EmptyLine} THEN state
                     ELSE publishLine(state, Decoded(state.buffer))
    IN  [published EXCEPT !.buffer = <<>>, !.discardLine = FALSE]

\* The pieces between the EOLs of a chunk, the last one unfinished.
Pieces(chunk) ==
    LET cut == SetToSortSeq({i \in DOMAIN chunk : chunk[i] = EOL} \cup {0, Len(chunk) + 1}, <)
    IN  [k \in 1 .. Len(cut) - 1 |-> SubSeq(chunk, cut[k] + 1, cut[k + 1] - 1)]

\* JSONLineSink.Write.
Write(chunk) ==
    LET start == [buffer |-> sink.buffer, discardLine |-> sink.discardLine,
                  feed |-> feed, overview |-> totals, drops |-> dropTotal]
        pieces == Pieces(chunk)
        done == FoldLeft(LAMBDA state, piece : Complete(Take(state, piece)), start, Front(pieces))
        end == Take(done, Last(pieces))
    IN  /\ auditRun = "streaming"
        /\ Len(written) + Len(chunk) <= MaxInput
        /\ written' = written \o chunk
        /\ sink' = [buffer |-> end.buffer, discardLine |-> end.discardLine]
        /\ feed' = end.feed /\ totals' = end.overview /\ dropTotal' = end.drops
        /\ UNCHANGED <<loadAttach, auditRun>>

\* The hooks are attached and the drop monitor runs; OnReady follows.
Attached ==
    /\ auditRun = "loading" /\ auditRun' = "streaming"
    /\ UNCHANGED <<written, sink, feed, totals, dropTotal, loadAttach>>

\* OnReady: MarkHooksReady.
hooksReady ==
    /\ auditRun = "streaming" /\ loadAttach = "unknown" /\ loadAttach' = "available"
    /\ UNCHANGED <<written, sink, feed, totals, dropTotal, auditRun>>

\* MarkLoadAttachFailed: a failure after the hooks were attached is another matter.
MarkLoadAttachFailed(err) == IF err /\ loadAttach # "available" THEN "unavailable" ELSE loadAttach

\* RunAudit returned, with or without an error: hooksFailed, then close.
RunReturns(err) ==
    /\ \/ auditRun = "loading" /\ err
       \/ auditRun = "streaming" /\ loadAttach = "available"
    /\ loadAttach' = MarkLoadAttachFailed(err)
    /\ totals' = [totals EXCEPT !.status = IF err THEN "failed" ELSE "finished"]
    /\ auditRun' = "closed"
    /\ UNCHANGED <<written, sink, feed, dropTotal>>

AuditNext ==
    \/ Attached \/ hooksReady \/ \E err \in BOOLEAN : RunReturns(err)
    \/ \E chunk \in SeqOf(Headers \cup {EOL, EmptyLine}, MaxChunk) : Write(chunk)

-----------------------------------------------------------------------------
\* The hub receives the complete, publishable lines of at most MaxLine symbols,
\* in order, however the output was cut into chunks, and the overview counts the
\* kernel facts and decisions among them up to its largest count, with exactly the
\* blocked ones of the facts it counted.
FeedIsTheOutput ==
    LET lines == Front(Pieces(written))
        kept == SelectSeq(lines, LAMBDA l : Len(l) <= MaxLine /\ Publishable(Decoded(l)))
        facts == SelectSeq(feed, LAMBDA m : m.source = "kernel_fact")
        hits == SelectSeq(feed, LAMBDA m : m.source = "policy_decision")
        counted == SubSeq(facts, 1, totals.kernelEvents)
        least(n) == IF n > CounterMax THEN CounterMax ELSE n
    IN  /\ feed = [i \in DOMAIN kept |-> [source |-> MessageSource(Decoded(kept[i])),
                                          header |-> Decoded(kept[i])]]
        /\ totals.kernelEvents = least(Len(facts))
        /\ totals.blocked = Len(SelectSeq(counted, LAMBDA m : m.header.result = "blocked"))
        /\ totals.policyHits = least(Len(hits))
=============================================================================
