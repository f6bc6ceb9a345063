-------------------------- MODULE EvidenceTimeline --------------------------
(***************************************************************************)
(* Checkpoints and kernel facts in the pipeline worker, their correlation   *)
(* and the timeline served from the database.  The worker takes both from   *)
(* one queue, but each carries the receipt time of its own goroutine, so    *)
(* times need not follow the order of processing.                           *)
(*                                                                         *)
(* The worker correlates only what it has attributed, so stage one of       *)
(* Correlate always passes; ingested checkpoints carry no PID or TGID, so   *)
(* its process factors never score.  A checkpoint's ID is its place in      *)
(* seen, a history of all that were processed.                              *)
(***************************************************************************)
EXTENDS Integers, Sequences, FiniteSets

CONSTANTS Claims, Facts,      \* inputs: [run, type, tool], and blocked for a fact
          ReceiptTimes,
          MaxClaims,          \* capacity of RuntimePipeline.claims
          MaxSameRun,         \* claims considered for one fact
          BeforeWindow, AfterWindow, MinimumScore,
          ReadLimit,          \* rows in one snapshot
          MaxSeen, MaxFacts   \* bounds on the inputs

ASSUME TimelineAssumption ==
    /\ {MaxClaims, MaxSameRun, BeforeWindow, AfterWindow, ReadLimit} \subseteq Nat \ {0}
    /\ MinimumScore \in 1 .. 100
    /\ ReceiptTimes \subseteq Nat \ {0}

VARIABLES seen, claims,   \* claims is the worker's cache, oldest first
          sequence,       \* RuntimePipeline.sequence
          evidenceRows    \* rows with a payload in evidence_records

timelineVars == <<seen, claims, sequence, evidenceRows>>

\* NewRuntimePipeline over an empty database.
TimelineInit == seen = <<>> /\ claims = <<>> /\ sequence = 0 /\ evidenceRows = {}

-----------------------------------------------------------------------------
(* The correlator. *)

Abs(n) == IF n < 0 THEN -n ELSE n

\* boundedDelta, as the time from the checkpoint to the fact.
Delta(fact, claim) == fact.at - claim.at
InWindow(fact, claim) == Delta(fact, claim) \in -BeforeWindow .. AfterWindow

compatible(eventType, checkpointType) ==
    \/ /\ checkpointType \in {"tool_planned", "tool_started", "tool_finished"}
       /\ eventType \in {"file_open", "exec_attempt", "net_connect"}
    \/ checkpointType \in {"llm_request", "llm_response"} /\ eventType = "net_connect"

scoreCandidate(fact, claim) ==
    LET delta == Delta(fact, claim)
        window == IF delta < 0 THEN BeforeWindow ELSE AfterWindow
        tool == IF fact.tool # "" /\ fact.tool = claim.tool THEN 25 ELSE 0
        phase == IF compatible(fact.type, claim.type) THEN 15 ELSE 0
    IN  [id |-> claim.id, delta |-> delta,
         score |-> tool + phase + 5 + ((window - Abs(delta)) * 20) \div window]

\* The order the candidates are sorted in: score, nearness, ID.
Ahead(a, b) ==
    \/ a.score > b.score
    \/ a.score = b.score /\ Abs(a.delta) < Abs(b.delta)
    \/ a.score = b.score /\ Abs(a.delta) = Abs(b.delta) /\ a.id < b.id
First(candidates) == CHOOSE c \in candidates : \A d \in candidates \ {c} : Ahead(c, d)

NoLink == 0
Unmatched == [status |-> "unmatched", selected |-> NoLink, confidence |-> 0, candidates |-> {}]

Candidates(fact, recent) ==
    {c \in {scoreCandidate(fact, claim) : claim \in {r \in recent : r.run = fact.run /\ InWindow(fact, r)}} :
        c.score >= MinimumScore}

\* The first candidate is taken whatever the second one is.
MutantCorrelate(fact, recent) ==
    LET candidates == Candidates(fact, recent)
    IN  IF candidates = {} THEN Unmatched
        ELSE [status |-> "matched", selected |-> First(candidates).id,
              confidence |-> First(candidates).score, candidates |-> candidates]

\* The first candidate is selected unless the second is as good and as near.
Correlate(fact, recent) ==
    LET candidates == Candidates(fact, recent)
        best == First(candidates)
        second == First(candidates \ {best})
        conflict == /\ candidates # {best}
                    /\ second.score = best.score /\ Abs(second.delta) = Abs(best.delta)
    IN  IF candidates = {} THEN Unmatched
        ELSE [status |-> IF conflict THEN "ambiguous" ELSE "matched",
              selected |-> IF conflict THEN NoLink ELSE best.id,
              confidence |-> best.score,
              candidates |-> candidates]

-----------------------------------------------------------------------------
(* The worker. *)

\* The writer may refuse a record (see EvidencePath): then it has no row.
Emit(records) == \E stored \in SUBSET records : evidenceRows' = evidenceRows \cup stored

\* processCheckpoint: into the cache, at whose limit the oldest goes, and out.
ProcessCheckpoint(claim, at) ==
    LET id == Len(seen) + 1
        checkpoint == [id |-> id, run |-> claim.run, type |-> claim.type, tool |-> claim.tool, at |-> at]
        cached == Append(claims, checkpoint)
    IN  /\ Len(seen) < MaxSeen
        /\ seen' = Append(seen, checkpoint)
        /\ claims' = IF Len(cached) > MaxClaims THEN Tail(cached) ELSE cached
        /\ Emit({[source |-> "agent_claim", id |-> id, run |-> claim.run, at |-> at, severity |-> 1]})
        /\ UNCHANGED sequence

\* The cached claims of the Run, from the newest back until MaxSameRun are found.
Recent(run) ==
    LET own == {i \in DOMAIN claims : claims[i].run = run}
    IN  {claims[i] : i \in {k \in own : Cardinality({j \in own : j > k}) < MaxSameRun}}

\* processKernel of an attributed event: the fact with its correlation, and
\* the decision of a policy that had a hit (the containment result that may
\* follow is one more row without links).  known is a history.
ProcessKernel(input, at) ==
    LET fact == [run |-> input.run, type |-> input.type, tool |-> input.tool, at |-> at]
        row == [source |-> "kernel_fact", id |-> sequence', run |-> input.run, at |-> at,
                severity |-> IF input.blocked THEN 2 ELSE 1,
                fact |-> fact, known |-> Len(seen), correlation |-> Correlate(fact, Recent(input.run))]
        decision(later) == [source |-> "policy_decision", id |-> sequence', run |-> input.run,
                            at |-> later, severity |-> 1]
    IN  /\ sequence < MaxFacts
        /\ sequence' = sequence + 1
        /\ \/ Emit({row})
           \/ \E later \in ReceiptTimes : later >= at /\ Emit({row, decision(later)})
        /\ UNCHANGED <<seen, claims>>

\* pruneLocked: one of the least severe rows, and the oldest of those.
PruneRow ==
    /\ \E row \in evidenceRows :
          /\ \A other \in evidenceRows :
                \/ row.severity < other.severity
                \/ row.severity = other.severity /\ row.at <= other.at
          /\ evidenceRows' = evidenceRows \ {row}
    /\ UNCHANGED <<seen, claims, sequence>>

TimelineNext ==
    \/ \E claim \in Claims, at \in ReceiptTimes : ProcessCheckpoint(claim, at)
    \/ \E input \in Facts, at \in ReceiptTimes : ProcessKernel(input, at)
    \/ PruneRow

TimelineSpec == TimelineInit /\ [][TimelineNext]_timelineVars

-----------------------------------------------------------------------------
(* Reading. *)

\* ReadPayloads: the newest rows of the Run, as many as the limits of rows
\* and bytes admit.
Snapshots(run) ==
    LET own == {row \in evidenceRows : row.run = run}
    IN  {s \in SUBSET own :
            /\ Cardinality(s) <= ReadLimit
            /\ \A in \in s, out \in own \ s : out.at <= in.at}

ClaimIds(items) == {item.id : item \in {i \in items : i.source = "agent_claim"}}

\* Only the selected checkpoint is looked up.
MutantInSnapshot(correlation, ids) ==
    IF correlation.selected = NoLink \/ correlation.selected \in ids THEN correlation
    ELSE [correlation EXCEPT !.status = "checkpoint_outside_snapshot",
                             !.selected = NoLink, !.confidence = 0]

\* Evidence: links to claims outside the snapshot are removed, and with any
\* of them the selection.
InSnapshot(correlation, ids) ==
    LET kept == {c \in correlation.candidates : c.id \in ids}
        missing == \/ correlation.selected # NoLink /\ correlation.selected \notin ids
                   \/ kept # correlation.candidates
    IN  IF missing
        THEN [status |-> "checkpoint_outside_snapshot", selected |-> NoLink, confidence |-> 0,
              candidates |-> kept]
        ELSE correlation

ServedItem(item, ids) ==
    IF item.source = "kernel_fact" THEN [item EXCEPT !.correlation = InSnapshot(@, ids)] ELSE item
Served(items) == {ServedItem(item, ClaimIds(items)) : item \in items}

\* validateReferences, for the references a served item can have.
validateReferences(run, item, ids) ==
    item.source = "kernel_fact" =>
        /\ item.run = run
        /\ item.correlation.selected \in ids \cup {NoLink}
        /\ \A c \in item.correlation.candidates : c.id \in ids

\* Build refuses a timeline as a whole.  It numbers the items by time and ID.
Build(run, items) ==
    /\ \A item, other \in items :
          item # other => <<item.source, item.id>> # <<other.source, other.id>>
    /\ \A item \in items : validateReferences(run, item, ClaimIds(items))

-----------------------------------------------------------------------------
TimelineRuns == {input.run : input \in Claims \cup Facts}

\* What the documents say a match is, without the cache, the loops and the
\* sort: the claims of the Run among the newest, and the best of them.
Considered(row) ==
    LET before == 1 .. row.known
        own == {i \in before : seen[i].run = row.run}
    IN  {i \in own : /\ Cardinality({j \in before : j > i}) < MaxClaims
                     /\ Cardinality({j \in own : j > i}) < MaxSameRun
                     /\ InWindow(row.fact, seen[i])
                     /\ scoreCandidate(row.fact, seen[i]).score >= MinimumScore}

Better(row, i, j) ==
    LET a == scoreCandidate(row.fact, seen[i])
        b == scoreCandidate(row.fact, seen[j])
    IN  \/ a.score > b.score
        \/ a.score = b.score /\ Abs(a.delta) < Abs(b.delta)

\* Whatever the writer refused, the database pruned or the limits left out,
\* the timeline of a Run is served: no link in it makes Build refuse it
\* (StoredEvidenceProvider.Evidence, evidence.Build).
TimelineIsServed ==
    \A run \in TimelineRuns : \A s \in Snapshots(run) : Build(run, Served(s))

\* docs/correlation.md: a match is the one best of the newest claims of the
\* Run, "with no winner chosen by map/slice traversal order".  A served fact
\* names a checkpoint exactly if it is better than every other claim the
\* worker had, and all those with the minimum score are in the timeline.
MatchIsTheBest ==
    \A run \in TimelineRuns : \A s \in Snapshots(run) : \A item \in Served(s) :
        item.source = "kernel_fact" =>
            LET considered == Considered(item)
                best == {i \in considered : \A j \in considered \ {i} : Better(item, i, j)}
            IN  item.correlation.selected =
                    IF considered \subseteq ClaimIds(s) /\ best # {}
                    THEN CHOOSE i \in best : TRUE ELSE NoLink
=============================================================================
