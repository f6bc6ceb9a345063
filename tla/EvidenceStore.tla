---------------------------- MODULE EvidenceStore ----------------------------
(***************************************************************************)
(* The SQLite evidence store: AppendBatch, its capacity maintenance and     *)
(* Close.  A record is a number, which is its id and its server time; usage *)
(* is counted in records, so a prune deletes exactly the excess.  An        *)
(* operation has a set of outcomes [rows, ok]: an unhealthy storage may     *)
(* fail it at every SQL statement.                                          *)
(***************************************************************************)
EXTENDS Integers, Sequences, FiniteSets, Functions

CONSTANTS Severity,     \* of each record: 3 critical, 2 high, 1 any other
          MaxBatch,     \* maximumBatchSize
          SoftLimit, HardLimit

ASSUME StoreAssumption ==
    /\ MaxBatch \in Nat \ {0} /\ SoftLimit \in Nat /\ HardLimit \in Nat
    /\ HardLimit >= SoftLimit + MaxBatch

VARIABLES rows,       \* evidence_records
          dbOpen,     \* SQLite.database # nil
          healthy,    \* the file system and SQLite work
          pruned      \* history: records deleted by capacity maintenance

storeVars == <<rows, dbOpen, healthy, pruned>>

OpenSQLite == rows = {} /\ dbOpen = TRUE /\ healthy = TRUE /\ pruned = {}

\* ORDER BY severity class, then server time.
PrunedBefore(r, s) ==
    \/ Severity[r] < Severity[s]
    \/ Severity[r] = Severity[s] /\ r < s

Newest(R, n) == {r \in R : Cardinality({s \in R : PrunedBefore(r, s)}) < n}

\* pruneLocked: deletes what exceeds the soft limit.  A failing statement
\* leaves the deletions of the earlier attempts.
pruneLocked(R) ==
    LET size == Cardinality(R)
    IN  IF size <= SoftLimit THEN {[rows |-> R, ok |-> TRUE]}
        ELSE IF healthy THEN {[rows |-> Newest(R, SoftLimit), ok |-> TRUE]}
        ELSE {[rows |-> Newest(R, SoftLimit), ok |-> TRUE]}
             \cup {[rows |-> Newest(R, n), ok |-> FALSE] : n \in SoftLimit .. size}

\* BEGIN ... COMMIT inserts all records, ON CONFLICT(id) DO NOTHING, or rolls
\* back; max_page_count refuses what passes the hard limit.  The maintenance
\* after it does not change the answer.
Transaction(R, new) ==
    (IF Cardinality(R \cup new) > HardLimit THEN {}
     ELSE {[rows |-> p.rows, ok |-> TRUE] : p \in pruneLocked(R \cup new)})
    \cup (IF healthy /\ Cardinality(R \cup new) <= HardLimit THEN {}
          ELSE {[rows |-> R, ok |-> FALSE]})

BatchFits(records) == Len(records) <= MaxBatch

\* What AppendBatch may do with a batch.
AppendBatch(records) ==
    IF records = <<>> THEN {[rows |-> rows, ok |-> TRUE]}
    ELSE IF ~BatchFits(records) \/ ~dbOpen THEN {[rows |-> rows, ok |-> FALSE]}
    ELSE (UNION {IF p.ok THEN Transaction(p.rows, Range(records)) ELSE {p} : p \in pruneLocked(rows)})
         \cup (IF healthy THEN {} ELSE {[rows |-> rows, ok |-> FALSE]})

\* An outcome of AppendBatch applied to the store.
Store(records, outcome) ==
    /\ rows' = outcome.rows
    /\ pruned' = pruned \cup ((rows \cup IF outcome.ok THEN Range(records) ELSE {}) \ outcome.rows)
    /\ UNCHANGED <<dbOpen, healthy>>

\* SQLite.Close: maintenance, checkpoint, and the handle is gone whatever failed.
CloseSQLite(ok) ==
    /\ \E p \in pruneLocked(rows) :
          /\ rows' = p.rows
          /\ pruned' = pruned \cup (rows \ p.rows)
          /\ ok => p.ok
          /\ healthy => ok = p.ok
    /\ dbOpen' = FALSE
    /\ UNCHANGED healthy

\* The storage fails, or recovers.
StorageFails == healthy /\ healthy' = FALSE /\ UNCHANGED <<rows, dbOpen, pruned>>
StorageRecovers == ~healthy /\ healthy' = TRUE /\ UNCHANGED <<rows, dbOpen, pruned>>
=============================================================================
