------------------------------ MODULE RunStore ------------------------------
(***************************************************************************)
(* internal/api: RunStore, the table of Agent Runs and its indexes.  Each   *)
(* operator is one critical section of RunStore.mu.                         *)
(*                                                                         *)
(* The fields of AgentRun that control depends on are functions of the Run  *)
(* (runStatus, runCgroup, ...); runStatus "none" is a Run not in the table. *)
(***************************************************************************)
EXTENDS ScopeManager

CONSTANTS NoCgroup,
          TokenTTL, RunTTL, TombstoneTTL,
          TombstoneMaxEntries

ASSUME StoreAssumption ==
    /\ NoCgroup \notin Cgroups
    /\ TokenTTL \in Nat \ {0} /\ RunTTL \in Nat \ {0} /\ TombstoneTTL \in Nat \ {0}
    /\ TombstoneMaxEntries \in Nat \ {0}

VARIABLES runStatus,      \* AgentRun.Status, "none" when absent from runs
          runCgroup,      \* AgentRun.CgroupID
          runRegistered,  \* AgentRun.RegisteredAt
          runEnded,       \* AgentRun.EndedAt, -1 when zero
          activeByCgroup, latestByCgroup, liveByIdentity,
          terminating,
          tombstones,     \* the map's entries, each with its key
          tombstoneSeq

storeVars == <<runStatus, runCgroup, runRegistered, runEnded, activeByCgroup,
               latestByCgroup, liveByIdentity, terminating, tombstones, tombstoneSeq>>

Statuses == {"active", "finished", "failed", "expired"}

runTombstone == [cookie : Cookies, run : Runs, status : Statuses,
                 expiresAt : Nat, sequence : Nat]

NewRunStore ==
    /\ runStatus = [r \in Runs |-> "none"]
    /\ runCgroup = [r \in Runs |-> NoCgroup]
    /\ runRegistered = [r \in Runs |-> 0]
    /\ runEnded = [r \in Runs |-> -1]
    /\ activeByCgroup = [c \in Cgroups |-> NoRun]
    /\ latestByCgroup = [c \in Cgroups |-> NoRun]
    /\ liveByIdentity = [k \in Cookies |-> NoRun]
    /\ terminating = {}
    /\ tombstones = {}
    /\ tombstoneSeq = 0

\* A Run in the table that has no EndedAt yet.
Live(r) == runStatus[r] # "none" /\ runEnded[r] = -1

runExpiry(r) == runRegistered[r] + RunTTL
tokenExpiry(r) == runRegistered[r] + TokenTTL

-----------------------------------------------------------------------------
(* Tombstones. *)

pruneTombstones(entries, at) == {t \in entries : at < t.expiresAt}

\* The eviction loop before an insertion: the oldest entries go until fewer
\* than TombstoneMaxEntries are left.
evictOldestTombstones(entries) ==
    {t \in entries : Cardinality({u \in entries : u.sequence > t.sequence}) < TombstoneMaxEntries - 1}

TombstonesOf(k, entries) == {t \in entries : t.cookie = k}

-----------------------------------------------------------------------------
(* Registration. *)

AddAccepts(r, c, at) ==
    /\ runStatus[r] = "none"
    /\ liveByIdentity[CookieOf[r]] = NoRun
    /\ TombstonesOf(CookieOf[r], pruneTombstones(tombstones, at)) = {}
    /\ activeByCgroup[c] = NoRun

Add(r, c, at) ==
    /\ AddAccepts(r, c, at)
    /\ runStatus' = [runStatus EXCEPT ![r] = "active"]
    /\ runCgroup' = [runCgroup EXCEPT ![r] = c]
    /\ runRegistered' = [runRegistered EXCEPT ![r] = at]
    /\ activeByCgroup' = [activeByCgroup EXCEPT ![c] = r]
    /\ latestByCgroup' = [latestByCgroup EXCEPT ![c] = r]
    /\ liveByIdentity' = [liveByIdentity EXCEPT ![CookieOf[r]] = r]
    /\ tombstones' = pruneTombstones(tombstones, at)
    /\ UNCHANGED <<runEnded, terminating, tombstoneSeq>>

\* A refused Add has pruned the tombstones already.
AddFails(r, c, at) ==
    /\ ~AddAccepts(r, c, at)
    /\ tombstones' = pruneTombstones(tombstones, at)
    /\ UNCHANGED <<runStatus, runCgroup, runRegistered, runEnded, activeByCgroup,
                   latestByCgroup, liveByIdentity, terminating, tombstoneSeq>>

-----------------------------------------------------------------------------
(* Termination. *)

MutantTerminationBeginsEnded(r) == runStatus[r] # "none" /\ r \notin terminating

MutantTerminationBeginsPending(r) == Live(r) /\ liveByIdentity[CookieOf[r]] = r

\* beginTermination returns (run, true, nil): not ended, not pending, live.
TerminationBegins(r) ==
    /\ Live(r)
    /\ r \notin terminating
    /\ liveByIdentity[CookieOf[r]] = r

beginTermination(r) ==
    /\ TerminationBegins(r)
    /\ terminating' = terminating \cup {r}
    /\ UNCHANGED <<runStatus, runCgroup, runRegistered, runEnded, activeByCgroup,
                   latestByCgroup, liveByIdentity, tombstones, tombstoneSeq>>

abortTermination(r) ==
    /\ terminating' = terminating \ {r}
    /\ UNCHANGED <<runStatus, runCgroup, runRegistered, runEnded, activeByCgroup,
                   latestByCgroup, liveByIdentity, tombstones, tombstoneSeq>>

\* "expired" overrides any status; the others replace only "active".
terminalStatus(r, status) ==
    IF status = "expired" \/ runStatus[r] = "active" THEN status ELSE runStatus[r]

MutantForgetIdentity(k) == liveByIdentity

ForgetIdentity(k) == [liveByIdentity EXCEPT ![k] = NoRun]

completeTermination(r, status, at) ==
    LET k    == CookieOf[r]
        kept == evictOldestTombstones(pruneTombstones(tombstones, at))
    IN  /\ r \in terminating
        /\ runStatus' = [runStatus EXCEPT ![r] = terminalStatus(r, status)]
        /\ runEnded' = [runEnded EXCEPT ![r] = at]
        /\ terminating' = terminating \ {r}
        /\ activeByCgroup' = IF activeByCgroup[runCgroup[r]] = r
                             THEN [activeByCgroup EXCEPT ![runCgroup[r]] = NoRun]
                             ELSE activeByCgroup
        /\ liveByIdentity' = ForgetIdentity(k)
        /\ tombstoneSeq' = tombstoneSeq + 1
        /\ tombstones' = (kept \ TombstonesOf(k, kept)) \cup
               {[cookie |-> k, run |-> r, status |-> terminalStatus(r, status),
                 expiresAt |-> at + TombstoneTTL, sequence |-> tombstoneSeq + 1]}
        /\ UNCHANGED <<runCgroup, runRegistered, latestByCgroup>>

expiredActiveRunIDs(at) == {r \in Runs : runStatus[r] = "active" /\ at >= runExpiry(r)}

-----------------------------------------------------------------------------
(* Queries. *)

\* attribute: the live Run of the identity, else its tombstone's, else none
\* (stale).  The caller also prunes.
attribute(k, entries) ==
    IF liveByIdentity[k] # NoRun THEN liveByIdentity[k]
    ELSE IF TombstonesOf(k, entries) # {} THEN (CHOOSE t \in TombstonesOf(k, entries) : TRUE).run
    ELSE NoRun

MutantVerifyWhileTerminating(r, at) ==
    /\ runStatus[r] = "active"
    /\ at < runExpiry(r)
    /\ at < tokenExpiry(r)

\* VerifyIngestToken for the Run's own token at time at.
VerifyIngestToken(r, at) ==
    /\ runStatus[r] = "active"
    /\ r \notin terminating
    /\ at < runExpiry(r)
    /\ at < tokenExpiry(r)

activeRunForPolicyEvent(c, k) ==
    LET r == liveByIdentity[k]
    IN  IF /\ r # NoRun
           /\ r \notin terminating
           /\ runStatus[r] = "active"
           /\ runCgroup[r] = c
           /\ CookieOf[r] = k
        THEN r ELSE NoRun

-----------------------------------------------------------------------------
StoreTypeOK ==
    /\ runStatus \in [Runs -> Statuses \cup {"none"}]
    /\ runCgroup \in [Runs -> Cgroups \cup {NoCgroup}]
    /\ runRegistered \in [Runs -> Nat]
    /\ runEnded \in [Runs -> Nat \cup {-1}]
    /\ activeByCgroup \in [Cgroups -> Runs \cup {NoRun}]
    /\ latestByCgroup \in [Cgroups -> Runs \cup {NoRun}]
    /\ liveByIdentity \in [Cookies -> Runs \cup {NoRun}]
    /\ terminating \in SUBSET Runs
    /\ tombstones \in SUBSET runTombstone
    /\ tombstoneSeq \in Nat
=============================================================================
