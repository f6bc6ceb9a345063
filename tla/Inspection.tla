----------------------------- MODULE Inspection -----------------------------
(***************************************************************************)
(* The local checker: a workload's request is checked against content       *)
(* rules, a pinned MCP tool definition, its Run's budget and a single-use   *)
(* approval; the decision is stored before it is answered.  Requests,       *)
(* approvals and the end of Runs interleave.                                *)
(***************************************************************************)
EXTENDS Integers, FiniteSets, Bags, TLC

CONSTANTS InspectRuns,
          Slots,                   \* the slots of requests in progress
          InspectBodies,                  \* requests: route, digest of the body and what it holds
          ToolPolicy,              \* tool -> [arguments: key -> allowed values, required]
          RequestsPerRun, TrackedRuns, ApprovalCapacity, ApprovalTTL,
          MaxCheckTime, MaxAttempts, MaxGrants   \* bounds

ASSUME InspectionAssumption ==
    /\ RequestsPerRun \in Nat \ {0} /\ Slots # {} /\ IsFiniteSet(Slots)
    /\ \A body \in InspectBodies : body.form \in {"json", "unsupported_content", "body_limit", "invalid_json"}
    /\ TrackedRuns \in Nat \ {0} /\ ApprovalCapacity \in Nat
    /\ ApprovalTTL \in Nat \ {0} /\ MaxCheckTime \in Nat /\ MaxAttempts \in Nat /\ MaxGrants \in Nat

VARIABLES checkTime, activeRuns,   \* the clock, and the Runs ActiveRun accepts
          pinned,            \* the MCP definition file has its pinned digest
          approvals,         \* [run, route, digest] -> expiry
          attempts,          \* Run -> attempts counted
          checks,            \* ServeHTTP of the request in each slot
          granting,          \* Approve, between its checks and the lock
          stored,            \* the bag of decisions appended to the database
          answers,           \* history: the bag of answers given
          spent              \* history: attempts let past the budget of an active Run

inspectVars == <<checkTime, activeRuns, pinned, approvals, attempts, checks, granting, stored, answers, spent>>

IdleCheck == [pc |-> "idle"]
NoGrant == [pc |-> "idle"]

InspectInit ==
    /\ checkTime = 0 /\ activeRuns = InspectRuns /\ pinned = TRUE
    /\ approvals = <<>> /\ attempts = <<>>
    /\ checks = [q \in Slots |-> IdleCheck] /\ granting = NoGrant
    /\ stored = EmptyBag /\ answers = EmptyBag /\ spent = [r \in InspectRuns |-> 0]

\* How often a bag holds a decision.
Copies(d, bag) == IF BagIn(d, bag) THEN bag[d] ELSE 0

Decision(run, route, digest, reason) ==
    [run |-> run, route |-> route, digest |-> digest, reason |-> reason]

-----------------------------------------------------------------------------
\* checkMCP: the definition is read again for every request.  Arguments are
\* visited in any order, and the first one that offends gives the reason.
checkMCP(body) ==
    IF ~pinned THEN {"definition_changed"}
    ELSE IF body.tool \notin DOMAIN ToolPolicy THEN {"tool_denied"}
    ELSE LET tool == ToolPolicy[body.tool]
             denied == DOMAIN body.arguments \ DOMAIN tool.arguments
             beyond == {k \in DOMAIN body.arguments \ denied : body.arguments[k] \notin tool.arguments[k]}
         IN  CASE ~(tool.required \subseteq DOMAIN body.arguments) -> {"argument_required"}
               [] tool.required \subseteq DOMAIN body.arguments /\ denied \cup beyond = {} -> {"ok"}
               [] OTHER -> {"argument_denied" : k \in denied} \cup {"argument_out_of_range" : k \in beyond}

\* The content rules, in the order ServeHTTP applies them; a form other than
\* "json" is the reason the body is refused for.  A model route has no MCP.
CheckContent(body) ==
    IF body.form # "json" THEN {body.form}
    ELSE IF body.sensitive THEN {"sensitive_data"}
    ELSE IF body.route = "mcp" THEN checkMCP(body)
    ELSE {"ok"}

\* Authenticate, then a slot if one is free.
BeginCheck(run, body) ==
    LET free == {q \in Slots : checks[q].pc = "idle"}
    IN  /\ run \in activeRuns
        /\ BagCardinality(answers) + Cardinality(Slots \ free) < MaxAttempts
        /\ IF free # {}
           THEN /\ checks' = [checks EXCEPT ![CHOOSE q \in free : TRUE] =
                                 [pc |-> "budget", run |-> run, body |-> body, reason |-> ""]]
                /\ UNCHANGED answers
           ELSE /\ answers' = answers (+) SetToBag({Decision(run, body.route, "", "busy")})
                /\ UNCHANGED checks
        /\ UNCHANGED <<checkTime, activeRuns, pinned, approvals, attempts, granting, stored, spent>>

\* The first exhausted attempt is recorded, later ones are only refused.
Budget(run, held) ==
    IF held > RequestsPerRun THEN [next |-> "refuse", count |-> held]
    ELSE IF held = RequestsPerRun THEN [next |-> "audit", count |-> held + 1]
    ELSE [next |-> "content", count |-> held + 1]

\* reserveBudget forgets Runs that ended, this one included, and refuses a new
\* one when too many are tracked.
reserveBudget(q) ==
    LET run == checks[q].run
        live == [r \in DOMAIN attempts \cap activeRuns |-> attempts[r]]
        full == run \notin DOMAIN live /\ Cardinality(DOMAIN live) >= TrackedRuns
        b == IF full THEN [next |-> "refuse", count |-> 0]
             ELSE Budget(run, IF run \in DOMAIN live THEN live[run] ELSE 0)
    IN  /\ checks[q].pc = "budget"
        /\ attempts' = IF full THEN live ELSE (run :> b.count) @@ live
        /\ spent' = [spent EXCEPT ![run] = IF b.next = "content" /\ run \in activeRuns THEN @ + 1 ELSE @]
        /\ IF b.next = "refuse"
           THEN /\ checks' = [checks EXCEPT ![q] = IdleCheck]
                /\ answers' = answers (+) SetToBag({Decision(run, checks[q].body.route, "", "refused")})
           ELSE /\ checks' = [checks EXCEPT ![q].pc = IF b.next = "audit" THEN "result" ELSE "content",
                                            ![q].reason = "request_budget"]
                /\ UNCHANGED answers
        /\ UNCHANGED <<checkTime, activeRuns, pinned, approvals, granting, stored>>

InspectBody(q) ==
    /\ checks[q].pc = "content"
    /\ \E verdict \in CheckContent(checks[q].body) :
           checks' = [checks EXCEPT ![q].pc = IF verdict = "ok" THEN "approval" ELSE "result",
                                    ![q].reason = verdict]
    /\ UNCHANGED <<checkTime, activeRuns, pinned, approvals, attempts, granting, stored, answers, spent>>

approvalKey(run, route, digest) == [run |-> run, route |-> route, digest |-> digest]

Key(q) == approvalKey(checks[q].run, checks[q].body.route, checks[q].body.digest)

Approved(q) == Key(q) \in DOMAIN approvals /\ approvals[Key(q)] > checkTime

\* The approval is read and kept.
MutantConsumeApproval(q) ==
    /\ checks[q].pc = "approval"
    /\ checks' = [checks EXCEPT ![q].pc = "active", ![q].reason = IF Approved(q) THEN "checked" ELSE "approval_required"]
    /\ UNCHANGED <<checkTime, activeRuns, pinned, approvals, attempts, granting, stored, answers, spent>>

\* The approval is deleted as it is read.
ConsumeApproval(q) ==
    /\ checks[q].pc = "approval"
    /\ checks' = [checks EXCEPT ![q].pc = "active",
                                ![q].reason = IF Approved(q) THEN "checked" ELSE "approval_required"]
    /\ approvals' = [k \in DOMAIN approvals \ {Key(q)} |-> approvals[k]]
    /\ UNCHANGED <<checkTime, activeRuns, pinned, attempts, granting, stored, answers, spent>>

CheckActive(q) ==
    /\ checks[q].pc = "active"
    /\ checks' = [checks EXCEPT ![q].pc = "result",
                                ![q].reason = IF checks[q].run \in activeRuns THEN @ ELSE "inactive_run"]
    /\ UNCHANGED <<checkTime, activeRuns, pinned, approvals, attempts, granting, stored, answers, spent>>

\* Decisions taken before the body was read are recorded without a digest.
CheckAnswer(q) ==
    Decision(checks[q].run, checks[q].body.route,
             IF checks[q].reason \in {"request_budget", "unsupported_content", "body_limit"} THEN ""
             ELSE checks[q].body.digest,
             checks[q].reason)

\* The answer does not depend on the record.
MutantResult(q, ok) ==
    /\ checks[q].pc = "result"
    /\ LET d == CheckAnswer(q)
       IN  /\ stored' = IF ok THEN stored (+) SetToBag({d}) ELSE stored
           /\ answers' = answers (+) SetToBag({d})
    /\ checks' = [checks EXCEPT ![q] = IdleCheck]
    /\ UNCHANGED <<checkTime, activeRuns, pinned, approvals, attempts, granting, spent>>

\* Audit fails before or after it appends the decision.
Audited(d, ok) == {stored (+) SetToBag({d})} \cup (IF ok THEN {} ELSE {stored})

\* result: Audit appends the decision, or the answer is audit_unavailable.
result(q, ok) ==
    /\ checks[q].pc = "result"
    /\ LET d == CheckAnswer(q)
       IN  /\ stored' \in Audited(d, ok)
           /\ answers' = answers (+) SetToBag({IF ok THEN d ELSE [d EXCEPT !.reason = "audit_unavailable"]})
    /\ checks' = [checks EXCEPT ![q] = IdleCheck]
    /\ UNCHANGED <<checkTime, activeRuns, pinned, approvals, attempts, granting, spent>>

-----------------------------------------------------------------------------
Grants == BagCardinality([d \in {e \in DOMAIN stored : e.reason = "approval_granted"} |-> stored[d]])

\* Approve validates against a time and a Run status read before the lock.
BeginApprove(run, route, digest, ttl) ==
    /\ granting.pc = "idle" /\ Grants < MaxGrants /\ run \in activeRuns /\ ttl \in 1 .. ApprovalTTL
    /\ granting' = [pc |-> "locked", key |-> approvalKey(run, route, digest), now |-> checkTime, expiry |-> checkTime + ttl]
    /\ UNCHANGED <<checkTime, activeRuns, pinned, approvals, attempts, checks, stored, answers, spent>>

\* Then it drops expired approvals, stores the grant and only then records it.
Approve(ok) ==
    /\ granting.pc = "locked" /\ granting' = NoGrant
    /\ LET held == [k \in {j \in DOMAIN approvals : approvals[j] > granting.now} |-> approvals[k]]
           key == granting.key
           grant == Decision(key.run, key.route, key.digest, "approval_granted")
           room == Cardinality(DOMAIN held) < ApprovalCapacity
       IN  /\ approvals' = IF room /\ ok THEN [k \in DOMAIN held \cup {key} |-> IF k = key THEN granting.expiry ELSE held[k]]
                           ELSE held
           /\ stored' \in IF room THEN Audited(grant, ok) ELSE {stored}
    /\ UNCHANGED <<checkTime, activeRuns, pinned, attempts, checks, answers, spent>>

\* ActiveRun turns false: the Run finishes, starts terminating or expires.
RunEnds(run) ==
    /\ run \in activeRuns /\ activeRuns' = activeRuns \ {run}
    /\ UNCHANGED <<checkTime, pinned, approvals, attempts, checks, granting, stored, answers, spent>>

DefinitionChanges ==
    /\ pinned' = ~pinned
    /\ UNCHANGED <<checkTime, activeRuns, approvals, attempts, checks, granting, stored, answers, spent>>

InspectionClock ==
    /\ checkTime < MaxCheckTime /\ checkTime' = checkTime + 1
    /\ UNCHANGED <<activeRuns, pinned, approvals, attempts, checks, granting, stored, answers, spent>>

CheckStep(q) ==
    \/ reserveBudget(q) \/ InspectBody(q) \/ ConsumeApproval(q) \/ CheckActive(q)
    \/ \E ok \in BOOLEAN : result(q, ok)

InspectNext ==
    \/ \E q \in Slots : CheckStep(q)
    \/ \E run \in InspectRuns, body \in InspectBodies : BeginCheck(run, body)
    \/ \E run \in InspectRuns, body \in InspectBodies, ttl \in 1 .. ApprovalTTL :
           BeginApprove(run, body.route, body.digest, ttl)
    \/ \E ok \in BOOLEAN : Approve(ok)
    \/ \E run \in InspectRuns : RunEnds(run)
    \/ DefinitionChanges \/ InspectionClock

InspectSpec == InspectInit /\ [][InspectNext]_inspectVars

-----------------------------------------------------------------------------
\* However requests for one body interleave, the checks answered for it never
\* exceed the approvals granted for its Run, route and digest.
ApprovalUsedOnce ==
    \A d \in DOMAIN answers : d.reason = "checked" =>
        answers[d] <= Copies([d EXCEPT !.reason = "approval_granted"], stored)

\* A decision is answered only once it is stored: no receipt without evidence.
ReceiptIsStored ==
    \A d \in DOMAIN answers : d.reason \notin {"busy", "refused", "audit_unavailable"} =>
        answers[d] <= Copies(d, stored)
=============================================================================
