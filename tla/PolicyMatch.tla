----------------------------- MODULE PolicyMatch -----------------------------
(***************************************************************************)
(* What internal/policy decides of one observation under one bundle: which  *)
(* bundles are accepted, which policies apply, which rules hit, what a      *)
(* capture that is cut short leaves unknown, and the decision that wins.    *)
(*                                                                         *)
(* A bundle is a sequence of policies.  A path is a sequence of segments,   *)
(* absolute when it starts with "/", and an argument vector a sequence of   *)
(* words: a truncated capture is a proper prefix.  A rule is named by its   *)
(* policy and its place among the policy's rules, which are listed by kind  *)
(* in the order the compiler visits them; hashes that collide are refused   *)
(* by the code and do not occur here.  Selected policies, hits and decisions *)
(* are sets: their places in the code's slices follow from precedence and   *)
(* rule, and only the first place decides.                                  *)
(***************************************************************************)
EXTENDS NetworkProfile, Sequences, FiniteSetsExt, Functions

CONSTANTS KernelMapCapacity, MaxUserSpaceRules

hasGlob(value) == "*" \in Range(value)

-----------------------------------------------------------------------------
(* Acceptance: schema.go, preview.go, the modes of the compilers. *)

Rules(policy) == IF policy.kind = "network" THEN <<>> ELSE policy.conditions.rules

validDecisionAction(decision, action) ==
    \/ decision = "observe" /\ action \in {"audit", "alert"}
    \/ decision = "allow" /\ action = "audit"
    \/ decision = "deny" /\ action \in {"audit", "alert", "block", "contain"}

ValidConditions(policy) ==
    CASE policy.kind = "file" -> Rules(policy) # <<>> /\ policy.conditions.access # {}
      [] policy.kind = "exec" -> Rules(policy) # <<>>
      [] OTHER -> ValidNetwork(policy.conditions)

\* "kill" is the old name of "contain".
Normalize(bundle) ==
    [i \in DOMAIN bundle |->
        IF bundle[i].action = "kill" THEN [bundle[i] EXCEPT !.action = "contain"]
        ELSE bundle[i]]

Validate(bundle) ==
    /\ bundle # <<>>
    /\ \A i, j \in DOMAIN bundle : bundle[i].id = bundle[j].id => i = j
    /\ \A policy \in Range(bundle) :
          validDecisionAction(policy.decision, policy.action) /\ ValidConditions(policy)

\* The rules the preview leaves to user space: all but absolute exact paths and
\* executables without wildcards.
UserSpaceRule(rule) ==
    \/ rule.kind \in {"prefix", "suffix", "basename", "argument"}
    \/ hasGlob(rule.value)
    \/ rule.kind = "exact" /\ Head(rule.value) # "/"

UserSpaceRuleCount(policy) ==
    Cardinality({i \in DOMAIN Rules(policy) : UserSpaceRule(Rules(policy)[i])})

KernelRuleCount(policy) ==
    IF policy.kind # "network" THEN Len(Rules(policy)) - UserSpaceRuleCount(policy)
    ELSE LET c == policy.conditions
         IN  IF c.cidrs = {} /\ c.ports = {} THEN Cardinality(c.families)
             ELSE Cardinality(c.cidrs) + Cardinality(c.ports)

PreviewCompile(bundle) ==
    LET enabled == {policy \in Range(bundle) : policy.enabled}
    IN  /\ \A policy \in enabled : policy.action = "block" => UserSpaceRuleCount(policy) = 0
        /\ MapThenSumSet(KernelRuleCount, enabled) <= KernelMapCapacity
        /\ MapThenSumSet(UserSpaceRuleCount, enabled) <= MaxUserSpaceRules

\* What the compilers of the three kinds refuse.
SupportedAction(policy) ==
    CASE policy.kind = "file" -> policy.action \in {"audit", "alert"}
      [] policy.kind = "exec" -> policy.action # "block"
      [] OTHER -> IF policy.conditions.default = "observe"
                  THEN policy.action \in {"audit", "alert"}
                  ELSE policy.decision = "deny"

prepareEngineBundle(bundle) ==
    LET prepared == Normalize(bundle)
    IN  /\ Validate(prepared)
        /\ PreviewCompile(prepared)
        /\ \A policy \in Range(prepared) : policy.enabled => SupportedAction(policy)

-----------------------------------------------------------------------------
(* Which policies apply, and in which order. *)

specificity(scope) ==
    CASE scope.type = "run" -> 3 [] scope.type = "cgroup" -> 2
      [] scope.type = "labels" -> 1 [] OTHER -> 0

HigherPrecedence(first, second) ==
    \/ specificity(first.scope) > specificity(second.scope)
    \/ /\ specificity(first.scope) = specificity(second.scope)
       /\ \/ first.priority > second.priority
          \/ first.priority = second.priority /\ first.id < second.id

\* A context holds what is known of the Run: its id, its cgroup, its labels.
scopeMatches(scope, context) ==
    CASE scope.type = "run" -> context.run # "" /\ context.run = scope.of
      [] scope.type = "cgroup" -> context.cgroup # "" /\ context.cgroup = scope.of
      [] scope.type = "labels" -> scope.of \subseteq context.labels
      [] OTHER -> TRUE

selectPolicies(bundle, context, kind) ==
    {policy \in Range(bundle) : policy.enabled /\ scopeMatches(policy.scope, context) /\ policy.kind = kind}

\* Priority alone decides.
MutantRank(policies, policy) ==
    Cardinality({p \in policies :
        p.priority > policy.priority \/ (p.priority = policy.priority /\ p.id < policy.id)})

\* The place of a policy among the selected ones, after sorting.
rank(policies, policy) == Cardinality({p \in policies : HigherPrecedence(p, policy)})

-----------------------------------------------------------------------------
(* Matching. *)

Hit(policy, rule, effective, confidence) ==
    [policy |-> policy.id, rule |-> rule, requested |-> policy.action,
     effective |-> effective, confidence |-> confidence, hint |-> FALSE, enforced |-> FALSE]

\* The rules of the selected policies.
SelectRules(policies) ==
    UNION {{[policy |-> p, index |-> i, kind |-> Rules(p)[i].kind, value |-> Rules(p)[i].value] :
               i \in DOMAIN Rules(p)} : p \in policies}

HasPrefix(value, prefix) ==
    Len(prefix) <= Len(value) /\ \A i \in DOMAIN prefix : value[i] = prefix[i]
HasSuffix(value, suffix) ==
    /\ Len(suffix) <= Len(value)
    /\ \A i \in DOMAIN suffix : value[i + (Len(value) - Len(suffix))] = suffix[i]
Base(value) == <<value[Len(value)]>>

GlobMatch(pattern, value) ==
    /\ Len(pattern) = Len(value)
    /\ \A i \in DOMAIN pattern : pattern[i] \in {"*", value[i]}

ValueMatches(pattern, value) ==
    IF hasGlob(pattern) THEN GlobMatch(pattern, value) ELSE pattern = value

\* A suffix of a cut path is not a suffix of the path.
MutantFileRuleMatches(rule, candidate) ==
    CASE rule.kind = "exact" -> ~candidate.truncated /\ ValueMatches(rule.value, candidate.value)
      [] rule.kind = "prefix" -> HasPrefix(candidate.value, rule.value)
      [] rule.kind = "suffix" -> HasSuffix(candidate.value, rule.value)
      [] OTHER -> ~candidate.truncated /\ Base(candidate.value) = rule.value

fileRuleMatches(rule, candidate) ==
    CASE rule.kind = "exact" -> ~candidate.truncated /\ ValueMatches(rule.value, candidate.value)
      [] rule.kind = "prefix" -> HasPrefix(candidate.value, rule.value)
      [] rule.kind = "suffix" -> ~candidate.truncated /\ HasSuffix(candidate.value, rule.value)
      [] OTHER -> ~candidate.truncated /\ Base(candidate.value) = rule.value

\* fileCandidates, for the pathname a hook captures: the only path events hold.
FileCandidate(path, truncated) ==
    [value |-> path, truncated |-> truncated,
     confidence |-> IF truncated THEN "incomplete" ELSE "heuristic",
     gaps |-> (IF Head(path) # "/" THEN {"relative_user_path"} ELSE {})
              \cup (IF truncated THEN {"user_path_truncated"} ELSE {})]

matchFileRules(rules, candidate, access) ==
    LET matched == {rule \in rules : /\ access \in rule.policy.conditions.access
                                    /\ fileRuleMatches(rule, candidate)}
    IN  {Hit(rule.policy, rule.index, rule.policy.action, candidate.confidence) : rule \in matched}

\* exec: observation.executable <<>> was not captured.
execRuleMatches(rule, o) ==
    IF rule.kind = "executable"
    THEN /\ o.executable # <<>> /\ ~o.executableTruncated
         /\ LET candidate == IF Len(rule.value) = 1 THEN Base(o.executable)
                             ELSE o.executable
            IN  ValueMatches(rule.value, candidate)
    ELSE /\ o.argumentsState # "unavailable"
         /\ \E from, to \in DOMAIN o.arguments : SubSeq(o.arguments, from, to) = rule.value

ExecConfidence(rule, o) ==
    IF rule.kind = "argument" /\ o.argumentsState = "truncated" THEN "incomplete"
    ELSE "heuristic"

\* A containment is only hinted at.
matchExecRules(rules, o) ==
    LET contain(rule) == rule.policy.action = "contain"
        effective(rule) == IF contain(rule) THEN "alert" ELSE rule.policy.action
    IN  {[Hit(rule.policy, rule.index, effective(rule), ExecConfidence(rule, o)) EXCEPT
             !.hint = contain(rule)] : rule \in {r \in rules : execRuleMatches(r, o)}}

\* addExecCaptureGaps; audit events are all of execve.
ExecCaptureGaps(o) ==
    (IF o.executable = <<>> THEN {"executable_unavailable"} ELSE {})
    \cup (IF o.executableTruncated THEN {"executable_truncated"} ELSE {})
    \cup (IF o.argumentsState = "unavailable" THEN {"arguments_unavailable"} ELSE {})
    \cup (IF o.argumentsState = "truncated" THEN {"arguments_truncated"} ELSE {})

\* Every network policy has one rule; a decision that is not applicable is no hit.
PolicyDisposition(policy, o) == Disposition(policy.conditions, o.destination, o.port, "tcp")

NetworkDecisions(policies, o) ==
    {[policy |-> p.id, disposition |-> PolicyDisposition(p, o), enforced |-> FALSE] : p \in policies}

NetworkEffective(policy, disposition) ==
    IF disposition = "allowed" \/ (disposition = "denied" /\ policy.action \in {"block", "contain"})
    THEN "audit" ELSE policy.action

matchNetworkRules(policies, o) ==
    {[Hit(p, 0, NetworkEffective(p, PolicyDisposition(p, o)), "exact") EXCEPT
         !.hint = PolicyDisposition(p, o) = "denied" /\ p.action = "contain"] :
        p \in {q \in policies : PolicyDisposition(q, o) # "not_applicable"}}

-----------------------------------------------------------------------------
(* The report. *)

NoDecision == [policy |-> 0, rule |-> 0, decision |-> "", requested |-> "",
               effective |-> "", disposition |-> "", enforced |-> FALSE]

EmptyReport(generation) ==
    [generation |-> generation, hits |-> {}, gaps |-> {}, decisions |-> {}, final |-> NoDecision]

PolicyOf(policies, hit) == CHOOSE p \in policies : p.id = hit.policy

\* The order of the sorted hits: by rank, and by rule within a policy.
HitAhead(policies, hit, other) ==
    \/ rank(policies, PolicyOf(policies, hit)) < rank(policies, PolicyOf(policies, other))
    \/ hit.policy = other.policy /\ hit.rule < other.rule

\* The first of the hits decides.
buildDecisionReport(generation, policies, hits, gaps) ==
    LET winner == CHOOSE hit \in hits : \A other \in hits \ {hit} : HitAhead(policies, hit, other)
        final == [policy |-> winner.policy, rule |-> winner.rule,
                  decision |-> PolicyOf(policies, winner).decision,
                  requested |-> winner.requested, effective |-> winner.effective,
                  disposition |-> "", enforced |-> FALSE]
    IN  [generation |-> generation, hits |-> hits, gaps |-> gaps, decisions |-> {},
         final |-> IF hits = {} THEN NoDecision ELSE final]

\* evaluateFileAuditEvent: no path or O_PATH leaves only a gap; O_RDWR is matched
\* as a read and as a write, a rule hitting once.
evaluateFile(snapshot, context, o) ==
    LET policies == selectPolicies(snapshot.bundle, context, "file")
        candidate == FileCandidate(o.path, o.truncated)
        hits == UNION {matchFileRules(SelectRules(policies), candidate, access) : access \in o.access}
    IN  IF policies = {} THEN EmptyReport(snapshot.generation)
        ELSE IF o.openPath
        THEN [EmptyReport(snapshot.generation) EXCEPT !.gaps = {"open_path_not_content_access"}]
        ELSE IF o.path = <<>>
        THEN [EmptyReport(snapshot.generation) EXCEPT !.gaps = {"user_path_unavailable"}]
        ELSE buildDecisionReport(snapshot.generation, policies, hits, candidate.gaps)

EvaluateExec(snapshot, context, o) ==
    LET policies == selectPolicies(snapshot.bundle, context, "exec")
    IN  IF policies = {} THEN EmptyReport(snapshot.generation)
        ELSE buildDecisionReport(snapshot.generation, policies,
                                 matchExecRules(SelectRules(policies), o), ExecCaptureGaps(o))

EvaluateNetwork(snapshot, context, o) ==
    LET policies == selectPolicies(snapshot.bundle, context, "network")
        decisions == NetworkDecisions(policies, o)
        report == buildDecisionReport(snapshot.generation, policies, matchNetworkRules(policies, o), {})
        Named(d) == d.policy = report.final.policy
    IN  IF policies = {} THEN EmptyReport(snapshot.generation)
        ELSE [report EXCEPT
                !.decisions = decisions,
                !.final.disposition = IF \E d \in decisions : Named(d)
                                      THEN (CHOOSE d \in decisions : Named(d)).disposition ELSE ""]
=============================================================================
