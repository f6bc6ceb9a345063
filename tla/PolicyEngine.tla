---------------------------- MODULE PolicyEngine ----------------------------
(***************************************************************************)
(* The policy engine at work: a startup that accepts or refuses a bundle     *)
(* and compiles the kernel's network profile (audit and serve), hooks that  *)
(* capture and decide, evaluations that read the active snapshot once and   *)
(* may overlap an Activate, and the reconciliation of a report with what    *)
(* the connect hook did.                                                    *)
(*                                                                         *)
(* The kernel profile is installed at startup only; Activate replaces the   *)
(* engine's snapshot and leaves the profile as it is, so an event may carry *)
(* the verdict of a policy the engine no longer holds.                      *)
(***************************************************************************)
EXTENDS PolicyMatch

CONSTANTS Modes,         \* "audit" (one cgroup) and "serve" (registered Runs)
          Bundles,       \* the bundles a configuration file may hold
          Contexts,      \* the Runs that events are captured in
          Destinations, DestinationPorts,
          Opens,         \* files opened: path, access, openPath
          Execs,         \* programs started: executable, arguments
          MaxActivations

PolicyFields == {"id", "enabled", "scope", "priority", "decision", "action", "kind", "conditions"}
RuleType == [kind : STRING, value : Seq(STRING)]

\* A policy as the loader delivers it, not validated yet; no ID is empty.
IsPolicy(policy) ==
    /\ DOMAIN policy = PolicyFields
    /\ policy.id \in Nat \ {0} /\ policy.priority \in Int
    /\ \/ policy.kind \in {"file", "exec"} /\ policy.conditions.rules \in Seq(RuleType)
       \/ policy.kind = "network" /\ policy.conditions \in NetworkCondition

ASSUME EngineAssumption ==
    /\ \A bundle \in Bundles :
          /\ Len(bundle) \in Nat /\ DOMAIN bundle = 1 .. Len(bundle)
          /\ \A i \in DOMAIN bundle : IsPolicy(bundle[i])
    /\ Destinations \subseteq Address /\ DestinationPorts \subseteq Ports
    /\ \A open \in Opens : open.path \in Seq(STRING) /\ open.access \in SUBSET {"read", "write"}
    /\ \A exec \in Execs : exec.executable \in Seq(STRING) /\ exec.arguments \in Seq(STRING)
    /\ Modes \subseteq {"audit", "serve"} /\ MaxActivations \in Nat

NoBundle == <<>>
NoContext == [run |-> "", cgroup |-> "", labels |-> {}]
NoProfile == [policy |-> 0, allows |-> {}]
NoEvent == [type |-> ""]

VARIABLES mode,        \* the command that runs, "" before it has started
          snapshot,    \* engine.active: generation, bundle
          published,   \* history: the bundle of every generation
          profile,     \* the kernel's network profile
          watched,     \* the cgroup audit was started for
          captured,    \* the event being evaluated
          held,        \* the snapshot its evaluation has loaded
          report       \* the decision record it got

engineVars == <<mode, snapshot, published, profile, watched, captured, held, report>>

NoReport == EmptyReport(0)

EngineInit ==
    /\ mode = ""
    /\ snapshot = [generation |-> 0, bundle |-> NoBundle]
    /\ published = <<>>
    /\ profile = NoProfile
    /\ watched = ""
    /\ captured = NoEvent
    /\ held = [generation |-> 0, bundle |-> NoBundle]
    /\ report = NoReport

-----------------------------------------------------------------------------
(* Startup. *)

\* CompileNetworkEnforcement: nothing to install, or one policy that can be.
Blocking(bundle, context) ==
    \E policy \in selectPolicies(bundle, context, "network") : policy.action = "block"

CanEnforce(policy) ==
    /\ policy.conditions.default = "deny" /\ policy.decision = "deny"
    /\ Representable(policy.conditions)
    /\ Cardinality(crossNetworkAllows(policy.conditions)) <= KernelMapCapacity

\* Another policy may apply beside the blocking one.
MutantCompilable(bundle, context) ==
    \E policy \in Range(bundle) :
        /\ {p \in selectPolicies(bundle, context, "network") : p.action = "block"} = {policy}
        /\ CanEnforce(policy)

Compilable(bundle, context) ==
    \E policy \in Range(bundle) :
        selectPolicies(bundle, context, "network") = {policy} /\ CanEnforce(policy)

CompileNetworkEnforcement(bundle, context) ==
    IF ~Blocking(bundle, context) THEN NoProfile
    ELSE LET policy == CHOOSE p \in selectPolicies(bundle, context, "network") : p.action = "block"
         IN  [policy |-> policy.id, allows |-> crossNetworkAllows(policy.conditions)]

\* validateAuditPolicyScopes, and serve's loop over the blocking policies.
ScopesSupported(m, bundle) ==
    \A policy \in Range(bundle) : policy.enabled =>
        IF m = "audit" THEN policy.scope.type \in {"global", "cgroup"}
        ELSE policy.action = "block" => policy.scope.type = "global"

\* What is known when the profile is compiled: audit's cgroup, nothing for serve.
StartContext(m, context) ==
    IF m = "audit" THEN [NoContext EXCEPT !.cgroup = context.cgroup] ELSE NoContext

\* runAudit and serveManaged up to the installed profile.
Start(m, bundle, context) ==
    LET prepared == Normalize(bundle)
        known == StartContext(m, context)
    IN  /\ mode = ""
        /\ prepareEngineBundle(bundle)
        /\ ScopesSupported(m, prepared)
        /\ Blocking(prepared, known) => Compilable(prepared, known)
        /\ mode' = m
        /\ snapshot' = [generation |-> 1, bundle |-> prepared]
        /\ published' = <<prepared>>
        /\ profile' = CompileNetworkEnforcement(prepared, known)
        /\ watched' = known.cgroup
        /\ UNCHANGED <<captured, held, report>>

\* Engine.Activate: the next revision in the other bank.
ActivateBundle(bundle) ==
    /\ mode # "" /\ snapshot.generation <= MaxActivations
    /\ prepareEngineBundle(bundle)
    /\ snapshot' = [generation |-> snapshot.generation + 1, bundle |-> Normalize(bundle)]
    /\ published' = Append(published, Normalize(bundle))
    /\ UNCHANGED <<mode, profile, watched, captured, held, report>>

-----------------------------------------------------------------------------
(* The hooks. *)

Watched(context) == mode = "serve" \/ context.cgroup = watched

\* agentshield_audit_connect for a TCP destination, in a scope with the profile.
Connect(context, destination, port) ==
    LET enforcing == profile # NoProfile
        blocked == enforcing /\ ~network_tuple_allowed(profile.allows, destination, port)
    IN  /\ mode # "" /\ captured.type = "" /\ Watched(context)
        /\ captured' = [type |-> "connect", context |-> context, destination |-> destination,
                     port |-> port, action |-> IF enforcing THEN "block" ELSE "",
                     policy |-> profile.policy,
                     result |-> IF ~enforcing THEN "" ELSE IF blocked THEN "blocked" ELSE "allowed"]
        /\ UNCHANGED <<mode, snapshot, published, profile, watched, held, report>>

\* agentshield_trace_openat: a pathname is captured whole, cut short, or not at
\* all, which also sets the flag.
FileOpen(context, open) ==
    /\ mode # "" /\ captured.type = "" /\ Watched(context)
    /\ \E n \in 0..Len(open.path) :
          captured' = [type |-> "open", context |-> context, open |-> open,
                    path |-> SubSeq(open.path, 1, n), access |-> open.access,
                    openPath |-> open.openPath, truncated |-> n < Len(open.path)]
    /\ UNCHANGED <<mode, snapshot, published, profile, watched, held, report>>

\* agentshield_trace_execve: so is an executable; arguments may be marked cut.
ExecAttempt(context, exec) ==
    /\ mode # "" /\ captured.type = "" /\ Watched(context)
    /\ \E n \in 0..Len(exec.executable), k \in 0..Len(exec.arguments),
          state \in {"complete", "truncated"} :
          /\ state = "complete" => k = Len(exec.arguments)
          /\ captured' = [type |-> "exec", context |-> context, exec |-> exec,
                       executable |-> SubSeq(exec.executable, 1, n),
                       executableTruncated |-> n < Len(exec.executable),
                       arguments |-> SubSeq(exec.arguments, 1, k),
                       argumentsState |-> state]
    /\ UNCHANGED <<mode, snapshot, published, profile, watched, held, report>>

-----------------------------------------------------------------------------
(* Evaluation. *)

\* engine.snapshot: one atomic load.
LoadSnapshot ==
    /\ captured.type # "" /\ held.generation = 0
    /\ held' = snapshot
    /\ UNCHANGED <<mode, snapshot, published, profile, watched, captured, report>>

\* reconcileNetworkEnforcement.
reconcileNetworkEnforcement(r, e) ==
    LET expected == IF e.result = "blocked" THEN "denied" ELSE "allowed"
        Agrees(d) == d.policy = e.policy /\ d.disposition = expected
        Mark(hit) == IF hit.policy # e.policy \/ hit.requested # "block" THEN hit
                     ELSE [hit EXCEPT !.enforced = TRUE,
                             !.effective = IF e.result = "blocked" THEN "block" ELSE @]
    IN  IF /\ e.action = "block" /\ e.policy # 0
           /\ r.final.policy = e.policy /\ r.final.requested = "block"
           /\ \E d \in r.decisions : Agrees(d)
        THEN [r EXCEPT !.decisions = {[d EXCEPT !.enforced = Agrees(d)] : d \in @},
                       !.hits = {Mark(hit) : hit \in @},
                       !.final.enforced = TRUE,
                       !.final.effective = IF e.result = "blocked" THEN "block" ELSE @]
        ELSE r

\* The event's cgroup is authoritative; only serve knows the Run and its labels.
EventContext(e) ==
    IF mode = "serve" THEN e.context ELSE [NoContext EXCEPT !.cgroup = e.context.cgroup]

Evaluate(s, e) ==
    CASE e.type = "open" -> evaluateFile(s, EventContext(e), e)
      [] e.type = "exec" -> EvaluateExec(s, EventContext(e), e)
      [] OTHER -> reconcileNetworkEnforcement(EvaluateNetwork(s, EventContext(e), e), e)

EvaluateAuditDecision ==
    /\ held.generation # 0 /\ report.generation = 0
    /\ report' = Evaluate(held, captured)
    /\ UNCHANGED <<mode, snapshot, published, profile, watched, captured, held>>

\* The record is emitted and the next event can be taken.
NextEvent ==
    /\ report.generation # 0
    /\ captured' = NoEvent
    /\ held' = [generation |-> 0, bundle |-> NoBundle]
    /\ report' = NoReport
    /\ UNCHANGED <<mode, snapshot, published, profile, watched>>

EngineNext ==
    \/ \E m \in Modes, b \in Bundles, c \in Contexts : Start(m, b, c)
    \/ \E b \in Bundles : ActivateBundle(b)
    \/ \E c \in Contexts, d \in Destinations, p \in DestinationPorts : Connect(c, d, p)
    \/ \E c \in Contexts, o \in Opens : FileOpen(c, o)
    \/ \E c \in Contexts, x \in Execs : ExecAttempt(c, x)
    \/ LoadSnapshot
    \/ EvaluateAuditDecision
    \/ NextEvent

EngineSpec == EngineInit /\ [][EngineNext]_engineVars

-----------------------------------------------------------------------------
(* Properties. *)

Reported == report.generation # 0

\* The policies of the report's generation that apply to the event and hit, by
\* definition and not by sorting.
Kind(e) == CASE e.type = "open" -> "file" [] e.type = "exec" -> "exec" [] OTHER -> "network"
Applicable ==
    {p \in Range(published[report.generation]) :
        p.enabled /\ p.kind = Kind(captured) /\ scopeMatches(p.scope, EventContext(captured))}

\* The final decision is that of a policy of the one generation the report names,
\* although another bundle may have been activated meanwhile, and no policy with a
\* hit is preferred to it (EvaluateAuditDecision, HigherPrecedence,
\* buildDecisionReport).
FinalIsPreferred ==
    Reported =>
        /\ \A hit \in report.hits :
              \E p \in Applicable : p.id = hit.policy /\ p.action = hit.requested
        /\ report.final.policy # 0 =>
              \E p \in Applicable :
                  /\ p.id = report.final.policy /\ p.decision = report.final.decision
                  /\ \A hit \in report.hits, q \in Applicable :
                         hit.policy = q.id => ~HigherPrecedence(q, p)

\* A report says enforced only of what the connect hook did: the policy compiled
\* into the profile asked to block, and the hook's verdict is the engine's
\* disposition (reconcileNetworkEnforcement, also after a later Activate).  The
\* converse holds under audit while the startup bundle is active: every verdict of
\* the hook on a native destination is reported as enforced, since the profile
\* compiled for the cgroup stands for every policy that applies in it.
EnforcedIsTrue ==
    /\ Reported /\ report.final.enforced =>
        /\ captured.type = "connect" /\ captured.policy = report.final.policy
        /\ report.final.requested = "block"
        /\ captured.result = "blocked" <=> report.final.disposition = "denied"
        /\ captured.result = "blocked" <=> report.final.effective = "block"
    /\ /\ mode = "audit" /\ Reported /\ report.generation = 1
       /\ captured.type = "connect" /\ captured.destination.family # "mapped" /\ captured.result # ""
       => report.final.enforced

\* serve: every verdict of the hook on a native destination is reported as
\* enforced, for the Runs registered in it.
ServeReportsVerdicts ==
    /\ mode = "serve" /\ Reported /\ report.generation = 1
    /\ captured.type = "connect" /\ captured.destination.family # "mapped" /\ captured.result # ""
    => /\ report.final.enforced
       /\ captured.result = "blocked" <=> report.final.effective = "block"

\* The observation the hook would have made of the same call, seeing all of it.
Whole(e) ==
    CASE e.type = "open" -> [e EXCEPT !.path = e.open.path, !.truncated = FALSE]
      [] e.type = "exec" -> [e EXCEPT !.executable = e.exec.executable,
                                      !.executableTruncated = FALSE,
                                      !.arguments = e.exec.arguments,
                                      !.argumentsState = "complete"]
      [] OTHER -> e

RulesHit(r) == {<<hit.policy, hit.rule>> : hit \in r.hits}

\* A capture that is cut short invents no hit, and a hit it loses is announced
\* by a gap (fileRuleMatches, execRuleMatches, addExecCaptureGaps).
CutCaptureIsHonest ==
    Reported =>
        LET whole == Evaluate(held, Whole(captured))
        IN  /\ RulesHit(report) \subseteq RulesHit(whole)
            /\ RulesHit(report) # RulesHit(whole) => report.gaps # {}
=============================================================================
