--------------------------- MODULE MCKernelEvents ---------------------------
(***************************************************************************)
(* What the Core does with events and requests, on small instances.  The    *)
(* parts share no variable: a behaviour is one of a single part, with the   *)
(* others at rest.                                                          *)
(***************************************************************************)
EXTENDS KernelEvents, PolicyEngine, Containment, AuditStream, StreamTickets,
        EvidenceTimeline, PolicyGenerationRefinement, TLC

CONSTANTS zero, host,    \* two addresses of each family, one of them unspecified
          v1, v2         \* values of policy maps

VARIABLE part

-----------------------------------------------------------------------------
(* Kernel events: every attempt draws a cookie of its own.                 *)
FreshCookies == [r \in Runs |-> r]

Interchangeable ==
    Permutations(Runs) \cup Permutations(Requests) \cup Permutations(Cgroups \ {Core})

-----------------------------------------------------------------------------
(* Policies: images of every shape, one or two policies to a bundle.       *)
Policy(id, scope, priority, decision, action, kind, conditions) ==
    [id |-> id, enabled |-> TRUE, scope |-> scope, priority |-> priority,
     decision |-> decision, action |-> action, kind |-> kind, conditions |-> conditions]
Global == [type |-> "global", of |-> ""]
InRun == [type |-> "run", of |-> "run1"]
InCgroup(g) == [type |-> "cgroup", of |-> g]
Labelled == [type |-> "labels", of |-> {"team"}]

Exactly(h) == [family |-> "ipv4", hosts |-> {h}]
Port(p) == [from |-> p, to |-> p]
Net(default, cidrs, ports, families) ==
    [default |-> default, cidrs |-> cidrs, ports |-> ports, families |-> families]
HostAndPort == Net("deny", {Exactly(host)}, {Port(1)}, {"ipv4"})
Strict(id, c) == Policy(id, Global, 0, "deny", "block", "network", c)
Observe(id, scope, action) ==
    Policy(id, scope, 0, "observe", action, "network", Net("observe", {}, {}, Families))

Rule(kind, value) == [kind |-> kind, value |-> value]
File(id, scope, priority, action, access, rules) ==
    Policy(id, scope, priority, "observe", action, "file", [access |-> access, rules |-> rules])
Exec(id, action, rules) == Policy(id, Global, 0, "deny", action, "exec", [rules |-> rules])

MCBundles ==
    {<<Strict(1, HostAndPort)>>,
     <<Strict(1, Net("deny", {}, {Port(2)}, {"ipv4", "ipv6"}))>>,
     <<Strict(1, Net("deny", {Exactly(zero)}, {}, {"ipv4"}))>>,
     <<Strict(2, Net("deny", {}, {}, {"ipv6"}))>>,
     <<Strict(1, Net("deny", {}, {[from |-> 1, to |-> 2]}, {"ipv4"}))>>,
     <<Strict(1, HostAndPort), Observe(2, Global, "alert")>>,
     <<Strict(1, HostAndPort), Observe(2, InRun, "audit")>>,
     <<Strict(1, HostAndPort), Observe(2, InCgroup("g2"), "audit")>>,
     <<Policy(1, Labelled, 5, "deny", "contain", "network", HostAndPort),
       Policy(2, InCgroup("g1"), 1, "deny", "audit", "network", HostAndPort)>>,
     <<File(1, Global, 9, "audit", {"read"},
            <<Rule("exact", <<"/", "*", "key">>), Rule("prefix", <<"/", "etc">>)>>),
       File(2, InCgroup("g1"), 1, "alert", {"read", "write"},
            <<Rule("suffix", <<"etc">>), Rule("basename", <<"key">>)>>)>>,
     <<Exec(1, "kill", <<Rule("executable", <<"sh">>), Rule("argument", <<"rm">>)>>),
       Exec(2, "alert", <<Rule("executable", <<"/", "bin", "*">>), Rule("argument", <<"rm", "x">>)>>)>>,
     <<Exec(1, "block", <<Rule("executable", <<"/", "sh">>)>>)>>}
MCContexts == {[run |-> "run1", cgroup |-> "g1", labels |-> {"team"}],
               [run |-> "run2", cgroup |-> "g2", labels |-> {}]}
MCDestinations == [family : {"ipv4", "ipv6", "mapped"}, host : {zero, host}]
MCOpens ==
    {[path |-> <<"/", "etc", "key">>, access |-> a, openPath |-> o] :
        a \in {{"read"}, {"read", "write"}}, o \in BOOLEAN}
    \cup {[path |-> <<"etc", "key">>, access |-> {"write"}, openPath |-> FALSE]}
MCExecs == {[executable |-> <<"/", "bin", "sh">>, arguments |-> <<"rm", "x">>]}

-----------------------------------------------------------------------------
(* Audit output: two kinds of fact, a decision and a drop notice.          *)
Header(r, e, x, n) ==
    [valid |-> TRUE, record |-> r, event |-> e, result |-> x, dropped |-> n]
MCHeaders ==
    {Header("", "exec_attempt", "none", 0), Header("", "connect_attempt", "blocked", 0),
     Header("policy_decision", "exec_attempt", "", 0), Header("", "drop_notice", "none", 1)}

\* Correlation: claims of two types and two Runs, a blocked attempt of one.
Claim(run, type, tool) == [run |-> run, type |-> type, tool |-> tool]
MCClaims == {Claim("a", "tool_started", "sh"), Claim("a", "llm_request", ""),
             Claim("b", "tool_started", "sh")}
MCFacts == {[run |-> "a", type |-> "exec_attempt", tool |-> "sh", blocked |-> TRUE]}

\* Policy maps: two images with common keys, the empty one, one per refusal.
Entry(k, v) == [key |-> k, value |-> v]
Image(rules, profiles) == [rules |-> rules, profiles |-> profiles]
MCImages ==
    {Image(<<Entry(1, v1), Entry(2, v1)>>, <<Entry(7, v1)>>),
     Image(<<Entry(2, v2)>>, <<Entry(7, v1)>>),
     Blank,
     Image(<<Entry(1, v1), Entry(2, v1), Entry(3, v1)>>, <<>>),
     Image(<<>>, <<Entry(7, v1), Entry(8, v1)>>),
     Image(<<Entry(0, v1)>>, <<>>),
     Image(<<Entry(1, NoValue)>>, <<>>),
     Image(<<Entry(1, v1), Entry(1, v2)>>, <<>>)}

-----------------------------------------------------------------------------
MCInit ==
    /\ part \in {"kernel", "policy", "containment", "audit", "tickets", "generation", "timeline"}
    /\ EventInit /\ EngineInit /\ ContainInit /\ AuditInit /\ TicketInit
    /\ GenerationInit /\ TimelineInit
    /\ part # "containment" => core = Target

\* Only the given part moves.
Only(p) ==
    /\ part = p
    /\ UNCHANGED part
    /\ p # "kernel" => UNCHANGED allVars
    /\ p # "policy" => UNCHANGED engineVars
    /\ p # "containment" => UNCHANGED containVars
    /\ p # "audit" => UNCHANGED auditVars
    /\ p # "tickets" => UNCHANGED ticketVars
    /\ p # "generation" => UNCHANGED generationVars
    /\ p # "timeline" => UNCHANGED timelineVars

\* Containment and an audit end, the inputs of a timeline run out: these may
\* rest, the other parts may not.
AtRest ==
    /\ part \in {"containment", "audit", "timeline"}
    /\ UNCHANGED <<part, allVars, engineVars, containVars, auditVars, ticketVars,
                   generationVars, timelineVars>>

MCNext ==
    \/ Only("kernel") /\ EventNext
    \/ Only("policy") /\ EngineNext
    \/ Only("containment") /\ ContainNext
    \/ Only("audit") /\ AuditNext
    \/ Only("tickets") /\ TicketNext
    \/ Only("generation") /\ GenerationNext
    \/ Only("timeline") /\ TimelineNext
    \/ AtRest

MCSpec == MCInit /\ [][MCNext]_<<part, allVars, engineVars, containVars, auditVars,
                                 ticketVars, generationVars, timelineVars>>
=============================================================================
