------------------------ MODULE MCCheckpointDelivery ------------------------
(***************************************************************************)
(* The workload's requests on small instances.  One run asks seven          *)
(* questions, each with the bounds that make its cases happen: requests of  *)
(* two Runs against the byte budgets, repeated and conflicting requests of  *)
(* one Run, the rate limit as time passes, a client with its relay, and for *)
(* the local checker approvals, the budget of attempts and two routes.  The *)
(* checker shares no variable with checkpoints: it moves alone, with the    *)
(* rest at its start.                                                       *)
(***************************************************************************)
EXTENDS CheckpointDelivery, Inspection, TLC

\* One body is charged twice as much as another.
MCBodySize == [b \in Bodies |-> b]

Symmetry == Permutations(Handlers) \cup Permutations(Keys) \cup Permutations(Runs)

VARIABLE focus

\* Inspection: one body sent to two routes; only the MCP route looks at the
\* tool, and a changed definition refuses it.
MCTools == [read |-> [arguments |-> [path |-> {"in"}], required |-> {"path"}]]
MCInspectBodies ==
    [route : {"mcp", "model"}, digest : {"sha"}, form : {"json"}, sensitive : {FALSE}, tool : {"read"},
     arguments : {[path |-> "in"]}]

Focus == [budget  |-> [runs |-> 2, keys |-> 2, sequence |-> 0, clock |-> 0, lapses |-> 0],
          replays |-> [runs |-> 1, keys |-> 1, sequence |-> 2, clock |-> 0, lapses |-> 1],
          rate    |-> [runs |-> 1, keys |-> 1, sequence |-> 0, clock |-> 2, lapses |-> 1],
          client  |-> [runs |-> 1, keys |-> 2, sequence |-> MaxSequence, clock |-> 1,
                       lapses |-> 1]]

InFlight == {handler[h].request : h \in {g \in Handlers : handler[g].pc # "idle"}}
Stored == UNION {{enqueued[r][i] : i \in DOMAIN enqueued[r]} : r \in Runs}

\* The bounds of the question asked.
Within ==
    LET bound == Focus[focus]
        Begun(r) == phase[r] # "absent" \/ made[r] > 0 \/ \E q \in InFlight : q.run = r
    IN  /\ Cardinality({r \in Runs : Begun(r)}) <= bound.runs
        /\ Cardinality({q.key : q \in InFlight \cup Stored} \ {NoKey}) <= bound.keys
        /\ \A q \in InFlight : q.sequence <= bound.sequence
        /\ clock <= bound.clock
        /\ Cardinality(lapsed) <= bound.lapses

MCInit == Init /\ InspectInit /\ focus \in DOMAIN Focus \cup {"approvals", "attempts", "routes"}

MCCheckpoint ==
    /\ \/ focus = "client" /\ DeliveryNext
       \/ focus # "client" /\ Next /\ UNCHANGED clientVars
    /\ Within'

\* Approvals need three requests of a Run on one route; the budget needs four,
\* of two Runs, and no approval; the routes need two.  The checker may rest.
MCInspection ==
    LET open == {q \in Slots : checks'[q].pc # "idle"}
        begun == Cardinality(open) + BagCardinality(answers')
        RunsIn(runs) ==
            /\ \A q \in open : checks'[q].run \in runs
            /\ granting'.pc # "idle" => granting'.key.run \in runs
            /\ InspectRuns \ activeRuns' \subseteq runs
    IN  /\ InspectNext \/ UNCHANGED inspectVars
        /\ focus # "routes" =>
               /\ \A q \in open : checks'[q].body.route = "mcp"
               /\ granting'.pc # "idle" => granting'.key.route = "mcp"
        /\ focus # "attempts" => RunsIn({"run"})
        /\ focus = "approvals" => begun <= 3
        /\ focus = "attempts" => granting'.pc = "idle" /\ pinned' /\ checkTime' = 0
        /\ focus = "routes" => begun <= 2

MCNext ==
    /\ UNCHANGED focus
    /\ \/ focus \in DOMAIN Focus /\ MCCheckpoint /\ UNCHANGED inspectVars
       \/ focus \notin DOMAIN Focus /\ MCInspection /\ UNCHANGED vars

MCSpec == MCInit /\ [][MCNext]_<<vars, inspectVars, focus>>

\* While every answer came from Core, a client with nothing unresolved, the only
\* sender of its Run, names the sequence Core expects (ingest.py _send against
\* CheckpointHandler).
LoneClientInStep == focus = "client" => ClientInStep
=============================================================================
