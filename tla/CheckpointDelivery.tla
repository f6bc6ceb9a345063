------------------------- MODULE CheckpointDelivery -------------------------
(***************************************************************************)
(* sdk/python/agentshield/ingest.py, one client for each Run, in front of   *)
(* CheckpointIngest; and, WithRelay, the gateway relay of cmd/sandbox-init  *)
(* through which a controlled workload reaches Core.                        *)
(*                                                                         *)
(* The client's lock is held for a whole call, so a client has one request  *)
(* in flight; one it gave up on may still be running in Core.               *)
(***************************************************************************)
EXTENDS CheckpointIngest

CONSTANTS WithRelay,
          MaxRetries,   \* max_retries
          NoHandler

ASSUME DeliveryAssumption ==
    /\ WithRelay \in BOOLEAN
    /\ MaxRetries \in Nat
    /\ NoHandler \notin Handlers
    /\ Bodies \subseteq Nat

VARIABLES client,   \* one IngestClient for each Run
          made,     \* checkpoints built; the client time that makes each unique
          acked,    \* history: requests the client took a receipt for, in order
          dropped,  \* history: requests the client gave up as not accepted
          relayed   \* history: requests the relay answered in Core's place

clientVars == <<client, made, acked, dropped, relayed>>
vars == <<ingestVars, clientVars>>

Init ==
    /\ IngestInit
    /\ client = [r \in Runs |-> [pc |-> "idle", call |-> "checkpoint", attempt |-> 0, next |-> 1,
                                 pending |-> NoRequest, handler |-> NoHandler]]
    /\ made = [r \in Runs |-> 0]
    /\ acked = [r \in Runs |-> <<>>]
    /\ dropped = {}
    /\ relayed = {}

serverVars == <<phaseVars, stateVars, clock, enqueued, historyVars>>

-----------------------------------------------------------------------------
(* Calls. *)

\* checkpoint() refuses while a delivery is unresolved.  The key is the
\* caller's or a fresh one; the client time differs in every checkpoint.  Bodies
\* and MaxSequence bound the calls.
checkpoint(r) ==
    /\ client[r].pc = "idle" /\ client[r].pending = NoRequest
    /\ made[r] + 1 \in Bodies /\ client[r].next <= MaxSequence
    /\ made' = [made EXCEPT ![r] = @ + 1]
    /\ \E k \in Keys :
           client' = [client EXCEPT ![r] =
               [@ EXCEPT !.pc = "send", !.call = "checkpoint", !.attempt = 0,
                         !.pending = [run |-> r, sequence |-> client[r].next,
                                      key |-> k, body |-> made[r] + 1]]]
    /\ UNCHANGED <<ingestVars, acked, dropped, relayed>>

retry_pending(r) ==
    /\ client[r].pc = "idle" /\ client[r].pending # NoRequest
    /\ client' = [client EXCEPT ![r] = [@ EXCEPT !.pc = "send", !.call = "retry_pending", !.attempt = 0]]
    /\ UNCHANGED <<ingestVars, made, acked, dropped, relayed>>

-----------------------------------------------------------------------------
(* _send: one attempt, and what its outcome leads to. *)

Returned(r) == [client[r] EXCEPT !.pc = "idle", !.handler = NoHandler]

MutantAmbiguous(r) ==
    /\ client' = [client EXCEPT ![r] = [Returned(r) EXCEPT !.pending = NoRequest]]
    /\ dropped' = dropped \cup {client[r].pending}
    /\ UNCHANGED <<made, acked>>

\* IngestTransportError, IngestProtocolError: the exact bytes stay pending.
Ambiguous(r) ==
    /\ client' = [client EXCEPT ![r] = Returned(r)]
    /\ UNCHANGED <<made, acked, dropped>>

MutantHTTPError(r) ==
    /\ client' = [client EXCEPT ![r] = [Returned(r) EXCEPT !.pending = NoRequest]]
    /\ dropped' = dropped \cup {client[r].pending}
    /\ UNCHANGED <<made, acked>>

\* IngestHTTPError: checkpoint() gives the request up, retry_pending() keeps it.
HTTPError(r) ==
    /\ \/ /\ client[r].call = "checkpoint"
          /\ client' = [client EXCEPT ![r] = [Returned(r) EXCEPT !.pending = NoRequest]]
          /\ dropped' = dropped \cup {client[r].pending}
       \/ /\ client[r].call = "retry_pending"
          /\ client' = [client EXCEPT ![r] = Returned(r)]
          /\ UNCHANGED dropped
    /\ UNCHANGED <<made, acked>>

_accept_pending(r) ==
    /\ client' = [client EXCEPT ![r] = [Returned(r) EXCEPT !.pending = NoRequest,
                                                           !.next = client[r].pending.sequence + 1]]
    /\ acked' = [acked EXCEPT ![r] = Append(@, client[r].pending)]
    /\ UNCHANGED <<made, dropped>>

Failed(r, status) ==
    \/ /\ status \in {429, 503} /\ client[r].attempt < MaxRetries
       /\ client' = [client EXCEPT ![r] = [@ EXCEPT !.pc = "send", !.attempt = client[r].attempt + 1,
                                                    !.handler = NoHandler]]
       /\ UNCHANGED <<made, acked, dropped>>
    \/ /\ ~(status \in {429, 503} /\ client[r].attempt < MaxRetries)
       /\ HTTPError(r)

\* The request reaches Core.
SendReaches(r) ==
    /\ client[r].pc = "send"
    /\ \E h \in Handlers :
           /\ Receive(h, client[r].pending)
           /\ client' = [client EXCEPT ![r] = [@ EXCEPT !.pc = "wait", !.handler = h]]
    /\ UNCHANGED <<made, acked, dropped, relayed>>

Awaits(r, h) == client[r].handler = h /\ client[r].pending = handler[h].request

\* The answer of Core arrives.  The receipt names the pending sequence.
Answer(r) ==
    LET h == client[r].handler
    IN  /\ client[r].pc = "wait" /\ Awaits(r, h)
        /\ Replied(h)
        /\ \/ /\ handler[h].status \in {200, 201}
              /\ handler[h].number = client[r].pending.sequence
              /\ _accept_pending(r)
           \/ /\ handler[h].status \notin {200, 201}
              /\ Failed(r, handler[h].status)
        /\ UNCHANGED <<serverVars, relayed>>

\* The connection fails before or after the request reached Core, or the
\* receipt does not decode.  Core goes on with what reached it.
ConnectionLost(r) ==
    /\ client[r].pc \in {"send", "wait"}
    /\ Ambiguous(r)
    /\ UNCHANGED <<ingestVars, relayed>>

\* relayHandler: RoundTrip fails, at dial or while the relay waits for the
\* response header, and the workload is answered 503.
RelayUnavailable(r) ==
    /\ WithRelay
    /\ client[r].pc \in {"send", "wait"}
    /\ Failed(r, 503)
    /\ relayed' = relayed \cup {client[r].pending}
    /\ UNCHANGED ingestVars

\* Nobody waits for this answer any more.
Unread(h) ==
    /\ \A r \in Runs : ~Awaits(r, h)
    /\ Replied(h)
    /\ UNCHANGED <<serverVars, clientVars>>

ClientStep(r) ==
    \/ checkpoint(r)
    \/ retry_pending(r)
    \/ SendReaches(r)
    \/ Answer(r)
    \/ ConnectionLost(r)
    \/ RelayUnavailable(r)

CoreStep ==
    /\ \/ Tick
       \/ RunStep
       \/ \E h \in Handlers : HandlerStep(h)
    /\ UNCHANGED clientVars

DeliveryNext ==
    \/ CoreStep
    \/ \E r \in Runs : ClientStep(r)
    \/ \E h \in Handlers : Unread(h)

DeliverySpec == Init /\ [][DeliveryNext]_vars
-----------------------------------------------------------------------------
(* Properties. *)

Accepted(q) == \E i \in DOMAIN enqueued[q.run] : enqueued[q.run][i] = q

\* ingest.py: "A received HTTP failure is a definite non-acceptance".  A
\* checkpoint its client gave up was not, and will not be, accepted by Core.
DroppedIsNotAccepted == \A q \in dropped : ~Accepted(q)

\* Whatever is lost, delayed or repeated on the way, what a client has been told is
\* so: the receipts it has taken are for the records of its Run in order,
\* acknowledged number i being the i-th record the pipeline took, and a checkpoint
\* it gave up on Core's own answers was not accepted.
ClientTellsTheTruth ==
    /\ \A r \in Runs : \A i \in DOMAIN acked[r] :
           i \in DOMAIN enqueued[r] /\ enqueued[r][i] = acked[r][i]
    /\ \A q \in dropped \ relayed : ~Accepted(q)

\* While every answer came from Core, a client with nothing unresolved names
\* the sequence Core expects, so no history of failures leaves the two out of
\* step and every later checkpoint in conflict.
ClientInStep ==
    \A r \in Runs :
        (\A q \in relayed : q.run # r) /\ client[r].pending = NoRequest =>
            client[r].next = Len(enqueued[r]) + 1
=============================================================================
