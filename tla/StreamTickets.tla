---------------------------- MODULE StreamTickets ----------------------------
(***************************************************************************)
(* Admission to the live stream: single-use tickets that expire, and the    *)
(* limit on open connections.  A request consumes its ticket and acquires   *)
(* its connection in two critical sections.                                 *)
(***************************************************************************)
EXTENDS Integers, Sequences, FiniteSets

CONSTANTS StreamRequests,         \* stream requests in progress at once
          TicketTTL, MaxTickets, MaxConnections,
          MaxIssued, MaxClock     \* bounds

ASSUME TicketAssumption ==
    /\ TicketTTL \in Nat \ {0} /\ MaxTickets \in Nat /\ MaxConnections \in Nat
    /\ MaxIssued \in Nat /\ MaxClock \in Nat

VARIABLES clock,
          issuedAt,      \* history: when each ticket was issued
          tickets,       \* Handler.tickets: the expiry of each ticket held
          connections,   \* Handler.activeConnections
          request,       \* serveStream of each request
          admissions     \* history: the tickets and times consumeTicket accepted

ticketVars == <<clock, issuedAt, tickets, connections, request, admissions>>

Issued == DOMAIN issuedAt

TicketInit ==
    /\ clock = 0 /\ issuedAt = <<>> /\ tickets = [t \in {} |-> 0]
    /\ connections = 0
    /\ request = [r \in StreamRequests |-> [pc |-> "idle", ticket |-> 0, now |-> 0]]
    /\ admissions = <<>>

\* pruneTicketsLocked(now).
pruneTickets(now) == [t \in {u \in DOMAIN tickets : now < tickets[u]} |-> tickets[t]]

\* serveTicket, for an authorised backend: the expiry counts from a time read
\* before the lock was taken.
serveTicket(now) ==
    /\ Len(issuedAt) < MaxIssued /\ now <= clock
    /\ LET held == pruneTickets(clock)
           t == Len(issuedAt) + 1
       IN  IF Cardinality(DOMAIN held) >= MaxTickets
           THEN tickets' = held /\ UNCHANGED issuedAt
           ELSE /\ issuedAt' = Append(issuedAt, now)
                /\ tickets' = [u \in DOMAIN held \cup {t} |->
                                   IF u = t THEN now + TicketTTL ELSE held[u]]
    /\ UNCHANGED <<clock, connections, request, admissions>>

\* consumeTicket reads the clock, then waits for the lock.
BeginConsume(r, t) ==
    /\ request[r].pc = "idle"
    /\ request' = [request EXCEPT ![r] = [pc |-> "consuming", ticket |-> t, now |-> clock]]
    /\ UNCHANGED <<clock, issuedAt, tickets, connections, admissions>>

Outcome(r, held) ==
    LET t == request[r].ticket
        good == t \in DOMAIN held /\ request[r].now < held[t]
    IN  /\ request' = [request EXCEPT ![r].pc = IF good THEN "authorized" ELSE "idle"]
        /\ admissions' = IF good THEN Append(admissions, [ticket |-> t, at |-> request[r].now])
                         ELSE admissions

\* The entry is deleted whether or not it is still good.
consumeTicket(r) ==
    LET held == pruneTickets(request[r].now)
    IN  /\ request[r].pc = "consuming"
        /\ tickets' = [u \in DOMAIN held \ {request[r].ticket} |-> held[u]]
        /\ Outcome(r, held)
        /\ UNCHANGED <<clock, issuedAt, connections>>

\* A request with the read token itself needs no ticket.
authorizeBearer(r) ==
    /\ request[r].pc = "idle" /\ request' = [request EXCEPT ![r].pc = "authorized"]
    /\ UNCHANGED <<clock, issuedAt, tickets, connections, admissions>>

\* parseQuery refuses the request; its ticket stays spent.
RefuseQuery(r) ==
    /\ request[r].pc = "authorized" /\ request' = [request EXCEPT ![r].pc = "idle"]
    /\ UNCHANGED <<clock, issuedAt, tickets, connections, admissions>>

\* acquireConnection.
acquireConnection(r) ==
    /\ request[r].pc = "authorized"
    /\ request' = [request EXCEPT ![r].pc = IF connections >= MaxConnections THEN "idle" ELSE "open"]
    /\ connections' = IF connections >= MaxConnections THEN connections ELSE connections + 1
    /\ UNCHANGED <<clock, issuedAt, tickets, admissions>>

\* releaseConnection, deferred by serveStream.
releaseConnection(r) ==
    /\ request[r].pc = "open" /\ request' = [request EXCEPT ![r].pc = "idle"]
    /\ connections' = connections - 1
    /\ UNCHANGED <<clock, issuedAt, tickets, admissions>>

TimePasses ==
    /\ clock < MaxClock /\ clock' = clock + 1
    /\ UNCHANGED <<issuedAt, tickets, connections, request, admissions>>

TicketNext ==
    \/ TimePasses \/ \E now \in 0 .. MaxClock : serveTicket(now)
    \/ \E r \in StreamRequests :
          \/ \E t \in Issued : BeginConsume(r, t)
          \/ consumeTicket(r)
          \/ authorizeBearer(r) \/ RefuseQuery(r) \/ acquireConnection(r) \/ releaseConnection(r)

TicketSpec == TicketInit /\ [][TicketNext]_ticketVars

-----------------------------------------------------------------------------
\* A ticket admits one request, once, before it expires, however requests
\* that carry it and the expiry interleave.
TicketAdmitsOnce ==
    /\ \A i, j \in DOMAIN admissions : admissions[i].ticket = admissions[j].ticket => i = j
    /\ \A i \in DOMAIN admissions : admissions[i].at < issuedAt[admissions[i].ticket] + TicketTTL

\* activeConnections counts the open connections and never passes its limit.
ConnectionsBounded ==
    /\ connections = Cardinality({r \in StreamRequests : request[r].pc = "open"})
    /\ connections <= MaxConnections
=============================================================================
