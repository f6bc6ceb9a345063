----------------------------- MODULE StreamHub -----------------------------
(***************************************************************************)
(* stream.Hub, the WebSocket handler of a subscriber and the dashboard's    *)
(* live trace behind it: publish, bounded history, replay from a cursor,    *)
(* detaching of slow subscribers, resync, shutdown and restart of Core.     *)
(*                                                                         *)
(* A message is its sequence number; a subscriber's channel is the set of   *)
(* the numbers in it, taken in order.  The history is log from oldest on.   *)
(* Age and bytes are abstracted: any old part may have expired.             *)
(***************************************************************************)
EXTENDS Integers, Sequences, FiniteSets, FiniteSetsExt

CONSTANTS Viewers, Classes,
          Wanted,         \* the classes of records each viewer's filter matches
          Capacity,       \* HubOptions.Capacity
          ClientQueue,    \* HubOptions.ClientQueue
          MaxMessages, MaxRestarts    \* bounds

ASSUME HubAssumption ==
    /\ Capacity \in Nat \ {0} /\ ClientQueue \in Nat \ {0}
    /\ MaxMessages \in Nat /\ MaxRestarts \in Nat
    /\ Wanted \in [Viewers -> SUBSET Classes]

VARIABLES log,        \* what this process has published
          oldest,     \* sequence of the first message in Hub.history
          hubDown,    \* Hub.closed
          conn,       \* the handler of each viewer's connection
          view,       \* the dashboard: cursor, rows of this process, older rows
          restarts

hubVars == <<log, oldest, hubDown, conn, view, restarts>>

latest == Len(log)
Matches(v, s) == log[s] \in Wanted[v]

NoConn == [pc |-> "none", replay |-> {}, messages |-> {}, overflow |-> FALSE, subscribed |-> FALSE]

HubInit ==
    /\ log = <<>> /\ oldest = 1 /\ hubDown = FALSE
    /\ conn = [v \in Viewers |-> NoConn]
    /\ view = [v \in Viewers |-> [cursor |-> 0, rows |-> {}, old |-> FALSE]]
    /\ restarts = 0

\* pruneLocked: messages past the age or byte limit leave the history from the
\* front; the first that may be left.
Pruned == oldest .. latest + 1

\* A message sent to one subscriber: queued, skipped, or the subscriber is
\* detached because its channel is full.
offer(v, c, s, k) ==
    IF ~c.subscribed \/ k \notin Wanted[v] THEN c
    ELSE IF Cardinality(c.messages) < ClientQueue THEN [c EXCEPT !.messages = @ \cup {s}]
    ELSE [c EXCEPT !.overflow = TRUE, !.subscribed = FALSE]

Publish(k) ==
    /\ ~hubDown /\ latest < MaxMessages
    /\ log' = Append(log, k)
    /\ \E first \in Pruned :
          oldest' = Max({first, latest + 2 - Capacity})
    /\ conn' = [v \in Viewers |-> offer(v, conn[v], latest + 1, k)]
    /\ UNCHANGED <<hubDown, view, restarts>>

\* One message too few is missed.
MutantExpired(cursor, first) == cursor > latest \/ cursor < first - 2

\* A cursor the retained history does not reach, or one from the future.
expired(cursor, first) == cursor > latest \/ cursor < first - 1

\* subscribe: replay from the cursor and registration are one critical section.
subscribe(v, cursor, first) ==
    IF hubDown \/ (cursor # 0 /\ expired(cursor, first))
    THEN [NoConn EXCEPT !.pc = "resync"]
    ELSE [NoConn EXCEPT !.pc = "replay", !.subscribed = TRUE,
          !.replay = IF cursor = 0 THEN {}
                     ELSE {s \in first .. latest : s > cursor /\ Matches(v, s)}]

\* The dashboard opens a stream with its cursor, if it has one.
Connect(v) ==
    /\ conn[v].pc = "none"
    /\ \E first \in Pruned :
          /\ oldest' = first
          /\ conn' = [conn EXCEPT ![v] = subscribe(v, view[v].cursor, first)]
    /\ UNCHANGED <<log, hubDown, view, restarts>>

\* onmessage of the dashboard.
ShowMessage(v, s) == view' = [view EXCEPT ![v].cursor = s, ![v].rows = @ \cup {s}]

ShowResync(v) == view' = [view EXCEPT ![v] = [cursor |-> 0, rows |-> {}, old |-> FALSE]]

\* serveStream: the resync frame and the end of the connection ...
SendResync(v) ==
    /\ conn[v].pc = "resync"
    /\ ShowResync(v)
    /\ conn' = [conn EXCEPT ![v] = NoConn]
    /\ UNCHANGED <<log, oldest, hubDown, restarts>>

\* ... or the replay, then the loop with its two selects.
SendReplay(v) ==
    /\ conn[v].pc = "replay"
    /\ \/ /\ conn[v].replay # {}
          /\ ShowMessage(v, Min(conn[v].replay))
          /\ conn' = [conn EXCEPT ![v].replay = @ \ {Min(@)}]
       \/ /\ conn[v].replay = {}
          /\ conn' = [conn EXCEPT ![v].pc = "check"]
          /\ UNCHANGED view
    /\ UNCHANGED <<log, oldest, hubDown, restarts>>

CheckOverflow(v) ==
    /\ conn[v].pc = "check" /\ ~conn[v].overflow
    /\ conn' = [conn EXCEPT ![v].pc = "select"]
    /\ UNCHANGED <<log, oldest, hubDown, view, restarts>>

\* An overflow is answered by a resync message; Hub.resync prunes too.
SlowClient(v) ==
    /\ conn[v].pc \in {"check", "select"} /\ conn[v].overflow
    /\ \E first \in Pruned : oldest' = first
    /\ ShowResync(v)
    /\ conn' = [conn EXCEPT ![v] = NoConn]
    /\ UNCHANGED <<log, hubDown, restarts>>

SendMessage(v) ==
    /\ conn[v].pc = "select" /\ conn[v].messages # {}
    /\ ShowMessage(v, Min(conn[v].messages))
    /\ conn' = [conn EXCEPT ![v].messages = @ \ {Min(@)}, ![v].pc = "check"]
    /\ UNCHANGED <<log, oldest, hubDown, restarts>>

\* The client leaves, a write fails, the lifetime ends or the hub is done;
\* unsubscribe is deferred.  A frame being sent may be lost.
Disconnect(v) ==
    /\ conn[v].pc # "none"
    /\ conn' = [conn EXCEPT ![v] = NoConn]
    /\ UNCHANGED <<log, oldest, hubDown, view, restarts>>

\* Hub.Close forgets every subscriber.
ShutHub ==
    /\ ~hubDown /\ hubDown' = TRUE
    /\ conn' = [v \in Viewers |-> [conn[v] EXCEPT !.subscribed = FALSE]]
    /\ UNCHANGED <<log, oldest, view, restarts>>

\* Core starts again with an empty hub; the dashboards stay open.
RestartCore ==
    /\ hubDown /\ restarts < MaxRestarts
    /\ restarts' = restarts + 1
    /\ log' = <<>> /\ oldest' = 1 /\ hubDown' = FALSE
    /\ conn' = [v \in Viewers |-> NoConn]
    /\ view' = [v \in Viewers |-> [view[v] EXCEPT !.old = @ \/ view[v].rows # {}, !.rows = {}]]

HandlerStep(v) == SendResync(v) \/ SendReplay(v) \/ CheckOverflow(v) \/ SlowClient(v) \/ SendMessage(v)

HubNext ==
    \/ \E k \in Classes : Publish(k)
    \/ \E v \in Viewers : Connect(v) \/ HandlerStep(v) \/ Disconnect(v)
    \/ ShutHub \/ RestartCore

HubFairness == \A v \in Viewers : WF_hubVars(HandlerStep(v))

HubSpec == HubInit /\ [][HubNext]_hubVars /\ HubFairness

-----------------------------------------------------------------------------
\* The hub, its handlers and the dashboard implement LiveTail: replay after a
\* reconnect, live messages, overflow and resync never show a gap or repeat.
Live == INSTANCE LiveTail WITH shown <- [v \in Viewers |-> view[v].rows]

ImplementsLiveTail == Live!Spec

\* A dashboard that shows rows of an earlier Core process next to rows of this
\* one has missed none in between: an unreachable cursor leads to a resync.
NoGapAcrossRestart ==
    \A v \in Viewers : view[v].old /\ view[v].rows # {} =>
        \A s \in 1 .. Min(view[v].rows) - 1 : ~Matches(v, s)
=============================================================================
