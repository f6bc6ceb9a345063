------------------------------ MODULE LiveTail ------------------------------
(* What the live stream promises a viewer: the records it shows are all the *)
(* records its filter matches between the first and the last one shown; a   *)
(* viewer that fell behind is cleared, never given a gap.                   *)
EXTENDS Integers, Sequences

CONSTANTS Viewers, Classes, Wanted

VARIABLES log,      \* the records of this Core process, in order
          shown     \* sequence numbers shown to each viewer

Init == log = <<>> /\ shown = [v \in Viewers |-> {}]

Matches(v, s) == log[s] \in Wanted[v]

Publish == \E k \in Classes : log' = Append(log, k) /\ UNCHANGED shown

Show(v) ==
    \E s \in DOMAIN log :
        /\ Matches(v, s)
        /\ \A t \in shown[v] : t < s
        /\ shown[v] # {} => \A t \in 1 .. s - 1 : (\A u \in shown[v] : u < t) => ~Matches(v, t)
        /\ shown' = [shown EXCEPT ![v] = @ \cup {s}]
        /\ UNCHANGED log

Clear(v) == shown' = [shown EXCEPT ![v] = {}] /\ UNCHANGED log

\* A new process numbers its records from one.
Restart == log' = <<>> /\ shown' = [v \in Viewers |-> {}]

Next == Publish \/ Restart \/ \E v \in Viewers : Show(v) \/ Clear(v)

Spec == Init /\ [][Next]_<<log, shown>>
=============================================================================
