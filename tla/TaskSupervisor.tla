--------------------------- MODULE TaskSupervisor ---------------------------
(***************************************************************************)
(* The trusted launcher: it prepares a stopped container task in a leaf of  *)
(* its own, registers it with Core, releases it, waits for root and leaf to *)
(* be empty and finishes the Run.  Management answers may be lost, Docker   *)
(* and cgroup calls may fail, and the operator may interrupt any step.      *)
(***************************************************************************)
EXTENDS Integers

VARIABLES launcher,    \* program counter of ContainerTask.__init__, supervise and main
          stopFor,     \* why _stop_and_confirm_scope_exit runs: "unregistered" or "registered"
          leaf,        \* the leaf directory exists
          root,        \* "none", "init", "stopped", "released", "exited"
          joined,      \* the root is in the leaf
          children,    \* other processes of the workload are in the leaf
          coreRun,     \* the Run in Core: "none", "active", "ended"
          confirmed,   \* history: the registration answer was verified
          finished,    \* history: Core took a finish from this supervisor
          killed,      \* history: cgroup.kill was written
          outcome      \* what main reports: "none", "success", "failure"

supVars == <<launcher, stopFor, leaf, root, joined, children, coreRun, confirmed, finished, killed, outcome>>
taskVars == <<leaf, root, joined, children>>
noteVars == <<confirmed, finished, killed, outcome>>

SupervisorInit ==
    /\ launcher = "make_leaf" /\ stopFor = "unregistered" /\ leaf = FALSE /\ root = "none"
    /\ joined = FALSE /\ children = FALSE /\ coreRun = "none"
    /\ confirmed = FALSE /\ finished = FALSE /\ killed = FALSE /\ outcome = "none"

LeafEmpty == ~children /\ ~(joined /\ root \in {"init", "stopped", "released"})

\* Any failure of main ends in close.
Fail == launcher' = "closing" /\ outcome' = "failure"

-----------------------------------------------------------------------------
(* ContainerTask.__init__: the steps that change the host, in order.       *)

MakeLeaf ==
    /\ launcher = "make_leaf" /\ launcher' = "start_init" /\ leaf' = TRUE
    /\ UNCHANGED <<stopFor, root, joined, children, coreRun, noteVars>>

\* docker create and docker start; the trusted init waits for its envelope.
StartInit ==
    /\ launcher = "start_init" /\ launcher' = "stop_init" /\ root' = "init"
    /\ UNCHANGED <<stopFor, leaf, joined, children, coreRun, noteVars>>

StopInit ==
    /\ launcher = "stop_init" /\ root = "init" /\ launcher' = "join_leaf" /\ root' = "stopped"
    /\ UNCHANGED <<stopFor, leaf, joined, children, coreRun, noteVars>>

JoinLeaf ==
    /\ launcher = "join_leaf" /\ root # "exited" /\ launcher' = "prepared" /\ joined' = TRUE
    /\ UNCHANGED <<stopFor, leaf, root, children, coreRun, noteVars>>

PrepareFails ==
    /\ launcher \in {"make_leaf", "start_init", "stop_init", "join_leaf", "prepared"} /\ Fail
    /\ UNCHANGED <<stopFor, taskVars, coreRun, confirmed, finished, killed>>

\* confirm_stopped: the root is the one prepared, stopped and alone in the leaf.
ConfirmStopped == root = "stopped" /\ joined /\ ~children

-----------------------------------------------------------------------------
(* supervise.                                                              *)

\* is_prepared.
CheckPrepared ==
    /\ launcher = "prepared"
    /\ IF ConfirmStopped THEN launcher' = "register" /\ UNCHANGED outcome ELSE Fail
    /\ UNCHANGED <<stopFor, taskVars, coreRun, confirmed, finished, killed>>

\* A registration without an answer goes on.
MutantRegister(accepted, answered) ==
    /\ launcher = "register"
    /\ coreRun' = IF accepted THEN "active" ELSE coreRun
    /\ launcher' = "confirm" /\ stopFor' = "registered"
    /\ UNCHANGED <<taskVars, noteVars>>

\* management.register: Core may register and its answer arrive; or the request
\* or the answer is lost, or the answer is refused by the client.
Register(accepted, answered) ==
    /\ launcher = "register"
    /\ coreRun' = IF accepted THEN "active" ELSE coreRun
    /\ IF accepted /\ answered
       THEN launcher' = "confirm" /\ stopFor' = "registered"
       ELSE launcher' = "terminate" /\ stopFor' = "unregistered"
    /\ UNCHANGED <<taskVars, noteVars>>

\* confirms_registration and confirm_stopped; matches is whether the answer
\* names the held leaf.
Confirm(matches) ==
    /\ launcher = "confirm"
    /\ confirmed' = (matches /\ ConfirmStopped)
    /\ launcher' = IF confirmed' THEN "start" ELSE "terminate"
    /\ UNCHANGED <<stopFor, taskVars, coreRun, finished, killed, outcome>>

\* start: the envelope with the credentials, then SIGCONT.
Start(ok) ==
    /\ launcher = "start"
    /\ IF ok /\ ConfirmStopped THEN root' = "released" /\ launcher' = "wait_root"
       ELSE root' = root /\ launcher' = "terminate"
    /\ UNCHANGED <<stopFor, leaf, joined, children, coreRun, noteVars>>

WaitPoint == {"wait_root", "term_root", "kill_root"}

\* wait_for_scope_exit asks Docker for the root, then the leaf for its
\* population, and starts over unless both are gone.
WaitRoot ==
    /\ launcher \in WaitPoint /\ root = "exited"
    /\ launcher' = CASE launcher = "wait_root" -> "wait_leaf"
                     [] launcher = "term_root" -> "term_leaf"
                     [] launcher = "kill_root" -> "kill_leaf"
    /\ UNCHANGED <<stopFor, taskVars, coreRun, noteVars>>

AfterExit == IF stopFor = "registered" THEN "finish" ELSE "closing"

WaitLeaf ==
    /\ launcher \in {"wait_leaf", "term_leaf", "kill_leaf"}
    /\ launcher' = CASE LeafEmpty -> AfterExit
                     [] ~LeafEmpty /\ launcher = "wait_leaf" -> "wait_root"
                     [] ~LeafEmpty /\ launcher = "term_leaf" -> "term_root"
                     [] ~LeafEmpty /\ launcher = "kill_leaf" -> "kill_root"
    /\ outcome' = IF LeafEmpty /\ (launcher # "wait_leaf" \/ stopFor = "unregistered")
                  THEN "failure" ELSE outcome
    /\ UNCHANGED <<stopFor, taskVars, coreRun, confirmed, finished, killed>>

\* The wait after the kill has no timeout.
MutantLeaveWait ==
    /\ \/ launcher \in {"confirm", "start", "wait_root", "wait_leaf"} /\ launcher' = "terminate" /\ UNCHANGED outcome
       \/ launcher \in {"term_root", "term_leaf"} /\ launcher' = "kill" /\ UNCHANGED outcome
    /\ UNCHANGED <<stopFor, taskVars, coreRun, confirmed, finished, killed>>

\* A timeout, a Docker error or an interrupt leaves the wait: TERM follows the
\* first wait, KILL the second, and after the third the exit is unconfirmed.
LeaveWait ==
    /\ \/ launcher \in {"confirm", "start", "wait_root", "wait_leaf"} /\ launcher' = "terminate" /\ UNCHANGED outcome
       \/ launcher \in {"term_root", "term_leaf"} /\ launcher' = "kill" /\ UNCHANGED outcome
       \/ launcher \in {"kill_root", "kill_leaf"} /\ Fail
    /\ UNCHANGED <<stopFor, taskVars, coreRun, confirmed, finished, killed>>

\* docker kill --signal=TERM; its errors are ignored.
Terminate ==
    /\ launcher = "terminate" /\ launcher' = "term_root"
    /\ UNCHANGED <<stopFor, taskVars, coreRun, noteVars>>

\* kill: cgroup.kill empties the leaf, docker kill stops the root.
KillScope(cgroupOk, dockerOk) ==
    /\ children' = IF cgroupOk THEN FALSE ELSE children
    /\ root' = IF root # "none" /\ ((cgroupOk /\ joined) \/ dockerOk) THEN "exited" ELSE root
    /\ killed' = (killed \/ cgroupOk)

Kill(cgroupOk, dockerOk) ==
    /\ launcher = "kill" /\ launcher' = "kill_root"
    /\ KillScope(cgroupOk, cgroupOk /\ dockerOk)
    /\ UNCHANGED <<stopFor, leaf, joined, coreRun, confirmed, finished, outcome>>

\* A finish without an answer is taken for done.
MutantFinish(accepted, answered) ==
    /\ launcher = "finish"
    /\ coreRun' = IF accepted THEN "ended" ELSE coreRun
    /\ finished' = (finished \/ accepted)
    /\ launcher' = "closing" /\ outcome' = IF outcome = "none" THEN "success" ELSE outcome
    /\ UNCHANGED <<stopFor, taskVars, confirmed, killed>>

\* _finish_after_exit: Core may finish the Run and the answer be lost.
Finish(accepted, answered) ==
    /\ launcher = "finish"
    /\ coreRun' = IF accepted THEN "ended" ELSE coreRun
    /\ finished' = (finished \/ accepted)
    /\ launcher' = "closing"
    /\ outcome' = IF accepted /\ answered /\ outcome = "none" THEN "success" ELSE "failure"
    /\ UNCHANGED <<stopFor, taskVars, confirmed, killed>>

\* close: kill again, docker rm --force, and rmdir of an empty leaf.
CloseTask(cgroupOk, removed) ==
    /\ launcher = "closing" /\ launcher' = "done"
    /\ KillScope(leaf /\ cgroupOk, removed)
    /\ leaf' = (leaf /\ (children' \/ (joined /\ root' \notin {"none", "exited"})))
    /\ UNCHANGED <<stopFor, joined, coreRun, confirmed, finished, outcome>>

-----------------------------------------------------------------------------
(* The workload and Core.                                                  *)

RootExits ==
    /\ root \in {"init", "released"} /\ root' = "exited"
    /\ UNCHANGED <<launcher, stopFor, leaf, joined, children, coreRun, noteVars>>

\* Something else continues the stopped root before it is released.
RootDisturbed ==
    /\ root = "stopped" /\ root' = "init"
    /\ UNCHANGED <<launcher, stopFor, leaf, joined, children, coreRun, noteVars>>

WorkloadForks ==
    /\ root = "released" /\ children' = TRUE
    /\ UNCHANGED <<launcher, stopFor, leaf, root, joined, coreRun, noteVars>>

ChildrenExit ==
    /\ children /\ children' = FALSE
    /\ UNCHANGED <<launcher, stopFor, leaf, root, joined, coreRun, noteVars>>

\* Core ends the Run by itself: expiry, a scope violation or containment.
CoreEndsRun(kills) ==
    /\ coreRun = "active" /\ coreRun' = "ended"
    /\ children' = IF kills THEN FALSE ELSE children
    /\ root' = IF kills /\ joined THEN "exited" ELSE root
    /\ UNCHANGED <<launcher, stopFor, leaf, joined, noteVars>>

LauncherStep ==
    \/ MakeLeaf \/ StartInit \/ StopInit \/ JoinLeaf \/ PrepareFails \/ CheckPrepared
    \/ WaitRoot \/ WaitLeaf \/ LeaveWait \/ Terminate
    \/ \E a, b \in BOOLEAN : Register(a, b) \/ Finish(a, b) \/ Kill(a, b) \/ CloseTask(a, b)
    \/ \E ok \in BOOLEAN : Confirm(ok) \/ Start(ok)

SupervisorNext ==
    \/ LauncherStep \/ RootExits \/ RootDisturbed \/ WorkloadForks \/ ChildrenExit
    \/ \E kills \in BOOLEAN : CoreEndsRun(kills)

\* The launcher's own steps end: every call has a timeout.  A wait may start
\* over, but its deadline comes.
LauncherFairness == WF_supVars(LauncherStep) /\ SF_supVars(LeaveWait)

SupervisorSpec == SupervisorInit /\ [][SupervisorNext]_supVars /\ LauncherFairness

-----------------------------------------------------------------------------
\* A workload runs only after Core registered its leaf and the supervisor
\* verified the answer: a lost registration never releases the task.
ReleasedOnlyRegistered ==
    root = "released" \/ children => confirmed /\ coreRun # "none" /\ stopFor = "registered"

\* The supervisor tells Core that a Run is finished only when no process of it is
\* left (the end of the root is not enough), a success it reports is a Run that
\* ended with its scope empty, and a leaf is only left behind if something still
\* lives in it.
ReportIsTrue ==
    /\ finished => root = "exited" /\ LeafEmpty
    /\ outcome = "success" => coreRun = "ended" /\ root = "exited" /\ LeafEmpty
    /\ launcher = "done" /\ killed => LeafEmpty /\ ~leaf

\* A launcher that has begun reports and closes, whatever fails or hangs.
LauncherEnds == launcher # "make_leaf" ~> launcher = "done" /\ outcome # "none"
=============================================================================
