------------------------------ MODULE DockerLaunch ------------------------------
(***************************************************************************)
(* DockerBackend.create_execution and delete_execution for the executions  *)
(* of one session (controller/backends/docker.py): the runtime sidecar is  *)
(* run and probed until its start hooks are through, then the worker is    *)
(* run.  Docker's calls are made by threads, which the launch waits for no *)
(* longer than half a minute and which run on when it has given up or was  *)
(* cancelled.                                                              *)
(*                                                                         *)
(* The containers of every execution of a session have the same names, and *)
(* nothing keeps two launches apart: a session may be resumed twice, or    *)
(* while its last execution is not deleted yet.                            *)
(* delete_execution makes its calls on the event loop: no coroutine moves  *)
(* meanwhile, but threads do.                                              *)
(***************************************************************************)
EXTENDS Integers, FiniteSets

CONSTANT
    MaxLaunches     \* bound: launches of the session

ASSUME LaunchAssumption == MaxLaunches \in Nat \ {0}

Launches == 1..MaxLaunches
Roles == {"sidecar", "worker"}      \* each has one container name
NoOne == 0
Foreign == MaxLaunches + 1  \* a session whose id begins with the same letters

Free == [by |-> NoOne, state |-> "none"]

VARIABLES
    named,      \* the container that has the name of each role
    hooks,      \* the sidecar's start hooks, by launch: none, running, ok, failed
    pc,         \* where each launch is
    thread,     \* the thread that runs a container, by launch and role
    handle,     \* the container it is about to remove
    removing,   \* launches that gave up a thread which removes their sidecar
    deleting,   \* the execution whose delete_execution is in its middle
    deleted,    \* executions delete_execution was called for
    leftover,   \* history: the roles a launch may have left a container of
    disturbed   \* history: launches that others interfered with

threadVars == <<thread, handle, removing>>
vars == <<named, hooks, pc, threadVars, deleting, deleted, leftover, disturbed>>

Init ==
    /\ named \in [Roles -> {Free, [by |-> Foreign, state |-> "running"]}]
    /\ hooks = [l \in Launches |-> "none"] /\ pc = [l \in Launches |-> "idle"]
    /\ thread = [l \in Launches |-> [r \in Roles |-> "none"]]
    /\ handle = [l \in Launches |-> NoOne]
    /\ deleting = NoOne /\ deleted = {}
    /\ removing = {} /\ leftover = [l \in Launches |-> {}] /\ disturbed = {}

Finished == {"ok", "error"}
Underway(l) == pc[l] \notin {"idle", "returned", "raised"}
Standing(l) == Underway(l) \/ pc[l] = "returned"
Working(l) == \E r \in Roles : thread[l][r] \notin {"none"} \cup Finished

SetThread(l, r, s) == thread' = [thread EXCEPT ![l][r] = s]
Goto(l, s) == pc' = [pc EXCEPT ![l] = s]
MayLeave(l, R) == leftover' = [leftover EXCEPT ![l] = @ \cup R]

-----------------------------------------------------------------------------
(* A thread: _run_container_with_conflict_retry.                           *)

(* containers.run creates and starts; the start may fail.                  *)
RunNamed(l, r) ==
    \/ /\ named' = [named EXCEPT ![r] = [by |-> l, state |-> "running"]]
       /\ hooks' = (IF r = "sidecar" THEN [hooks EXCEPT ![l] = "running"] ELSE hooks)
       /\ SetThread(l, r, "ok") /\ UNCHANGED leftover
    \/ /\ named' = [named EXCEPT ![r] = [by |-> l, state |-> "created"]]
       /\ SetThread(l, r, "error") /\ MayLeave(l, {r}) /\ UNCHANGED hooks

(* The container itself is removed, and not what has its name now. *)
RemoveSidecar(l) ==
    named' = IF named["sidecar"].by = l THEN [named EXCEPT !["sidecar"] = Free] ELSE named

RunFails(l, r) == SetThread(l, r, "error") /\ UNCHANGED <<named, hooks, leftover>>

RunContainer(l, r) ==
    /\ thread[l][r] = "run"
    /\ \/ named[r] = Free /\ RunNamed(l, r)
       \/ named[r] # Free /\ SetThread(l, r, "get") /\ UNCHANGED <<named, hooks, leftover>>
       \/ RunFails(l, r)
    /\ UNCHANGED <<pc, handle, removing, deleting, deleted, disturbed>>

(* Mutant of GetConflicting: the labels are not compared.                  *)
GetConflictingAny(l, r) ==
    /\ thread[l][r] = "get" /\ named[r] # Free
    /\ handle' = [handle EXCEPT ![l] = named[r].by] /\ SetThread(l, r, "remove")
    /\ UNCHANGED <<named, hooks, pc, removing, deleting, deleted, leftover, disturbed>>

(* _remove_managed_container: the labels must be this session's.           *)
GetConflicting(l, r) ==
    /\ thread[l][r] = "get"
    /\ IF named[r].by \in Launches
       THEN handle' = [handle EXCEPT ![l] = named[r].by] /\ SetThread(l, r, "remove")
       ELSE SetThread(l, r, "error") /\ UNCHANGED handle
    /\ UNCHANGED <<named, hooks, pc, removing, deleting, deleted, leftover, disturbed>>

(* remove(force=True) of the container that was found; it fails when that  *)
(* one has been removed meanwhile.                                         *)
RemoveConflicting(l, r) ==
    /\ thread[l][r] = "remove"
    /\ \/ /\ named[r].by = handle[l] /\ named' = [named EXCEPT ![r] = Free]
          /\ SetThread(l, r, "rerun")
       \/ SetThread(l, r, "error") /\ UNCHANGED named
    /\ UNCHANGED <<hooks, pc, handle, removing, deleting, deleted, leftover, disturbed>>

RerunContainer(l, r) ==
    /\ thread[l][r] = "rerun"
    /\ (named[r] = Free /\ RunNamed(l, r)) \/ RunFails(l, r)
    /\ UNCHANGED <<pc, handle, removing, deleting, deleted, disturbed>>

-----------------------------------------------------------------------------
(* create_execution. *)

(* Launches are numbered as they begin, and may begin at any time: the     *)
(* session manager has no lock.                                            *)
Begin(l) ==
    /\ pc[l] = "idle" /\ deleting = NoOne
    /\ l > 1 => pc[l - 1] # "idle"
    /\ \/ Goto(l, "run_sidecar") /\ SetThread(l, "sidecar", "run")
       \/ Goto(l, "run_worker") /\ SetThread(l, "worker", "run")    \* no runtime
    /\ disturbed' = disturbed \cup {k \in Launches : Standing(k)} \cup
         (IF \E k \in Launches \ {l} : Underway(k) \/ Working(k) THEN {l} ELSE {})
    /\ UNCHANGED <<named, hooks, handle, removing, deleting, deleted, leftover>>

(* Mutant of SidecarRun: the worker is run without the sidecar.            *)
SidecarRunIgnored(l) ==
    /\ pc[l] = "run_sidecar" /\ deleting = NoOne
    /\ \/ thread[l]["sidecar"] = "ok" /\ Goto(l, "probe") /\ UNCHANGED thread
       \/ /\ thread[l]["sidecar"] = "error" /\ Goto(l, "run_worker")
          /\ SetThread(l, "worker", "run")
    /\ UNCHANGED <<named, hooks, handle, removing, deleting, deleted, leftover, disturbed>>

SidecarRun(l) ==
    /\ pc[l] = "run_sidecar" /\ deleting = NoOne
    /\ \/ thread[l]["sidecar"] = "ok" /\ Goto(l, "probe") /\ UNCHANGED leftover
       \/ thread[l]["sidecar"] = "error" /\ Goto(l, "raised") /\ UNCHANGED leftover
       \/ /\ thread[l]["sidecar"] \notin Finished      \* wait_for expires
          /\ Goto(l, "raised") /\ MayLeave(l, {"sidecar"})
    /\ UNCHANGED <<named, hooks, threadVars, deleting, deleted, disturbed>>

(* Mutant of ProbeReady: a sidecar that is still starting is ready.        *)
ProbeReadyEarly(l) ==
    /\ pc[l] = "probe" /\ deleting = NoOne
    /\ named["sidecar"] = [by |-> l, state |-> "running"]
    /\ hooks[l] # "failed"
    /\ Goto(l, "run_worker") /\ SetThread(l, "worker", "run")
    /\ UNCHANGED <<named, hooks, handle, removing, deleting, deleted, leftover, disturbed>>

(* /health answers 200. *)
ProbeReady(l) ==
    /\ pc[l] = "probe" /\ deleting = NoOne
    /\ named["sidecar"] = [by |-> l, state |-> "running"]
    /\ hooks[l] = "ok"
    /\ Goto(l, "run_worker") /\ SetThread(l, "worker", "run")
    /\ UNCHANGED <<named, hooks, handle, removing, deleting, deleted, leftover, disturbed>>

(* Mutant of ProbeFails: the probe goes on until the sidecar answers.      *)
ProbeFailsNever(l) ==
    /\ pc[l] = "probe" /\ deleting = NoOne
    /\ hooks[l] = "failed" \/ named["sidecar"] # [by |-> l, state |-> "running"]
    /\ Goto(l, "cleanup")
    /\ UNCHANGED <<named, hooks, threadVars, deleting, deleted, leftover, disturbed>>

(* It has exited or was removed, /health answers 500, an inspection times  *)
(* out or five minutes have passed.                                        *)
ProbeFails(l) ==
    /\ pc[l] = "probe" /\ deleting = NoOne
    /\ Goto(l, "cleanup")
    /\ UNCHANGED <<named, hooks, threadVars, deleting, deleted, leftover, disturbed>>

(* Mutant of WorkerRun: a failure does not stop the sidecar.               *)
WorkerRunRaises(l) ==
    /\ pc[l] = "run_worker" /\ deleting = NoOne
    /\ \/ thread[l]["worker"] = "ok" /\ Goto(l, "inspect") /\ UNCHANGED leftover
       \/ thread[l]["worker"] = "error" /\ Goto(l, "raised") /\ UNCHANGED leftover
       \/ /\ thread[l]["worker"] \notin Finished
          /\ Goto(l, "raised") /\ MayLeave(l, {"worker"})
    /\ UNCHANGED <<named, hooks, threadVars, deleting, deleted, disturbed>>

(* Mutant of WorkerRun: the sidecar is stopped finally, not on failure.    *)
WorkerRunFinally(l) ==
    /\ pc[l] = "run_worker" /\ deleting = NoOne
    /\ \/ /\ thread[l]["worker"] = "ok" /\ Goto(l, "inspect")
          /\ RemoveSidecar(l) /\ UNCHANGED leftover
       \/ /\ thread[l]["worker"] = "error" /\ Goto(l, "cleanup")
          /\ UNCHANGED <<named, leftover>>
       \/ /\ thread[l]["worker"] \notin Finished /\ Goto(l, "cleanup")
          /\ MayLeave(l, {"worker"}) /\ UNCHANGED named
    /\ UNCHANGED <<hooks, threadVars, deleting, deleted, disturbed>>

WorkerRun(l) ==
    /\ pc[l] = "run_worker" /\ deleting = NoOne
    /\ \/ thread[l]["worker"] = "ok" /\ Goto(l, "inspect") /\ UNCHANGED leftover
       \/ thread[l]["worker"] = "error" /\ Goto(l, "cleanup") /\ UNCHANGED leftover
       \/ /\ thread[l]["worker"] \notin Finished       \* wait_for expires
          /\ Goto(l, "cleanup") /\ MayLeave(l, {"worker"})
    /\ UNCHANGED <<named, hooks, threadVars, deleting, deleted, disturbed>>

(* reload and _container_target: the address of a container that runs.     *)
(* Nothing is stopped when they raise.                                     *)
Inspect(l) ==
    /\ pc[l] = "inspect" /\ deleting = NoOne
    /\ \/ /\ named["worker"] = [by |-> l, state |-> "running"]
          /\ Goto(l, "returned") /\ UNCHANGED leftover
       \/ Goto(l, "raised") /\ MayLeave(l, Roles)
    /\ UNCHANGED <<named, hooks, threadVars, deleting, deleted, disturbed>>

(* _stop_sidecars_async: failures are passed over, and so is a thread that *)
(* does not come back in time and may still remove the sidecar.            *)
Cleanup(l) ==
    /\ pc[l] = "cleanup" /\ deleting = NoOne /\ Goto(l, "raised")
    /\ \/ RemoveSidecar(l) /\ UNCHANGED <<removing, leftover>>
       \/ /\ MayLeave(l, {"sidecar"}) /\ UNCHANGED named
          /\ removing' \in {removing, removing \cup {l}}
    /\ UNCHANGED <<hooks, thread, handle, deleting, deleted, disturbed>>

LateRemoval(l) ==
    /\ l \in removing /\ removing' = removing \ {l} /\ RemoveSidecar(l)
    /\ UNCHANGED <<hooks, pc, thread, handle, deleting, deleted, leftover, disturbed>>

(* The coroutine is cancelled at any of its awaits: CancelledError is not  *)
(* an Exception, so that no handler stops anything, and the thread it      *)
(* waited for runs on.                                                     *)
Cancel(l) ==
    /\ Underway(l) /\ deleting = NoOne /\ Goto(l, "raised")
    /\ removing' \in {removing} \cup (IF pc[l] = "cleanup" THEN {removing \cup {l}} ELSE {})
    /\ MayLeave(l, Roles)
    /\ UNCHANGED <<named, hooks, thread, handle, deleting, deleted, disturbed>>

-----------------------------------------------------------------------------
(* delete_execution; the worker's container is found by its name alone.    *)
(* Bound: an execution is deleted once.                                    *)
DeleteWorker(l) ==
    /\ deleting = NoOne /\ pc[l] # "idle" /\ l \notin deleted
    /\ deleted' = deleted \cup {l}
    /\ \/ named' = [named EXCEPT !["worker"] = Free] /\ deleting' = l
       \/ named["worker"] # Free /\ UNCHANGED <<named, deleting>>   \* it raises
    /\ disturbed' = disturbed \cup {k \in Launches : pc[k] # "idle"}
    /\ UNCHANGED <<hooks, pc, threadVars, leftover>>

(* The sidecars that have the session's label; failures are passed over.   *)
DeleteSidecar(l) ==
    /\ deleting = l /\ deleting' = NoOne
    /\ named' = (IF named["sidecar"].by \in Launches
                 THEN [named EXCEPT !["sidecar"] = Free] ELSE named)
    /\ UNCHANGED <<hooks, pc, threadVars, deleted, leftover, disturbed>>

-----------------------------------------------------------------------------
(* The sidecar's process (runtime_sidecar.create_app) and the containers.  *)
HooksEnd(l) ==
    /\ hooks[l] = "running" /\ named["sidecar"] = [by |-> l, state |-> "running"]
    /\ \E h \in {"ok", "failed"} : hooks' = [hooks EXCEPT ![l] = h]
    /\ UNCHANGED <<named, pc, threadVars, deleting, deleted, leftover, disturbed>>

ContainerExits(r) ==
    /\ named[r].state = "running" /\ named' = [named EXCEPT ![r].state = "exited"]
    /\ UNCHANGED <<hooks, pc, threadVars, deleting, deleted, leftover, disturbed>>

-----------------------------------------------------------------------------
Create(l) ==
    SidecarRun(l) \/ ProbeReady(l) \/ ProbeFails(l) \/ WorkerRun(l) \/ Inspect(l)
        \/ Cleanup(l)

Thread(l, r) ==
    RunContainer(l, r) \/ GetConflicting(l, r) \/ RemoveConflicting(l, r)
        \/ RerunContainer(l, r)

Next ==
    \/ \E l \in Launches :
         \/ Begin(l) \/ Create(l) \/ Cancel(l) \/ LateRemoval(l)
         \/ DeleteWorker(l) \/ DeleteSidecar(l) \/ HooksEnd(l)
         \/ \E r \in Roles : Thread(l, r)
    \/ \E r \in Roles : ContainerExits(r)

Spec == Init /\ [][Next]_vars

(* A launch's coroutine runs on and its timers expire, as does a deletion; *)
(* nothing is assumed of Docker's threads or of the sidecar.               *)
FairSpec ==
    Spec /\ \A l \in Launches : WF_vars(Create(l)) /\ WF_vars(DeleteSidecar(l))

-----------------------------------------------------------------------------
LaunchTypeOK ==
    /\ named \in [Roles -> [by : 0..Foreign,
                            state : {"none", "created", "running", "exited"}]]
    /\ hooks \in [Launches -> {"none", "running", "ok", "failed"}]
    /\ pc \in [Launches -> {"idle", "run_sidecar", "probe", "run_worker", "inspect",
                            "cleanup", "returned", "raised"}]
    /\ deleting \in {NoOne} \cup deleted /\ deleted \subseteq Launches
    /\ leftover \in [Launches -> SUBSET Roles]
    /\ removing \subseteq Launches /\ disturbed \subseteq Launches
    /\ \A l \in Launches : thread[l]["worker"] # "none" =>
         pc[l] # "idle" /\ thread[l]["sidecar"] \in {"none", "ok"}

(* The worker of a launch that has a sidecar is only run when the sidecar's *)
(* start hooks have succeeded, be it by a thread that was given up or after *)
(* a conflict (create_execution, _wait_for_sidecar_ready).                  *)
HooksBeforeWorker ==
    \A l \in Launches :
        named["worker"].by = l /\ thread[l]["sidecar"] # "none" => hooks[l] = "ok"

(* A launch that has failed leaves no container, except one it was not told *)
(* to remove or could not: the thread that ran it was given up, Docker      *)
(* created it without starting it, the sidecar could not be stopped; and    *)
(* both, if the worker could not be inspected or the launch was cancelled   *)
(* (create_execution's handlers, _stop_sidecars_async).                     *)
FailedLaunchIsClean ==
    \A l \in Launches, r \in Roles :
        pc[l] = "raised" /\ named[r].by = l => r \in leftover[l]

(* A launch that has returned has its own containers under the session's    *)
(* names, whatever earlier launches left there, be they failed, cancelled   *)
(* or returned and never deleted; unless another launch or its thread was   *)
(* at work when it began, or since then another one began or an execution   *)
(* was deleted (_run_container_with_conflict_retry).                        *)
OwnContainers ==
    \A l \in Launches :
        pc[l] = "returned" /\ l \notin disturbed =>
            /\ named["worker"].by = l
            /\ thread[l]["sidecar"] # "none" => named["sidecar"].by = l

(* No launch removes the container of another session, although it may have *)
(* the name this session uses; only delete_execution does.                  *)
ForeignSpared ==
    [][\A r \in Roles :
         named[r].by = Foreign /\ named'[r].by # Foreign =>
            \E l \in Launches : l \notin deleted /\ l \in deleted']_vars

(* Every launch returns or raises, even if Docker's calls never answer.     *)
LaunchEnds == \A l \in Launches : pc[l] # "idle" ~> pc[l] \in {"returned", "raised"}
=============================================================================
