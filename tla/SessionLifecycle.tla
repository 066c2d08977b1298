--------------------------- MODULE SessionLifecycle ---------------------------
(***************************************************************************)
(* One session of the controller: SessionManager                           *)
(* (controller/session_manager.py) over the rows of db.py and the Docker   *)
(* backend, from the first inbound message to closing, for one run of the  *)
(* controller process.                                                     *)
(*                                                                         *)
(* Every coroutine of the event loop is a process: one per HTTP request    *)
(* (Reqs), one log tailer per execution (Tail(e)) and one idle-stop task   *)
(* per execution (Idle(e)).  The loop is single-threaded and every         *)
(* database call goes through one aiosqlite connection that executes calls *)
(* in the order they were issued, so an action is: the code a coroutine    *)
(* runs when it resumes, up to and including the effect of the next        *)
(* database call it issues.  What that call returned sits in the           *)
(* coroutine's locals (loc) until it runs again, possibly stale by then.   *)
(***************************************************************************)
EXTENDS Integers, FiniteSets

CONSTANTS
    Inbounds,       \* webhook messages            (handle_message)
    Continues,      \* messages sent from the UI   (continue_session)
    Stops,          \* "stop" requests             (stop_execution)
    Closes,         \* "close" requests            (close_session)
    Results,        \* "result" events of a worker (append_..._event)
    Fatals,         \* fatal-error reports         (record_agent_fatal_error)
    McpFailures,    \* "init" events naming a dead runtime MCP server
    MaxExecs,       \* bound: executions the session may create
    Policy,         \* active_followup_policy of the workflow
    Serial,         \* TRUE: users wait for an answer before the next request
    LaunchFaults,   \* TRUE: preparing or launching may fail or time out
    TailFaults,     \* TRUE: tailing the logs may raise
    DrainExpires    \* TRUE: a tailer may outlive the 1 s drain of a forced stop

Msgs == Inbounds \cup Continues
UserReqs == Msgs \cup Stops \cup Closes
WorkerReqs == Results \cup Fatals \cup McpFailures
Reqs == UserReqs \cup WorkerReqs
Execs == 1..MaxExecs                \* numbered in the order of started_at
NoExec == 0

Tail(e) == <<"tail", e>>
Idle(e) == <<"idle", e>>
Tails == {Tail(e) : e \in Execs}
Idles == {Idle(e) : e \in Execs}
Proc == Reqs \cup Tails \cup Idles

Policies == {"reject", "queue", "interrupt", "interrupt_after_turn"}

ASSUME ConstantsAssumption ==
    /\ MaxExecs \in Nat
    /\ Policy \in Policies
    /\ {Serial, LaunchFaults, TailFaults, DrainExpires} \subseteq BOOLEAN
    /\ Reqs \cap (Tails \cup Idles) = {}

ASSUME KindsAssumption ==
    /\ Inbounds \cap (Continues \cup Stops \cup Closes \cup WorkerReqs) = {}
    /\ Continues \cap (Stops \cup Closes \cup WorkerReqs) = {}
    /\ Stops \cap (Closes \cup WorkerReqs) = {}
    /\ Closes \cap WorkerReqs = {}
    /\ Results \cap (Fatals \cup McpFailures) = {}
    /\ Fatals \cap McpFailures = {}

SessionStates == {"absent", "NEW", "ACTIVE", "HIBERNATED", "CLOSED", "ERROR"}
Phases == {"none", "STARTING", "RUNNING", "ENDED"}
StopIntents == {"none", "hibernate", "closed", "fatal"}
DockerStates == {"none", "submitted", "retrying", "ran", "failed"}

Labels ==
    {"start", "done",
     \* handle_message, continue_session and _create_session
     "insertSession", "storeFirst", "storeOnly", "storeResume",
     "followup", "followupStore", "markInterrupt",
     \* _resume_session and the launch half of _create_session
     "readPending", "ack", "createRow", "launch", "status", "startTail",
     "ackFirst", "activate", "haltFailed", "markFailed", "launchError",
     \* stop_execution, _resume_or_transition
     "stopGet", "stopRequest", "stopCheck", "stopDelete", "drain",
     "stopRecheck", "stopHalt", "stopClear", "settle",
     \* _tail_task and _idle_stop_task
     "logs", "tailHalt", "tailClean", "tailErrHalt", "tailErrState",
     "tailErrClear", "sleep",
     \* events of the worker
     "result", "markFatal", "mcpFail", "mcpDelete", "mcpError"}

VARIABLES
    \* rows of the database
    sess,       \* sessions.state ("absent": no row for the thread)
    msg,        \* messages: none, pending, acked, failed
    phase,      \* executions.phase ("none": no row)
    halted,     \* executions with halted_at set
    \* Docker
    docker,     \* the launch of an execution, see DockerStates
    container,  \* whose container holds the name claudius-session-<id>
    up,         \* that container's process runs
    prompt,     \* the messages written into the execution's environment
    \* SessionManager's dictionaries
    tailReg,    \* _tail_tasks
    interrupt,  \* _interrupt_after_turn
    fatal,      \* _agent_fatal_errors
    stopReq,    \* _stop_requests
    idleReg,    \* _idle_stop_tasks
    \* coroutines
    pc,         \* what each waits for or does next
    loc,        \* its local variables
    \* history of the cancellations
    abandoned,  \* executions whose coroutine was cancelled under them
    dropped     \* messages a cancelled coroutine was about to launch

db == <<sess, msg, phase, halted>>
dock == <<docker, container, up, prompt>>
mem == <<tailReg, interrupt, fatal, stopReq>>
history == <<abandoned, dropped>>
control == <<pc, loc, idleReg, history>>
vars == <<db, dock, mem, control>>

(* The coroutine that will halt an execution: the one launching it, then   *)
(* its tailer.                                                             *)
OwnerLabels ==
    {"launch", "status", "startTail", "haltFailed",
     "logs", "tailHalt", "tailErrHalt"}
(* A launcher holding messages it acknowledged and no worker has yet.      *)
PromptLabels == {"createRow", "launch", "haltFailed", "markFailed"}

Locals ==
    [exec : Execs \cup {NoExec}, req : StopIntents, pend : SUBSET Msgs,
     ctx : {"create", "resume", "transition"}]
NoLocals == [exec |-> NoExec, req |-> "none", pend |-> {}, ctx |-> "resume"]

TypeOK ==
    /\ sess \in SessionStates
    /\ msg \in [Msgs -> {"none", "pending", "acked", "failed"}]
    /\ phase \in [Execs -> Phases]
    /\ halted \in SUBSET Execs
    /\ docker \in [Execs -> DockerStates]
    /\ container \in Execs \cup {NoExec}
    /\ up \in BOOLEAN
    /\ prompt \in [Execs -> SUBSET Msgs]
    /\ tailReg \in SUBSET Execs
    /\ interrupt \in SUBSET Execs
    /\ fatal \in SUBSET Execs
    /\ stopReq \in [Execs -> StopIntents]
    /\ idleReg \in SUBSET Execs
    /\ pc \in [Proc -> Labels]
    /\ loc \in [Proc -> Locals]
    /\ abandoned \in SUBSET Execs
    /\ dropped \in SUBSET Msgs

Init ==
    /\ sess = "absent"
    /\ msg = [m \in Msgs |-> "none"]
    /\ phase = [e \in Execs |-> "none"]
    /\ halted = {}
    /\ docker = [e \in Execs |-> "none"]
    /\ container = NoExec
    /\ up = FALSE
    /\ prompt = [e \in Execs |-> {}]
    /\ tailReg = {}
    /\ interrupt = {}
    /\ fatal = {}
    /\ stopReq = [e \in Execs |-> "none"]
    /\ idleReg = {}
    /\ pc = [p \in Proc |-> IF p \in Reqs THEN "start" ELSE "done"]
    /\ loc = [p \in Proc |-> NoLocals]
    /\ abandoned = {}
    /\ dropped = {}

-----------------------------------------------------------------------------
(* What the queries of db.py return.                                       *)

Pending == {m \in Msgs : msg[m] = "pending"}
Unhalted == {e \in Execs : phase[e] # "none" /\ e \notin halted}
NoneActive == Unhalted = {}
IsActive(e) == e \in Unhalted /\ \A f \in Unhalted : f <= e

SetMessages(M, s) == msg' = [m \in Msgs |-> IF m \in M THEN s ELSE msg[m]]
HaltRow(e) ==
    /\ halted' = halted \cup {e}
    /\ phase' = [phase EXCEPT ![e] = "ENDED"]

-----------------------------------------------------------------------------
(* Control.  A cancelled coroutine (the tasks in Q) never runs again: none *)
(* of the except clauses on its stack catches CancelledError.              *)

Cancelled(Q) ==
    /\ abandoned' = abandoned \cup
          {loc[q].exec : q \in {t \in Q : pc[t] \in OwnerLabels}}
    /\ dropped' = dropped \cup
          UNION {loc[q].pend : q \in {t \in Q : pc[t] \in PromptLabels}}

(* p moves to label l with locals v and the tasks in Q are cancelled.      *)
Switch(p, l, v, Q) ==
    /\ pc' = [q \in Proc |-> IF q = p THEN l
                             ELSE IF q \in Q THEN "done" ELSE pc[q]]
    /\ loc' = [q \in Proc |-> IF q = p THEN v
                              ELSE IF q \in Q THEN NoLocals ELSE loc[q]]
    /\ Cancelled(Q \ {p})

(* p continues at l after _clear_idle_stop for the executions in C: their  *)
(* registered tasks are cancelled unless p is that task.  An idle task     *)
(* that ends removes its own registration (the finally clause).            *)
Continue(p, l, v, C) ==
    /\ Switch(p, l, v, {Idle(e) : e \in C \cap idleReg})
    /\ idleReg' = {e \in idleReg \ C : ~(l = "done" /\ p = Idle(e))}

Step(p, l) == Continue(p, l, loc[p], {})
Return(p) == Continue(p, "done", NoLocals, {})

(* _clear_execution_bookkeeping, without its idle part (see Continue).     *)
Forget(e) ==
    /\ interrupt' = interrupt \ {e}
    /\ fatal' = fatal \ {e}
    /\ stopReq' = [stopReq EXCEPT ![e] = "none"]

(* Mutant of FinalState: the intent itself is stored as the state.         *)
FinalStateUnmapped(req) == req

FinalState(req) ==
    CASE req = "closed" -> "CLOSED"
      [] req = "fatal" -> "ERROR"
      [] OTHER -> "HIBERNATED"
RestartIfPending(req) == req \in {"none", "hibernate"}

(* stop_execution reads the active execution, with the intent in v.  It    *)
(* returns False without one; close_session then closes the row itself.    *)
StopTarget(p, v, C) ==
    \/ /\ NoneActive
       /\ IF v.req = "closed" THEN Continue(p, "settle", v, C)
          ELSE Continue(p, "done", NoLocals, C)
    \/ \E e \in Execs :
          IsActive(e) /\ Continue(p, "stopRequest", [v EXCEPT !.exec = e], C)

(* After an execution was halted: _resume_or_transition reads the pending  *)
(* messages, or the session takes the final state of the stop request.     *)
RestartOrSettle(p, v, C) ==
    \/ /\ RestartIfPending(v.req)
       /\ IF Pending = {} THEN Continue(p, "settle", v, C)
          ELSE Continue(p, "readPending", [v EXCEPT !.ctx = "transition"], C)
       /\ UNCHANGED sess
    \/ /\ ~RestartIfPending(v.req)
       /\ sess' = FinalState(v.req)
       /\ Continue(p, "done", NoLocals, C)

-----------------------------------------------------------------------------
(* Requests of users.  Under Serial the client waits for the answer before *)
(* it sends the next request.                                              *)

MayBegin(r) ==
    /\ pc[r] = "start"
    /\ Serial => \A q \in UserReqs : pc[q] \in {"start", "done"}

(* handle_message: the row of the thread decides the path.                 *)
HandleMessage(r) ==
    /\ MayBegin(r) /\ r \in Inbounds
    /\ Step(r, CASE sess = "absent" -> "insertSession"
                 [] sess = "HIBERNATED" -> "storeResume"
                 [] sess = "ACTIVE" -> "followup"
                 [] OTHER -> "storeOnly")
    /\ UNCHANGED <<db, dock, mem>>

(* Mutant of ContinueSession: closed sessions are not refused.             *)
ContinueSessionClosed(r) ==
    /\ MayBegin(r) /\ r \in Continues
    /\ Step(r, CASE sess = "absent" -> "done"
                 [] sess = "HIBERNATED" -> "storeResume"
                 [] OTHER -> "followup")
    /\ UNCHANGED <<db, dock, mem>>

(* continue_session: unknown and closed sessions are refused.              *)
ContinueSession(r) ==
    /\ MayBegin(r) /\ r \in Continues
    /\ Step(r, CASE sess \in {"absent", "CLOSED"} -> "done"
                 [] sess = "HIBERNATED" -> "storeResume"
                 [] OTHER -> "followup")
    /\ UNCHANGED <<db, dock, mem>>

(* The stop endpoint calls stop_execution with its defaults.               *)
StopExecution(r) ==
    /\ MayBegin(r) /\ r \in Stops
    /\ StopTarget(r, [NoLocals EXCEPT !.req = "hibernate"], {})
    /\ UNCHANGED <<db, dock, mem>>

(* close_session reads the state before it stops anything.                 *)
CloseSession(r) ==
    /\ MayBegin(r) /\ r \in Closes
    /\ IF sess \in {"absent", "CLOSED"} THEN Return(r)
       ELSE Continue(r, "stopGet", [NoLocals EXCEPT !.req = "closed"], {})
    /\ UNCHANGED <<db, dock, mem>>

(* _create_session: the UNIQUE constraint on thread_id lets one insert in; *)
(* the loser's IntegrityError ends its request and drops the message.      *)
InsertSession(r) ==
    /\ pc[r] = "insertSession"
    /\ IF sess = "absent" THEN sess' = "NEW" /\ Step(r, "storeFirst")
       ELSE UNCHANGED sess /\ Return(r)
    /\ UNCHANGED <<msg, phase, halted, dock, mem>>

StoreFirst(r) ==
    /\ pc[r] = "storeFirst"
    /\ SetMessages({r}, "pending")
    /\ Continue(r, "createRow",
                [loc[r] EXCEPT !.pend = {r}, !.ctx = "create"], {})
    /\ UNCHANGED <<sess, phase, halted, dock, mem>>

(* Sessions in NEW, CLOSED or ERROR keep a webhook message and start       *)
(* nothing.                                                                *)
StoreOnly(r) ==
    /\ pc[r] = "storeOnly"
    /\ SetMessages({r}, "pending")
    /\ Return(r)
    /\ UNCHANGED <<sess, phase, halted, dock, mem>>

StoreResume(r) ==
    /\ pc[r] = "storeResume"
    /\ SetMessages({r}, "pending")
    /\ Step(r, "readPending")
    /\ UNCHANGED <<sess, phase, halted, dock, mem>>

(* _handle_existing_session_followup looks for the active execution.       *)
Followup(r) ==
    /\ pc[r] = "followup"
    /\ \/ Policy = "reject" /\ Return(r)
       \/ Policy # "reject" /\ NoneActive /\ Step(r, "storeResume")
       \/ /\ Policy # "reject"
          /\ \E e \in Execs :
                /\ IsActive(e)
                /\ Continue(r, "followupStore",
                            [loc[r] EXCEPT !.exec = e], {})
    /\ UNCHANGED <<db, dock, mem>>

FollowupStore(r) ==
    /\ pc[r] = "followupStore"
    /\ SetMessages({r}, "pending")
    /\ LET C == {loc[r].exec}
       IN  CASE Policy = "interrupt" ->
                  Continue(r, "stopGet", [NoLocals EXCEPT !.req = "hibernate"], C)
             [] Policy = "interrupt_after_turn" ->
                  Continue(r, "markInterrupt", loc[r], C)
             [] OTHER -> Continue(r, "done", NoLocals, C)
    /\ UNCHANGED <<sess, phase, halted, dock, mem>>

MarkInterrupt(r) ==
    /\ pc[r] = "markInterrupt"
    /\ interrupt' = interrupt \cup {loc[r].exec}
    /\ Return(r)
    /\ UNCHANGED <<db, dock, tailReg, fatal, stopReq>>

-----------------------------------------------------------------------------
(* _resume_session, and the launch it shares with _create_session.         *)

ReadPending(p) ==
    /\ pc[p] = "readPending"
    /\ IF Pending = {} THEN Return(p)
       ELSE Continue(p, "ack", [loc[p] EXCEPT !.pend = Pending], {})
    /\ UNCHANGED <<db, dock, mem>>

(* Mutant of AckPending: the statement takes whatever is pending by now.    *)
AckPendingLater(p) ==
    /\ pc[p] = "ack"
    /\ SetMessages(loc[p].pend \cup Pending, "acked")
    /\ Step(p, "createRow")
    /\ UNCHANGED <<sess, phase, halted, dock, mem>>

(* Mutant of AckPending: the messages of the prompt stay pending.          *)
AckPendingSkipped(p) ==
    /\ pc[p] = "ack"
    /\ Step(p, "createRow")
    /\ UNCHANGED <<db, dock, mem>>

(* All pending messages are acknowledged before anything is launched.      *)
AckPending(p) ==
    /\ pc[p] = "ack"
    /\ SetMessages(loc[p].pend, "acked")
    /\ Step(p, "createRow")
    /\ UNCHANGED <<sess, phase, halted, dock, mem>>

(* Preparing the launch (workspace, prompt, tool mounts and their hooks)    *)
(* raised before there is a row.                                           *)
PrepareFail(p) ==
    /\ pc[p] = "createRow" /\ LaunchFaults
    /\ Step(p, "markFailed")
    /\ UNCHANGED <<db, dock, mem>>

(* Mutant of CreateRow: an active execution is launched again.             *)
CreateRowReused(p) ==
    /\ pc[p] = "createRow"
    /\ \E e \in Execs :
          /\ \/ IsActive(e)
             \/ /\ NoneActive
                /\ phase[e] = "none" /\ \A f \in 1..(e - 1) : phase[f] # "none"
          /\ phase' = [phase EXCEPT ![e] = "STARTING"]
          /\ docker' = [docker EXCEPT ![e] = "submitted"]
          /\ prompt' = [prompt EXCEPT ![e] = loc[p].pend]
          /\ Continue(p, "launch", [loc[p] EXCEPT !.exec = e], {})
    /\ UNCHANGED <<sess, msg, halted, container, up, mem>>

(* The STARTING row, then the call into Docker from a worker thread.       *)
CreateRow(p) ==
    /\ pc[p] = "createRow"
    /\ \E e \in Execs :
          /\ phase[e] = "none" /\ \A f \in 1..(e - 1) : phase[f] # "none"
          /\ phase' = [phase EXCEPT ![e] = "STARTING"]
          /\ docker' = [docker EXCEPT ![e] = "submitted"]
          /\ prompt' = [prompt EXCEPT ![e] = loc[p].pend]
          /\ Continue(p, "launch", [loc[p] EXCEPT !.exec = e], {})
    /\ UNCHANGED <<sess, msg, halted, container, up, mem>>

(* Backend.create_execution returned, or raised: the launch failed, the     *)
(* container was gone when it was inspected, or (LaunchFaults) one of the  *)
(* 30 s timeouts ran out while the thread goes on.                         *)
LaunchOk(p) ==
    /\ pc[p] = "launch" /\ docker[loc[p].exec] = "ran"
    /\ Step(p, "status")
    /\ UNCHANGED <<db, dock, mem>>

(* Mutant of LaunchFail: the error of a failed launch is swallowed.        *)
LaunchFailSwallowed(p) ==
    /\ pc[p] = "launch"
    /\ docker[loc[p].exec] = "ran" /\ container # loc[p].exec
    /\ Step(p, "haltFailed")
    /\ UNCHANGED <<db, dock, mem>>

LaunchFail(p) ==
    /\ pc[p] = "launch"
    /\ \/ LaunchFaults
       \/ docker[loc[p].exec] = "failed"
       \/ docker[loc[p].exec] = "ran" /\ container # loc[p].exec
    /\ Step(p, "haltFailed")
    /\ UNCHANGED <<db, dock, mem>>

(* update_execution_status writes the phase whether or not the row was     *)
(* halted meanwhile.                                                       *)
UpdateStatus(p) ==
    /\ pc[p] = "status"
    /\ phase' = [phase EXCEPT ![loc[p].exec] = "RUNNING"]
    /\ Step(p, "startTail")
    /\ UNCHANGED <<sess, msg, halted, dock, mem>>

(* Mutant of StartTail: the task is registered but never scheduled.        *)
StartTailLost(p) ==
    /\ pc[p] = "startTail"
    /\ pc' = [pc EXCEPT ![p] = IF loc[p].ctx = "create" THEN "ackFirst"
                               ELSE "activate"]
    /\ tailReg' = tailReg \cup {loc[p].exec}
    /\ UNCHANGED <<db, dock, interrupt, fatal, stopReq, idleReg, loc, history>>

StartTail(p) ==
    /\ pc[p] = "startTail"
    /\ LET t == Tail(loc[p].exec)
           next == IF loc[p].ctx = "create" THEN "ackFirst" ELSE "activate"
       IN  /\ pc' = [pc EXCEPT ![p] = next, ![t] = "logs"]
           /\ loc' = [loc EXCEPT ![t] = [NoLocals EXCEPT !.exec = loc[p].exec]]
    /\ tailReg' = tailReg \cup {loc[p].exec}
    /\ UNCHANGED <<db, dock, interrupt, fatal, stopReq, idleReg, history>>

AckFirst(p) ==
    /\ pc[p] = "ackFirst"
    /\ SetMessages(loc[p].pend, "acked")
    /\ Step(p, "activate")
    /\ UNCHANGED <<sess, phase, halted, dock, mem>>

Activate(p) ==
    /\ pc[p] = "activate"
    /\ sess' = "ACTIVE"
    /\ Return(p)
    /\ UNCHANGED <<msg, phase, halted, dock, mem>>

(* Mutant of HaltFailed: the messages of the prompt are not marked.        *)
HaltFailedOnly(p) ==
    /\ pc[p] = "haltFailed"
    /\ HaltRow(loc[p].exec)
    /\ Step(p, "launchError")
    /\ UNCHANGED <<sess, msg, dock, mem>>

(* The except clause: _halt_failed_start_execution,                        *)
(* _mark_message_delivery_failed for every message of the prompt,          *)
(* _record_launch_failure.                                                 *)
HaltFailed(p) ==
    /\ pc[p] = "haltFailed"
    /\ HaltRow(loc[p].exec)
    /\ Step(p, "markFailed")
    /\ UNCHANGED <<sess, msg, dock, mem>>

MarkFailed(p) ==
    /\ pc[p] = "markFailed"
    /\ SetMessages(loc[p].pend, "failed")
    /\ Step(p, "launchError")
    /\ UNCHANGED <<sess, phase, halted, dock, mem>>

(* The exception reaches the caller; only _resume_or_transition handles it *)
(* and goes on to its state update.                                        *)
LaunchError(p) ==
    /\ pc[p] = "launchError"
    /\ sess' = "ERROR"
    /\ IF loc[p].ctx = "transition" THEN Step(p, "settle") ELSE Return(p)
    /\ UNCHANGED <<msg, phase, halted, dock, mem>>

-----------------------------------------------------------------------------
(* stop_execution.  The POST to the worker's /shutdown endpoint is covered *)
(* by WorkerExit; the 10 s wait for the tailer may end at any time.        *)

StopGet(p) ==
    /\ pc[p] = "stopGet"
    /\ StopTarget(p, loc[p], {})
    /\ UNCHANGED <<db, dock, mem>>

StopRequest(p) ==
    /\ pc[p] = "stopRequest"
    /\ stopReq' = [stopReq EXCEPT ![loc[p].exec] = loc[p].req]
    /\ Step(p, "stopCheck")
    /\ UNCHANGED <<db, dock, tailReg, interrupt, fatal>>

StopCheck(p) ==
    /\ pc[p] = "stopCheck"
    /\ IF IsActive(loc[p].exec) THEN Step(p, "stopDelete") ELSE Return(p)
    /\ UNCHANGED <<db, dock, mem>>

(* delete_execution finds the container by the session's name.             *)
StopDelete(p) ==
    /\ pc[p] = "stopDelete"
    /\ container' = NoExec /\ up' = FALSE
    /\ Step(p, IF loc[p].exec \in tailReg THEN "drain" ELSE "stopRecheck")
    /\ UNCHANGED <<db, docker, prompt, mem>>

DrainDone(p) ==
    /\ pc[p] = "drain" /\ pc[Tail(loc[p].exec)] = "done"
    /\ Step(p, "stopRecheck")
    /\ UNCHANGED <<db, dock, mem>>

(* The tailer is cancelled wherever it is, inside the launch of the next   *)
(* execution too.                                                          *)
DrainExpire(p) ==
    /\ pc[p] = "drain" /\ DrainExpires
    /\ pc[Tail(loc[p].exec)] # "done"
    /\ tailReg' = tailReg \ {loc[p].exec}
    /\ Switch(p, "stopRecheck", loc[p], {Tail(loc[p].exec)})
    /\ UNCHANGED <<db, dock, interrupt, fatal, stopReq, idleReg>>

StopRecheck(p) ==
    /\ pc[p] = "stopRecheck"
    /\ IF IsActive(loc[p].exec) THEN Step(p, "stopHalt") ELSE Return(p)
    /\ UNCHANGED <<db, dock, mem>>

StopHalt(p) ==
    /\ pc[p] = "stopHalt"
    /\ HaltRow(loc[p].exec)
    /\ Step(p, "stopClear")
    /\ UNCHANGED <<sess, msg, dock, mem>>

StopClear(p) ==
    /\ pc[p] = "stopClear"
    /\ Forget(loc[p].exec)
    /\ RestartOrSettle(p, loc[p], {loc[p].exec})
    /\ UNCHANGED <<msg, phase, halted, dock, tailReg>>

(* The state update that ends _resume_or_transition, and close_session of  *)
(* a session without an active execution.                                  *)
Settle(p) ==
    /\ pc[p] = "settle"
    /\ sess' = FinalState(loc[p].req)
    /\ Return(p)
    /\ UNCHANGED <<msg, phase, halted, dock, mem>>

-----------------------------------------------------------------------------
(* _tail_task.  The log stream ends once no container of the session's     *)
(* name runs, whichever execution that container belongs to.               *)

(* Mutant of TailEnd: a log stream that breaks off is taken for the end of *)
(* the worker.                                                             *)
TailEndEarly(e) ==
    /\ pc[Tail(e)] = "logs"
    /\ Continue(Tail(e), "tailHalt",
                [loc[Tail(e)] EXCEPT !.req = stopReq[e]], {})
    /\ UNCHANGED <<db, dock, mem>>

TailEnd(e) ==
    /\ pc[Tail(e)] = "logs" /\ ~up
    /\ Continue(Tail(e), "tailHalt",
                [loc[Tail(e)] EXCEPT !.req = stopReq[e]], {})
    /\ UNCHANGED <<db, dock, mem>>

TailHalt(e) ==
    /\ pc[Tail(e)] = "tailHalt"
    /\ HaltRow(e)
    /\ Step(Tail(e), "tailClean")
    /\ UNCHANGED <<sess, msg, dock, mem>>

TailClean(e) ==
    /\ pc[Tail(e)] = "tailClean"
    /\ container' = NoExec /\ up' = FALSE
    /\ Forget(e)
    /\ tailReg' = tailReg \ {e}
    /\ RestartOrSettle(Tail(e), loc[Tail(e)], {e})
    /\ UNCHANGED <<msg, phase, halted, docker, prompt>>

(* Mutant of TailFail: the error is logged and the task ends.              *)
TailFailReturns(e) ==
    /\ pc[Tail(e)] = "logs" /\ TailFaults
    /\ Return(Tail(e))
    /\ UNCHANGED <<db, dock, mem>>

(* The except clause halts the row and leaves the container alone.         *)
TailFail(e) ==
    /\ pc[Tail(e)] = "logs" /\ TailFaults
    /\ Step(Tail(e), "tailErrHalt")
    /\ UNCHANGED <<db, dock, mem>>

TailErrHalt(e) ==
    /\ pc[Tail(e)] = "tailErrHalt"
    /\ HaltRow(e)
    /\ Step(Tail(e), "tailErrState")
    /\ UNCHANGED <<sess, msg, dock, mem>>

TailErrState(e) ==
    /\ pc[Tail(e)] = "tailErrState"
    /\ sess' = "ERROR"
    /\ Step(Tail(e), "tailErrClear")
    /\ UNCHANGED <<msg, phase, halted, dock, mem>>

TailErrClear(e) ==
    /\ pc[Tail(e)] = "tailErrClear"
    /\ Forget(e)
    /\ tailReg' = tailReg \ {e}
    /\ Continue(Tail(e), "done", NoLocals, {e})
    /\ UNCHANGED <<db, dock>>

(* _idle_stop_task wakes up.                                               *)
IdleFire(e) ==
    /\ pc[Idle(e)] = "sleep"
    /\ IF IsActive(e)
       THEN Continue(Idle(e), "stopGet", [NoLocals EXCEPT !.req = "hibernate"], {})
       ELSE Return(Idle(e))
    /\ UNCHANGED <<db, dock, mem>>

-----------------------------------------------------------------------------
(* Events a worker posts.  They name the session, never the execution, so  *)
(* the handler charges whatever execution is active when it looks.         *)

EventArrives(r, kind, l) ==
    /\ pc[r] = "start" /\ r \in kind
    /\ \E e \in Execs : docker[e] = "ran"
    /\ \/ NoneActive /\ Return(r)
       \/ \E e \in Execs :
             IsActive(e) /\ Continue(r, l, [NoLocals EXCEPT !.exec = e], {})
    /\ UNCHANGED <<db, dock, mem>>

ResultEvent(r) == EventArrives(r, Results, "result")
FatalEvent(r) == EventArrives(r, Fatals, "markFatal")
McpFailureEvent(r) == EventArrives(r, McpFailures, "mcpFail")

(* The end of a turn: the interruption asked for, or the idle timer.       *)
InterruptAtResult(r) ==
    /\ pc[r] = "result" /\ loc[r].exec \in interrupt
    /\ LET e == loc[r].exec
           req == IF e \in fatal THEN "fatal" ELSE "hibernate"
       IN  Forget(e) /\ StopTarget(r, [NoLocals EXCEPT !.req = req], {e})
    /\ UNCHANGED <<db, dock, tailReg>>

(* _arm_idle_stop replaces the task.  (A task that already removed its own *)
(* registration has halted e, so that a second one finds e inactive.)      *)
ArmIdleStop(r) ==
    /\ pc[r] = "result" /\ loc[r].exec \notin interrupt
    /\ LET e == loc[r].exec
           free == e \in idleReg \/ pc[Idle(e)] = "done"
       IN  /\ pc' = [pc EXCEPT ![r] = "done",
                               ![Idle(e)] = IF free THEN "sleep" ELSE @]
           /\ loc' = [loc EXCEPT ![r] = NoLocals,
                                 ![Idle(e)] = IF free THEN NoLocals ELSE @]
           /\ idleReg' = IF free THEN idleReg \cup {e} ELSE idleReg
           /\ Cancelled({Idle(f) : f \in idleReg \cap {e}})
    /\ UNCHANGED <<db, dock, mem>>

MarkFatal(r) ==
    /\ pc[r] = "markFatal"
    /\ fatal' = fatal \cup {loc[r].exec}
    /\ interrupt' = interrupt \cup {loc[r].exec}
    /\ Return(r)
    /\ UNCHANGED <<db, dock, tailReg, stopReq>>

(* _fail_active_execution cancels the tailer and waits for it, ...         *)
McpCancelTail(r) ==
    /\ pc[r] = "mcpFail" /\ loc[r].exec \in tailReg
    /\ tailReg' = tailReg \ {loc[r].exec}
    /\ Switch(r, "mcpDelete", loc[r], {Tail(loc[r].exec)})
    /\ UNCHANGED <<db, dock, interrupt, fatal, stopReq, idleReg>>

(* ... deletes the container, clears the maps and halts the row.           *)
McpDelete(r) ==
    /\ \/ pc[r] = "mcpDelete"
       \/ pc[r] = "mcpFail" /\ loc[r].exec \notin tailReg
    /\ container' = NoExec /\ up' = FALSE
    /\ Forget(loc[r].exec)
    /\ HaltRow(loc[r].exec)
    /\ Continue(r, "mcpError", loc[r], {loc[r].exec})
    /\ UNCHANGED <<sess, msg, docker, prompt, tailReg>>

McpError(r) ==
    /\ pc[r] = "mcpError"
    /\ sess' = "ERROR"
    /\ Return(r)
    /\ UNCHANGED <<msg, phase, halted, dock, mem>>

-----------------------------------------------------------------------------
(* Docker, driven by the launching thread, and the worker's process.       *)

(* On a name conflict the holder is removed and the run tried once more.   *)
DockerEvict(e) ==
    /\ docker[e] = "submitted" /\ container # NoExec
    /\ docker' = [docker EXCEPT ![e] = "retrying"]
    /\ container' = NoExec /\ up' = FALSE
    /\ UNCHANGED <<db, prompt, mem, control>>

DockerRun(e) ==
    /\ docker[e] \in {"submitted", "retrying"} /\ container = NoExec
    /\ docker' = [docker EXCEPT ![e] = "ran"]
    /\ container' = e /\ up' = TRUE
    /\ UNCHANGED <<db, prompt, mem, control>>

DockerFail(e) ==
    /\ \/ docker[e] \in {"submitted", "retrying"} /\ LaunchFaults
       \/ docker[e] = "retrying" /\ container # NoExec
    /\ docker' = [docker EXCEPT ![e] = "failed"]
    /\ UNCHANGED <<db, container, up, prompt, mem, control>>

(* The worker finishes, crashes, or obeys /shutdown.                       *)
WorkerExit ==
    /\ up /\ up' = FALSE
    /\ UNCHANGED <<db, docker, container, prompt, mem, control>>

-----------------------------------------------------------------------------
Arrival(r) ==
    \/ HandleMessage(r) \/ ContinueSession(r) \/ StopExecution(r)
    \/ CloseSession(r) \/ ResultEvent(r) \/ FatalEvent(r)
    \/ McpFailureEvent(r)

MessageStep(r) ==
    \/ InsertSession(r) \/ StoreFirst(r) \/ StoreOnly(r) \/ StoreResume(r)
    \/ Followup(r) \/ FollowupStore(r) \/ MarkInterrupt(r)

LaunchStep(p) ==
    \/ ReadPending(p) \/ AckPending(p) \/ PrepareFail(p) \/ CreateRow(p)
    \/ LaunchOk(p) \/ LaunchFail(p) \/ UpdateStatus(p) \/ StartTail(p) \/ AckFirst(p)
    \/ Activate(p) \/ HaltFailed(p) \/ MarkFailed(p) \/ LaunchError(p)

StopStep(p) ==
    \/ StopGet(p) \/ StopRequest(p) \/ StopCheck(p) \/ StopDelete(p)
    \/ DrainDone(p) \/ DrainExpire(p) \/ StopRecheck(p) \/ StopHalt(p)
    \/ StopClear(p) \/ Settle(p)

TailStep(e) ==
    \/ TailEnd(e) \/ TailHalt(e) \/ TailClean(e) \/ TailFail(e)
    \/ TailErrHalt(e) \/ TailErrState(e) \/ TailErrClear(e)

EventStep(r) ==
    \/ InterruptAtResult(r) \/ ArmIdleStop(r) \/ MarkFatal(r)
    \/ McpCancelTail(r) \/ McpDelete(r) \/ McpError(r)

DockerStep(e) == DockerEvict(e) \/ DockerRun(e) \/ DockerFail(e)

(* No step is left when the session rests for good: every request was      *)
(* answered, nothing runs.                                                 *)
Next ==
    \/ \E r \in Reqs : Arrival(r) \/ MessageStep(r) \/ EventStep(r)
    \/ \E p \in Proc : LaunchStep(p) \/ StopStep(p)
    \/ \E e \in Execs : TailStep(e) \/ IdleFire(e) \/ DockerStep(e)
    \/ WorkerExit

Spec == Init /\ [][Next]_vars

(* What coroutine p does next, faults excepted: a label enables steps of   *)
(* one kind only.                                                          *)
Resume(p) ==
    \/ p \in Reqs /\ (MessageStep(p) \/ EventStep(p))
    \/ LaunchStep(p) \/ StopStep(p)
    \/ \E e \in Execs :
          \/ /\ p = Tail(e)
             /\ \/ TailEnd(e) \/ TailHalt(e) \/ TailClean(e)
                \/ TailErrHalt(e) \/ TailErrState(e) \/ TailErrClear(e)
          \/ p = Idle(e) /\ IdleFire(e)

(* The event loop runs every coroutine that can run, timers and timeouts   *)
(* expire, and the Docker thread finishes.  Users, workers and the faults  *)
(* owe nothing.                                                            *)
Fairness ==
    /\ \A p \in Proc : WF_vars(Resume(p))
    /\ \A e \in Execs : WF_vars(DockerStep(e))

FairSpec == Spec /\ Fairness

-----------------------------------------------------------------------------
(* Safety.                                                                 *)

Owns(p, e) == pc[p] \in OwnerLabels /\ loc[p].exec = e

(* An execution that is not halted has a coroutine that will halt it: the  *)
(* one launching it, then its tailer.  Otherwise the session would wait    *)
(* for a worker nobody watches.  The one way to lose the owner is to have  *)
(* cancelled it (stop_execution's drain, _fail_active_execution,           *)
(* _clear_idle_stop).                                                      *)
ExecutionsOwned ==
    \A e \in Unhalted : e \in abandoned \/ \E p \in Proc : Owns(p, e)

(* No execution has two owners: a row is launched once and tailed once, so *)
(* _tail_tasks never forgets a running tailer and no coroutine halts a row *)
(* another one is still starting because it believes the row its own.      *)
SoleOwner ==
    \A e \in Execs : \A p, q \in Proc : Owns(p, e) /\ Owns(q, e) => p = q

Reached(m) == \E e \in Execs : m \in prompt[e] /\ docker[e] = "ran"

(* A message shown as acknowledged reached a worker, or a launcher still   *)
(* holds it and will start that worker or mark the message failed.  The    *)
(* messages are acknowledged before the launch; only the cancellation of   *)
(* the launcher breaks the promise.                                        *)
AcknowledgedInHand ==
    \A m \in Msgs : msg[m] = "acked" =>
        \/ Reached(m) \/ m \in dropped
        \/ \E p \in Proc : pc[p] \in PromptLabels /\ m \in loc[p].pend

(* A message that is part of a prompt is offered to a second execution     *)
(* only in the window _create_session leaves between submitting the launch *)
(* of the first message and acknowledging it.                              *)
PendingNotInPrompt ==
    \A m \in Msgs : msg[m] = "pending" /\ (\E e \in Execs : m \in prompt[e]) =>
        pc[m] \in {"launch", "status", "startTail", "ackFirst",
                  "haltFailed", "markFailed"}

(* A worker never runs unwatched: the coroutine that launches it or tails  *)
(* its logs is there to remove its container.  (A launch that times out    *)
(* and a tailer that raises do leave a container behind: LaunchFaults and  *)
(* TailFaults are FALSE where this is checked.)                            *)
WorkersWatched ==
    up => container \in abandoned \/ \E p \in Proc : Owns(p, container)

-----------------------------------------------------------------------------
(* Temporal properties.                                                    *)

AtRest == \A p \in Proc : pc[p] \in {"start", "done"}

(* A session that is closed while no coroutine is in flight stays closed,  *)
(* whatever requests and events come later.                                *)
ClosedIsFinal ==
    [](AtRest /\ sess = "CLOSED" /\ abandoned = {} => [](sess = "CLOSED"))

(* Every request of a user is answered: no coroutine waits forever for     *)
(* another one (stop for the tailer it drains, the tailer for its launch). *)
RequestsAnswered ==
    \A r \in UserReqs : pc[r] # "start" ~> pc[r] = "done"

(* A dead worker does not leave its execution active for good: some        *)
(* coroutine notices and halts the row, unless it was cancelled.           *)
DeadWorkersHalted ==
    \A e \in Execs :
        (e \in Unhalted /\ ~up) ~> (e \notin Unhalted \/ up \/ e \in abandoned)
-----------------------------------------------------------------------------
(* What comments, tests and the README of the repository say, and the code *)
(* does not do.  Quiet: no request is in flight; only tailers and idle     *)
(* timers are left.                                                        *)

Quiet == \A p \in Proc : pc[p] \in {"start", "done", "logs", "sleep"}

(* session_manager.py:379, the docstring of stop_execution: the active     *)
(* execution is stopped.  The code: a stop during the launch deletes no    *)
(* container, halts the row, and the worker started after it runs on with  *)
(* no active execution on record.                                          *)
StopStops == Quiet /\ up => container \in Unhalted

(* tests/test_session_manager.py:417: an interrupting message ends up      *)
(* acknowledged, in the prompt of the execution that replaces the          *)
(* interrupted one.  The code: a drain that expires cancels the tailer     *)
(* inside its own restart, and the messages it acknowledged are lost.      *)
InterruptDelivers ==
    Quiet => \A m \in Msgs : msg[m] = "acked" => Reached(m)

(* session_manager.py:64, the text stored with a failed message: Claude    *)
(* never received it.  The code: a launch that timed out goes on in its    *)
(* thread and the worker starts with the message in its prompt.            *)
FailedNeverReceived == \A m \in Msgs : msg[m] = "failed" => ~Reached(m)

(* tests/test_session_manager.py:1650: after a fatal error the session is  *)
(* restarted when messages are pending.  The code passes                   *)
(* restart_if_pending=False and the session stays in ERROR.                *)
FatalErrorRestarts ==
    [][\A p \in Proc :
          /\ pc[p] \in {"stopClear", "tailClean"}
          /\ loc[p].req = "fatal" /\ sess = "ACTIVE" /\ Pending # {}
          /\ pc'[p] # pc[p]
          => pc'[p] = "readPending"]_vars

(* README.md:56 and tests/test_session_manager.py:352: a follow-up waits   *)
(* for the worker to exit and is given a fresh execution.  The code: a     *)
(* message stored after the finishing tailer looked for pending messages   *)
(* stays pending in a session at rest.                                     *)
FollowupsPickedUp ==
    Quiet /\ Pending # {} => Unhalted # {} \/ sess \in {"CLOSED", "ERROR"}
=============================================================================
