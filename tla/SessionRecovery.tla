--------------------------- MODULE SessionRecovery ---------------------------
(***************************************************************************)
(* The session of SessionLifecycle across restarts of the controller       *)
(* process: it crashes anywhere or is shut down, and recover() takes the   *)
(* session up again from its rows before the first request is served       *)
(* (cli.py, serve).  Rows and containers survive, dictionaries and         *)
(* coroutines do not.                                                      *)
(***************************************************************************)
EXTENDS SessionLifecycle

CONSTANT MaxExits       \* bound: times the process may end

ASSUME MaxExitsAssumption == MaxExits \in Nat

VARIABLES
    life,       \* the process: serving, stopping, recovering
    todo,       \* rows recover() listed and has not come to
    failing,    \* the row it halted before it writes the session's state
    exits       \* times the process ended

process == <<life, todo, failing, exits>>
allVars == <<vars, process>>

RecoveryTypeOK ==
    /\ TypeOK
    /\ life \in {"serving", "stopping", "recovering"}
    /\ todo \in SUBSET Execs
    /\ failing \in Execs \cup {NoExec}
    /\ exits \in 0..MaxExits

RecoveryInit ==
    Init /\ life = "serving" /\ todo = {} /\ failing = NoExec /\ exits = 0

-----------------------------------------------------------------------------
(* The end of the process.                                                 *)

(* shutdown() cancels the tailers and idle tasks that are registered; the  *)
(* others run until the process exits.  A cancelled idle task removes its  *)
(* registration, a tailer does not.                                        *)
Shutdown ==
    /\ life = "serving" /\ exits < MaxExits /\ life' = "stopping"
    /\ LET Q == {Tail(e) : e \in tailReg} \cup {Idle(e) : e \in idleReg}
       IN  /\ pc' = [p \in Proc |-> IF p \in Q THEN "done" ELSE pc[p]]
           /\ loc' = [p \in Proc |-> IF p \in Q THEN NoLocals ELSE loc[p]]
           /\ Cancelled(Q)
    /\ idleReg' = {}
    /\ UNCHANGED <<db, dock, mem, todo, failing, exits>>

(* Mutant of ActiveRows: halted rows are listed too.                       *)
ActiveRowsAll == {e \in Execs : phase[e] # "none"}

(* list_active_executions, for this session.                               *)
ActiveRows == Unhalted

(* The process ends, after Shutdown or by a crash, and the next one starts *)
(* by listing the active rows, which nobody touched meanwhile.  Requests   *)
(* in flight get no answer.  A launch the Docker daemon has not carried    *)
(* out by now never is: its thread is gone, and a restart takes longer     *)
(* than a call of the daemon.                                              *)
Exit ==
    /\ exits < MaxExits /\ exits' = exits + 1
    /\ life' = "recovering" /\ todo' = ActiveRows /\ failing' = NoExec
    /\ pc' = [p \in Proc |-> IF pc[p] = "start" THEN "start" ELSE "done"]
    /\ loc' = [p \in Proc |-> NoLocals]
    /\ tailReg' = {} /\ interrupt' = {} /\ fatal' = {} /\ idleReg' = {}
    /\ stopReq' = [e \in Execs |-> "none"]
    /\ docker' = [e \in Execs |->
                    IF docker[e] \in {"submitted", "retrying"} THEN "failed"
                    ELSE docker[e]]
    /\ abandoned' = {}
    /\ dropped' = dropped \cup
          UNION {loc[p].pend : p \in {q \in Proc : pc[q] \in PromptLabels}}
    /\ UNCHANGED <<db, container, up, prompt>>

-----------------------------------------------------------------------------
(* recover(): the rows in the order they were started.                     *)

MayRecover(e) ==
    /\ life = "recovering" /\ failing = NoExec
    /\ e \in todo /\ \A f \in todo : e <= f
    /\ todo' = todo \ {e}

(* Mutant of RecoverStartup: the container is left alone, as in            *)
(* _halt_failed_start_execution.                                           *)
RecoverStartupOnlyRow(e) ==
    /\ MayRecover(e) /\ phase[e] = "STARTING"
    /\ HaltRow(e)
    /\ failing' = e
    /\ UNCHANGED <<sess, msg, dock, mem, control, life, exits>>

(* An execution that was starting is given up: whatever holds the          *)
(* session's container name is deleted and the row is halted, ...          *)
RecoverStartup(e) ==
    /\ MayRecover(e) /\ phase[e] = "STARTING"
    /\ container' = NoExec /\ up' = FALSE
    /\ HaltRow(e)
    /\ failing' = e
    /\ UNCHANGED <<sess, msg, docker, prompt, mem, control, life, exits>>

(* ... and its session is in error.                                        *)
RecoverError ==
    /\ life = "recovering" /\ failing # NoExec
    /\ sess' = "ERROR" /\ failing' = NoExec
    /\ UNCHANGED <<msg, phase, halted, dock, mem, control, life, todo, exits>>

(* Mutant of RecoverTail: only the session's active execution is tailed.   *)
RecoverTailActive(e) ==
    /\ MayRecover(e) /\ phase[e] # "STARTING"
    /\ IF IsActive(e)
       THEN /\ pc' = [pc EXCEPT ![Tail(e)] = "logs"]
            /\ loc' = [loc EXCEPT ![Tail(e)] = [NoLocals EXCEPT !.exec = e]]
            /\ tailReg' = tailReg \cup {e}
       ELSE UNCHANGED <<pc, loc, tailReg>>
    /\ UNCHANGED <<db, dock, interrupt, fatal, stopReq, idleReg, history,
                   life, failing, exits>>

(* Mutant of RecoverTail: the task is registered but never scheduled.      *)
RecoverTailLost(e) ==
    /\ MayRecover(e) /\ phase[e] # "STARTING"
    /\ tailReg' = tailReg \cup {e}
    /\ UNCHANGED <<db, dock, interrupt, fatal, stopReq, idleReg, pc, loc, history,
                   life, failing, exits>>

(* One that was running is tailed again.                                   *)
RecoverTail(e) ==
    /\ MayRecover(e) /\ phase[e] # "STARTING"
    /\ pc' = [pc EXCEPT ![Tail(e)] = "logs"]
    /\ loc' = [loc EXCEPT ![Tail(e)] = [NoLocals EXCEPT !.exec = e]]
    /\ tailReg' = tailReg \cup {e}
    /\ UNCHANGED <<db, dock, interrupt, fatal, stopReq, idleReg, history,
                   life, failing, exits>>

(* The server starts when recover() returned.                              *)
Serve ==
    /\ life = "recovering" /\ todo = {} /\ failing = NoExec
    /\ life' = "serving"
    /\ UNCHANGED <<vars, todo, failing, exits>>

-----------------------------------------------------------------------------
(* Requests arrive while the server serves; everything else goes on, the   *)
(* tailers recover() started beside recover() itself.                      *)
LifecycleStep ==
    /\ \/ life = "serving" /\ \E r \in Reqs : Arrival(r)
       \/ \E r \in Reqs : MessageStep(r) \/ EventStep(r)
       \/ \E p \in Proc : LaunchStep(p) \/ StopStep(p)
       \/ \E e \in Execs : TailStep(e) \/ IdleFire(e) \/ DockerStep(e)
       \/ WorkerExit
    /\ UNCHANGED process

RecoverStep ==
    \/ \E e \in Execs : RecoverStartup(e) \/ RecoverTail(e)
    \/ RecoverError \/ Serve

RecoveryNext == LifecycleStep \/ Shutdown \/ Exit \/ RecoverStep

RecoverySpec == RecoveryInit /\ [][RecoveryNext]_allVars

(* As in SessionLifecycle, and recover() comes to an end.  Nothing makes   *)
(* the process end.                                                        *)
RecoveryFairness ==
    /\ \A p \in Proc : WF_allVars(Resume(p) /\ UNCHANGED process)
    /\ \A e \in Execs : WF_allVars(DockerStep(e) /\ UNCHANGED process)
    /\ WF_allVars(RecoverStep)

FairRecoverySpec == RecoverySpec /\ RecoveryFairness

-----------------------------------------------------------------------------
(* A restart leaves no execution without a coroutine that will halt it:    *)
(* every row that was not halted when the process ended is on recover()'s  *)
(* list until it is tailed or halted, those whose owner was cancelled      *)
(* before the process ended included.                                      *)
ExecutionsRecovered ==
    \A e \in Unhalted :
        e \in abandoned \cup todo \/ \E p \in Proc : Owns(p, e)

(* A restart leaves no worker running unwatched, in whatever step of its   *)
(* launch the process ended.  (Where nothing stops an execution and no     *)
(* launch times out; see StopStops and FailedNeverReceived.)               *)
WorkersRecovered ==
    up => container \in abandoned \cup todo \/ \E p \in Proc : Owns(p, container)

(* A worker that died while no controller was there to see it does not     *)
(* keep its execution active: after the restart it is halted.              *)
DeadWorkersRecovered ==
    \A e \in Execs :
        (e \in Unhalted /\ ~up) ~> (e \notin Unhalted \/ up \/ e \in abandoned)
=============================================================================
