------------------------ MODULE SessionRecoveryProofs ------------------------
(***************************************************************************)
(* Theorems about SessionRecovery, for every set of requests, every policy *)
(* and every number of executions and of ends of the process.  What the    *)
(* session does while a process serves was proved in                       *)
(* SessionLifecycleProofs, with rows that wait for recover(); here are the *)
(* steps between two processes.                                            *)
(***************************************************************************)
EXTENDS SessionRecovery, SessionDeliveryProofs

ProcessOK ==
    /\ life \in {"serving", "stopping", "recovering"}
    /\ todo \in SUBSET Execs
    /\ failing \in Execs \cup {NoExec}
    /\ exits \in 0..MaxExits

(* The rows on recover()'s list wait for it, and the end of the process    *)
(* leaves only requests that have not started.                             *)
RecoveryInv == TypeInv /\ ProcessOK /\ StartsAreRequests /\ OwnersBut(todo)

LEMMA LifecycleIsNext == LifecycleStep => Next /\ UNCHANGED process
  BY DEF LifecycleStep, Next

LEMMA InitRecovery == RecoveryInit => RecoveryInv
  <1> SUFFICES ASSUME RecoveryInit PROVE RecoveryInv
    OBVIOUS
  <1>1. TypeInv /\ OwnersBut({}) /\ todo = {}
    BY InitTypes, InitOwners DEF RecoveryInit, OwnInv
  <1>2. ProcessOK
    BY MaxExitsAssumption DEF RecoveryInit, ProcessOK
  <1>3. StartsAreRequests
    BY DEF RecoveryInit, Init, StartsAreRequests
  <1> QED BY <1>1, <1>2, <1>3 DEF RecoveryInv

LEMMA LifecycleRecovery ==
    ASSUME RecoveryInv, LifecycleStep \/ UNCHANGED allVars
    PROVE  RecoveryInv'
  <1>1. [Next]_vars /\ UNCHANGED process
    BY LifecycleIsNext DEF allVars
  <1>2. TypeInv' /\ StartsAreRequests'
    BY <1>1, TypeStep, StartsStep DEF RecoveryInv
  <1>3. ProcessOK'
    BY <1>1 DEF RecoveryInv, ProcessOK, process
  <1>4. \A S \in SUBSET Execs : OwnersBut(S) => OwnersBut(S)'
    BY <1>1, OwnStep DEF RecoveryInv
  <1>5. OwnersBut(todo)'
    <2> SUFFICES ASSUME NEW S, S = todo PROVE OwnersBut(todo)'
      OBVIOUS
    <2>1. OwnersBut(S)' /\ S = todo'
      BY <1>1, <1>4 DEF RecoveryInv, ProcessOK, process
    <2> QED BY <2>1 DEF OwnersBut, Waiting, OwnedBut
  <1> QED BY <1>2, <1>3, <1>5 DEF RecoveryInv

(* Shutdown cancels tailers and idle tasks; what they owned is abandoned.  *)
LEMMA ShutdownRecovery ==
    ASSUME RecoveryInv, Shutdown
    PROVE  RecoveryInv'
  <1> DEFINE Q == {Tail(e) : e \in tailReg} \cup {Idle(e) : e \in idleReg}
  <1>1. /\ \A p \in Proc : /\ pc'[p] = IF p \in Q THEN "done" ELSE pc[p]
                           /\ loc'[p] = IF p \in Q THEN NoLocals ELSE loc[p]
        /\ Cancelled(Q) /\ idleReg' = {}
        /\ UNCHANGED <<db, dock, mem, todo, failing, exits>> /\ life' = "stopping"
    BY DEF Shutdown
  <1>2. Q \subseteq Proc
    BY TasksAreProcs DEF RecoveryInv, TypeInv, DataOK
  <1>3. DataOK' /\ ProcessOK'
    BY <1>1, SameData DEF RecoveryInv, TypeInv, ProcessOK
  <1>4. NoLocals \in Locals /\ "done" \in Labels
    BY DEF NoLocals, Locals, StopIntents, Labels
  <1>5. pc' \in [Proc -> Labels] /\ loc' \in [Proc -> Locals]
    BY <1>4 DEF Shutdown, RecoveryInv, TypeInv, ControlOK
  <1> HIDE DEF Q
  <1>6. abandoned' \in SUBSET Execs /\ dropped' \in SUBSET Msgs
    BY <1>1, <1>2 DEF RecoveryInv, TypeInv, ControlOK, Cancelled, LocalsNamed, ExecLabels, Locals
  <1>7. LocalsNamed' /\ FirstsAreMessages' /\ StartsAreRequests'
    BY <1>1 DEF RecoveryInv, TypeInv, ControlOK, LocalsNamed, ExecLabels, OwnerLabels,
                FirstsAreMessages, FirstLabels, StartsAreRequests
  <1>8. TypeInv'
    BY <1>1, <1>3, <1>5, <1>6, <1>7 DEF TypeInv, ControlOK
  <1>9. \A p \in Proc : \/ pc'[p] = "done"
                        \/ pc'[p] = pc[p] /\ loc'[p] = loc[p]
    BY <1>1
  <1>10. \A p \in Proc : pc[p] = "done" => pc'[p] = "done"
    BY <1>1
  <1>11. phase' = phase /\ halted' = halted /\ todo' = todo
    BY <1>1 DEF db
  <1>12. TailsOwnTheirs' /\ LaunchersSole'
    BY <1>9 DEF RecoveryInv, OwnersBut, TailsOwnTheirs, LaunchersSole, LaunchLabels, TailLabels
  <1>13. LaunchersFirst'
    <2> SUFFICES ASSUME NEW p \in Proc, pc'[p] \in LaunchLabels
                 PROVE  phase'[loc'[p].exec] # "none" /\ pc'[Tail(loc'[p].exec)] = "done"
      BY DEF LaunchersFirst
    <2>1. pc[p] \in LaunchLabels /\ loc'[p] = loc[p]
      BY <1>9 DEF LaunchLabels
    <2>2. loc[p].exec \in Execs
      BY <2>1 DEF RecoveryInv, TypeInv, ControlOK, LocalsNamed, ExecLabels, LaunchLabels,
                  OwnerLabels
    <2> QED BY <1>10, <1>11, <2>1, <2>2, TasksAreProcs DEF RecoveryInv, OwnersBut, LaunchersFirst
  <1>14. FreshTails' /\ Waiting(todo)'
    BY <1>9, <1>10, <1>11, TasksAreProcs
       DEF RecoveryInv, ProcessOK, OwnersBut, FreshTails, Waiting, LaunchLabels
  <1>15. OwnedBut(todo)'
    <2> SUFFICES ASSUME NEW e \in Unhalted, e \notin abandoned', e \notin todo
                 PROVE  \E p \in Proc : pc'[p] \in OwnerLabels /\ loc'[p].exec = e
      BY <1>11 DEF OwnedBut, Owns, Unhalted
    <2>1. e \notin abandoned
      BY <1>1 DEF Cancelled
    <2>2. PICK p \in Proc : pc[p] \in OwnerLabels /\ loc[p].exec = e
      BY <2>1 DEF RecoveryInv, OwnersBut, OwnedBut, Owns
    <2>3. p \notin Q
      BY <1>1, <2>2 DEF Cancelled
    <2> QED BY <1>1, <2>2, <2>3
  <1> QED BY <1>3, <1>7, <1>8, <1>12, <1>13, <1>14, <1>15 DEF RecoveryInv, OwnersBut

(* The next process starts with nothing but rows and containers; every row *)
(* that is not halted waits.                                               *)
LEMMA ExitRecovery ==
    ASSUME RecoveryInv, Exit
    PROVE  RecoveryInv'
  <1>1. /\ \A p \in Proc : /\ pc'[p] = IF pc[p] = "start" THEN "start" ELSE "done"
                           /\ loc'[p] = NoLocals
        /\ \A e \in Execs : docker'[e] \in {docker[e], "failed"}
        /\ todo' = Unhalted /\ UNCHANGED <<sess, msg, phase, halted, container, up, prompt>>
    BY DEF Exit, ActiveRows, db
  <1>2. ProcessOK'
    BY <1>1, MaxExitsAssumption DEF Exit, RecoveryInv, ProcessOK, Unhalted
  <1>3. DataOK'
    BY <1>1 DEF Exit, RecoveryInv, TypeInv, DataOK, DockerStates, StopIntents
  <1>4. NoLocals \in Locals /\ {"start", "done"} \subseteq Labels
    BY DEF NoLocals, Locals, StopIntents, Labels
  <1>5. pc' \in [Proc -> Labels] /\ loc' \in [Proc -> Locals]
    BY <1>4 DEF Exit
  <1>6. abandoned' \in SUBSET Execs
    BY DEF Exit
  <1>7. dropped' \in SUBSET Msgs
    BY DEF Exit, RecoveryInv, TypeInv, ControlOK, Locals
  <1>8. idleReg' \in SUBSET Execs
    BY DEF Exit
  <1>9. \A p \in Proc : pc'[p] \in {"start", "done"} /\ (pc'[p] = "start" => pc[p] = "start")
    BY <1>1
  <1>10. TypeInv' /\ StartsAreRequests'
    BY <1>3, <1>5, <1>6, <1>7, <1>8, <1>9
       DEF RecoveryInv, TypeInv, ControlOK, LocalsNamed, ExecLabels, OwnerLabels,
           FirstsAreMessages, FirstLabels, StartsAreRequests
  <1>11. \A e \in Execs : pc'[Tail(e)] = "done"
    <2> SUFFICES ASSUME NEW e \in Execs PROVE pc'[Tail(e)] = "done"
      OBVIOUS
    <2>1. Tail(e) \in Proc /\ Tail(e) \notin Reqs
      BY ConstantsAssumption DEF Proc, Tails
    <2> QED BY <1>1, <2>1 DEF RecoveryInv, StartsAreRequests
  <1>12. OwnersBut(todo)'
    BY <1>1, <1>9, <1>11
       DEF OwnersBut, TailsOwnTheirs, LaunchersSole, LaunchersFirst, FreshTails, Waiting,
           OwnedBut, Unhalted, LaunchLabels, TailLabels
  <1> QED BY <1>2, <1>10, <1>12 DEF RecoveryInv

(* recover() halts a row that was starting, ...                            *)
LEMMA StartupRecovery ==
    ASSUME RecoveryInv, NEW e \in Execs, RecoverStartup(e)
    PROVE  RecoveryInv'
  <1>1. /\ HaltRow(e) /\ todo' = todo \ {e} /\ e \in todo
        /\ container' = NoExec /\ up' = FALSE /\ failing' = e
        /\ UNCHANGED <<sess, msg, docker, prompt, mem, control, life, exits>>
    BY DEF RecoverStartup, MayRecover
  <1>2. ProcessOK'
    BY <1>1 DEF RecoveryInv, ProcessOK
  <1>3. phase' \in [Execs -> Phases] /\ halted' \in SUBSET Execs
    BY <1>1 DEF HaltRow, RecoveryInv, TypeInv, DataOK, Phases
  <1>4. TypeInv'
    BY <1>1, <1>3, SameControl DEF RecoveryInv, TypeInv, DataOK, mem
  <1>5. RowsAdvance /\ e \in halted'
    BY <1>1, HaltedRows DEF RecoveryInv
  <1>6. pc' = pc /\ loc' = loc /\ abandoned' = abandoned
    BY <1>1 DEF control, history
  <1>7. OwnedBut(todo)'
    BY <1>1, <1>5, <1>6 DEF RecoveryInv, OwnersBut, OwnedBut, RowsAdvance, Unhalted, Owns
  <1>8. TailsOwnTheirs' /\ LaunchersSole' /\ FreshTails' /\ Waiting(todo)'
    BY <1>1, <1>5, <1>6
       DEF RecoveryInv, ProcessOK, OwnersBut, TailsOwnTheirs, LaunchersSole, FreshTails, Waiting,
           RowsAdvance
  <1>9. LaunchersFirst'
    BY <1>5, <1>6
       DEF RecoveryInv, TypeInv, ControlOK, LocalsNamed, ExecLabels, LaunchLabels, OwnerLabels,
           OwnersBut, LaunchersFirst, RowsAdvance
  <1> QED BY <1>2, <1>4, <1>6, <1>7, <1>8, <1>9 DEF RecoveryInv, OwnersBut, StartsAreRequests

(* ... or tails it: nobody else tails an execution that waits.             *)
LEMMA TailRecovery ==
    ASSUME RecoveryInv, NEW e \in Execs, RecoverTail(e)
    PROVE  RecoveryInv'
  <1>1. /\ todo' = todo \ {e} /\ e \in todo
        /\ pc' = [pc EXCEPT ![Tail(e)] = "logs"]
        /\ loc' = [loc EXCEPT ![Tail(e)] = [NoLocals EXCEPT !.exec = e]]
        /\ tailReg' = tailReg \cup {e}
        /\ UNCHANGED <<db, dock, interrupt, fatal, stopReq, idleReg, history, life, failing, exits>>
    BY DEF RecoverTail, MayRecover
  <1>2. ProcessOK'
    BY <1>1 DEF RecoveryInv, ProcessOK
  <1>3. DataOK'
    BY <1>1 DEF RecoveryInv, TypeInv, DataOK, db, dock
  <1>4. /\ [NoLocals EXCEPT !.exec = e] \in Locals /\ [NoLocals EXCEPT !.exec = e].exec = e
        /\ "logs" \in Labels
    BY DEF NoLocals, Locals, StopIntents, Labels
  <1>5. pc \in [Proc -> Labels] /\ loc \in [Proc -> Locals] /\ Tail(e) \in Proc
    BY TasksAreProcs DEF RecoveryInv, TypeInv, ControlOK
  <1>6. pc' \in [Proc -> Labels] /\ loc' \in [Proc -> Locals]
    BY <1>1, <1>4, <1>5
  <1>7. /\ pc'[Tail(e)] = "logs" /\ loc'[Tail(e)].exec = e
        /\ \A p \in Proc : p # Tail(e) => pc'[p] = pc[p] /\ loc'[p] = loc[p]
    BY <1>1, <1>4, <1>5
  <1>8. LocalsNamed' /\ FirstsAreMessages' /\ StartsAreRequests'
    BY <1>7 DEF RecoveryInv, TypeInv, ControlOK, LocalsNamed, FirstsAreMessages, FirstLabels,
                StartsAreRequests
  <1>9. TypeInv'
    BY <1>1, <1>3, <1>6, <1>8 DEF RecoveryInv, TypeInv, ControlOK, history
  <1>10. /\ pc[Tail(e)] = "done" /\ phase[e] # "none"
         /\ \A p \in Proc : pc[p] \in LaunchLabels => loc[p].exec # e
    BY <1>1 DEF RecoveryInv, OwnersBut, Waiting
  <1>11. phase' = phase /\ halted' = halted /\ abandoned' = abandoned
    BY <1>1 DEF db, history
  <1>12. \A p \in Proc : pc'[p] \in LaunchLabels =>
            /\ pc[p] \in LaunchLabels /\ loc'[p] = loc[p]
            /\ loc[p].exec \in Execs \ {e}
    BY <1>7, <1>10 DEF LaunchLabels, RecoveryInv, TypeInv, ControlOK, LocalsNamed, ExecLabels,
                       OwnerLabels
  <1>13. \A f \in Execs : f # e => pc'[Tail(f)] = pc[Tail(f)]
    BY <1>7, TailsDiffer, TasksAreProcs
  <1>14. TailsOwnTheirs'
    BY <1>7 DEF RecoveryInv, OwnersBut, TailsOwnTheirs
  <1>15. LaunchersSole' /\ LaunchersFirst'
    BY <1>11, <1>12, <1>13 DEF RecoveryInv, OwnersBut, LaunchersSole, LaunchersFirst
  <1>16. FreshTails' /\ Waiting(todo)'
    BY <1>1, <1>10, <1>11, <1>12, <1>13
       DEF RecoveryInv, ProcessOK, OwnersBut, FreshTails, Waiting
  <1>17. OwnedBut(todo)'
    <2> SUFFICES ASSUME NEW f \in Unhalted, f \notin abandoned, f \notin todo \ {e}
                 PROVE  \E p \in Proc : pc'[p] \in OwnerLabels /\ loc'[p].exec = f
      BY <1>1, <1>11 DEF OwnedBut, Owns, Unhalted
    <2>1. CASE f = e
      BY <1>5, <1>7, <2>1 DEF OwnerLabels
    <2>2. CASE f # e
      <3>1. PICK p \in Proc : pc[p] \in OwnerLabels /\ loc[p].exec = f
        BY <2>2 DEF RecoveryInv, OwnersBut, OwnedBut, Owns
      <3> QED BY <1>7, <1>10, <3>1 DEF OwnerLabels
    <2> QED BY <2>1, <2>2
  <1> QED BY <1>2, <1>8, <1>9, <1>14, <1>15, <1>16, <1>17 DEF RecoveryInv, OwnersBut

LEMMA RecoveryStep ==
    ASSUME RecoveryInv, [RecoveryNext]_allVars
    PROVE  RecoveryInv'
  <1>1. CASE LifecycleStep \/ UNCHANGED allVars
    BY <1>1, LifecycleRecovery
  <1>2. CASE Shutdown \/ Exit
    BY <1>2, ShutdownRecovery, ExitRecovery
  <1>3. CASE \E e \in Execs : RecoverStartup(e) \/ RecoverTail(e)
    BY <1>3, StartupRecovery, TailRecovery
  <1>4. CASE RecoverError \/ Serve
    <2>1. /\ UNCHANGED <<msg, phase, halted, dock, mem, control, todo, exits>>
          /\ sess' \in {sess, "ERROR"} /\ life' \in {life, "serving"}
          /\ failing' \in {failing, NoExec}
      BY <1>4 DEF RecoverError, Serve, vars, db
    <2>2. TypeInv' /\ ProcessOK'
      BY <2>1, SameControl
         DEF RecoveryInv, TypeInv, ProcessOK, DataOK, SessionStates, dock, mem
    <2>3. UNCHANGED <<phase, halted, pc, loc, abandoned, todo>>
      BY <2>1 DEF control, history
    <2>4. OwnersBut(todo)' /\ StartsAreRequests'
      BY <2>3 DEF RecoveryInv, OwnersBut, TailsOwnTheirs, LaunchersSole, LaunchersFirst,
                  FreshTails, Waiting, OwnedBut, Unhalted, Owns, StartsAreRequests
    <2> QED BY <2>2, <2>4 DEF RecoveryInv
  <1> QED BY <1>1, <1>2, <1>3, <1>4 DEF RecoveryNext, RecoverStep

THEOREM RecoveryInvariant == RecoverySpec => []RecoveryInv
  <1>1. RecoveryInit => RecoveryInv
    BY InitRecovery
  <1>2. RecoveryInv /\ [RecoveryNext]_allVars => RecoveryInv'
    BY RecoveryStep
  <1> QED BY <1>1, <1>2, PTL DEF RecoverySpec

(* Every variable keeps its type across restarts.                          *)
THEOREM RecoveryTypeCorrect == RecoverySpec => []RecoveryTypeOK
  <1>1. RecoveryInv => RecoveryTypeOK
    BY TypeInvImpliesTypeOK DEF RecoveryInv, ProcessOK, RecoveryTypeOK
  <1> QED BY <1>1, RecoveryInvariant, PTL

(* recover(): wherever and however often the process ends, with any        *)
(* requests, policy and faults, every row that is not halted is on         *)
(* recover()'s list or has a coroutine that will halt it, unless that      *)
(* coroutine was cancelled since.                                          *)
THEOREM ExecutionsAreRecovered == RecoverySpec => []ExecutionsRecovered
  <1>1. RecoveryInv => ExecutionsRecovered
    BY DEF RecoveryInv, OwnersBut, OwnedBut, ExecutionsRecovered
  <1> QED BY <1>1, RecoveryInvariant, PTL

(* The tailer recover() schedules is the only owner of its execution, in   *)
(* whatever step of a launch the last process ended.                       *)
THEOREM NoSharedRecovery == RecoverySpec => []SoleOwner
  <1>1. RecoveryInv => SoleOwner
    BY OwnersAreSole DEF RecoveryInv, ProcessOK
  <1> QED BY <1>1, RecoveryInvariant, PTL

-----------------------------------------------------------------------------
(* WorkersRecovered.  Where nothing stops an execution, a worker that runs *)
(* or may still be started belongs to a row that is not halted, and of the *)
(* rows recover() comes to none is still being launched.                   *)

NothingStops ==
    /\ ~LaunchFaults /\ ~TailFaults /\ Policy # "interrupt"
    /\ Stops = {} /\ Closes = {} /\ Results = {} /\ McpFailures = {}

WorkersActive ==
    /\ up => container \in Unhalted
    /\ \A e \in Execs : docker[e] \in Launching => e \in Unhalted
    /\ \A e \in Execs : phase[e] = "none" => e \notin halted
NoStops == \A p \in Proc : pc[p] \notin StopLabels
ListedLaunched == \A e \in todo : docker[e] \notin Launching

WorkersInv == DockInv /\ WorkersActive /\ NoStops /\ ListedLaunched

LEMMA InitWorkers == RecoveryInit => WorkersInv
  <1> SUFFICES ASSUME RecoveryInit PROVE WorkersInv
    OBVIOUS
  <1>1. DockInv
    BY InitWatch DEF RecoveryInit
  <1>2. NoStops
    BY DEF RecoveryInit, Init, NoStops, StopLabels
  <1> QED BY <1>1, <1>2 DEF RecoveryInit, Init, WorkersInv, WorkersActive, ListedLaunched,
                            Launching

(* A step of Docker runs or gives up a launch whose row is active.         *)
LEMMA DockerWorkers ==
    ASSUME TypeInv, WorkersInv, NEW e \in Execs, DockerStep(e), todo \in SUBSET Execs,
           todo' = todo
    PROVE  WorkersActive' /\ NoStops' /\ ListedLaunched'
  <1>1. UNCHANGED <<phase, halted, pc>>
    BY DEF DockerStep, DockerEvict, DockerRun, DockerFail, db, control
  <1>2. /\ docker[e] \in Launching /\ docker \in [Execs -> DockerStates]
        /\ \E s \in DockerStates : docker' = [docker EXCEPT ![e] = s]
        /\ up' => (up /\ container' = container) \/ container' = e
    BY DEF DockerStep, DockerEvict, DockerRun, DockerFail, Launching, DockerStates, TypeInv,
           DataOK
  <1>3. \A f \in Execs : docker'[f] \in Launching => docker[f] \in Launching
    BY <1>2
  <1> QED BY <1>1, <1>2, <1>3 DEF WorkersInv, WorkersActive, NoStops, ListedLaunched, Unhalted

(* A coroutine halts a row when no worker of it runs nor will.             *)
LEMMA HaltWorkers ==
    ASSUME TypeInv, WorkersInv, NEW e \in Execs, HaltRow(e), NoWorker(e), phase[e] # "none",
           UNCHANGED <<docker, container, up, todo>>
    PROVE  WorkersActive' /\ ListedLaunched'
  <1>1. \A f \in Execs : f # e => (f \in Unhalted' <=> f \in Unhalted)
    BY DEF HaltRow, Unhalted, TypeInv, DataOK
  <1>2. \A f \in Execs : phase'[f] = "none" => f # e /\ phase[f] = "none"
    BY DEF HaltRow, TypeInv, DataOK
  <1>3. \A f \in Execs : docker'[f] \in Launching => f \in Unhalted'
    BY <1>1 DEF WorkersInv, WorkersActive, NoWorker
  <1>4. up' => container' \in Unhalted'
    <2> SUFFICES ASSUME up PROVE container \in Unhalted'
      OBVIOUS
    <2>1. container \in Unhalted /\ container # e
      BY DEF WorkersInv, WorkersActive, NoWorker
    <2> QED BY <1>1, <2>1 DEF Unhalted
  <1>5. \A f \in Execs : phase'[f] = "none" => f \notin halted'
    BY <1>2 DEF WorkersInv, WorkersActive, HaltRow
  <1> QED BY <1>3, <1>4, <1>5 DEF WorkersInv, WorkersActive, ListedLaunched

LEMMA SameWorkers ==
    ASSUME WorkersInv, SameDock, Unhalted' = Unhalted, halted' = halted, RowsStay, todo' = todo
    PROVE  WorkersActive' /\ ListedLaunched'
  <1>1. up' => up /\ container' = container
    BY DEF SameDock
  <1> QED BY <1>1 DEF WorkersInv, WorkersActive, ListedLaunched, SameDock, RowsStay

(* A move to a label where nothing is stopped.                             *)
LEMMA MoveStops ==
    ASSUME NoStops, NEW p, NEW l, l \notin StopLabels, NEW v, NEW Q, Switch(p, l, v, Q)
    PROVE  NoStops'
  BY DEF NoStops, Switch, StopLabels

LEMMA ContinueStops ==
    ASSUME NoStops, NEW p, NEW l, l \notin StopLabels, NEW v, NEW C, Continue(p, l, v, C)
    PROVE  NoStops'
  BY MoveStops DEF Continue

LEMMA CreateWorkers ==
    ASSUME TypeInv, WorkersInv, NEW S \in SUBSET Execs, OwnersBut(S), S = todo, todo' = todo,
           NEW p \in Proc, CreateRow(p)
    PROVE  WorkersActive' /\ NoStops' /\ ListedLaunched'
  <1>1. PICK e \in Execs :
           /\ phase[e] = "none" /\ phase' = [phase EXCEPT ![e] = "STARTING"]
           /\ docker' = [docker EXCEPT ![e] = "submitted"]
           /\ Continue(p, "launch", [loc[p] EXCEPT !.exec = e], {})
    BY DEF CreateRow
  <1>2. UNCHANGED <<halted, container, up>>
    BY DEF CreateRow
  <1>3. e \notin halted /\ e \notin todo
    BY <1>1 DEF WorkersInv, WorkersActive, OwnersBut, Waiting
  <1>4. /\ phase'[e] = "STARTING" /\ \A f \in Execs : f # e => phase'[f] = phase[f]
        /\ \A f \in Execs : f # e => docker'[f] = docker[f]
    BY <1>1 DEF TypeInv, DataOK
  <1>5. Unhalted' = Unhalted \cup {e}
    BY <1>2, <1>3, <1>4 DEF Unhalted
  <1>6. NoStops'
    BY <1>1, ContinueStops DEF WorkersInv, StopLabels
  <1>7. WorkersActive'
    BY <1>2, <1>4, <1>5 DEF WorkersInv, WorkersActive
  <1>8. ListedLaunched'
    BY <1>3, <1>4 DEF WorkersInv, ListedLaunched
  <1> QED BY <1>6, <1>7, <1>8

LEMMA LifecycleWorkers ==
    ASSUME NothingStops, RecoveryInv, WorkersInv, LifecycleStep \/ UNCHANGED allVars
    PROVE  WorkersInv'
  <1>1. [Next]_vars /\ todo' = todo /\ todo \in SUBSET Execs /\ TypeInv /\ OwnersBut(todo)
    BY LifecycleIsNext DEF allVars, process, RecoveryInv, ProcessOK
  <1>2. DockInv'
    BY <1>1, DockStep DEF WorkersInv, NothingStops
  <1>3. SUFFICES WorkersActive' /\ NoStops' /\ ListedLaunched'
    BY <1>2 DEF WorkersInv
  <1>4. ASSUME NEW p \in Proc, Aside(p)
        PROVE  WorkersActive' /\ NoStops' /\ ListedLaunched'
    <2>1. PICK l, v, Q : Switch(p, l, v, Q) /\ Apart(p, l)
      BY <1>4 DEF Aside
    <2>2. pc[p] \notin StopLabels /\ ~MayStop(p)
      BY DEF WorkersInv, NoStops, NothingStops, MayStop
    <2>3. UNCHANGED <<phase, halted>> /\ SameDock /\ RowsStay /\ l \notin StopLabels
      BY <2>1, <2>2 DEF Apart, StopLabels
    <2> QED BY <1>1, <2>1, <2>3, SameWorkers, MoveStops DEF Unhalted, WorkersInv
  <1>5. ASSUME NEW p \in Proc, CreateRow(p)
        PROVE  WorkersActive' /\ NoStops' /\ ListedLaunched'
    BY <1>1, <1>5, CreateWorkers
  <1>6. ASSUME NEW p \in Proc, NEW l \in {"status", "haltFailed", "tailHalt"}, NEW v,
               Continue(p, l, v, {}), UNCHANGED <<db, dock>>
        PROVE  WorkersActive' /\ NoStops' /\ ListedLaunched'
    <2>1. UNCHANGED <<phase, halted>> /\ SameDock /\ RowsStay
      BY <1>6 DEF db, dock, SameDock, RowsStay
    <2>2. NoStops'
      BY <1>6, ContinueStops DEF WorkersInv, StopLabels
    <2> QED BY <1>1, <2>1, <2>2, SameWorkers DEF Unhalted
  <1>7. ASSUME NEW p \in Proc, LaunchOk(p) \/ LaunchFail(p)
        PROVE  WorkersActive' /\ NoStops' /\ ListedLaunched'
    BY <1>6, <1>7 DEF LaunchOk, LaunchFail, Step
  <1>8. ASSUME NEW p \in Proc, UpdateStatus(p)
        PROVE  WorkersActive' /\ NoStops' /\ ListedLaunched'
    <2>1. loc[p].exec \in Execs /\ phase[loc[p].exec] # "none"
      BY <1>1, <1>8, OwnedRows DEF UpdateStatus, OwnerLabels
    <2>2. \A e \in Execs : phase'[e] = "none" <=> phase[e] = "none"
      BY <1>1, <1>8, <2>1 DEF UpdateStatus, TypeInv, DataOK
    <2>3. halted' = halted /\ SameDock
      BY <1>8 DEF UpdateStatus, dock, SameDock
    <2>4. Unhalted' = Unhalted /\ RowsStay
      BY <2>2, <2>3 DEF Unhalted, RowsStay
    <2>5. NoStops'
      BY <1>8, ContinueStops DEF UpdateStatus, Step, WorkersInv, StopLabels
    <2> QED BY <1>1, <2>3, <2>4, <2>5, SameWorkers
  <1>9. ASSUME NEW p \in Proc, StartTail(p)
        PROVE  WorkersActive' /\ NoStops' /\ ListedLaunched'
    <2>1. UNCHANGED <<phase, halted>> /\ SameDock /\ RowsStay
      BY <1>9 DEF StartTail, db, dock, SameDock, RowsStay
    <2>2. NoStops'
      BY <1>1, <1>9 DEF StartTail, NoStops, WorkersInv, StopLabels, TypeInv, ControlOK
    <2> QED BY <1>1, <2>1, <2>2, SameWorkers DEF Unhalted
  <1>10. ASSUME NEW p \in Proc, HaltFailed(p)
         PROVE  WorkersActive' /\ NoStops' /\ ListedLaunched'
    <2>1. loc[p].exec \in Execs /\ phase[loc[p].exec] # "none"
      BY <1>1, <1>10, OwnedRows DEF HaltFailed, OwnerLabels
    <2>2. NoWorker(loc[p].exec)
      BY <1>10 DEF HaltFailed, WorkersInv, DockInv, ReleasesDead
    <2>3. HaltRow(loc[p].exec) /\ UNCHANGED <<docker, container, up>>
      BY <1>10 DEF HaltFailed, dock
    <2>4. NoStops'
      BY <1>10, ContinueStops DEF HaltFailed, Step, WorkersInv, StopLabels
    <2> QED BY <1>1, <2>1, <2>2, <2>3, <2>4, HaltWorkers
  <1>11. ASSUME NEW e \in Execs, TailEnd(e)
         PROVE  WorkersActive' /\ NoStops' /\ ListedLaunched'
    BY <1>6, <1>11, TasksAreProcs DEF TailEnd
  <1>12. ASSUME NEW e \in Execs, TailHalt(e)
         PROVE  WorkersActive' /\ NoStops' /\ ListedLaunched'
    <2>1. Tail(e) \in Proc /\ pc[Tail(e)] = "tailHalt"
      BY <1>12, TasksAreProcs DEF TailHalt
    <2>2. loc[Tail(e)].exec \in Execs /\ Tail(e) = Tail(loc[Tail(e)].exec)
      BY <1>1, <2>1 DEF OwnersBut, TailsOwnTheirs, TailLabels
    <2>3. loc[Tail(e)].exec = e
      BY <2>2, TailsDiffer
    <2>4. NoWorker(e) /\ phase[e] # "none"
      BY <1>1, <2>1, <2>3, OwnedRows DEF OwnerLabels, WorkersInv, DockInv, ReleasesDead
    <2>5. HaltRow(e) /\ UNCHANGED <<docker, container, up>>
      BY <1>12 DEF TailHalt, dock
    <2>6. NoStops'
      BY <1>12, <2>1, ContinueStops DEF TailHalt, Step, WorkersInv, StopLabels
    <2> QED BY <1>1, <2>4, <2>5, <2>6, HaltWorkers
  <1>13. ASSUME NEW e \in Execs, DockerStep(e)
         PROVE  WorkersActive' /\ NoStops' /\ ListedLaunched'
    BY <1>1, <1>13, DockerWorkers
  <1>14. \A e \in Execs : ~TailFail(e) /\ ~TailErrHalt(e)
    BY TasksAreProcs DEF TailFail, TailErrHalt, NothingStops, WorkersInv, DockInv, NoTailErrors
  <1>15. \A r \in Reqs : ~ArmIdleStop(r)
    BY TasksAreProcs DEF ArmIdleStop, WorkersInv, NoStops, StopLabels
  <1>16. CASE WorkerExit \/ UNCHANGED vars
    <2>1. /\ UNCHANGED <<phase, halted, pc, docker>>
          /\ container' = container /\ (up' => up)
      BY <1>16 DEF WorkerExit, vars, db, dock, control
    <2> QED BY <1>1, <2>1 DEF WorkersInv, WorkersActive, NoStops, ListedLaunched, Unhalted
  <1> QED BY <1>1, <1>4, <1>5, <1>7, <1>8, <1>9, <1>10, <1>11, <1>12, <1>13, <1>14, <1>15,
             <1>16, StepKinds

(* The end of the process touches no container; it drops the launches the  *)
(* daemon has not carried out.                                             *)
LEMMA EndWorkers ==
    ASSUME RecoveryInv, WorkersInv, Shutdown \/ Exit
    PROVE  WorkersInv'
  <1>1. /\ UNCHANGED <<phase, halted, container>> /\ up' = up
        /\ \A e \in Execs : \/ docker'[e] = docker[e]
                            \/ docker[e] \in Launching /\ docker'[e] = "failed"
        /\ \A p \in Proc : \/ pc'[p] \in {"start", "done"}
                           \/ pc'[p] = pc[p] /\ loc'[p] = loc[p] /\ Shutdown
    BY DEF Shutdown, Exit, db, dock, Launching
  <1>2. ContainerRan' /\ RowsFirst'
    BY <1>1 DEF RecoveryInv, TypeInv, DataOK, WorkersInv, DockInv, ContainerRan, RowsFirst,
                Launching, NoExec
  <1>3. WorkersActive' /\ NoStops'
    BY <1>1 DEF WorkersInv, WorkersActive, NoStops, StopLabels, Unhalted, Launching
  <1>4. \A e \in Execs : docker'[e] \in Launching => docker[e] \in Launching /\ Shutdown
    BY <1>1 DEF Exit, Shutdown, Launching
  <1>5. ListedLaunched'
    BY <1>4 DEF RecoveryInv, ProcessOK, WorkersInv, ListedLaunched, Shutdown, Exit, ActiveRows,
                Unhalted
  <1>6. ReleasesDead' /\ LaunchedFirst' /\ NoTailErrors'
    <2>1. CASE Shutdown
      <3>1. docker' = docker
        BY <2>1 DEF Shutdown, dock
      <3> QED BY <1>1, <3>1 DEF WorkersInv, DockInv, ReleasesDead, LaunchedFirst,
                               NoTailErrors, NoWorker
    <2>2. CASE ~Shutdown
      BY <1>1, <2>2 DEF ReleasesDead, LaunchedFirst, NoTailErrors
    <2> QED BY <2>1, <2>2
  <1> QED BY <1>2, <1>3, <1>5, <1>6 DEF WorkersInv, DockInv

LEMMA RecoverWorkers ==
    ASSUME RecoveryInv, WorkersInv, RecoverStep
    PROVE  WorkersInv'
  <1>1. ASSUME NEW e \in Execs, RecoverStartup(e) PROVE WorkersInv'
    <2>1. /\ HaltRow(e) /\ todo' = todo \ {e} /\ e \in todo
          /\ container' = NoExec /\ up' = FALSE /\ UNCHANGED <<docker, pc, loc>>
      BY <1>1 DEF RecoverStartup, MayRecover, control
    <2>2. docker[e] \notin Launching
      BY <2>1 DEF WorkersInv, ListedLaunched
    <2>3. /\ \A f \in Execs : phase'[f] = "none" => f # e /\ phase[f] = "none"
          /\ \A f \in Execs : f # e => phase'[f] = phase[f]
          /\ halted' = halted \cup {e}
      BY <2>1 DEF HaltRow, RecoveryInv, TypeInv, DataOK
    <2>4. WorkersActive'
      BY <2>1, <2>2, <2>3 DEF WorkersInv, WorkersActive, Unhalted
    <2>5. DockInv'
      BY <2>1, <2>3 DEF WorkersInv, DockInv, ReleasesDead, LaunchedFirst, NoTailErrors,
                        ContainerRan, RowsFirst, NoWorker
    <2>6. NoStops' /\ ListedLaunched'
      BY <2>1 DEF WorkersInv, NoStops, ListedLaunched
    <2> QED BY <2>4, <2>5, <2>6 DEF WorkersInv
  <1>2. ASSUME NEW e \in Execs, RecoverTail(e) PROVE WorkersInv'
    <2>1. /\ todo' = todo \ {e} /\ e \in todo
          /\ UNCHANGED <<phase, halted, docker, container>> /\ up' = up
      BY <1>2 DEF RecoverTail, MayRecover, db, dock
    <2>2. \A p \in Proc : \/ pc'[p] = "logs" /\ loc'[p].exec = e
                          \/ pc'[p] = pc[p] /\ loc'[p] = loc[p]
      BY <1>2 DEF RecoverTail, RecoveryInv, TypeInv, ControlOK, NoLocals
    <2>3. docker[e] \notin Launching
      BY <2>1 DEF WorkersInv, ListedLaunched
    <2>4. WorkersActive' /\ ListedLaunched'
      BY <2>1 DEF WorkersInv, WorkersActive, ListedLaunched, Unhalted
    <2>5. NoStops'
      BY <2>2 DEF WorkersInv, NoStops, StopLabels
    <2>6. DockInv'
      BY <2>1, <2>2, <2>3 DEF WorkersInv, DockInv, ReleasesDead, LaunchedFirst, NoTailErrors,
                              ContainerRan, RowsFirst, NoWorker
    <2> QED BY <2>4, <2>5, <2>6 DEF WorkersInv
  <1>3. CASE RecoverError \/ Serve
    <2>1. UNCHANGED <<phase, halted, docker, container, pc, loc, todo>> /\ up' = up
      BY <1>3 DEF RecoverError, Serve, vars, db, dock, control
    <2> QED BY <2>1 DEF WorkersInv, WorkersActive, NoStops, ListedLaunched, Unhalted, DockInv,
                        ReleasesDead, LaunchedFirst, NoTailErrors, ContainerRan, RowsFirst,
                        NoWorker
  <1> QED BY <1>1, <1>2, <1>3 DEF RecoverStep

(* recover(): in whatever step of its launch the process ended, a worker   *)
(* that runs is tailed, launched or on recover()'s list, as long as        *)
(* nothing stops executions and launches and log streams do not fail.      *)
THEOREM WorkersAreRecovered ==
    ASSUME NothingStops
    PROVE  RecoverySpec => []WorkersRecovered
  <1>1. RecoveryInit => WorkersInv
    BY InitWorkers
  <1>2. RecoveryInv /\ WorkersInv /\ [RecoveryNext]_allVars => WorkersInv'
    BY LifecycleWorkers, EndWorkers, RecoverWorkers DEF RecoveryNext
  <1>3. RecoveryInv /\ WorkersInv => WorkersRecovered
    BY DEF RecoveryInv, OwnersBut, OwnedBut, WorkersInv, WorkersActive, WorkersRecovered
  <1> QED BY <1>1, <1>2, <1>3, RecoveryInvariant, PTL DEF RecoverySpec

-----------------------------------------------------------------------------
(* AcknowledgedInHand.  A restart drops what the launchers held and takes  *)
(* back no launch that was carried out; recover() launches nothing.        *)

LEMMA EndHand ==
    ASSUME RecoveryInv, HandInv, Shutdown \/ Exit
    PROVE  HandInv'
  <1> DEFINE Q == {Tail(e) : e \in tailReg} \cup {Idle(e) : e \in idleReg}
  <1>1. /\ UNCHANGED <<msg, phase, prompt>>
        /\ \A e \in Execs : \/ docker'[e] = docker[e]
                            \/ docker[e] \in Launching /\ docker'[e] = "failed"
        /\ \A p \in Proc : \/ pc'[p] \in {"start", "done"}
                           \/ pc'[p] = pc[p] /\ loc'[p] = loc[p] /\ Shutdown
    BY DEF Shutdown, Exit, db, dock, Launching
  <1>2. dropped \subseteq dropped'
        /\ \A p \in Proc : pc[p] \in PromptLabels =>
             \/ loc[p].pend \subseteq dropped'
             \/ pc'[p] = pc[p] /\ loc'[p] = loc[p]
    <2>1. CASE Shutdown
      <3>1. /\ \A p \in Proc : p \notin Q => pc'[p] = pc[p] /\ loc'[p] = loc[p]
            /\ Cancelled(Q)
        BY <2>1 DEF Shutdown
      <3> HIDE DEF Q
      <3> QED BY <3>1 DEF Cancelled
    <2>2. CASE Exit
      <3>1. dropped' = dropped \cup
              UNION {loc[p].pend : p \in {q \in Proc : pc[q] \in PromptLabels}}
        BY <2>2 DEF Exit
      <3> QED BY <3>1
    <2> QED BY <2>1, <2>2
  <1> HIDE DEF Q
  <1>3. PromptHeld' /\ FreshDocker'
    BY <1>1 DEF HandInv, PromptHeld, FreshDocker, RowLabels, Launching
  <1>4. LaunchedRan'
    BY <1>1 DEF HandInv, LaunchedRan, PromptHeld, RanLabels, RowLabels, Launching
  <1>5. \A m \in Msgs : Reached(m) => Reached(m)'
    BY <1>1 DEF Reached, Launching
  <1>6. AcknowledgedInHand'
    BY <1>1, <1>2, <1>5 DEF HandInv, AcknowledgedInHand
  <1> QED BY <1>3, <1>4, <1>6 DEF HandInv

LEMMA RecoverHand ==
    ASSUME RecoveryInv, HandInv, RecoverStep
    PROVE  HandInv'
  <1>1. ASSUME NEW e \in Execs, RecoverStartup(e) PROVE HandInv'
    <2>1. UNCHANGED <<msg, docker, prompt, pc, loc, dropped>> /\ HaltRow(e)
      BY <1>1 DEF RecoverStartup, control, history
    <2>2. \A f \in Execs : phase'[f] = "none" <=> f # e /\ phase[f] = "none"
      BY <2>1 DEF HaltRow, RecoveryInv, TypeInv, DataOK
    <2> QED BY <2>1, <2>2 DEF HandInv, PromptHeld, LaunchedRan, FreshDocker,
                              AcknowledgedInHand, Reached
  <1>2. ASSUME NEW e \in Execs, RecoverTail(e) PROVE HandInv'
    <2>1. UNCHANGED <<msg, phase, docker, prompt, dropped>> /\ e \in todo
      BY <1>2 DEF RecoverTail, MayRecover, db, dock, history
    <2>2. \A p \in Proc : \/ pc'[p] = "logs" /\ p = Tail(e)
                          \/ pc'[p] = pc[p] /\ loc'[p] = loc[p]
      BY <1>2 DEF RecoverTail, RecoveryInv, TypeInv, ControlOK
    <2>3. pc[Tail(e)] = "done"
      BY <2>1 DEF RecoveryInv, OwnersBut, Waiting
    <2>4. PromptHeld' /\ LaunchedRan' /\ FreshDocker'
      BY <2>1, <2>2 DEF HandInv, PromptHeld, LaunchedRan, FreshDocker, RowLabels, RanLabels
    <2>5. AcknowledgedInHand'
      BY <2>1, <2>2, <2>3 DEF HandInv, AcknowledgedInHand, Reached, PromptLabels
    <2> QED BY <2>4, <2>5 DEF HandInv
  <1>3. CASE RecoverError \/ Serve
    <2>1. UNCHANGED <<msg, phase, docker, prompt, pc, loc, dropped>>
      BY <1>3 DEF RecoverError, Serve, vars, db, dock, control, history
    <2> QED BY <2>1 DEF HandInv, PromptHeld, LaunchedRan, FreshDocker, AcknowledgedInHand,
                        Reached
  <1> QED BY <1>1, <1>2, <1>3 DEF RecoverStep

(* Wherever and however often the process ends, an acknowledged message    *)
(* reached a worker or is with a launcher, but for those a launcher held   *)
(* when it was cancelled or the process ended: recover() loses no other.   *)
THEOREM AcknowledgedAcrossRestarts == RecoverySpec => []AcknowledgedInHand
  <1>1. RecoveryInit => HandInv
    BY InitHand DEF RecoveryInit
  <1>2. RecoveryInv /\ HandInv /\ [RecoveryNext]_allVars => HandInv'
    <2>1. LifecycleStep \/ UNCHANGED allVars => [Next]_vars
      BY LifecycleIsNext DEF allVars
    <2>2. RecoveryInv => TypeInv /\ LaunchersFirst
      BY DEF RecoveryInv, OwnersBut
    <2> QED BY <2>1, <2>2, HandStep, EndHand, RecoverHand DEF RecoveryNext
  <1>3. HandInv => AcknowledgedInHand
    BY DEF HandInv
  <1> QED BY <1>1, <1>2, <1>3, RecoveryInvariant, PTL DEF RecoverySpec
=============================================================================
