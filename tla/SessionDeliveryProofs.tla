------------------------ MODULE SessionDeliveryProofs ------------------------
(***************************************************************************)
(* What becomes of the messages of a session: AcknowledgedInHand and       *)
(* PendingNotInPrompt, for every instance of SessionLifecycle.             *)
(***************************************************************************)
EXTENDS SessionLifecycleProofs

-----------------------------------------------------------------------------
(* AcknowledgedInHand needs to know that the prompt of an execution is     *)
(* what its launcher holds, until the launch succeeded, and that nothing   *)
(* was launched for an execution without a row.                            *)

RowLabels == {"launch", "status", "startTail", "ackFirst", "haltFailed"}
RanLabels == {"status", "startTail", "ackFirst"}

PromptHeld ==
    \A p \in Proc : pc[p] \in RowLabels =>
        /\ loc[p].exec \in Execs /\ phase[loc[p].exec] # "none"
        /\ prompt[loc[p].exec] = loc[p].pend
LaunchedRan ==
    \A p \in Proc : pc[p] \in RanLabels => docker[loc[p].exec] = "ran"
FreshDocker == \A e \in Execs : phase[e] = "none" => docker[e] = "none"

HandInv == PromptHeld /\ LaunchedRan /\ FreshDocker /\ AcknowledgedInHand

(* Rows and launches go forward, prompts are written once.                 *)
LaunchesAdvance ==
    /\ prompt' = prompt
    /\ \A e \in Execs :
          /\ phase[e] # "none" => phase'[e] # "none"
          /\ docker[e] = "ran" => docker'[e] = "ran"
          /\ docker[e] = "none" => docker'[e] = "none"

(* What p holds when it moves to l with locals v: it enters the launch     *)
(* labels only from one another, acknowledges only what it holds or what   *)
(* reached a worker, and lets go only of what is not acknowledged.         *)
KeepsPrompt(p, l, v) ==
    /\ l \in RowLabels =>
          pc[p] \in RowLabels /\ v.exec = loc[p].exec /\ v.pend = loc[p].pend
    /\ l \in RanLabels => docker[loc[p].exec] = "ran"
    /\ \A m \in Msgs : msg'[m] = "acked" =>
          msg[m] = "acked" \/ Reached(m) \/ (l \in PromptLabels /\ m \in v.pend)
    /\ pc[p] \in PromptLabels =>
          \/ l \in PromptLabels /\ v.pend = loc[p].pend
          \/ \A m \in loc[p].pend : msg'[m] # "acked" \/ Reached(m)

LEMMA MovePrompt ==
    ASSUME TypeInv, HandInv, NEW p \in Proc, NEW l \in Labels, NEW v, NEW Q,
           Switch(p, l, v, Q), LaunchesAdvance, KeepsPrompt(p, l, v)
    PROVE  HandInv'
  <1> USE DEF KeepsPrompt, LaunchesAdvance
  <1>1. \A q \in Proc :
           /\ pc'[q] = IF q = p THEN l ELSE IF q \in Q THEN "done" ELSE pc[q]
           /\ loc'[q] = IF q = p THEN v
                        ELSE IF q \in Q THEN NoLocals ELSE loc[q]
    BY DEF Switch
  <1>2. PromptHeld'
    BY <1>1 DEF HandInv, PromptHeld, RowLabels
  <1>3. LaunchedRan'
    <2> SUFFICES ASSUME NEW q \in Proc, pc'[q] \in RanLabels
                 PROVE  docker'[loc'[q].exec] = "ran"
      BY DEF LaunchedRan
    <2>1. docker[loc'[q].exec] = "ran" /\ loc'[q].exec \in Execs
      BY <1>1 DEF HandInv, LaunchedRan, PromptHeld, RanLabels, RowLabels
    <2> QED BY <2>1
  <1>4. FreshDocker'
    BY DEF HandInv, FreshDocker
  <1>5. \A m \in Msgs : Reached(m) => Reached(m)'
    BY DEF Reached
  <1>6. AcknowledgedInHand'
    <2> SUFFICES ASSUME NEW m \in Msgs, msg'[m] = "acked",
                        ~Reached(m), m \notin dropped'
                 PROVE  \E q \in Proc : pc'[q] \in PromptLabels /\ m \in loc'[q].pend
      BY <1>5 DEF AcknowledgedInHand
    <2>1. CASE l \in PromptLabels /\ m \in v.pend
      BY <1>1, <2>1
    <2>2. CASE ~(l \in PromptLabels /\ m \in v.pend)
      <3>1. msg[m] = "acked" /\ m \notin dropped
        BY <2>2 DEF Switch, Cancelled
      <3>2. PICK q \in Proc : pc[q] \in PromptLabels /\ m \in loc[q].pend
        BY <3>1 DEF HandInv, AcknowledgedInHand
      <3>3. q # p
        BY <2>2, <3>2
      <3>4. q \notin Q
        BY <3>2, <3>3 DEF Switch, Cancelled
      <3> QED BY <1>1, <3>2, <3>3, <3>4
    <2> QED BY <2>1, <2>2
  <1> QED BY <1>2, <1>3, <1>4, <1>6 DEF HandInv

LEMMA ContinuePrompt ==
    ASSUME TypeInv, HandInv, NEW p \in Proc, NEW l \in Labels, NEW v, NEW C,
           Continue(p, l, v, C), LaunchesAdvance, KeepsPrompt(p, l, v)
    PROVE  HandInv'
  <1>1. Switch(p, l, v, {Idle(e) : e \in C \cap idleReg})
    BY DEF Continue
  <1> QED BY <1>1, MovePrompt

(* A coroutine that holds no prompt and acknowledges nothing.              *)
NothingAcked == \A m \in Msgs : msg'[m] = "acked" => msg[m] = "acked"

LEMMA EmptyHanded ==
    ASSUME TypeInv, HandInv, NEW p \in Proc, NEW l \in Labels, NEW v, NEW C,
           Continue(p, l, v, C), LaunchesAdvance, NothingAcked,
           pc[p] \notin PromptLabels, l \notin RowLabels
    PROVE  HandInv'
  <1>1. KeepsPrompt(p, l, v)
    BY DEF KeepsPrompt, NothingAcked, RanLabels, RowLabels
  <1> QED BY <1>1, ContinuePrompt

LEMMA SameLaunches ==
    ASSUME phase' = phase, docker' = docker, prompt' = prompt
    PROVE  LaunchesAdvance
  BY DEF LaunchesAdvance

LEMMA HaltedLaunches ==
    ASSUME TypeInv, NEW e \in Execs, HaltRow(e), docker' = docker, prompt' = prompt
    PROVE  LaunchesAdvance
  BY DEF LaunchesAdvance, HaltRow, TypeInv, DataOK

LEMMA SameMessages ==
    ASSUME msg' = msg
    PROVE  NothingAcked
  BY DEF NothingAcked

LEMMA OthersSet ==
    ASSUME NEW M, NEW s, s # "acked", SetMessages(M, s)
    PROVE  NothingAcked
  BY DEF NothingAcked, SetMessages

LEMMA InitHand == Init => HandInv
  BY DEF Init, HandInv, PromptHeld, LaunchedRan, FreshDocker, AcknowledgedInHand,
         RowLabels, RanLabels

LEMMA ArrivalHand ==
    ASSUME TypeInv, HandInv, NEW r \in Reqs, Arrival(r)
    PROVE  HandInv'
  <1> DEFINE L == {"insertSession", "storeResume", "followup", "storeOnly", "done",
                   "stopGet", "result", "markFatal", "mcpFail", "settle", "stopRequest"}
  <1>1. r \in Proc /\ pc[r] = "start" /\ UNCHANGED <<db, dock>>
    BY TasksAreProcs
       DEF Arrival, HandleMessage, ContinueSession, StopExecution, CloseSession,
           ResultEvent, FatalEvent, McpFailureEvent, EventArrives, MayBegin
  <1>2. LaunchesAdvance /\ NothingAcked
    BY <1>1, SameLaunches, SameMessages DEF db, dock
  <1>3. pc[r] \notin PromptLabels
    BY <1>1 DEF PromptLabels
  <1>4. L \subseteq Labels \ RowLabels
    BY DEF Labels, RowLabels
  <1>5. \E l \in L : \E w : Continue(r, l, w, {})
    BY DEF Arrival, HandleMessage, ContinueSession, CloseSession, StopExecution,
           StopTarget, ResultEvent, FatalEvent, McpFailureEvent, EventArrives, Step, Return
  <1> QED BY <1>1, <1>2, <1>3, <1>4, <1>5, EmptyHanded

LEMMA MessageHand ==
    ASSUME TypeInv, HandInv, NEW r \in Reqs, MessageStep(r)
    PROVE  HandInv'
  <1> DEFINE L == {"storeFirst", "done", "createRow", "readPending", "storeResume",
                   "followupStore", "stopGet", "markInterrupt"}
  <1>1. /\ r \in Proc
        /\ pc[r] \in {"insertSession", "storeFirst", "storeOnly", "storeResume",
                      "followup", "followupStore", "markInterrupt"}
        /\ UNCHANGED <<phase, docker, prompt>>
    BY TasksAreProcs
       DEF MessageStep, InsertSession, StoreFirst, StoreOnly, StoreResume, Followup,
           FollowupStore, MarkInterrupt, db, dock
  <1>2. LaunchesAdvance
    BY <1>1, SameLaunches
  <1>3. msg' = msg \/ SetMessages({r}, "pending")
    BY DEF MessageStep, InsertSession, StoreFirst, StoreOnly, StoreResume, Followup,
           FollowupStore, MarkInterrupt, db
  <1>4. NothingAcked
    BY <1>3, SameMessages, OthersSet
  <1>5. pc[r] \notin PromptLabels
    BY <1>1 DEF PromptLabels
  <1>6. L \subseteq Labels \ RowLabels
    BY DEF Labels, RowLabels
  <1>7. \E l \in L : \E w, C : Continue(r, l, w, C)
    BY DEF MessageStep, InsertSession, StoreFirst, StoreOnly, StoreResume, Followup,
           FollowupStore, MarkInterrupt, Step, Return
  <1> QED BY <1>1, <1>2, <1>4, <1>5, <1>6, <1>7, EmptyHanded

(* The row, the launch and the prompt of an execution that had none.       *)
LEMMA CreateHand ==
    ASSUME TypeInv, HandInv, NEW p \in Proc, CreateRow(p)
    PROVE  HandInv'
  <1>1. /\ pc \in [Proc -> Labels] /\ loc \in [Proc -> Locals]
        /\ phase \in [Execs -> Phases] /\ docker \in [Execs -> DockerStates]
        /\ prompt \in [Execs -> SUBSET Msgs]
    BY DEF TypeInv, ControlOK, DataOK
  <1>2. PICK e \in Execs :
           /\ phase[e] = "none"
           /\ phase' = [phase EXCEPT ![e] = "STARTING"]
           /\ docker' = [docker EXCEPT ![e] = "submitted"]
           /\ prompt' = [prompt EXCEPT ![e] = loc[p].pend]
           /\ Continue(p, "launch", [loc[p] EXCEPT !.exec = e], {})
    BY DEF CreateRow
  <1>3. /\ pc' = [pc EXCEPT ![p] = "launch"]
        /\ loc' = [loc EXCEPT ![p] = [loc[p] EXCEPT !.exec = e]]
        /\ msg' = msg /\ dropped \subseteq dropped'
    <2>1. msg' = msg
      BY DEF CreateRow
    <2>2. Switch(p, "launch", [loc[p] EXCEPT !.exec = e], {})
      BY <1>2 DEF Continue
    <2> QED BY <1>1, <2>1, <2>2 DEF Switch, Cancelled
  <1>4. /\ pc'[p] = "launch" /\ loc'[p].exec = e /\ loc'[p].pend = loc[p].pend
        /\ \A q \in Proc : q # p => pc'[q] = pc[q] /\ loc'[q] = loc[q]
    BY <1>1, <1>3 DEF Locals
  <1>5. \A q \in Proc : pc[q] \in RowLabels => loc[q].exec # e
    BY <1>2 DEF HandInv, PromptHeld
  <1>6. PromptHeld'
    <2> SUFFICES ASSUME NEW q \in Proc, pc'[q] \in RowLabels
                 PROVE  /\ loc'[q].exec \in Execs /\ phase'[loc'[q].exec] # "none"
                        /\ prompt'[loc'[q].exec] = loc'[q].pend
      BY DEF PromptHeld
    <2>1. CASE q = p
      BY <1>1, <1>2, <1>4, <2>1
    <2>2. CASE q # p
      BY <1>1, <1>2, <1>4, <1>5, <2>2 DEF HandInv, PromptHeld
    <2> QED BY <2>1, <2>2
  <1>7. LaunchedRan'
    <2> SUFFICES ASSUME NEW q \in Proc, pc'[q] \in RanLabels
                 PROVE  docker'[loc'[q].exec] = "ran"
      BY DEF LaunchedRan
    <2>1. q # p /\ pc[q] \in RowLabels /\ pc[q] \in RanLabels
      BY <1>4 DEF RanLabels, RowLabels
    <2> QED BY <1>1, <1>2, <1>4, <1>5, <2>1 DEF HandInv, LaunchedRan, PromptHeld
  <1>8. FreshDocker'
    BY <1>1, <1>2 DEF HandInv, FreshDocker
  <1>9. \A m \in Msgs : Reached(m) => Reached(m)'
    <2>1. docker[e] # "ran"
      BY <1>2 DEF HandInv, FreshDocker
    <2> QED BY <1>1, <1>2, <2>1 DEF Reached
  <1>10. AcknowledgedInHand'
    <2> SUFFICES ASSUME NEW m \in Msgs, msg[m] = "acked", ~Reached(m), m \notin dropped
                 PROVE  \E q \in Proc : pc'[q] \in PromptLabels /\ m \in loc'[q].pend
      BY <1>3, <1>9 DEF AcknowledgedInHand
    <2>1. PICK q \in Proc : pc[q] \in PromptLabels /\ m \in loc[q].pend
      BY DEF HandInv, AcknowledgedInHand
    <2>2. pc'[q] \in PromptLabels /\ m \in loc'[q].pend
      BY <1>4, <2>1 DEF PromptLabels
    <2> QED BY <2>2
  <1> QED BY <1>6, <1>7, <1>8, <1>10 DEF HandInv

(* The tailer starts while its launcher goes on; neither holds a prompt.   *)
LEMMA StartTailHand ==
    ASSUME TypeInv, HandInv, LaunchersFirst, NEW p \in Proc, StartTail(p)
    PROVE  HandInv'
  <1> DEFINE e == loc[p].exec
             t == Tail(e)
  <1>1. pc \in [Proc -> Labels] /\ loc \in [Proc -> Locals]
    BY DEF TypeInv, ControlOK
  <1>2. /\ e \in Execs /\ t \in Proc /\ pc[p] = "startTail"
        /\ pc[t] = "done" /\ t # p
    BY TasksAreProcs
       DEF StartTail, HandInv, PromptHeld, RowLabels, LaunchersFirst, LaunchLabels
  <1>3. /\ pc'[p] \in {"ackFirst", "activate"} /\ loc'[p] = loc[p]
        /\ pc'[t] = "logs"
        /\ \A q \in Proc : q # p /\ q # t => pc'[q] = pc[q] /\ loc'[q] = loc[q]
    BY <1>1, <1>2 DEF StartTail
  <1>4. UNCHANGED <<msg, phase, docker, prompt, dropped>>
    BY DEF StartTail, db, dock, history
  <1>5. \A q \in Proc : pc'[q] \in RowLabels => loc'[q] = loc[q] /\ pc[q] \in RowLabels
    BY <1>2, <1>3 DEF RowLabels
  <1>6. \A q \in Proc : pc'[q] \in RanLabels => pc[q] \in RanLabels /\ pc'[q] \in RowLabels
    BY <1>2, <1>3 DEF RowLabels, RanLabels
  <1>7. PromptHeld' /\ LaunchedRan' /\ FreshDocker'
    BY <1>4, <1>5, <1>6 DEF HandInv, PromptHeld, LaunchedRan, FreshDocker
  <1>8. AcknowledgedInHand'
    <2> SUFFICES ASSUME NEW m \in Msgs, msg[m] = "acked", ~Reached(m), m \notin dropped
                 PROVE  \E q \in Proc : pc'[q] \in PromptLabels /\ m \in loc'[q].pend
      BY <1>4 DEF AcknowledgedInHand, Reached
    <2>1. PICK q \in Proc : pc[q] \in PromptLabels /\ m \in loc[q].pend
      BY DEF HandInv, AcknowledgedInHand
    <2>2. q # p /\ q # t
      BY <1>2, <2>1 DEF PromptLabels
    <2> QED BY <1>3, <2>1, <2>2
  <1> QED BY <1>7, <1>8 DEF HandInv

LEMMA LaunchHand ==
    ASSUME TypeInv, HandInv, LaunchersFirst, NEW p \in Proc, LaunchStep(p)
    PROVE  HandInv'
  <1> USE DEF Labels, RowLabels, RanLabels, PromptLabels
  <1>1. pc[p] \in RowLabels =>
           /\ loc[p].exec \in Execs /\ phase[loc[p].exec] # "none"
           /\ prompt[loc[p].exec] = loc[p].pend
    BY DEF HandInv, PromptHeld
  <1>2. CASE ReadPending(p)
    <2>1. LaunchesAdvance /\ NothingAcked
      BY <1>2, SameLaunches, SameMessages DEF ReadPending, db, dock
    <2>2. \E l \in {"ack", "done"} : \E w : Continue(p, l, w, {})
      BY <1>2 DEF ReadPending, Return
    <2> QED BY <1>2, <2>1, <2>2, EmptyHanded DEF ReadPending
  <1>3. CASE AckPending(p)
    <2>1. LaunchesAdvance
      BY <1>3, SameLaunches DEF AckPending, dock
    <2>2. KeepsPrompt(p, "createRow", loc[p])
      BY <1>3 DEF AckPending, KeepsPrompt, SetMessages
    <2> QED BY <1>3, <2>1, <2>2, ContinuePrompt DEF AckPending, Step
  <1>4. CASE PrepareFail(p)
    <2>1. LaunchesAdvance /\ KeepsPrompt(p, "markFailed", loc[p])
      BY <1>4, SameLaunches DEF PrepareFail, KeepsPrompt, db, dock
    <2> QED BY <1>4, <2>1, ContinuePrompt DEF PrepareFail, Step
  <1>5. CASE CreateRow(p)
    BY <1>5, CreateHand
  <1>6. CASE LaunchOk(p)
    <2>1. \A m \in loc[p].pend : Reached(m)
      BY <1>1, <1>6 DEF LaunchOk, Reached
    <2>2. LaunchesAdvance /\ KeepsPrompt(p, "status", loc[p])
      BY <1>6, <2>1, SameLaunches DEF LaunchOk, KeepsPrompt, db, dock
    <2> QED BY <1>6, <2>2, ContinuePrompt DEF LaunchOk, Step
  <1>7. CASE LaunchFail(p)
    <2>1. LaunchesAdvance /\ KeepsPrompt(p, "haltFailed", loc[p])
      BY <1>7, SameLaunches DEF LaunchFail, KeepsPrompt, db, dock
    <2> QED BY <1>7, <2>1, ContinuePrompt DEF LaunchFail, Step
  <1>8. CASE UpdateStatus(p)
    <2>1. LaunchesAdvance
      BY <1>1, <1>8 DEF UpdateStatus, LaunchesAdvance, dock, TypeInv, DataOK
    <2>2. KeepsPrompt(p, "startTail", loc[p])
      BY <1>8 DEF UpdateStatus, KeepsPrompt, HandInv, LaunchedRan
    <2> QED BY <1>8, <2>1, <2>2, ContinuePrompt DEF UpdateStatus, Step
  <1>9. CASE StartTail(p)
    BY <1>9, StartTailHand
  <1>10. CASE AckFirst(p)
    <2>1. \A m \in loc[p].pend : Reached(m)
      BY <1>1, <1>10 DEF AckFirst, Reached, HandInv, LaunchedRan
    <2>2. LaunchesAdvance /\ KeepsPrompt(p, "activate", loc[p])
      BY <1>10, <2>1, SameLaunches DEF AckFirst, KeepsPrompt, dock, SetMessages
    <2> QED BY <1>10, <2>2, ContinuePrompt DEF AckFirst, Step
  <1>11. CASE Activate(p)
    BY <1>11, SameLaunches, SameMessages, EmptyHanded DEF Activate, Return, dock
  <1>12. CASE HaltFailed(p)
    <2>1. LaunchesAdvance
      BY <1>1, <1>12, HaltedLaunches DEF HaltFailed, dock
    <2>2. KeepsPrompt(p, "markFailed", loc[p])
      BY <1>12 DEF HaltFailed, KeepsPrompt
    <2> QED BY <1>12, <2>1, <2>2, ContinuePrompt DEF HaltFailed, Step
  <1>13. CASE MarkFailed(p)
    <2>1. LaunchesAdvance
      BY <1>13, SameLaunches DEF MarkFailed, dock
    <2>2. loc[p].pend \subseteq Msgs
      BY DEF TypeInv, ControlOK, Locals
    <2>3. KeepsPrompt(p, "launchError", loc[p])
      BY <1>13, <2>2 DEF MarkFailed, KeepsPrompt, SetMessages
    <2> QED BY <1>13, <2>1, <2>3, ContinuePrompt DEF MarkFailed, Step
  <1>14. CASE LaunchError(p)
    BY <1>14, SameLaunches, SameMessages, EmptyHanded DEF LaunchError, Return, Step, dock
  <1> QED
    BY <1>2, <1>3, <1>4, <1>5, <1>6, <1>7, <1>8, <1>9, <1>10, <1>11, <1>12, <1>13,
       <1>14 DEF LaunchStep

LEMMA StopHand ==
    ASSUME TypeInv, HandInv, NEW p \in Proc, StopStep(p)
    PROVE  HandInv'
  <1> DEFINE L == {"settle", "done", "stopRequest", "stopCheck", "stopDelete", "drain",
                   "stopRecheck", "stopHalt", "stopClear", "readPending"}
  <1>1. /\ pc[p] \in {"stopGet", "stopRequest", "stopCheck", "stopDelete", "drain",
                      "stopRecheck", "stopHalt", "stopClear", "settle"}
        /\ UNCHANGED <<msg, docker, prompt>>
    BY DEF StopStep, StopGet, StopRequest, StopCheck, StopDelete, DrainDone,
           DrainExpire, StopRecheck, StopHalt, StopClear, Settle, db, dock
  <1>2. pc[p] \in ExecLabels => loc[p].exec \in Execs
    BY DEF TypeInv, ControlOK, LocalsNamed
  <1>3. phase' = phase \/ (loc[p].exec \in Execs /\ HaltRow(loc[p].exec))
    BY <1>2 DEF StopStep, StopGet, StopRequest, StopCheck, StopDelete, DrainDone,
           DrainExpire, StopRecheck, StopHalt, StopClear, Settle, db, ExecLabels
  <1>4. LaunchesAdvance /\ NothingAcked
    BY <1>1, <1>3, SameLaunches, HaltedLaunches, SameMessages
  <1>5. pc[p] \notin PromptLabels
    BY <1>1 DEF PromptLabels
  <1>6. L \subseteq Labels \ RowLabels
    BY DEF Labels, RowLabels
  <1>7. CASE DrainExpire(p)
    <2>1. KeepsPrompt(p, "stopRecheck", loc[p])
      BY <1>4, <1>5, <1>6 DEF KeepsPrompt, NothingAcked, RanLabels, RowLabels
    <2> QED BY <1>4, <1>6, <1>7, <2>1, MovePrompt DEF DrainExpire
  <1>8. CASE ~DrainExpire(p)
    <2>1. \E l \in L : \E w, C : Continue(p, l, w, C)
      BY <1>8 DEF StopStep, StopGet, StopRequest, StopCheck, StopDelete, DrainDone,
             StopRecheck, StopHalt, StopClear, Settle, StopTarget, RestartOrSettle,
             Step, Return
    <2> QED BY <1>4, <1>5, <1>6, <2>1, EmptyHanded
  <1> QED BY <1>7, <1>8

LEMMA TailHand ==
    ASSUME TypeInv, HandInv, NEW e \in Execs, TailStep(e) \/ IdleFire(e)
    PROVE  HandInv'
  <1> DEFINE L == {"tailHalt", "tailClean", "tailErrHalt", "tailErrState",
                   "tailErrClear", "done", "settle", "readPending", "stopGet"}
  <1>1. PICK p \in {Tail(e), Idle(e)} :
           /\ pc[p] \in {"logs", "tailHalt", "tailClean", "tailErrHalt",
                         "tailErrState", "tailErrClear", "sleep"}
           /\ \E l \in L : \E w, C : Continue(p, l, w, C)
    BY DEF TailStep, TailEnd, TailHalt, TailClean, TailFail, TailErrHalt,
           TailErrState, TailErrClear, IdleFire, RestartOrSettle, Step, Return
  <1>2. p \in Proc
    BY TasksAreProcs
  <1>3. UNCHANGED <<msg, docker, prompt>>
    BY DEF TailStep, TailEnd, TailHalt, TailClean, TailFail, TailErrHalt,
           TailErrState, TailErrClear, IdleFire, db, dock
  <1>4. phase' = phase \/ HaltRow(e)
    BY DEF TailStep, TailEnd, TailHalt, TailClean, TailFail, TailErrHalt,
           TailErrState, TailErrClear, IdleFire, db
  <1>5. LaunchesAdvance /\ NothingAcked
    BY <1>3, <1>4, SameLaunches, HaltedLaunches, SameMessages
  <1>6. pc[p] \notin PromptLabels /\ L \subseteq Labels \ RowLabels
    BY <1>1 DEF PromptLabels, Labels, RowLabels
  <1> QED BY <1>1, <1>2, <1>5, <1>6, EmptyHanded

(* Arming the timer moves a request and an idle task that hold no prompt.  *)
LEMMA ArmHand ==
    ASSUME TypeInv, HandInv, NEW r \in Reqs, ArmIdleStop(r)
    PROVE  HandInv'
  <1> DEFINE i == Idle(loc[r].exec)
             free == loc[r].exec \in idleReg \/ pc[i] = "done"
  <1> USE DEF RowLabels, RanLabels, PromptLabels
  <1>1. r \in Proc /\ i \in Proc /\ pc[r] = "result"
    BY TasksAreProcs DEF ArmIdleStop, TypeInv, ControlOK, LocalsNamed, ExecLabels
  <1>2. /\ pc' = [pc EXCEPT ![r] = "done", ![i] = IF free THEN "sleep" ELSE @]
        /\ loc' = [loc EXCEPT ![r] = NoLocals,
                              ![i] = IF free THEN NoLocals ELSE @]
        /\ Cancelled({Idle(f) : f \in idleReg \cap {loc[r].exec}})
        /\ UNCHANGED <<phase, docker, prompt, msg>>
    BY DEF ArmIdleStop, db, dock
  <1>3. /\ pc'[r] \in {"done", "sleep"}
        /\ free => pc'[i] = "sleep"
        /\ ~free /\ i # r => pc'[i] = pc[i] /\ loc'[i] = loc[i]
        /\ \A q \in Proc : q # r /\ q # i => pc'[q] = pc[q] /\ loc'[q] = loc[q]
    BY <1>1, <1>2 DEF TypeInv, ControlOK
  <1>4. \A q \in Proc : pc'[q] \in RowLabels \cup RanLabels =>
           pc'[q] = pc[q] /\ loc'[q] = loc[q]
    BY <1>1, <1>3
  <1>5. PromptHeld' /\ LaunchedRan' /\ FreshDocker'
    <2>1. PromptHeld'
      BY <1>2, <1>4 DEF HandInv, PromptHeld
    <2>2. LaunchedRan'
      BY <1>2, <1>4 DEF HandInv, LaunchedRan
    <2>3. FreshDocker'
      BY <1>2 DEF HandInv, FreshDocker
    <2> QED BY <2>1, <2>2, <2>3
  <1>6. AcknowledgedInHand'
    <2> SUFFICES ASSUME NEW m \in Msgs, msg[m] = "acked", ~Reached(m), m \notin dropped'
                 PROVE  \E q \in Proc : pc'[q] \in PromptLabels /\ m \in loc'[q].pend
      BY <1>2 DEF AcknowledgedInHand, Reached
    <2>1. m \notin dropped
      BY <1>2 DEF Cancelled
    <2>2. PICK q \in Proc : pc[q] \in PromptLabels /\ m \in loc[q].pend
      BY <2>1 DEF HandInv, AcknowledgedInHand
    <2>3. q # r /\ pc[q] # "done"
      BY <1>1, <2>2
    <2>4. q = i => ~free
      BY <1>2, <2>2, <2>3 DEF Cancelled
    <2> QED BY <1>3, <2>2, <2>3, <2>4
  <1> QED BY <1>5, <1>6 DEF HandInv

LEMMA EventHand ==
    ASSUME TypeInv, HandInv, NEW r \in Reqs, EventStep(r)
    PROVE  HandInv'
  <1> DEFINE L == {"settle", "done", "stopRequest", "mcpError"}
  <1>1. /\ r \in Proc
        /\ pc[r] \in {"result", "markFatal", "mcpFail", "mcpDelete", "mcpError"}
        /\ UNCHANGED <<msg, docker, prompt>>
    BY TasksAreProcs
       DEF EventStep, InterruptAtResult, ArmIdleStop, MarkFatal, McpCancelTail,
           McpDelete, McpError, db, dock
  <1>2. pc[r] \in ExecLabels => loc[r].exec \in Execs
    BY <1>1 DEF TypeInv, ControlOK, LocalsNamed
  <1>3. phase' = phase \/ (loc[r].exec \in Execs /\ HaltRow(loc[r].exec))
    BY <1>2 DEF EventStep, InterruptAtResult, ArmIdleStop, MarkFatal, McpCancelTail,
           McpDelete, McpError, db, ExecLabels
  <1>4. LaunchesAdvance /\ NothingAcked
    BY <1>1, <1>3, SameLaunches, HaltedLaunches, SameMessages
  <1>5. pc[r] \notin PromptLabels
    BY <1>1 DEF PromptLabels
  <1>6. L \cup {"mcpDelete"} \subseteq Labels \ RowLabels
    BY DEF Labels, RowLabels
  <1>7. CASE ArmIdleStop(r)
    BY <1>7, ArmHand
  <1>8. CASE McpCancelTail(r)
    <2>1. KeepsPrompt(r, "mcpDelete", loc[r])
      BY <1>4, <1>5, <1>6 DEF KeepsPrompt, NothingAcked, RanLabels, RowLabels
    <2> QED BY <1>1, <1>4, <1>6, <1>8, <2>1, MovePrompt DEF McpCancelTail
  <1>9. CASE ~ArmIdleStop(r) /\ ~McpCancelTail(r)
    <2>1. \E l \in L : \E w, C : Continue(r, l, w, C)
      BY <1>9 DEF EventStep, InterruptAtResult, MarkFatal, McpDelete, McpError,
             StopTarget, Return
    <2> QED BY <1>1, <1>4, <1>5, <1>6, <2>1, EmptyHanded
  <1> QED BY <1>7, <1>8, <1>9

(* Docker launches only what has a row, and takes no launch back.          *)
LEMMA DockerHand ==
    ASSUME TypeInv, HandInv, (\E e \in Execs : DockerStep(e)) \/ WorkerExit
    PROVE  HandInv'
  <1>1. UNCHANGED <<msg, phase, prompt, pc, loc, dropped>>
    BY DEF DockerStep, DockerEvict, DockerRun, DockerFail, WorkerExit, db, dock,
           control, history
  <1>2. \A e \in Execs : /\ docker[e] = "ran" => docker'[e] = "ran"
                         /\ docker[e] = "none" => docker'[e] = "none"
    BY DEF DockerStep, DockerEvict, DockerRun, DockerFail, WorkerExit, TypeInv, DataOK
  <1>3. PromptHeld' /\ LaunchedRan' /\ FreshDocker'
    BY <1>1, <1>2
       DEF HandInv, PromptHeld, LaunchedRan, FreshDocker, RanLabels, RowLabels
  <1>4. \A m \in Msgs : Reached(m) => Reached(m)'
    BY <1>1, <1>2 DEF Reached
  <1>5. AcknowledgedInHand'
    BY <1>1, <1>4 DEF HandInv, AcknowledgedInHand
  <1> QED BY <1>3, <1>5 DEF HandInv

LEMMA HandStep == TypeInv /\ LaunchersFirst /\ HandInv /\ [Next]_vars => HandInv'
  <1> SUFFICES ASSUME TypeInv, LaunchersFirst, HandInv, [Next]_vars PROVE HandInv'
    OBVIOUS
  <1>1. CASE \E r \in Reqs : Arrival(r) \/ MessageStep(r) \/ EventStep(r)
    BY <1>1, ArrivalHand, MessageHand, EventHand
  <1>2. CASE \E p \in Proc : LaunchStep(p) \/ StopStep(p)
    BY <1>2, LaunchHand, StopHand
  <1>3. CASE \E e \in Execs : TailStep(e) \/ IdleFire(e)
    BY <1>3, TailHand
  <1>4. CASE (\E e \in Execs : DockerStep(e)) \/ WorkerExit
    BY <1>4, DockerHand
  <1>5. CASE UNCHANGED vars
    BY <1>5 DEF vars, db, dock, control, history, HandInv, PromptHeld, LaunchedRan,
            FreshDocker, AcknowledgedInHand, Reached
  <1> QED BY <1>1, <1>2, <1>3, <1>4, <1>5 DEF Next

THEOREM HandInvariant == Spec => [](TypeInv /\ OwnInv /\ HandInv)
  <1>1. Init => HandInv
    BY InitHand
  <1>2. OwnInv => LaunchersFirst
    BY DEF OwnInv, OwnersBut
  <1> QED BY <1>1, <1>2, HandStep, OwnersInvariant, PTL DEF Spec

(* A message shown as acknowledged reached a worker, or a launcher still   *)
(* holds it, unless that launcher was cancelled: whatever the number of    *)
(* messages and executions, and whichever launches fail.                   *)
THEOREM AcknowledgedMessagesInHand == Spec => []AcknowledgedInHand
  <1>1. TypeInv /\ OwnInv /\ HandInv => AcknowledgedInHand
    BY DEF HandInv
  <1> QED BY <1>1, HandInvariant, PTL

-----------------------------------------------------------------------------
(* PendingNotInPrompt.  A message is stored once, by its own request, and  *)
(* only afterwards held by a launcher; what a launcher still holds pending *)
(* when it creates the row is the first message of its own request.        *)

StoreLabels == {"start", "insertSession", "storeFirst", "storeOnly", "storeResume",
                "followup", "followupStore"}
OfferLabels == {"launch", "status", "startTail", "ackFirst", "haltFailed", "markFailed"}

StoredLater == \A m \in Msgs : pc[m] \in StoreLabels => msg[m] = "none"
HeldStored ==
    /\ \A p \in Proc : \A m \in loc[p].pend : msg[m] # "none"
    /\ \A e \in Execs : \A m \in prompt[e] : msg[m] # "none"
CreatorsOwn ==
    \A p \in Proc : \A m \in loc[p].pend :
        pc[p] = "createRow" /\ msg[m] = "pending" => p = m
FirstHeld ==
    \A m \in Msgs : msg[m] = "pending" =>
        /\ pc[m] \in OfferLabels \cup {"createRow"} =>
              m \in loc[m].pend /\ loc[m].ctx = "create"
        /\ pc[m] = "ack" => m \in loc[m].pend

PendInv ==
    StoredLater /\ HeldStored /\ CreatorsOwn /\ FirstHeld /\ PendingNotInPrompt

(* p moves to l with locals v: messages stay stored, and only p's own is   *)
(* stored anew; ...                                                        *)
StoresOwn(p) ==
    \A m \in Msgs :
        /\ msg[m] # "none" => msg'[m] # "none"
        /\ m # p /\ msg[m] = "none" => msg'[m] = "none"
        /\ msg'[m] = "pending" =>
              msg[m] = "pending" \/ (m = p /\ pc[p] \in StoreLabels)

(* ... p holds what is stored, and its own message until it acknowledged   *)
(* or failed it.                                                           *)
KeepsOffer(p, l, v) ==
    /\ p \in Msgs /\ l \in StoreLabels => msg'[p] = "none"
    /\ \A m \in v.pend : m \in Msgs /\ msg'[m] # "none"
    /\ l = "createRow" => \A m \in v.pend : msg'[m] = "pending" => m = p
    /\ p \in Msgs /\ msg'[p] = "pending" =>
          /\ l \in OfferLabels \cup {"createRow"} => p \in v.pend /\ v.ctx = "create"
          /\ l = "ack" => p \in v.pend
          /\ pc[p] \in OfferLabels => l \in OfferLabels

LEMMA MovePending ==
    ASSUME TypeInv, PendInv, NEW p \in Proc, NEW l \in Labels, NEW v, NEW Q,
           Switch(p, l, v, Q), Q \subseteq Tails \cup Idles, prompt' = prompt,
           StoresOwn(p), KeepsOffer(p, l, v)
    PROVE  PendInv'
  <1> USE DEF StoresOwn, KeepsOffer
  <1>1. \A q \in Proc :
           /\ pc'[q] = IF q = p THEN l ELSE IF q \in Q THEN "done" ELSE pc[q]
           /\ loc'[q] = IF q = p THEN v
                        ELSE IF q \in Q THEN NoLocals ELSE loc[q]
    BY DEF Switch
  <1>2. \A q \in Proc : loc[q].pend \subseteq Msgs
    BY DEF TypeInv, ControlOK, Locals
  <1>3. \A m \in Msgs : m \in Proc /\ m \notin Q
    BY ConstantsAssumption DEF Reqs, UserReqs, Proc
  <1>4. \A m \in Msgs : m # p => pc'[m] = pc[m] /\ loc'[m] = loc[m]
    BY <1>1, <1>3
  <1>5. NoLocals.pend = {}
    BY DEF NoLocals
  <1>6. StoredLater'
    BY <1>1, <1>3, <1>4 DEF PendInv, StoredLater
  <1>7. HeldStored'
    <2>1. \A q \in Proc : \A m \in loc'[q].pend : msg'[m] # "none"
      BY <1>1, <1>2, <1>5 DEF PendInv, HeldStored
    <2>2. \A e \in Execs : \A m \in prompt'[e] : msg'[m] # "none"
      BY DEF PendInv, HeldStored, TypeInv, DataOK
    <2> QED BY <2>1, <2>2 DEF HeldStored
  <1>8. CreatorsOwn'
    <2> SUFFICES ASSUME NEW q \in Proc, NEW m \in loc'[q].pend,
                        pc'[q] = "createRow", msg'[m] = "pending"
                 PROVE  q = m
      BY DEF CreatorsOwn
    <2>1. CASE q = p
      BY <1>1, <2>1
    <2>2. CASE q # p
      <3>1. m \in loc[q].pend /\ pc[q] = "createRow" /\ m \in Msgs
        BY <1>1, <1>2, <2>2
      <3>2. msg[m] = "pending"
        BY <3>1 DEF PendInv, HeldStored, StoredLater
      <3> QED BY <3>1, <3>2 DEF PendInv, CreatorsOwn
    <2> QED BY <2>1, <2>2
  <1>9. \A m \in Msgs : m # p /\ msg'[m] = "pending" => msg[m] = "pending"
    OBVIOUS
  <1>10. FirstHeld'
    <2> SUFFICES ASSUME NEW m \in Msgs, msg'[m] = "pending"
                 PROVE  /\ pc'[m] \in OfferLabels \cup {"createRow"} =>
                              m \in loc'[m].pend /\ loc'[m].ctx = "create"
                        /\ pc'[m] = "ack" => m \in loc'[m].pend
      BY DEF FirstHeld
    <2>1. CASE m = p
      BY <1>1, <2>1
    <2>2. CASE m # p
      BY <1>4, <1>9, <2>2 DEF PendInv, FirstHeld
    <2> QED BY <2>1, <2>2
  <1>11. PendingNotInPrompt'
    <2> SUFFICES ASSUME NEW m \in Msgs, msg'[m] = "pending",
                        NEW e \in Execs, m \in prompt[e]
                 PROVE  pc'[m] \in OfferLabels
      BY DEF PendingNotInPrompt, OfferLabels
    <2>1. msg[m] = "pending"
      BY DEF PendInv, HeldStored, StoredLater
    <2>2. pc[m] \in OfferLabels
      BY <2>1 DEF PendInv, PendingNotInPrompt, OfferLabels
    <2> QED BY <1>1, <1>3, <1>4, <2>2
  <1> QED BY <1>6, <1>7, <1>8, <1>10, <1>11 DEF PendInv

LEMMA ContinuePending ==
    ASSUME TypeInv, PendInv, NEW p \in Proc, NEW l \in Labels, NEW v, NEW C,
           Continue(p, l, v, C), prompt' = prompt, StoresOwn(p), KeepsOffer(p, l, v)
    PROVE  PendInv'
  <1> DEFINE Q == {Idle(e) : e \in C \cap idleReg}
  <1>1. Q \subseteq Tails \cup Idles
    BY DEF TypeInv, Idles
  <1>2. Switch(p, l, v, Q)
    BY DEF Continue
  <1> QED BY <1>1, <1>2, MovePending

(* A coroutine that stores nothing, acknowledges nothing and offers        *)
(* nothing.                                                                *)
LEMMA Unoffered ==
    ASSUME TypeInv, PendInv, NEW p \in Proc, NEW l \in Labels, NEW v,
           msg' = msg, v.pend \subseteq loc[p].pend,
           l \notin StoreLabels \cup OfferLabels \cup {"createRow", "ack"},
           pc[p] \notin OfferLabels
    PROVE  StoresOwn(p) /\ KeepsOffer(p, l, v)
  <1>1. loc[p].pend \subseteq Msgs
    BY DEF TypeInv, ControlOK, Locals
  <1> QED BY <1>1 DEF StoresOwn, KeepsOffer, PendInv, HeldStored

LEMMA AsidePending ==
    ASSUME TypeInv, PendInv, NEW p \in Proc, NEW l \in Labels, NEW v, NEW C,
           Continue(p, l, v, C), prompt' = prompt, msg' = msg,
           v.pend \subseteq loc[p].pend,
           l \notin StoreLabels \cup OfferLabels \cup {"createRow", "ack"},
           pc[p] \notin OfferLabels
    PROVE  PendInv'
  BY Unoffered, ContinuePending

(* The locals a coroutine moves with hold what it held, or nothing.        *)
LEMMA LocalsKept ==
    ASSUME NEW v \in Locals
    PROVE  /\ \A e : [v EXCEPT !.exec = e].pend = v.pend
           /\ \A s : [v EXCEPT !.req = s].pend = v.pend
           /\ \A c : [v EXCEPT !.ctx = c].pend = v.pend
           /\ NoLocals \in Locals /\ NoLocals.pend = {}
  BY DEF Locals, NoLocals, StopIntents

LEMMA StopTargetPending ==
    ASSUME TypeInv, PendInv, NEW p \in Proc, NEW v \in Locals, NEW C,
           StopTarget(p, v, C), prompt' = prompt, msg' = msg,
           v.pend \subseteq loc[p].pend, pc[p] \notin OfferLabels
    PROVE  PendInv'
  <1> DEFINE L == {"settle", "done", "stopRequest"}
  <1>1. L \subseteq Labels \ (StoreLabels \cup OfferLabels \cup {"createRow", "ack"})
    BY DEF Labels, StoreLabels, OfferLabels
  <1>2. \/ Continue(p, "settle", v, C)
        \/ Continue(p, "done", NoLocals, C)
        \/ \E e \in Execs : Continue(p, "stopRequest", [v EXCEPT !.exec = e], C)
    BY DEF StopTarget
  <1>3. CASE Continue(p, "settle", v, C)
    BY <1>1, <1>3, AsidePending
  <1>4. CASE Continue(p, "done", NoLocals, C)
    BY <1>1, <1>4, LocalsKept, AsidePending
  <1>5. ASSUME NEW e \in Execs, Continue(p, "stopRequest", [v EXCEPT !.exec = e], C)
        PROVE  PendInv'
    <2>1. [v EXCEPT !.exec = e].pend \subseteq loc[p].pend
      BY LocalsKept
    <2> QED BY <1>1, <1>5, <2>1, AsidePending
  <1> QED BY <1>2, <1>3, <1>4, <1>5

LEMMA RestartPending ==
    ASSUME TypeInv, PendInv, NEW p \in Proc, NEW C,
           RestartOrSettle(p, loc[p], C), prompt' = prompt, msg' = msg,
           pc[p] \notin OfferLabels
    PROVE  PendInv'
  <1> DEFINE L == {"settle", "done", "readPending"}
  <1>1. L \subseteq Labels \ (StoreLabels \cup OfferLabels \cup {"createRow", "ack"})
    BY DEF Labels, StoreLabels, OfferLabels
  <1>2. loc[p] \in Locals
    BY DEF TypeInv, ControlOK
  <1>3. \/ Continue(p, "settle", loc[p], C)
        \/ Continue(p, "done", NoLocals, C)
        \/ Continue(p, "readPending", [loc[p] EXCEPT !.ctx = "transition"], C)
    BY DEF RestartOrSettle
  <1>4. CASE Continue(p, "settle", loc[p], C)
    BY <1>1, <1>4, AsidePending
  <1>5. CASE Continue(p, "done", NoLocals, C)
    BY <1>1, <1>2, <1>5, LocalsKept, AsidePending
  <1>6. CASE Continue(p, "readPending", [loc[p] EXCEPT !.ctx = "transition"], C)
    <2>1. [loc[p] EXCEPT !.ctx = "transition"].pend \subseteq loc[p].pend
      BY <1>2, LocalsKept
    <2> QED BY <1>1, <1>6, <2>1, AsidePending
  <1> QED BY <1>3, <1>4, <1>5, <1>6

(* Every coroutine begins and ends empty-handed.                           *)
LEMMA StepPending ==
    ASSUME TypeInv, PendInv, NEW p \in Proc, NEW l \in Labels, Step(p, l),
           prompt' = prompt, msg' = msg,
           l \notin StoreLabels \cup OfferLabels \cup {"createRow", "ack"},
           pc[p] \notin OfferLabels
    PROVE  PendInv'
  BY AsidePending DEF Step

LEMMA ReturnPending ==
    ASSUME TypeInv, PendInv, NEW p \in Proc, Return(p),
           prompt' = prompt, msg' = msg, pc[p] \notin OfferLabels
    PROVE  PendInv'
  <1>1. "done" \in Labels
           \ (StoreLabels \cup OfferLabels \cup {"createRow", "ack"})
    BY DEF Labels, StoreLabels, OfferLabels
  <1>2. NoLocals.pend \subseteq loc[p].pend
    BY DEF NoLocals
  <1> QED BY <1>1, <1>2, AsidePending DEF Return

LEMMA InitPending == Init => PendInv
  <1> SUFFICES ASSUME Init PROVE PendInv
    OBVIOUS
  <1>1. \A p \in Proc : loc[p].pend = {}
    BY DEF Init, NoLocals
  <1>2. \A m \in Msgs : msg[m] = "none"
    BY DEF Init
  <1>3. \A e \in Execs : prompt[e] = {}
    BY DEF Init
  <1> QED BY <1>1, <1>2, <1>3 DEF PendInv, StoredLater, HeldStored, CreatorsOwn,
             FirstHeld, PendingNotInPrompt

(* A request that is about to store its message.                           *)
LEMMA ApproachPending ==
    ASSUME TypeInv, PendInv, NEW p \in Proc, NEW l \in StoreLabels, NEW v, NEW C,
           Continue(p, l, v, C), prompt' = prompt, msg' = msg,
           v.pend \subseteq loc[p].pend, pc[p] \in StoreLabels
    PROVE  PendInv'
  <1>1. loc[p].pend \subseteq Msgs
    BY DEF TypeInv, ControlOK, Locals
  <1>2. /\ l \in Labels /\ l \notin OfferLabels \cup {"createRow", "ack"}
        /\ pc[p] \notin OfferLabels
    BY DEF StoreLabels, OfferLabels, Labels
  <1>3. StoresOwn(p) /\ KeepsOffer(p, l, v)
    BY <1>1, <1>2 DEF StoresOwn, KeepsOffer, PendInv, HeldStored, StoredLater
  <1> QED BY <1>2, <1>3, ContinuePending

LEMMA ArrivalPending ==
    ASSUME TypeInv, PendInv, NEW r \in Reqs, Arrival(r)
    PROVE  PendInv'
  <1> DEFINE L == {"insertSession", "storeResume", "followup", "storeOnly"}
             K == {"done", "stopGet", "result", "markFatal", "mcpFail"}
  <1>1. r \in Proc /\ pc[r] = "start" /\ msg' = msg /\ prompt' = prompt
    BY TasksAreProcs
       DEF Arrival, HandleMessage, ContinueSession, StopExecution, CloseSession,
           ResultEvent, FatalEvent, McpFailureEvent, EventArrives, MayBegin, db, dock
  <1>2. pc[r] \in StoreLabels /\ pc[r] \notin OfferLabels
    BY <1>1 DEF StoreLabels, OfferLabels
  <1>3. /\ L \subseteq StoreLabels
        /\ K \subseteq Labels \ (StoreLabels \cup OfferLabels \cup {"createRow", "ack"})
    BY DEF Labels, StoreLabels, OfferLabels
  <1>4. /\ \A e : [NoLocals EXCEPT !.exec = e].pend = {}
        /\ \A s : [NoLocals EXCEPT !.req = s].pend = {}
        /\ NoLocals.pend = {}
    BY DEF NoLocals
  <1>5. [NoLocals EXCEPT !.req = "hibernate"] \in Locals
    BY DEF NoLocals, Locals, StopIntents
  <1>6. CASE StopExecution(r)
    BY <1>1, <1>2, <1>4, <1>5, <1>6, StopTargetPending DEF StopExecution
  <1>7. CASE HandleMessage(r) \/ ContinueSession(r)
    <2>1. (\E l \in L : Continue(r, l, loc[r], {})) \/ Continue(r, "done", loc[r], {})
      BY <1>7 DEF HandleMessage, ContinueSession, Step
    <2> QED BY <1>1, <1>2, <1>3, <2>1, ApproachPending, AsidePending
  <1>8. CASE CloseSession(r) \/ ResultEvent(r) \/ FatalEvent(r) \/ McpFailureEvent(r)
    <2>1. \E l \in K : \E w : Continue(r, l, w, {}) /\ w.pend = {}
      BY <1>4, <1>8 DEF CloseSession, ResultEvent, FatalEvent, McpFailureEvent,
           EventArrives, Return
    <2> QED BY <1>1, <1>2, <1>3, <2>1, AsidePending
  <1> QED BY <1>6, <1>7, <1>8 DEF Arrival

(* A request stores its own message and goes on.                           *)
LEMMA StorePending ==
    ASSUME TypeInv, PendInv, NEW r \in Reqs, NEW l \in Labels, NEW v, NEW C,
           SetMessages({r}, "pending"), Continue(r, l, v, C), prompt' = prompt,
           pc[r] \in StoreLabels, v.pend \subseteq loc[r].pend,
           l \notin StoreLabels \cup OfferLabels \cup {"createRow", "ack"}
    PROVE  PendInv'
  <1>1. r \in Proc
    BY TasksAreProcs
  <1>2. loc[r].pend \subseteq Msgs
    BY <1>1 DEF TypeInv, ControlOK, Locals
  <1>3. pc[r] \notin OfferLabels
    BY DEF StoreLabels, OfferLabels
  <1>4. StoresOwn(r)
    BY DEF SetMessages, StoresOwn
  <1>5. KeepsOffer(r, l, v)
    BY <1>1, <1>2, <1>3 DEF SetMessages, KeepsOffer, PendInv, HeldStored
  <1> QED BY <1>1, <1>4, <1>5, ContinuePending

LEMMA MessagePending ==
    ASSUME TypeInv, PendInv, NEW r \in Reqs, MessageStep(r)
    PROVE  PendInv'
  <1>1. /\ r \in Proc /\ prompt' = prompt
        /\ loc[r] \in Locals
    BY TasksAreProcs
       DEF MessageStep, InsertSession, StoreFirst, StoreOnly, StoreResume, Followup,
           FollowupStore, MarkInterrupt, dock, TypeInv, ControlOK
  <1> DEFINE K == {"done", "readPending", "stopGet", "markInterrupt"}
  <1>2. K \subseteq Labels \ (StoreLabels \cup OfferLabels \cup {"createRow", "ack"})
    BY DEF Labels, StoreLabels, OfferLabels
  <1>3. {"insertSession", "storeFirst", "storeOnly", "storeResume", "followup",
         "followupStore"} \subseteq StoreLabels
    BY DEF StoreLabels
  <1>4. "markInterrupt" \notin OfferLabels /\ StoreLabels \cap OfferLabels = {}
    BY DEF StoreLabels, OfferLabels
  <1>5. /\ NoLocals.pend = {}
        /\ [NoLocals EXCEPT !.req = "hibernate"].pend = {}
    BY DEF NoLocals
  <1>6. CASE InsertSession(r)
    BY <1>1, <1>3, <1>4, <1>6, ApproachPending, ReturnPending DEF InsertSession, Step
  <1>7. CASE StoreFirst(r)
    <2> DEFINE v == [loc[r] EXCEPT !.pend = {r}, !.ctx = "create"]
    <2>1. v.pend = {r} /\ v.ctx = "create"
      BY <1>1 DEF Locals
    <2>2. r \in Msgs
      BY <1>1, <1>7 DEF StoreFirst, TypeInv, ControlOK, FirstsAreMessages, FirstLabels
    <2>3. SetMessages({r}, "pending") /\ Continue(r, "createRow", v, {})
          /\ pc[r] \in StoreLabels
      BY <1>3, <1>7 DEF StoreFirst
    <2>4. StoresOwn(r)
      BY <2>3 DEF SetMessages, StoresOwn
    <2>5. "createRow" \in Labels /\ "createRow" \notin StoreLabels
      BY DEF Labels, StoreLabels
    <2>6. KeepsOffer(r, "createRow", v)
      BY <1>4, <2>1, <2>2, <2>3, <2>5 DEF SetMessages, KeepsOffer
    <2> QED BY <1>1, <2>3, <2>4, <2>5, <2>6, ContinuePending
  <1>8. CASE StoreOnly(r)
    BY <1>2, <1>3, <1>5, <1>8, <1>1, StorePending DEF StoreOnly, Return
  <1>9. CASE StoreResume(r)
    BY <1>1, <1>2, <1>3, <1>9, StorePending DEF StoreResume, Step
  <1>10. CASE Followup(r)
    <2>1. pc[r] = "followup" /\ msg' = msg
      BY <1>10 DEF Followup, db
    <2>2. CASE Return(r)
      BY <1>1, <1>3, <1>4, <2>1, <2>2, ReturnPending
    <2>3. CASE Step(r, "storeResume")
      BY <1>1, <1>3, <2>1, <2>3, ApproachPending DEF Step
    <2>4. ASSUME NEW e \in Execs,
                 Continue(r, "followupStore", [loc[r] EXCEPT !.exec = e], {})
          PROVE  PendInv'
      <3>1. [loc[r] EXCEPT !.exec = e].pend \subseteq loc[r].pend
        BY <1>1, LocalsKept
      <3> QED BY <1>1, <1>3, <2>1, <2>4, <3>1, ApproachPending
    <2> QED BY <1>10, <2>2, <2>3, <2>4 DEF Followup
  <1>11. CASE FollowupStore(r)
    <2>1. \E l \in K : \E w, C : Continue(r, l, w, C) /\ w.pend \subseteq loc[r].pend
      <3> DEFINE C == {loc[r].exec}
      <3>1. \/ Continue(r, "stopGet", [NoLocals EXCEPT !.req = "hibernate"], C)
            \/ Continue(r, "markInterrupt", loc[r], C)
            \/ Continue(r, "done", NoLocals, C)
        BY <1>11 DEF FollowupStore
      <3> QED BY <1>5, <3>1
    <2> QED BY <1>1, <1>2, <1>3, <1>11, <2>1, StorePending DEF FollowupStore
  <1>12. CASE MarkInterrupt(r)
    BY <1>1, <1>4, <1>12, ReturnPending DEF MarkInterrupt, db
  <1> QED
    BY <1>6, <1>7, <1>8, <1>9, <1>10, <1>11, <1>12 DEF MessageStep

(* A launcher writes what it holds, all of it stored, into a prompt.       *)
LEMMA CreatePending ==
    ASSUME TypeInv, PendInv, NEW p \in Proc, CreateRow(p)
    PROVE  PendInv'
  <1>1. /\ pc \in [Proc -> Labels] /\ loc \in [Proc -> Locals]
        /\ prompt \in [Execs -> SUBSET Msgs]
    BY DEF TypeInv, ControlOK, DataOK
  <1>2. PICK e \in Execs :
           /\ prompt' = [prompt EXCEPT ![e] = loc[p].pend]
           /\ Continue(p, "launch", [loc[p] EXCEPT !.exec = e], {})
    BY DEF CreateRow
  <1>3. pc[p] = "createRow" /\ msg' = msg
    BY DEF CreateRow
  <1>4. Switch(p, "launch", [loc[p] EXCEPT !.exec = e], {})
    BY <1>2 DEF Continue
  <1>5. \A q \in Proc : /\ pc'[q] = IF q = p THEN "launch" ELSE pc[q]
                        /\ q # p => loc'[q] = loc[q]
    BY <1>4 DEF Switch
  <1>6. loc'[p].pend = loc[p].pend /\ loc'[p].ctx = loc[p].ctx
    BY <1>1, <1>4 DEF Switch, Locals
  <1>7. \A q \in Proc : loc'[q].pend = loc[q].pend /\ loc'[q].ctx = loc[q].ctx
    BY <1>5, <1>6
  <1>8. \A m \in Msgs : m \in Proc
    BY DEF Reqs, UserReqs, Proc
  <1>9. StoredLater'
    BY <1>3, <1>5, <1>8 DEF PendInv, StoredLater, StoreLabels
  <1>10. HeldStored'
    BY <1>1, <1>2, <1>3, <1>7 DEF PendInv, HeldStored
  <1>11. CreatorsOwn'
    BY <1>3, <1>5, <1>7 DEF PendInv, CreatorsOwn
  <1>12. FirstHeld'
    BY <1>3, <1>5, <1>7, <1>8 DEF PendInv, FirstHeld
  <1>13. PendingNotInPrompt'
    <2> SUFFICES ASSUME NEW m \in Msgs, msg[m] = "pending",
                        NEW f \in Execs, m \in prompt'[f]
                 PROVE  pc'[m] \in OfferLabels
      BY <1>3 DEF PendingNotInPrompt, OfferLabels
    <2>1. CASE f = e
      BY <1>1, <1>2, <1>3, <1>5, <2>1 DEF PendInv, CreatorsOwn, OfferLabels
    <2>2. CASE f # e
      <3>1. pc[m] \in OfferLabels
        BY <1>1, <1>2, <2>2 DEF PendInv, PendingNotInPrompt, OfferLabels
      <3> QED BY <1>5, <1>8, <3>1 DEF OfferLabels
    <2> QED BY <2>1, <2>2
  <1> QED BY <1>9, <1>10, <1>11, <1>12, <1>13 DEF PendInv

(* The tailer that starts holds nothing, and the launcher of a first       *)
(* message acknowledges it next.                                           *)
LEMMA StartTailPending ==
    ASSUME TypeInv, OwnInv, PendInv, NEW p \in Proc, StartTail(p)
    PROVE  PendInv'
  <1> DEFINE e == loc[p].exec
             t == Tail(e)
  <1>1. pc \in [Proc -> Labels] /\ loc \in [Proc -> Locals]
    BY DEF TypeInv, ControlOK
  <1>2. /\ e \in Execs /\ t \in Proc /\ pc[p] = "startTail"
        /\ pc[t] = "done" /\ t # p
    BY TasksAreProcs
       DEF StartTail, OwnInv, OwnersBut, LaunchersFirst, LaunchLabels, TypeInv, ControlOK,
           LocalsNamed, ExecLabels, OwnerLabels
  <1>3. /\ pc'[p] = IF loc[p].ctx = "create" THEN "ackFirst" ELSE "activate"
        /\ pc'[t] = "logs" /\ loc'[t].pend = {}
        /\ \A q \in Proc : q # t => loc'[q] = loc[q]
        /\ \A q \in Proc : q # p /\ q # t => pc'[q] = pc[q]
    BY <1>1, <1>2 DEF StartTail, NoLocals
  <1>4. UNCHANGED <<msg, prompt>>
    BY DEF StartTail, db, dock
  <1>5. \A m \in Msgs : m \in Proc /\ m # t
    BY <1>2, ConstantsAssumption DEF Reqs, UserReqs, Proc, Tails
  <1>6. StoredLater'
    BY <1>2, <1>3, <1>4, <1>5 DEF PendInv, StoredLater, StoreLabels
  <1>7. HeldStored'
    BY <1>3, <1>4 DEF PendInv, HeldStored
  <1>8. CreatorsOwn'
    BY <1>2, <1>3, <1>4 DEF PendInv, CreatorsOwn
  <1>9. p \in Msgs /\ msg[p] = "pending" => pc'[p] = "ackFirst"
    BY <1>2, <1>3 DEF PendInv, FirstHeld, OfferLabels
  <1>10. FirstHeld'
    <2> SUFFICES ASSUME NEW m \in Msgs, msg[m] = "pending"
                 PROVE  /\ pc'[m] \in OfferLabels \cup {"createRow"} =>
                              m \in loc'[m].pend /\ loc'[m].ctx = "create"
                        /\ pc'[m] = "ack" => m \in loc'[m].pend
      BY <1>4 DEF FirstHeld
    <2>1. CASE m = p
      BY <1>2, <1>3, <1>5, <1>9, <2>1 DEF PendInv, FirstHeld, OfferLabels
    <2>2. CASE m # p
      BY <1>3, <1>5, <2>2 DEF PendInv, FirstHeld
    <2> QED BY <2>1, <2>2
  <1>11. PendingNotInPrompt'
    <2> SUFFICES ASSUME NEW m \in Msgs, msg[m] = "pending",
                        NEW f \in Execs, m \in prompt[f]
                 PROVE  pc'[m] \in OfferLabels
      BY <1>4 DEF PendingNotInPrompt, OfferLabels
    <2>1. pc[m] \in OfferLabels
      BY DEF PendInv, PendingNotInPrompt, OfferLabels
    <2> QED BY <1>3, <1>5, <1>9, <2>1 DEF OfferLabels
  <1> QED BY <1>6, <1>7, <1>8, <1>10, <1>11 DEF PendInv

(* Within the launch a coroutine holds what it held.                       *)
LEMMA LaunchingPending ==
    ASSUME TypeInv, PendInv, NEW p \in Proc, NEW l \in Labels, Step(p, l),
           l \in OfferLabels, pc[p] \in OfferLabels \cup {"createRow"},
           prompt' = prompt, msg' = msg
    PROVE  PendInv'
  <1>1. loc[p].pend \subseteq Msgs
    BY DEF TypeInv, ControlOK, Locals
  <1>2. l \notin StoreLabels \cup {"createRow", "ack"}
    BY DEF StoreLabels, OfferLabels
  <1>3. StoresOwn(p) /\ KeepsOffer(p, l, loc[p])
    BY <1>1, <1>2 DEF StoresOwn, KeepsOffer, PendInv, HeldStored, FirstHeld
  <1> QED BY <1>3, ContinuePending DEF Step

(* A coroutine settles every message it holds, acknowledged or failed.     *)
LEMMA SettlePending ==
    ASSUME TypeInv, PendInv, NEW p \in Proc, NEW l \in Labels, Step(p, l),
           NEW s \in {"acked", "failed"}, SetMessages(loc[p].pend, s), prompt' = prompt,
           l \notin StoreLabels \cup OfferLabels \cup {"ack"},
           pc[p] \in OfferLabels \cup {"ack"}
    PROVE  PendInv'
  <1>1. loc[p].pend \subseteq Msgs
    BY DEF TypeInv, ControlOK, Locals
  <1>2. \A m \in Msgs : msg'[m] = IF m \in loc[p].pend THEN s ELSE msg[m]
    BY DEF SetMessages
  <1>3. p \in Msgs => msg'[p] # "pending"
    BY <1>2 DEF PendInv, FirstHeld
  <1>4. StoresOwn(p)
    BY <1>1, <1>2 DEF StoresOwn, PendInv, HeldStored
  <1>5. KeepsOffer(p, l, loc[p])
    BY <1>1, <1>2, <1>3 DEF KeepsOffer
  <1> QED BY <1>4, <1>5, ContinuePending DEF Step

LEMMA LaunchPending ==
    ASSUME TypeInv, OwnInv, PendInv, NEW p \in Proc, LaunchStep(p)
    PROVE  PendInv'
  <1> USE DEF Labels, StoreLabels, OfferLabels
  <1>1. loc[p] \in Locals
    BY DEF TypeInv, ControlOK
  <1>2. CASE ReadPending(p)
    <2>1. pc[p] = "readPending" /\ UNCHANGED <<msg, prompt>>
      BY <1>2 DEF ReadPending, db, dock
    <2>2. CASE Return(p)
      BY <2>1, <2>2, ReturnPending
    <2>3. CASE Continue(p, "ack", [loc[p] EXCEPT !.pend = Pending], {})
      <3>1. [loc[p] EXCEPT !.pend = Pending].pend = Pending
        BY <1>1 DEF Locals
      <3>2. StoresOwn(p) /\ KeepsOffer(p, "ack", [loc[p] EXCEPT !.pend = Pending])
        BY <2>1, <3>1 DEF StoresOwn, KeepsOffer, Pending
      <3> QED BY <2>1, <2>3, <3>2, ContinuePending
    <2> QED BY <1>2, <2>2, <2>3 DEF ReadPending
  <1>3. CASE AckPending(p)
    BY <1>3, SettlePending DEF AckPending, dock
  <1>4. CASE PrepareFail(p)
    BY <1>4, LaunchingPending DEF PrepareFail, db, dock
  <1>5. CASE CreateRow(p)
    BY <1>5, CreatePending
  <1>6. CASE LaunchOk(p)
    BY <1>6, LaunchingPending DEF LaunchOk, db, dock
  <1>7. CASE LaunchFail(p)
    BY <1>7, LaunchingPending DEF LaunchFail, db, dock
  <1>8. CASE UpdateStatus(p)
    BY <1>8, LaunchingPending DEF UpdateStatus, dock
  <1>9. CASE StartTail(p)
    BY <1>9, StartTailPending
  <1>10. CASE AckFirst(p)
    BY <1>10, SettlePending DEF AckFirst, dock
  <1>11. CASE Activate(p)
    BY <1>11, ReturnPending DEF Activate, dock
  <1>12. CASE HaltFailed(p)
    BY <1>12, LaunchingPending DEF HaltFailed, dock
  <1>13. CASE MarkFailed(p)
    BY <1>13, SettlePending DEF MarkFailed, dock
  <1>14. CASE LaunchError(p)
    BY <1>14, StepPending, ReturnPending DEF LaunchError, dock
  <1> QED
    BY <1>2, <1>3, <1>4, <1>5, <1>6, <1>7, <1>8, <1>9, <1>10, <1>11, <1>12, <1>13,
       <1>14 DEF LaunchStep

LEMMA StopPending ==
    ASSUME TypeInv, PendInv, NEW p \in Proc, StopStep(p)
    PROVE  PendInv'
  <1> USE DEF Labels, StoreLabels, OfferLabels
  <1>1. UNCHANGED <<msg, prompt>>
    BY DEF StopStep, StopGet, StopRequest, StopCheck, StopDelete, DrainDone,
           DrainExpire, StopRecheck, StopHalt, StopClear, Settle, db, dock
  <1>2. loc[p] \in Locals /\ (pc[p] \in ExecLabels => loc[p].exec \in Execs)
    BY DEF TypeInv, ControlOK, LocalsNamed
  <1>3. CASE StopGet(p)
    BY <1>1, <1>2, <1>3, StopTargetPending DEF StopGet
  <1>4. CASE StopRequest(p)
    BY <1>1, <1>4, StepPending DEF StopRequest
  <1>5. CASE StopCheck(p)
    BY <1>1, <1>5, StepPending, ReturnPending DEF StopCheck
  <1>6. CASE StopDelete(p)
    BY <1>1, <1>6, StepPending DEF StopDelete
  <1>7. CASE DrainDone(p)
    BY <1>1, <1>7, StepPending DEF DrainDone
  <1>8. CASE DrainExpire(p)
    <2>1. {Tail(loc[p].exec)} \subseteq Tails \cup Idles
      BY <1>2, <1>8 DEF DrainExpire, ExecLabels, Tails
    <2>2. StoresOwn(p) /\ KeepsOffer(p, "stopRecheck", loc[p])
      BY <1>1, <1>8, Unoffered DEF DrainExpire
    <2> QED BY <1>1, <1>8, <2>1, <2>2, MovePending DEF DrainExpire
  <1>9. CASE StopRecheck(p)
    BY <1>1, <1>9, StepPending, ReturnPending DEF StopRecheck
  <1>10. CASE StopHalt(p)
    BY <1>1, <1>10, StepPending DEF StopHalt
  <1>11. CASE StopClear(p)
    BY <1>1, <1>11, RestartPending DEF StopClear
  <1>12. CASE Settle(p)
    BY <1>1, <1>12, ReturnPending DEF Settle
  <1> QED
    BY <1>3, <1>4, <1>5, <1>6, <1>7, <1>8, <1>9, <1>10, <1>11, <1>12 DEF StopStep

LEMMA TailPending ==
    ASSUME TypeInv, PendInv, NEW e \in Execs, TailStep(e) \/ IdleFire(e)
    PROVE  PendInv'
  <1> USE DEF Labels, StoreLabels, OfferLabels
  <1>1. UNCHANGED <<msg, prompt>>
    BY DEF TailStep, TailEnd, TailHalt, TailClean, TailFail, TailErrHalt,
           TailErrState, TailErrClear, IdleFire, db, dock
  <1>2. Tail(e) \in Proc /\ Idle(e) \in Proc
    BY TasksAreProcs
  <1>3. loc[Tail(e)] \in Locals
    BY <1>2 DEF TypeInv, ControlOK
  <1>4. CASE TailEnd(e)
    <2>1. [loc[Tail(e)] EXCEPT !.req = stopReq[e]].pend \subseteq loc[Tail(e)].pend
      BY <1>3, LocalsKept
    <2> QED BY <1>1, <1>2, <1>4, <2>1, AsidePending, ZenonT(60) DEF TailEnd
  <1>5. CASE TailHalt(e)
    BY <1>1, <1>2, <1>5, StepPending DEF TailHalt
  <1>6. CASE TailClean(e)
    BY <1>1, <1>2, <1>6, RestartPending DEF TailClean
  <1>7. CASE TailFail(e)
    BY <1>1, <1>2, <1>7, StepPending DEF TailFail
  <1>8. CASE TailErrHalt(e)
    BY <1>1, <1>2, <1>8, StepPending DEF TailErrHalt
  <1>9. CASE TailErrState(e)
    BY <1>1, <1>2, <1>9, StepPending DEF TailErrState
  <1>10. CASE TailErrClear(e)
    <2>1. NoLocals.pend \subseteq loc[Tail(e)].pend
      BY DEF NoLocals
    <2> QED BY <1>1, <1>2, <1>10, <2>1, AsidePending DEF TailErrClear
  <1>11. CASE IdleFire(e)
    <2>1. [NoLocals EXCEPT !.req = "hibernate"].pend \subseteq loc[Idle(e)].pend
      BY DEF NoLocals
    <2> QED BY <1>1, <1>2, <1>11, <2>1, AsidePending, ReturnPending DEF IdleFire
  <1> QED
    BY <1>4, <1>5, <1>6, <1>7, <1>8, <1>9, <1>10, <1>11 DEF TailStep

(* The request that arms the timer ends, the idle task starts afresh.      *)
LEMMA ArmPending ==
    ASSUME TypeInv, PendInv, NEW r \in Reqs, ArmIdleStop(r)
    PROVE  PendInv'
  <1> DEFINE i == Idle(loc[r].exec)
             free == loc[r].exec \in idleReg \/ pc[i] = "done"
  <1>1. r \in Proc /\ i \in Proc /\ loc[r].exec \in Execs /\ pc[r] = "result"
    BY TasksAreProcs DEF ArmIdleStop, TypeInv, ControlOK, LocalsNamed, ExecLabels
  <1>2. /\ pc' = [pc EXCEPT ![r] = "done", ![i] = IF free THEN "sleep" ELSE @]
        /\ loc' = [loc EXCEPT ![r] = NoLocals,
                              ![i] = IF free THEN NoLocals ELSE @]
        /\ UNCHANGED <<msg, prompt>>
    BY DEF ArmIdleStop, db, dock
  <1>3. /\ \A q \in Proc : pc'[q] \in {"done", "sleep", pc[q]}
        /\ \A q \in Proc : loc'[q] \in {NoLocals, loc[q]}
        /\ \A q \in Proc : q # r /\ q # i => pc'[q] = pc[q] /\ loc'[q] = loc[q]
    BY <1>1, <1>2 DEF TypeInv, ControlOK
  <1>4. NoLocals.pend = {}
    BY DEF NoLocals
  <1>5. \A m \in Msgs : m \in Proc /\ m # i
    BY <1>1, ConstantsAssumption DEF Reqs, UserReqs, Proc, Idles
  <1>6. pc'[r] \in {"done", "sleep"}
    BY <1>1, <1>2 DEF TypeInv, ControlOK
  <1>7. StoredLater'
    BY <1>2, <1>3, <1>5 DEF PendInv, StoredLater, StoreLabels
  <1>8. HeldStored' /\ CreatorsOwn'
    <2>1. \A q \in Proc : /\ loc'[q].pend \subseteq loc[q].pend
                          /\ pc'[q] = "createRow" => pc[q] = "createRow"
      BY <1>3, <1>4
    <2>2. HeldStored'
      BY <1>2, <2>1 DEF PendInv, HeldStored
    <2>3. CreatorsOwn'
      BY <1>2, <2>1 DEF PendInv, CreatorsOwn
    <2> QED BY <2>2, <2>3
  <1>9. FirstHeld'
    <2> SUFFICES ASSUME NEW m \in Msgs, msg[m] = "pending"
                 PROVE  /\ pc'[m] \in OfferLabels \cup {"createRow"} =>
                              m \in loc'[m].pend /\ loc'[m].ctx = "create"
                        /\ pc'[m] = "ack" => m \in loc'[m].pend
      BY <1>2 DEF FirstHeld
    <2>1. CASE m = r
      BY <1>6, <2>1 DEF OfferLabels
    <2>2. CASE m # r
      BY <1>3, <1>5, <2>2 DEF PendInv, FirstHeld
    <2> QED BY <2>1, <2>2
  <1>10. PendingNotInPrompt'
    BY <1>1, <1>2, <1>3, <1>5 DEF PendInv, PendingNotInPrompt
  <1> QED BY <1>7, <1>8, <1>9, <1>10 DEF PendInv

LEMMA EventPending ==
    ASSUME TypeInv, PendInv, NEW r \in Reqs, EventStep(r)
    PROVE  PendInv'
  <1> USE DEF Labels, StoreLabels, OfferLabels
  <1>1. UNCHANGED <<msg, prompt>> /\ r \in Proc
    BY TasksAreProcs
       DEF EventStep, InterruptAtResult, ArmIdleStop, MarkFatal, McpCancelTail,
           McpDelete, McpError, db, dock
  <1>2. loc[r] \in Locals /\ (pc[r] \in ExecLabels => loc[r].exec \in Execs)
    BY <1>1 DEF TypeInv, ControlOK, LocalsNamed
  <1>3. CASE InterruptAtResult(r)
    <2>1. PICK req \in {"fatal", "hibernate"} :
             StopTarget(r, [NoLocals EXCEPT !.req = req], {loc[r].exec})
      BY <1>3 DEF InterruptAtResult
    <2>2. [NoLocals EXCEPT !.req = req] \in Locals
      BY DEF NoLocals, Locals, StopIntents
    <2>3. [NoLocals EXCEPT !.req = req].pend \subseteq loc[r].pend
      BY DEF NoLocals
    <2> QED BY <1>1, <1>3, <2>1, <2>2, <2>3, StopTargetPending DEF InterruptAtResult
  <1>4. CASE ArmIdleStop(r)
    BY <1>4, ArmPending
  <1>5. CASE MarkFatal(r)
    BY <1>1, <1>5, ReturnPending DEF MarkFatal
  <1>6. CASE McpCancelTail(r)
    <2>1. {Tail(loc[r].exec)} \subseteq Tails \cup Idles
      BY <1>2, <1>6 DEF McpCancelTail, ExecLabels, Tails
    <2>2. StoresOwn(r) /\ KeepsOffer(r, "mcpDelete", loc[r])
      BY <1>1, <1>6, Unoffered DEF McpCancelTail
    <2> QED BY <1>1, <1>6, <2>1, <2>2, MovePending DEF McpCancelTail
  <1>7. CASE McpDelete(r)
    BY <1>1, <1>7, AsidePending DEF McpDelete
  <1>8. CASE McpError(r)
    BY <1>1, <1>8, ReturnPending DEF McpError
  <1> QED BY <1>3, <1>4, <1>5, <1>6, <1>7, <1>8 DEF EventStep

LEMMA StutterPending ==
    ASSUME PendInv, UNCHANGED <<msg, prompt, pc, loc>>
    PROVE  PendInv'
  BY DEF PendInv, StoredLater, HeldStored, CreatorsOwn, FirstHeld, PendingNotInPrompt

LEMMA PendingStep == TypeInv /\ OwnInv /\ PendInv /\ [Next]_vars => PendInv'
  <1> SUFFICES ASSUME TypeInv, OwnInv, PendInv, [Next]_vars PROVE PendInv'
    OBVIOUS
  <1>1. CASE \E r \in Reqs : Arrival(r) \/ MessageStep(r) \/ EventStep(r)
    BY <1>1, ArrivalPending, MessagePending, EventPending
  <1>2. CASE \E p \in Proc : LaunchStep(p) \/ StopStep(p)
    BY <1>2, LaunchPending, StopPending
  <1>3. CASE \E e \in Execs : TailStep(e) \/ IdleFire(e)
    BY <1>3, TailPending
  <1>4. CASE (\E e \in Execs : DockerStep(e)) \/ WorkerExit
    <2>1. UNCHANGED <<msg, prompt, pc, loc>>
      BY <1>4 DEF DockerStep, DockerEvict, DockerRun, DockerFail, WorkerExit, db,
             dock, control
    <2> QED BY <2>1, StutterPending
  <1>5. CASE UNCHANGED vars
    BY <1>5, StutterPending DEF vars, db, dock, control
  <1> QED BY <1>1, <1>2, <1>3, <1>4, <1>5 DEF Next

(* A message that is part of a prompt is offered to a second execution     *)
(* only in the window _create_session leaves between submitting the launch *)
(* of the first message and acknowledging it, for any number of resumes    *)
(* that find the same messages pending.                                    *)
THEOREM PromptsNotOfferedAgain == Spec => []PendingNotInPrompt
  <1>1. Init => PendInv
    BY InitPending
  <1>2. Spec => [](TypeInv /\ OwnInv /\ PendInv)
    BY <1>1, PendingStep, OwnersInvariant, PTL DEF Spec
  <1>3. TypeInv /\ OwnInv /\ PendInv => PendingNotInPrompt
    BY DEF PendInv
  <1> QED BY <1>2, <1>3, PTL
=============================================================================
