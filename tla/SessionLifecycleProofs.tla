----------------------- MODULE SessionLifecycleProofs -----------------------
(***************************************************************************)
(* Theorems about SessionLifecycle, for every set of requests, every       *)
(* policy and every number of executions.                                  *)
(*                                                                         *)
(* Most actions move one coroutine with Switch, which may cancel others.   *)
(* The two lemmas about Switch (MoveControl, MoveOwners) say once what     *)
(* such a move preserves; an action then only has to meet their            *)
(* hypotheses.                                                             *)
(***************************************************************************)
EXTENDS SessionLifecycle, TLAPS

-----------------------------------------------------------------------------
(* Types.  The type invariant is inductive together with what some labels  *)
(* say about the locals: a coroutine about to touch an execution names one.*)

ExecLabels ==
    OwnerLabels \cup
    {"followupStore", "markInterrupt", "stopRequest", "stopCheck",
     "stopDelete", "drain", "stopRecheck", "stopHalt", "stopClear",
     "result", "markFatal", "mcpFail", "mcpDelete"}

LocalsNamed == \A p \in Proc : pc[p] \in ExecLabels => loc[p].exec \in Execs
FirstLabels == {"insertSession", "storeFirst"}
FirstsAreMessages == \A p \in Proc : pc[p] \in FirstLabels => p \in Msgs

DataOK ==
    /\ sess \in SessionStates
    /\ msg \in [Msgs -> {"none", "pending", "acked", "failed"}]
    /\ phase \in [Execs -> Phases]
    /\ halted \in SUBSET Execs
    /\ docker \in [Execs -> DockerStates]
    /\ container \in Execs \cup {NoExec}
    /\ up \in BOOLEAN
    /\ prompt \in [Execs -> SUBSET Msgs]
    /\ tailReg \in SUBSET Execs
    /\ interrupt \in SUBSET Execs
    /\ fatal \in SUBSET Execs
    /\ stopReq \in [Execs -> StopIntents]

ControlOK ==
    /\ pc \in [Proc -> Labels]
    /\ loc \in [Proc -> Locals]
    /\ abandoned \in SUBSET Execs
    /\ dropped \in SUBSET Msgs
    /\ LocalsNamed
    /\ FirstsAreMessages

TypeInv == DataOK /\ ControlOK /\ idleReg \in SUBSET Execs

LEMMA TypeInvImpliesTypeOK == TypeInv => TypeOK
  BY DEF TypeInv, DataOK, ControlOK, TypeOK

LEMMA TasksAreProcs ==
    /\ Reqs \subseteq Proc
    /\ \A e \in Execs : Tail(e) \in Proc /\ Idle(e) \in Proc
  BY DEF Proc, Tails, Idles

(* What a move of coroutine p must bring with it.                          *)
GoodTarget(p, l, v) ==
    /\ l \in Labels /\ v \in Locals
    /\ l \in ExecLabels => v.exec \in Execs
    /\ l \in FirstLabels => p \in Msgs

(* A move to a good target keeps the types of the control state, whichever *)
(* tasks it cancels.                                                       *)
LEMMA MoveControl ==
    ASSUME ControlOK, NEW p \in Proc, NEW l, NEW v, NEW Q,
           GoodTarget(p, l, v), Switch(p, l, v, Q), Q \subseteq Proc
    PROVE  ControlOK'
  <1>1. pc' \in [Proc -> Labels]
    BY DEF ControlOK, GoodTarget, Switch, Labels
  <1>2. NoLocals \in Locals
    BY DEF NoLocals, Locals, StopIntents
  <1>3. loc' \in [Proc -> Locals]
    BY <1>2 DEF ControlOK, GoodTarget, Switch
  <1>4. abandoned' \in SUBSET Execs
    BY DEF ControlOK, Switch, Cancelled, LocalsNamed, ExecLabels
  <1>5. dropped' \in SUBSET Msgs
    BY DEF ControlOK, Switch, Cancelled, Locals
  <1>6. LocalsNamed'
    BY DEF ControlOK, GoodTarget, Switch, LocalsNamed, ExecLabels, OwnerLabels, FirstLabels
  <1>7. FirstsAreMessages'
    BY DEF ControlOK, GoodTarget, Switch, FirstsAreMessages, FirstLabels
  <1> QED BY <1>1, <1>3, <1>4, <1>5, <1>6, <1>7 DEF ControlOK

(* The same with the cancellation of idle-stop tasks.                      *)
LEMMA ContinueControl ==
    ASSUME ControlOK, idleReg \in SUBSET Execs,
           NEW p \in Proc, NEW l, NEW v, NEW C,
           GoodTarget(p, l, v), Continue(p, l, v, C)
    PROVE  ControlOK' /\ idleReg' \in SUBSET Execs
  <1> DEFINE Q == {Idle(e) : e \in C \cap idleReg}
  <1>1. Q \subseteq Proc
    BY TasksAreProcs
  <1>2. Switch(p, l, v, Q)
    BY DEF Continue
  <1>3. ControlOK'
    BY <1>1, <1>2, MoveControl
  <1> QED BY <1>3 DEF Continue

LEMMA StepControl ==
    ASSUME ControlOK, idleReg \in SUBSET Execs, NEW p \in Proc, NEW l \in Labels,
           l \in ExecLabels => loc[p].exec \in Execs,
           l \in FirstLabels => p \in Msgs,
           Step(p, l)
    PROVE  ControlOK' /\ idleReg' \in SUBSET Execs
  <1>1. GoodTarget(p, l, loc[p])
    BY DEF GoodTarget, ControlOK
  <1>2. Continue(p, l, loc[p], {})
    BY DEF Step
  <1> QED BY <1>1, <1>2, ContinueControl

LEMMA ReturnControl ==
    ASSUME ControlOK, idleReg \in SUBSET Execs, NEW p \in Proc, Return(p)
    PROVE  ControlOK' /\ idleReg' \in SUBSET Execs
  <1>1. GoodTarget(p, "done", NoLocals)
    BY DEF GoodTarget, NoLocals, Locals, StopIntents, Labels, ExecLabels, OwnerLabels, FirstLabels
  <1>2. Continue(p, "done", NoLocals, {})
    BY DEF Return
  <1> QED BY <1>1, <1>2, ContinueControl

LEMMA SameData ==
    ASSUME DataOK, UNCHANGED <<db, dock, mem>>
    PROVE  DataOK'
  BY DEF DataOK, db, dock, mem

(* The two continuations of a stop.                                        *)
LEMMA StopTargetControl ==
    ASSUME ControlOK, idleReg \in SUBSET Execs,
           NEW p \in Proc, NEW v \in Locals, NEW C, StopTarget(p, v, C)
    PROVE  ControlOK' /\ idleReg' \in SUBSET Execs
  <1>1. CASE \E l \in {"settle", "done"} : \E w \in {v, NoLocals} :
                Continue(p, l, w, C)
    <2>1. PICK l \in {"settle", "done"}, w \in {v, NoLocals} :
             Continue(p, l, w, C)
      BY <1>1
    <2>2. GoodTarget(p, l, w)
      BY DEF GoodTarget, NoLocals, Locals, StopIntents, Labels, ExecLabels, OwnerLabels, FirstLabels
    <2> QED BY <2>1, <2>2, ContinueControl
  <1>2. CASE \E e \in Execs :
                Continue(p, "stopRequest", [v EXCEPT !.exec = e], C)
    <2>1. PICK e \in Execs : Continue(p, "stopRequest", [v EXCEPT !.exec = e], C)
      BY <1>2
    <2>2. GoodTarget(p, "stopRequest", [v EXCEPT !.exec = e])
      BY DEF GoodTarget, Locals, Labels, FirstLabels
    <2> QED BY <2>1, <2>2, ContinueControl
  <1> QED BY <1>1, <1>2 DEF StopTarget

LEMMA RestartOrSettleControl ==
    ASSUME ControlOK, idleReg \in SUBSET Execs,
           NEW p \in Proc, NEW v \in Locals, NEW C, RestartOrSettle(p, v, C)
    PROVE  ControlOK' /\ idleReg' \in SUBSET Execs
  <1>1. PICK l \in {"settle", "readPending", "done"},
             w \in {v, NoLocals, [v EXCEPT !.ctx = "transition"]} :
                Continue(p, l, w, C)
    BY DEF RestartOrSettle
  <1>2. GoodTarget(p, l, w)
    BY DEF GoodTarget, NoLocals, Locals, StopIntents, Labels, ExecLabels, OwnerLabels, FirstLabels
  <1> QED BY <1>1, <1>2, ContinueControl

LEMMA RestartOrSettleState ==
    ASSUME sess \in SessionStates, NEW p, NEW v, NEW C, RestartOrSettle(p, v, C)
    PROVE  sess' \in SessionStates
  BY DEF RestartOrSettle, FinalState, SessionStates

-----------------------------------------------------------------------------
(* TypeInv is preserved, one lemma for each group of actions.              *)

LEMMA InitTypes == Init => TypeInv
  <1> SUFFICES ASSUME Init PROVE TypeInv
    OBVIOUS
  <1>1. DataOK
    BY DEF Init, DataOK, SessionStates, Phases, DockerStates, StopIntents
  <1>2. ControlOK
    BY DEF Init, ControlOK, Labels, Locals, NoLocals, StopIntents, LocalsNamed,
           FirstsAreMessages, ExecLabels, OwnerLabels, FirstLabels
  <1> QED BY <1>1, <1>2 DEF TypeInv, Init

LEMMA ArrivalTypes ==
    ASSUME TypeInv, NEW r \in Reqs, Arrival(r)
    PROVE  TypeInv'
  <1> USE DEF TypeInv
  <1>1. r \in Proc /\ NoLocals \in Locals
    BY TasksAreProcs DEF NoLocals, Locals, StopIntents
  <1>2. CASE HandleMessage(r)
    BY <1>1, <1>2, StepControl, SameData
       DEF HandleMessage, Msgs, Labels, ExecLabels, OwnerLabels, FirstLabels
  <1>3. CASE ContinueSession(r)
    BY <1>1, <1>3, StepControl, SameData
       DEF ContinueSession, Labels, ExecLabels, OwnerLabels, FirstLabels
  <1>4. CASE StopExecution(r)
    <2>1. [NoLocals EXCEPT !.req = "hibernate"] \in Locals
      BY <1>1 DEF Locals, StopIntents
    <2> QED BY <1>1, <1>4, <2>1, StopTargetControl, SameData DEF StopExecution
  <1>5. CASE CloseSession(r)
    <2>1. GoodTarget(r, "stopGet", [NoLocals EXCEPT !.req = "closed"])
      BY <1>1 DEF GoodTarget, Locals, StopIntents, Labels, ExecLabels, OwnerLabels, FirstLabels
    <2> QED BY <1>1, <1>5, <2>1, ContinueControl, ReturnControl, SameData
            DEF CloseSession
  <1>6. CASE \E l \in {"result", "markFatal", "mcpFail"}, K \in SUBSET Reqs :
                EventArrives(r, K, l)
    <2>1. PICK l \in {"result", "markFatal", "mcpFail"}, K \in SUBSET Reqs :
                EventArrives(r, K, l)
      BY <1>6
    <2>2. CASE Return(r)
      BY <1>1, <2>1, <2>2, ReturnControl, SameData DEF EventArrives
    <2>3. CASE \E e \in Execs : Continue(r, l, [NoLocals EXCEPT !.exec = e], {})
      <3>1. PICK e \in Execs : Continue(r, l, [NoLocals EXCEPT !.exec = e], {})
        BY <2>3
      <3>2. GoodTarget(r, l, [NoLocals EXCEPT !.exec = e])
        BY <1>1 DEF GoodTarget, Locals, Labels, FirstLabels
      <3> QED BY <1>1, <2>1, <3>1, <3>2, ContinueControl, SameData DEF EventArrives
    <2> QED BY <2>1, <2>2, <2>3 DEF EventArrives
  <1> QED
    BY <1>2, <1>3, <1>4, <1>5, <1>6
       DEF Arrival, ResultEvent, FatalEvent, McpFailureEvent, Reqs, WorkerReqs

(* Rows: storing, acknowledging or failing messages, halting an execution. *)
LEMMA SetMessagesType ==
    ASSUME NEW M, NEW s \in {"none", "pending", "acked", "failed"},
           msg \in [Msgs -> {"none", "pending", "acked", "failed"}],
           SetMessages(M, s)
    PROVE  msg' \in [Msgs -> {"none", "pending", "acked", "failed"}]
  BY DEF SetMessages

LEMMA HaltRowType ==
    ASSUME NEW e \in Execs, HaltRow(e),
           phase \in [Execs -> Phases], halted \in SUBSET Execs
    PROVE  phase' \in [Execs -> Phases] /\ halted' \in SUBSET Execs
  BY DEF HaltRow, Phases

LEMMA MessageTypes ==
    ASSUME TypeInv, NEW r \in Reqs, MessageStep(r)
    PROVE  TypeInv'
  <1> USE DEF TypeInv
  <1>1. r \in Proc /\ loc[r] \in Locals /\ NoLocals \in Locals
    BY TasksAreProcs DEF NoLocals, Locals, StopIntents, ControlOK
  <1>2. CASE InsertSession(r)
    <2>1. CASE sess = "absent"
      <3>1. sess' = "NEW" /\ Step(r, "storeFirst") /\ r \in Msgs
        BY <1>1, <1>2, <2>1
           DEF InsertSession, ControlOK, FirstsAreMessages, FirstLabels
      <3>2. ControlOK' /\ idleReg' \in SUBSET Execs
        BY <1>1, <3>1, StepControl DEF Labels, ExecLabels, OwnerLabels
      <3> QED BY <1>2, <3>1, <3>2
              DEF InsertSession, DataOK, SessionStates, dock, mem
    <2>2. CASE sess # "absent"
      <3>1. UNCHANGED <<db, dock, mem>> /\ Return(r)
        BY <1>2, <2>2 DEF InsertSession, db
      <3> QED BY <1>1, <3>1, ReturnControl, SameData
    <2> QED BY <2>1, <2>2
  <1>3. CASE StoreFirst(r)
    <2>1. r \in Msgs
      BY <1>1, <1>3 DEF StoreFirst, ControlOK, FirstsAreMessages, FirstLabels
    <2>2. GoodTarget(r, "createRow", [loc[r] EXCEPT !.pend = {r}, !.ctx = "create"])
      BY <1>1, <2>1
         DEF GoodTarget, Locals, Labels, ExecLabels, OwnerLabels, FirstLabels
    <2>3. ControlOK' /\ idleReg' \in SUBSET Execs
      BY <1>1, <1>3, <2>2, ContinueControl DEF StoreFirst
    <2> QED BY <1>3, <2>3, SetMessagesType DEF StoreFirst, DataOK, dock, mem
  <1>4. CASE StoreOnly(r)
    <2>1. ControlOK' /\ idleReg' \in SUBSET Execs
      BY <1>1, <1>4, ReturnControl DEF StoreOnly
    <2> QED BY <1>4, <2>1, SetMessagesType DEF StoreOnly, DataOK, dock, mem
  <1>5. CASE StoreResume(r)
    <2>1. ControlOK' /\ idleReg' \in SUBSET Execs
      BY <1>1, <1>5, StepControl
         DEF StoreResume, Labels, ExecLabels, OwnerLabels, FirstLabels
    <2> QED BY <1>5, <2>1, SetMessagesType DEF StoreResume, DataOK, dock, mem
  <1>6. CASE Followup(r)
    <2>1. CASE Return(r) \/ Step(r, "storeResume")
      BY <1>1, <1>6, <2>1, ReturnControl, StepControl, SameData
         DEF Followup, Labels, ExecLabels, OwnerLabels, FirstLabels
    <2>2. CASE \E e \in Execs :
                  Continue(r, "followupStore", [loc[r] EXCEPT !.exec = e], {})
      <3>1. PICK e \in Execs :
               Continue(r, "followupStore", [loc[r] EXCEPT !.exec = e], {})
        BY <2>2
      <3>2. GoodTarget(r, "followupStore", [loc[r] EXCEPT !.exec = e])
        BY <1>1 DEF GoodTarget, Locals, Labels, FirstLabels
      <3> QED BY <1>1, <1>6, <3>1, <3>2, ContinueControl, SameData DEF Followup
    <2> QED BY <1>6, <2>1, <2>2 DEF Followup
  <1>7. CASE FollowupStore(r)
    <2>1. loc[r].exec \in Execs
      BY <1>1, <1>7 DEF FollowupStore, ControlOK, LocalsNamed, ExecLabels
    <2>2. PICK l \in {"stopGet", "markInterrupt", "done"},
               w \in {[NoLocals EXCEPT !.req = "hibernate"], loc[r], NoLocals} :
             /\ l = "markInterrupt" => w = loc[r]
             /\ Continue(r, l, w, {loc[r].exec})
      BY <1>7 DEF FollowupStore
    <2>3. GoodTarget(r, l, w)
      BY <1>1, <2>1, <2>2
         DEF GoodTarget, Locals, StopIntents, Labels, ExecLabels, OwnerLabels,
             FirstLabels
    <2>4. ControlOK' /\ idleReg' \in SUBSET Execs
      BY <1>1, <2>2, <2>3, ContinueControl
    <2> QED BY <1>7, <2>4, SetMessagesType DEF FollowupStore, DataOK, dock, mem
  <1>8. CASE MarkInterrupt(r)
    <2>1. loc[r].exec \in Execs
      BY <1>1, <1>8 DEF MarkInterrupt, ControlOK, LocalsNamed, ExecLabels
    <2>2. ControlOK' /\ idleReg' \in SUBSET Execs
      BY <1>1, <1>8, ReturnControl DEF MarkInterrupt
    <2> QED BY <1>8, <2>1, <2>2 DEF MarkInterrupt, DataOK, db, dock
  <1> QED
    BY <1>2, <1>3, <1>4, <1>5, <1>6, <1>7, <1>8 DEF MessageStep

LEMMA LaunchTypes ==
    ASSUME TypeInv, NEW p \in Proc, LaunchStep(p)
    PROVE  TypeInv'
  <1> USE DEF TypeInv
  <1>1. loc[p] \in Locals
    BY DEF ControlOK
  <1>2. ASSUME NEW l \in Labels, l \notin FirstLabels,
               l \in ExecLabels => pc[p] \in ExecLabels, Step(p, l)
        PROVE  ControlOK' /\ idleReg' \in SUBSET Execs
    BY <1>2, StepControl DEF ControlOK, LocalsNamed
  <1> USE DEF Labels, ExecLabels, OwnerLabels, FirstLabels
  <1>3. CASE ReadPending(p)
    <2>1. CASE Pending = {}
      BY <1>3, <2>1, ReturnControl, SameData DEF ReadPending
    <2>2. CASE Pending # {}
      <3>1. GoodTarget(p, "ack", [loc[p] EXCEPT !.pend = Pending])
        BY <1>1 DEF GoodTarget, Locals, Pending
      <3> QED BY <1>3, <2>2, <3>1, ContinueControl, SameData DEF ReadPending
    <2> QED BY <2>1, <2>2
  <1>4. CASE AckPending(p)
    <2>1. ControlOK' /\ idleReg' \in SUBSET Execs
      BY <1>2, <1>4 DEF AckPending
    <2> QED BY <1>4, <2>1, SetMessagesType DEF AckPending, DataOK, dock, mem
  <1>5. CASE PrepareFail(p)
    BY <1>2, <1>5, SameData DEF PrepareFail
  <1>6. CASE CreateRow(p)
    <2>1. PICK e \in Execs :
             /\ phase' = [phase EXCEPT ![e] = "STARTING"]
             /\ docker' = [docker EXCEPT ![e] = "submitted"]
             /\ prompt' = [prompt EXCEPT ![e] = loc[p].pend]
             /\ Continue(p, "launch", [loc[p] EXCEPT !.exec = e], {})
      BY <1>6 DEF CreateRow
    <2>2. GoodTarget(p, "launch", [loc[p] EXCEPT !.exec = e])
      BY <1>1 DEF GoodTarget, Locals
    <2>3. ControlOK' /\ idleReg' \in SUBSET Execs
      BY <2>1, <2>2, ContinueControl
    <2>4. loc[p].pend \in SUBSET Msgs
      BY <1>1 DEF Locals
    <2> QED BY <1>6, <2>1, <2>3, <2>4 DEF CreateRow, DataOK, Phases, DockerStates, mem
  <1>7. CASE LaunchOk(p)
    BY <1>2, <1>7, SameData DEF LaunchOk
  <1>8. CASE LaunchFail(p)
    BY <1>2, <1>8, SameData DEF LaunchFail
  <1>9. CASE UpdateStatus(p)
    <2>1. ControlOK' /\ idleReg' \in SUBSET Execs
      BY <1>2, <1>9 DEF UpdateStatus
    <2> QED BY <1>9, <2>1 DEF UpdateStatus, DataOK, Phases, dock, mem
  <1>10. CASE StartTail(p)
    <2> DEFINE t == Tail(loc[p].exec)
               next == IF loc[p].ctx = "create" THEN "ackFirst" ELSE "activate"
    <2>1. loc[p].exec \in Execs
      BY <1>10 DEF StartTail, ControlOK, LocalsNamed
    <2>2. t \in Proc
      BY <2>1, TasksAreProcs
    <2>3. /\ pc' = [pc EXCEPT ![p] = next, ![t] = "logs"]
          /\ loc' = [loc EXCEPT ![t] = [NoLocals EXCEPT !.exec = loc[p].exec]]
          /\ UNCHANGED <<idleReg, abandoned, dropped>>
      BY <1>10 DEF StartTail, history
    <2>4. [NoLocals EXCEPT !.exec = loc[p].exec] \in Locals
      BY <2>1 DEF NoLocals, Locals, StopIntents
    <2>5. pc' \in [Proc -> Labels] /\ loc' \in [Proc -> Locals]
      BY <2>3, <2>4 DEF ControlOK
    <2>6. LocalsNamed'
      BY <2>1, <2>2, <2>3, <2>4 DEF LocalsNamed, ControlOK, Locals
    <2>7. FirstsAreMessages'
      BY <2>2, <2>3 DEF FirstsAreMessages, ControlOK
    <2> QED BY <1>10, <2>1, <2>3, <2>5, <2>6, <2>7
            DEF StartTail, ControlOK, DataOK, db, dock
  <1>11. CASE AckFirst(p)
    <2>1. ControlOK' /\ idleReg' \in SUBSET Execs
      BY <1>2, <1>11 DEF AckFirst
    <2> QED BY <1>11, <2>1, SetMessagesType DEF AckFirst, DataOK, dock, mem
  <1>12. CASE Activate(p)
    <2>1. ControlOK' /\ idleReg' \in SUBSET Execs
      BY <1>12, ReturnControl DEF Activate
    <2> QED BY <1>12, <2>1 DEF Activate, DataOK, SessionStates, dock, mem
  <1>13. CASE HaltFailed(p)
    <2>1. ControlOK' /\ idleReg' \in SUBSET Execs
      BY <1>2, <1>13 DEF HaltFailed
    <2>2. loc[p].exec \in Execs
      BY <1>13 DEF HaltFailed, ControlOK, LocalsNamed
    <2> QED BY <1>13, <2>1, <2>2, HaltRowType DEF HaltFailed, DataOK, dock, mem
  <1>14. CASE MarkFailed(p)
    <2>1. ControlOK' /\ idleReg' \in SUBSET Execs
      BY <1>2, <1>14 DEF MarkFailed
    <2> QED BY <1>14, <2>1, SetMessagesType DEF MarkFailed, DataOK, dock, mem
  <1>15. CASE LaunchError(p)
    <2>1. ControlOK' /\ idleReg' \in SUBSET Execs
      BY <1>2, <1>15, ReturnControl DEF LaunchError
    <2> QED BY <1>15, <2>1 DEF LaunchError, DataOK, SessionStates, dock, mem
  <1> QED
    BY <1>3, <1>4, <1>5, <1>6, <1>7, <1>8, <1>9, <1>10, <1>11, <1>12, <1>13,
       <1>14, <1>15 DEF LaunchStep

LEMMA ForgetType ==
    ASSUME NEW e, Forget(e), interrupt \in SUBSET Execs, fatal \in SUBSET Execs,
           stopReq \in [Execs -> StopIntents]
    PROVE  /\ interrupt' \in SUBSET Execs /\ fatal' \in SUBSET Execs
           /\ stopReq' \in [Execs -> StopIntents]
  BY DEF Forget, StopIntents

LEMMA StopTypes ==
    ASSUME TypeInv, NEW p \in Proc, StopStep(p)
    PROVE  TypeInv'
  <1> USE DEF TypeInv
  <1>1. loc[p] \in Locals
    BY DEF ControlOK
  <1>2. ASSUME NEW l \in Labels, l \notin FirstLabels,
               l \in ExecLabels => pc[p] \in ExecLabels, Step(p, l)
        PROVE  ControlOK' /\ idleReg' \in SUBSET Execs
    BY <1>2, StepControl DEF ControlOK, LocalsNamed
  <1>3. pc[p] \in ExecLabels => loc[p].exec \in Execs
    BY DEF ControlOK, LocalsNamed
  <1> USE DEF Labels, ExecLabels, OwnerLabels, FirstLabels
  <1>4. CASE StopGet(p)
    BY <1>1, <1>4, StopTargetControl, SameData DEF StopGet
  <1>5. CASE StopRequest(p)
    <2>1. ControlOK' /\ idleReg' \in SUBSET Execs
      BY <1>2, <1>5 DEF StopRequest
    <2>2. loc[p].req \in StopIntents
      BY <1>1 DEF Locals
    <2> QED BY <1>5, <2>1, <2>2 DEF StopRequest, DataOK, db, dock
  <1>6. CASE StopCheck(p)
    BY <1>2, <1>6, ReturnControl, SameData DEF StopCheck
  <1>7. CASE StopDelete(p)
    <2>1. ControlOK' /\ idleReg' \in SUBSET Execs
      BY <1>2, <1>7 DEF StopDelete
    <2> QED BY <1>7, <2>1 DEF StopDelete, DataOK, db, mem
  <1>8. CASE DrainDone(p)
    BY <1>2, <1>8, SameData DEF DrainDone
  <1>9. CASE DrainExpire(p)
    <2>1. loc[p].exec \in Execs
      BY <1>3, <1>9 DEF DrainExpire
    <2>2. {Tail(loc[p].exec)} \subseteq Proc
      BY <2>1, TasksAreProcs
    <2>3. GoodTarget(p, "stopRecheck", loc[p])
      BY <1>1, <2>1 DEF GoodTarget
    <2>4. ControlOK'
      BY <1>9, <2>2, <2>3, MoveControl DEF DrainExpire
    <2> QED BY <1>9, <2>4 DEF DrainExpire, DataOK, db, dock
  <1>10. CASE StopRecheck(p)
    BY <1>2, <1>10, ReturnControl, SameData DEF StopRecheck
  <1>11. CASE StopHalt(p)
    <2>1. ControlOK' /\ idleReg' \in SUBSET Execs
      BY <1>2, <1>11 DEF StopHalt
    <2> QED BY <1>3, <1>11, <2>1, HaltRowType DEF StopHalt, DataOK, dock, mem
  <1>12. CASE StopClear(p)
    <2>1. ControlOK' /\ idleReg' \in SUBSET Execs
      BY <1>1, <1>12, RestartOrSettleControl DEF StopClear
    <2>2. sess' \in SessionStates
      BY <1>12, RestartOrSettleState DEF StopClear, DataOK
    <2> QED BY <1>12, <2>1, <2>2, ForgetType DEF StopClear, DataOK, dock
  <1>13. CASE Settle(p)
    <2>1. ControlOK' /\ idleReg' \in SUBSET Execs
      BY <1>13, ReturnControl DEF Settle
    <2> QED BY <1>13, <2>1 DEF Settle, FinalState, SessionStates, DataOK, dock, mem
  <1> QED
    BY <1>4, <1>5, <1>6, <1>7, <1>8, <1>9, <1>10, <1>11, <1>12, <1>13 DEF StopStep

LEMMA TailTypes ==
    ASSUME TypeInv, NEW e \in Execs, TailStep(e) \/ IdleFire(e)
    PROVE  TypeInv'
  <1> USE DEF TypeInv
  <1>1. /\ Tail(e) \in Proc /\ loc[Tail(e)] \in Locals
        /\ Idle(e) \in Proc /\ NoLocals \in Locals
    BY TasksAreProcs DEF ControlOK, NoLocals, Locals, StopIntents
  <1>2. ASSUME NEW l \in Labels, l \notin FirstLabels,
               l \in ExecLabels => pc[Tail(e)] \in ExecLabels, Step(Tail(e), l)
        PROVE  ControlOK' /\ idleReg' \in SUBSET Execs
    BY <1>1, <1>2, StepControl DEF ControlOK, LocalsNamed
  <1> USE DEF Labels, ExecLabels, OwnerLabels, FirstLabels
  <1>3. CASE TailEnd(e)
    <2>1. loc[Tail(e)].exec \in Execs
      BY <1>1, <1>3 DEF TailEnd, ControlOK, LocalsNamed
    <2>2. GoodTarget(Tail(e), "tailHalt", [loc[Tail(e)] EXCEPT !.req = stopReq[e]])
      BY <1>1, <2>1 DEF GoodTarget, DataOK, Locals
    <2> QED BY <1>1, <1>3, <2>2, ContinueControl, SameData DEF TailEnd
  <1>4. CASE TailHalt(e)
    <2>1. ControlOK' /\ idleReg' \in SUBSET Execs
      BY <1>2, <1>4 DEF TailHalt
    <2> QED BY <1>4, <2>1, HaltRowType DEF TailHalt, DataOK, dock, mem
  <1>5. CASE TailClean(e)
    <2>1. ControlOK' /\ idleReg' \in SUBSET Execs
      BY <1>1, <1>5, RestartOrSettleControl DEF TailClean
    <2>2. sess' \in SessionStates
      BY <1>5, RestartOrSettleState DEF TailClean, DataOK
    <2> QED BY <1>5, <2>1, <2>2, ForgetType DEF TailClean, DataOK
  <1>6. CASE TailFail(e)
    BY <1>2, <1>6, SameData DEF TailFail
  <1>7. CASE TailErrHalt(e)
    <2>1. ControlOK' /\ idleReg' \in SUBSET Execs
      BY <1>2, <1>7 DEF TailErrHalt
    <2> QED BY <1>7, <2>1, HaltRowType DEF TailErrHalt, DataOK, dock, mem
  <1>8. CASE TailErrState(e)
    <2>1. ControlOK' /\ idleReg' \in SUBSET Execs
      BY <1>2, <1>8 DEF TailErrState
    <2> QED BY <1>8, <2>1 DEF TailErrState, DataOK, SessionStates, dock, mem
  <1>9. CASE TailErrClear(e)
    <2>1. GoodTarget(Tail(e), "done", NoLocals)
      BY <1>1 DEF GoodTarget
    <2>2. ControlOK' /\ idleReg' \in SUBSET Execs
      BY <1>1, <1>9, <2>1, ContinueControl DEF TailErrClear
    <2> QED BY <1>9, <2>2, ForgetType DEF TailErrClear, DataOK, db, dock
  <1>10. CASE IdleFire(e)
    <2>1. GoodTarget(Idle(e), "stopGet", [NoLocals EXCEPT !.req = "hibernate"])
      BY <1>1 DEF GoodTarget, Locals, StopIntents
    <2> QED BY <1>1, <1>10, <2>1, ContinueControl, ReturnControl, SameData
            DEF IdleFire
  <1> QED
    BY <1>3, <1>4, <1>5, <1>6, <1>7, <1>8, <1>9, <1>10 DEF TailStep

LEMMA EventTypes ==
    ASSUME TypeInv, NEW r \in Reqs, EventStep(r)
    PROVE  TypeInv'
  <1> USE DEF TypeInv
  <1>1. r \in Proc /\ loc[r] \in Locals /\ NoLocals \in Locals
    BY TasksAreProcs DEF ControlOK, NoLocals, Locals, StopIntents
  <1>2. pc[r] \in ExecLabels => loc[r].exec \in Execs
    BY <1>1 DEF ControlOK, LocalsNamed
  <1> USE DEF Labels, ExecLabels, OwnerLabels, FirstLabels
  <1>3. CASE InterruptAtResult(r)
    <2> DEFINE e == loc[r].exec
               v == [NoLocals EXCEPT !.req = IF e \in fatal THEN "fatal" ELSE "hibernate"]
    <2>1. v \in Locals
      BY <1>1 DEF Locals, StopIntents
    <2>2. Forget(e) /\ StopTarget(r, v, {e}) /\ UNCHANGED <<db, dock, tailReg>>
      BY <1>3 DEF InterruptAtResult
    <2>3. ControlOK' /\ idleReg' \in SUBSET Execs
      BY <1>1, <2>1, <2>2, StopTargetControl
    <2> QED BY <2>2, <2>3, ForgetType DEF DataOK, db, dock
  <1>4. CASE ArmIdleStop(r)
    <2> DEFINE e == loc[r].exec
               free == e \in idleReg \/ pc[Idle(e)] = "done"
    <2>1. e \in Execs /\ Idle(e) \in Proc
      BY <1>2, <1>4, TasksAreProcs DEF ArmIdleStop
    <2>2. /\ pc' = [pc EXCEPT ![r] = "done",
                              ![Idle(e)] = IF free THEN "sleep" ELSE @]
          /\ loc' = [loc EXCEPT ![r] = NoLocals,
                                ![Idle(e)] = IF free THEN NoLocals ELSE @]
          /\ idleReg' = IF free THEN idleReg \cup {e} ELSE idleReg
          /\ Cancelled({Idle(f) : f \in idleReg \cap {e}})
      BY <1>4 DEF ArmIdleStop
    <2>3. pc' \in [Proc -> Labels] /\ loc' \in [Proc -> Locals]
      BY <1>1, <2>1, <2>2 DEF ControlOK
    <2>4. abandoned' \in SUBSET Execs /\ dropped' \in SUBSET Msgs
      BY <2>1, <2>2, TasksAreProcs DEF ControlOK, Cancelled, LocalsNamed, Locals
    <2>5. LocalsNamed' /\ FirstsAreMessages'
      BY <1>1, <2>1, <2>2 DEF ControlOK, LocalsNamed, FirstsAreMessages
    <2>6. ControlOK' /\ idleReg' \in SUBSET Execs
      BY <2>1, <2>2, <2>3, <2>4, <2>5 DEF ControlOK
    <2> QED BY <1>4, <2>6, SameData DEF ArmIdleStop
  <1>5. CASE MarkFatal(r)
    <2>1. ControlOK' /\ idleReg' \in SUBSET Execs
      BY <1>1, <1>5, ReturnControl DEF MarkFatal
    <2> QED BY <1>2, <1>5, <2>1 DEF MarkFatal, DataOK, db, dock
  <1>6. CASE McpCancelTail(r)
    <2>1. loc[r].exec \in Execs
      BY <1>2, <1>6 DEF McpCancelTail
    <2>2. {Tail(loc[r].exec)} \subseteq Proc
      BY <2>1, TasksAreProcs
    <2>3. GoodTarget(r, "mcpDelete", loc[r])
      BY <1>1, <2>1 DEF GoodTarget
    <2>4. ControlOK'
      BY <1>1, <1>6, <2>2, <2>3, MoveControl DEF McpCancelTail
    <2> QED BY <1>6, <2>4 DEF McpCancelTail, DataOK, db, dock
  <1>7. CASE McpDelete(r)
    <2>1. loc[r].exec \in Execs
      BY <1>2, <1>7 DEF McpDelete
    <2>2. GoodTarget(r, "mcpError", loc[r])
      BY <1>1, <2>1 DEF GoodTarget
    <2>3. ControlOK' /\ idleReg' \in SUBSET Execs
      BY <1>1, <1>7, <2>2, ContinueControl DEF McpDelete
    <2> QED BY <1>7, <2>1, <2>3, ForgetType, HaltRowType DEF McpDelete, DataOK
  <1>8. CASE McpError(r)
    <2>1. ControlOK' /\ idleReg' \in SUBSET Execs
      BY <1>1, <1>8, ReturnControl DEF McpError
    <2> QED BY <1>8, <2>1 DEF McpError, DataOK, SessionStates, dock, mem
  <1> QED
    BY <1>3, <1>4, <1>5, <1>6, <1>7, <1>8 DEF EventStep

(* Docker and the worker leave the controller's state alone.               *)
LEMMA SameControl ==
    ASSUME ControlOK, idleReg \in SUBSET Execs, UNCHANGED control
    PROVE  ControlOK' /\ idleReg' \in SUBSET Execs
  BY DEF ControlOK, LocalsNamed, FirstsAreMessages, control, history

LEMMA DockerTypes ==
    ASSUME TypeInv, (\E e \in Execs : DockerStep(e)) \/ WorkerExit
    PROVE  TypeInv'
  <1> USE DEF TypeInv
  <1>1. UNCHANGED control
    BY DEF DockerStep, DockerEvict, DockerRun, DockerFail, WorkerExit
  <1>2. ControlOK' /\ idleReg' \in SUBSET Execs
    BY <1>1, SameControl
  <1>3. CASE WorkerExit
    BY <1>2, <1>3 DEF WorkerExit, DataOK, db, mem
  <1>4. CASE \E e \in Execs : DockerStep(e)
    BY <1>2, <1>4
       DEF DockerStep, DockerEvict, DockerRun, DockerFail, DockerStates, DataOK, db, mem
  <1> QED BY <1>3, <1>4

LEMMA TypeStep == TypeInv /\ [Next]_vars => TypeInv'
  <1> SUFFICES ASSUME TypeInv, [Next]_vars PROVE TypeInv'
    OBVIOUS
  <1>1. CASE \E r \in Reqs : Arrival(r) \/ MessageStep(r) \/ EventStep(r)
    BY <1>1, ArrivalTypes, MessageTypes, EventTypes
  <1>2. CASE \E p \in Proc : LaunchStep(p) \/ StopStep(p)
    BY <1>2, LaunchTypes, StopTypes
  <1>3. CASE \E e \in Execs : TailStep(e) \/ IdleFire(e)
    BY <1>3, TailTypes
  <1>4. CASE (\E e \in Execs : DockerStep(e)) \/ WorkerExit
    BY <1>4, DockerTypes
  <1>5. CASE UNCHANGED vars
    <2>1. UNCHANGED <<db, dock, mem>> /\ UNCHANGED control
      BY <1>5 DEF vars
    <2> QED BY <2>1, SameData, SameControl DEF TypeInv
  <1> QED BY <1>1, <1>2, <1>3, <1>4, <1>5 DEF Next

(* Every variable keeps its type, and a coroutine about to touch an        *)
(* execution or to store a first message is one that may.                  *)
THEOREM TypesInvariant == Spec => []TypeInv
  BY InitTypes, TypeStep, PTL DEF Spec

THEOREM TypeCorrect == Spec => []TypeOK
  BY TypesInvariant, TypeInvImpliesTypeOK, PTL

-----------------------------------------------------------------------------
(* Ownership.  ExecutionsOwned and SoleOwner are not inductive alone: that *)
(* a launcher hands its execution to a tailer nobody else runs follows     *)
(* from the tailer not having started, and that from the execution being   *)
(* fresh when it was created.                                              *)

LaunchLabels == {"launch", "status", "startTail", "haltFailed"}
TailLabels == {"logs", "tailHalt", "tailErrHalt"}

TailsOwnTheirs ==
    \A p \in Proc : pc[p] \in TailLabels =>
        loc[p].exec \in Execs /\ p = Tail(loc[p].exec)
LaunchersSole ==
    \A p, q \in Proc :
        /\ pc[p] \in LaunchLabels /\ pc[q] \in LaunchLabels
        /\ loc[p].exec = loc[q].exec
        => p = q
LaunchersFirst ==
    \A p \in Proc : pc[p] \in LaunchLabels =>
        phase[loc[p].exec] # "none" /\ pc[Tail(loc[p].exec)] = "done"
FreshTails == \A e \in Execs : phase[e] = "none" => pc[Tail(e)] = "done"

(* Rows may wait for an owner from elsewhere (S): after a restart those    *)
(* recover() has not come to; none in one run of the process.  Nobody else *)
(* launches or tails such a row.                                           *)
Waiting(S) ==
    \A e \in S : /\ phase[e] # "none" /\ pc[Tail(e)] = "done"
               /\ \A p \in Proc : pc[p] \in LaunchLabels => loc[p].exec # e
OwnedBut(S) ==
    \A e \in Unhalted : e \in abandoned \cup S \/ \E p \in Proc : Owns(p, e)

OwnersBut(S) ==
    /\ TailsOwnTheirs /\ LaunchersSole /\ LaunchersFirst /\ FreshTails
    /\ Waiting(S) /\ OwnedBut(S)
OwnInv == OwnersBut({})

LEMMA OwnerKinds == OwnerLabels = LaunchLabels \cup TailLabels
  BY DEF OwnerLabels, LaunchLabels, TailLabels

LEMMA TailsDiffer ==
    \A e, f \in Execs : /\ Tail(e) = Tail(f) => e = f
                        /\ Tail(e) # Idle(f)
  BY DEF Tail, Idle

LEMMA OwnersAreSole ==
    ASSUME TypeInv, NEW S \in SUBSET Execs, OwnersBut(S)
    PROVE  SoleOwner
  <1> SUFFICES ASSUME NEW e \in Execs, NEW p \in Proc, NEW q \in Proc,
                      Owns(p, e), Owns(q, e)
               PROVE  p = q
    BY DEF SoleOwner
  <1>1. CASE pc[p] \in TailLabels /\ pc[q] \in TailLabels
    BY <1>1 DEF OwnersBut, TailsOwnTheirs, Owns
  <1>2. CASE pc[p] \in LaunchLabels /\ pc[q] \in LaunchLabels
    BY <1>2 DEF OwnersBut, LaunchersSole, Owns
  <1>3. ASSUME NEW s \in Proc, NEW t \in Proc, Owns(s, e), Owns(t, e),
               pc[s] \in LaunchLabels, pc[t] \in TailLabels
        PROVE  FALSE
    BY <1>3 DEF OwnersBut, TailsOwnTheirs, LaunchersFirst, Owns, TailLabels
  <1> QED BY <1>1, <1>2, <1>3, OwnerKinds DEF Owns

(* Rows are never removed and a halted row is never active again.          *)
RowsAdvance ==
    \A e \in Execs :
        /\ phase[e] # "none" => phase'[e] # "none"
        /\ phase'[e] # "none" /\ e \notin halted' =>
              phase[e] # "none" /\ e \notin halted

(* A coroutine that moves without taking an execution: it stays the owner  *)
(* of the one it has, or leaves it halted.                                 *)
KeepsOwnership(p, l, v) ==
    /\ pc[p] # "done"
    /\ l \in LaunchLabels => pc[p] \in LaunchLabels /\ v.exec = loc[p].exec
    /\ l \in TailLabels => pc[p] \in TailLabels /\ v.exec = loc[p].exec
    /\ pc[p] \in OwnerLabels /\ l \notin OwnerLabels =>
          phase'[loc[p].exec] = "none" \/ loc[p].exec \in halted'

LEMMA MoveOwners ==
    ASSUME TypeInv, NEW S \in SUBSET Execs, OwnersBut(S),
           NEW p \in Proc, NEW l \in Labels, NEW v, NEW Q,
           Switch(p, l, v, Q), Q \subseteq Proc, RowsAdvance,
           KeepsOwnership(p, l, v)
    PROVE  OwnersBut(S)'
  <1> USE OwnerKinds DEF TypeInv, ControlOK, KeepsOwnership
  <1>1. \A q \in Proc :
           /\ pc'[q] = IF q = p THEN l ELSE IF q \in Q THEN "done" ELSE pc[q]
           /\ loc'[q] = IF q = p THEN v
                        ELSE IF q \in Q THEN NoLocals ELSE loc[q]
    BY DEF Switch
  <1>2. \A q \in Proc : pc'[q] \in LaunchLabels =>
           pc[q] \in LaunchLabels /\ loc'[q].exec = loc[q].exec
    BY <1>1 DEF LaunchLabels
  <1>3. \A q \in Proc : pc'[q] \in TailLabels =>
           pc[q] \in TailLabels /\ loc'[q].exec = loc[q].exec
    BY <1>1 DEF TailLabels
  <1>4. \A q \in Proc : pc[q] = "done" => pc'[q] = "done"
    BY <1>1
  <1>5. TailsOwnTheirs'
    BY <1>3 DEF OwnersBut, TailsOwnTheirs
  <1>6. LaunchersSole'
    BY <1>2 DEF OwnersBut, LaunchersSole
  <1>7. LaunchersFirst'
    <2> SUFFICES ASSUME NEW q \in Proc, pc'[q] \in LaunchLabels
                 PROVE  /\ phase'[loc'[q].exec] # "none"
                        /\ pc'[Tail(loc'[q].exec)] = "done"
      BY DEF LaunchersFirst
    <2>1. pc[q] \in LaunchLabels /\ loc'[q].exec = loc[q].exec
      BY <1>2
    <2>2. loc[q].exec \in Execs
      BY <2>1 DEF LocalsNamed, ExecLabels
    <2> QED BY <1>4, <2>1, <2>2, TasksAreProcs DEF OwnersBut, LaunchersFirst, RowsAdvance
  <1>8. FreshTails'
    BY <1>4, TasksAreProcs DEF OwnersBut, FreshTails, RowsAdvance
  <1>9. OwnedBut(S)'
    <2> SUFFICES ASSUME NEW e \in Execs, phase'[e] # "none", e \notin halted',
                        e \notin abandoned', e \notin S
                 PROVE  \E q \in Proc : pc'[q] \in OwnerLabels /\ loc'[q].exec = e
      BY DEF OwnedBut, Unhalted, Owns
    <2>1. e \notin abandoned
      BY DEF Switch, Cancelled
    <2>2. PICK q \in Proc : pc[q] \in OwnerLabels /\ loc[q].exec = e
      BY <2>1 DEF OwnersBut, OwnedBut, RowsAdvance, Unhalted, Owns
    <2>3. CASE q = p
      BY <1>1, <2>2, <2>3
    <2>4. CASE q # p
      <3>1. q \notin Q
        BY <2>2, <2>4 DEF Switch, Cancelled
      <3> QED BY <1>1, <2>2, <2>4, <3>1
    <2> QED BY <2>3, <2>4
  <1>10. Waiting(S)'
    BY <1>2, <1>4, TasksAreProcs DEF OwnersBut, Waiting, RowsAdvance
  <1> QED BY <1>5, <1>6, <1>7, <1>8, <1>9, <1>10 DEF OwnersBut

LEMMA ContinueOwners ==
    ASSUME TypeInv, NEW S \in SUBSET Execs, OwnersBut(S),
           NEW p \in Proc, NEW l \in Labels, NEW v, NEW C,
           Continue(p, l, v, C), RowsAdvance, KeepsOwnership(p, l, v)
    PROVE  OwnersBut(S)'
  <1> DEFINE Q == {Idle(e) : e \in C \cap idleReg}
  <1>1. Q \subseteq Proc
    BY TasksAreProcs DEF TypeInv
  <1>2. Switch(p, l, v, Q)
    BY DEF Continue
  <1> QED BY <1>1, <1>2, MoveOwners

LEMMA SameRows ==
    ASSUME phase' = phase, halted' = halted
    PROVE  RowsAdvance
  BY DEF RowsAdvance

LEMMA HaltedRows ==
    ASSUME TypeInv, NEW e \in Execs, HaltRow(e)
    PROVE  /\ RowsAdvance /\ e \in halted'
           /\ \A f \in Execs : f # e => phase'[f] = phase[f]
  BY DEF RowsAdvance, HaltRow, TypeInv, DataOK

(* A coroutine that owns nothing and takes nothing.                        *)
LEMMA Bystander ==
    ASSUME TypeInv, NEW S \in SUBSET Execs, OwnersBut(S),
           NEW p \in Proc, NEW l \in Labels, NEW v, NEW C,
           Continue(p, l, v, C), RowsAdvance,
           pc[p] # "done", pc[p] \notin OwnerLabels, l \notin OwnerLabels
    PROVE  OwnersBut(S)'
  <1>1. KeepsOwnership(p, l, v)
    BY OwnerKinds DEF KeepsOwnership
  <1> QED BY <1>1, ContinueOwners

LEMMA StepBystander ==
    ASSUME TypeInv, NEW S \in SUBSET Execs, OwnersBut(S),
           NEW p \in Proc, NEW l \in Labels, Step(p, l), RowsAdvance,
           pc[p] # "done", pc[p] \notin OwnerLabels, l \notin OwnerLabels
    PROVE  OwnersBut(S)'
  BY Bystander DEF Step

LEMMA ReturnBystander ==
    ASSUME TypeInv, NEW S \in SUBSET Execs, OwnersBut(S),
           NEW p \in Proc, Return(p), RowsAdvance,
           pc[p] # "done", pc[p] \notin OwnerLabels
    PROVE  OwnersBut(S)'
  <1>1. "done" \in Labels /\ "done" \notin OwnerLabels
    BY DEF Labels, OwnerLabels
  <1> QED BY <1>1, Bystander DEF Return

LEMMA StopTargetBystander ==
    ASSUME TypeInv, NEW S \in SUBSET Execs, OwnersBut(S),
           NEW p \in Proc, NEW v, NEW C, StopTarget(p, v, C),
           RowsAdvance, pc[p] # "done", pc[p] \notin OwnerLabels
    PROVE  OwnersBut(S)'
  <1>1. \E l \in {"settle", "done", "stopRequest"} : \E w : Continue(p, l, w, C)
    BY DEF StopTarget
  <1>2. {"settle", "done", "stopRequest"} \subseteq Labels \ OwnerLabels
    BY DEF Labels, OwnerLabels
  <1> QED BY <1>1, <1>2, Bystander

LEMMA RestartBystander ==
    ASSUME TypeInv, NEW S \in SUBSET Execs, OwnersBut(S),
           NEW p \in Proc, NEW v, NEW C, RestartOrSettle(p, v, C),
           RowsAdvance, pc[p] # "done", pc[p] \notin OwnerLabels
    PROVE  OwnersBut(S)'
  <1>1. \E l \in {"settle", "done", "readPending"} : \E w : Continue(p, l, w, C)
    BY DEF RestartOrSettle
  <1>2. {"settle", "done", "readPending"} \subseteq Labels \ OwnerLabels
    BY DEF Labels, OwnerLabels
  <1> QED BY <1>1, <1>2, Bystander

LEMMA InitOwners == Init => OwnInv
  <1> SUFFICES ASSUME Init PROVE OwnInv
    OBVIOUS
  <1>1. \A e \in Execs : phase[e] = "none" /\ pc[Tail(e)] = "done"
    <2>1. \A e \in Execs : Tail(e) \in Proc /\ Tail(e) \notin Reqs
      BY ConstantsAssumption DEF Proc, Tails
    <2> QED BY <2>1 DEF Init
  <1>2. \A p \in Proc : pc[p] \notin LaunchLabels /\ pc[p] \notin TailLabels
    BY DEF Init, LaunchLabels, TailLabels
  <1> QED BY <1>1, <1>2 DEF OwnInv, OwnersBut, TailsOwnTheirs, LaunchersSole, LaunchersFirst,
          FreshTails, Waiting, OwnedBut, Unhalted

LEMMA ArrivalOwners ==
    ASSUME TypeInv, NEW S \in SUBSET Execs, OwnersBut(S), NEW r \in Reqs, Arrival(r)
    PROVE  OwnersBut(S)'
  <1>1. r \in Proc /\ pc[r] = "start" /\ UNCHANGED <<phase, halted>>
    BY TasksAreProcs
       DEF Arrival, HandleMessage, ContinueSession, StopExecution, CloseSession,
           ResultEvent, FatalEvent, McpFailureEvent, EventArrives, MayBegin, db
  <1>2. RowsAdvance
    BY <1>1, SameRows
  <1>3. pc[r] # "done" /\ pc[r] \notin OwnerLabels
    BY <1>1 DEF OwnerLabels
  <1>4. CASE StopExecution(r)
    BY <1>1, <1>2, <1>3, <1>4, StopTargetBystander DEF StopExecution
  <1>5. CASE ~StopExecution(r)
    <2> DEFINE L == {"insertSession", "storeResume", "followup", "storeOnly", "done",
                     "stopGet", "result", "markFatal", "mcpFail"}
    <2>1. L \subseteq Labels \ OwnerLabels
      BY DEF Labels, OwnerLabels
    <2>2. \E l \in L : \E w : Continue(r, l, w, {})
      BY <1>5 DEF Arrival, HandleMessage, ContinueSession, CloseSession,
           ResultEvent, FatalEvent, McpFailureEvent, EventArrives, Step, Return
    <2> QED BY <1>1, <1>2, <1>3, <2>1, <2>2, Bystander
  <1> QED BY <1>4, <1>5

LEMMA MessageOwners ==
    ASSUME TypeInv, NEW S \in SUBSET Execs, OwnersBut(S), NEW r \in Reqs, MessageStep(r)
    PROVE  OwnersBut(S)'
  <1> DEFINE L == {"storeFirst", "done", "createRow", "readPending", "storeResume",
                   "followupStore", "stopGet", "markInterrupt"}
  <1>1. /\ r \in Proc
        /\ pc[r] \in {"insertSession", "storeFirst", "storeOnly", "storeResume",
                      "followup", "followupStore", "markInterrupt"}
        /\ UNCHANGED <<phase, halted>>
    BY TasksAreProcs
       DEF MessageStep, InsertSession, StoreFirst, StoreOnly, StoreResume, Followup,
           FollowupStore, MarkInterrupt, db
  <1>2. RowsAdvance
    BY <1>1, SameRows
  <1>3. pc[r] # "done" /\ pc[r] \notin OwnerLabels
    BY <1>1 DEF OwnerLabels
  <1>4. L \subseteq Labels \ OwnerLabels
    BY DEF Labels, OwnerLabels
  <1>5. \E l \in L : \E w, C : Continue(r, l, w, C)
    BY DEF MessageStep, InsertSession, StoreFirst, StoreOnly, StoreResume, Followup,
           FollowupStore, MarkInterrupt, Step, Return
  <1> QED BY <1>1, <1>2, <1>3, <1>4, <1>5, Bystander

LEMMA LaunchOwners ==
    ASSUME TypeInv, NEW S \in SUBSET Execs, OwnersBut(S), NEW p \in Proc, LaunchStep(p)
    PROVE  OwnersBut(S)'
  <1>1. pc[p] \in ExecLabels => loc[p].exec \in Execs
    BY DEF TypeInv, ControlOK, LocalsNamed
  <1>2. pc \in [Proc -> Labels] /\ loc \in [Proc -> Locals]
    BY DEF TypeInv, ControlOK
  <1> USE DEF Labels, ExecLabels, OwnerLabels, LaunchLabels, TailLabels
  <1>3. CASE ReadPending(p)
    <2>1. RowsAdvance
      BY <1>3, SameRows DEF ReadPending, db
    <2>2. \E l \in {"ack", "done"} : \E w : Continue(p, l, w, {})
      BY <1>3 DEF ReadPending, Return
    <2> QED BY <1>3, <2>1, <2>2, Bystander DEF ReadPending
  <1>4. CASE AckPending(p)
    BY <1>4, SameRows, StepBystander DEF AckPending
  <1>5. CASE PrepareFail(p)
    BY <1>5, SameRows, StepBystander DEF PrepareFail, db
  <1>6. CASE CreateRow(p)
    <2>1. PICK e \in Execs :
             /\ phase[e] = "none"
             /\ phase' = [phase EXCEPT ![e] = "STARTING"]
             /\ Continue(p, "launch", [loc[p] EXCEPT !.exec = e], {})
      BY <1>6 DEF CreateRow
    <2>2. /\ pc' = [pc EXCEPT ![p] = "launch"]
          /\ loc' = [loc EXCEPT ![p] = [loc[p] EXCEPT !.exec = e]]
          /\ abandoned' = abandoned
      BY <1>2, <2>1 DEF Continue, Switch, Cancelled
    <2>3. loc'[p].exec = e /\ pc'[p] = "launch"
      BY <1>2, <2>2 DEF Locals
    <2>4. \A q \in Proc : q # p => pc'[q] = pc[q] /\ loc'[q] = loc[q]
      BY <1>2, <2>2
    <2>5. pc[Tail(e)] = "done" /\ Tail(e) # p
      BY <1>6, <2>1 DEF OwnersBut, FreshTails, CreateRow
    <2>6. \A q \in Proc : pc[q] \in LaunchLabels => loc[q].exec # e
      BY <2>1 DEF OwnersBut, LaunchersFirst
    <2>7. \A f \in Execs : phase'[f] # "none" <=> f = e \/ phase[f] # "none"
      BY <2>1 DEF TypeInv, DataOK
    <2>8. \A f \in Execs : pc[Tail(f)] = "done" => pc'[Tail(f)] = "done"
      BY <1>6, <2>4, TasksAreProcs DEF CreateRow
    <2>9. \A q \in Proc : pc[q] \in LaunchLabels => loc[q].exec \in Execs
      BY DEF TypeInv, ControlOK, LocalsNamed
    <2>10. TailsOwnTheirs'
      BY <2>3, <2>4 DEF OwnersBut, TailsOwnTheirs
    <2>11. LaunchersSole'
      BY <2>3, <2>4, <2>6 DEF OwnersBut, LaunchersSole
    <2>12. LaunchersFirst'
      BY <2>3, <2>4, <2>5, <2>7, <2>8, <2>9 DEF OwnersBut, LaunchersFirst
    <2>13. FreshTails'
      BY <2>7, <2>8 DEF OwnersBut, FreshTails
    <2>14. OwnedBut(S)'
      <3> SUFFICES ASSUME NEW f \in Execs, phase'[f] # "none", f \notin halted,
                          f \notin abandoned, f \notin S
                   PROVE  \E q \in Proc : pc'[q] \in OwnerLabels /\ loc'[q].exec = f
        BY <1>6, <2>2 DEF OwnedBut, Unhalted, Owns, CreateRow
      <3>1. CASE f = e
        BY <2>3, <3>1
      <3>2. CASE f # e
        <4>1. PICK q \in Proc : pc[q] \in OwnerLabels /\ loc[q].exec = f
          BY <2>7, <3>2 DEF OwnersBut, OwnedBut, Unhalted, Owns
        <4>2. q # p
          BY <1>6, <4>1 DEF CreateRow
        <4> QED BY <2>4, <4>1, <4>2
      <3> QED BY <3>1, <3>2
    <2>15. Waiting(S)'
      BY <2>1, <2>3, <2>4, <2>7, <2>8 DEF OwnersBut, Waiting
    <2> QED BY <2>10, <2>11, <2>12, <2>13, <2>14, <2>15 DEF OwnersBut
  <1>7. ASSUME NEW l \in LaunchLabels, Step(p, l), pc[p] \in LaunchLabels, RowsAdvance
        PROVE  OwnersBut(S)'
    <2>1. KeepsOwnership(p, l, loc[p])
      BY <1>7 DEF KeepsOwnership
    <2> QED BY <1>7, <2>1, ContinueOwners DEF Step
  <1>8. CASE LaunchOk(p)
    BY <1>7, <1>8, SameRows DEF LaunchOk, db
  <1>9. CASE LaunchFail(p)
    BY <1>7, <1>9, SameRows DEF LaunchFail, db
  <1>10. CASE UpdateStatus(p)
    <2>1. loc[p].exec \in Execs /\ phase[loc[p].exec] # "none"
      BY <1>1, <1>10 DEF UpdateStatus, OwnersBut, LaunchersFirst
    <2>2. RowsAdvance
      BY <1>10, <2>1 DEF UpdateStatus, RowsAdvance, TypeInv, DataOK
    <2> QED BY <1>7, <1>10, <2>2 DEF UpdateStatus
  <1>11. CASE StartTail(p)
    <2> DEFINE e == loc[p].exec
               t == Tail(e)
    <2>1. /\ e \in Execs /\ t \in Proc /\ pc[p] = "startTail"
          /\ phase[e] # "none" /\ pc[t] = "done" /\ t # p
      BY <1>1, <1>11, TasksAreProcs DEF StartTail, OwnersBut, LaunchersFirst
    <2>2. /\ pc'[p] \in {"ackFirst", "activate"}
          /\ pc'[t] = "logs" /\ loc'[t].exec = e
          /\ \A q \in Proc : q # p /\ q # t => pc'[q] = pc[q] /\ loc'[q] = loc[q]
      BY <1>2, <1>11, <2>1 DEF StartTail, NoLocals
    <2>3. UNCHANGED <<phase, halted, abandoned>>
      BY <1>11 DEF StartTail, db, history
    <2>4. \A f \in Execs : f # e /\ pc[Tail(f)] = "done" => pc'[Tail(f)] = "done"
      BY <2>1, <2>2, TailsDiffer, TasksAreProcs
    <2>5. TailsOwnTheirs'
      BY <2>1, <2>2 DEF OwnersBut, TailsOwnTheirs
    <2>6. LaunchersSole'
      BY <2>1, <2>2 DEF OwnersBut, LaunchersSole
    <2>7. LaunchersFirst'
      <3> SUFFICES ASSUME NEW q \in Proc, pc'[q] \in LaunchLabels
                   PROVE  /\ phase[loc'[q].exec] # "none"
                          /\ pc'[Tail(loc'[q].exec)] = "done"
        BY <2>3 DEF LaunchersFirst
      <3>1. /\ pc[q] \in LaunchLabels /\ loc'[q] = loc[q] /\ q # p
            /\ loc[q].exec \in Execs
        BY <2>1, <2>2 DEF TypeInv, ControlOK, LocalsNamed
      <3>2. loc[q].exec # e
        BY <2>1, <3>1 DEF OwnersBut, LaunchersSole
      <3> QED BY <2>4, <3>1, <3>2 DEF OwnersBut, LaunchersFirst
    <2>8. FreshTails'
      BY <2>1, <2>3, <2>4 DEF OwnersBut, FreshTails
    <2>9. OwnedBut(S)'
      <3> SUFFICES ASSUME NEW f \in Unhalted, f \notin abandoned, f \notin S
                   PROVE  \E q \in Proc : pc'[q] \in OwnerLabels /\ loc'[q].exec = f
        BY <2>3 DEF OwnedBut, Unhalted, Owns
      <3>1. PICK q \in Proc : pc[q] \in OwnerLabels /\ loc[q].exec = f
        BY DEF OwnersBut, OwnedBut, Owns
      <3>2. CASE f = e
        BY <2>1, <2>2, <3>2
      <3>3. CASE f # e
        BY <2>1, <2>2, <3>1, <3>3
      <3> QED BY <3>2, <3>3
    <2>10. Waiting(S)'
      <3>1. e \notin S
        BY <2>1 DEF OwnersBut, Waiting
      <3> QED BY <2>1, <2>2, <2>3, <2>4, <3>1 DEF OwnersBut, Waiting
    <2> QED BY <2>5, <2>6, <2>7, <2>8, <2>9, <2>10 DEF OwnersBut
  <1>12. CASE AckFirst(p)
    BY <1>12, SameRows, StepBystander DEF AckFirst
  <1>13. CASE Activate(p)
    BY <1>13, SameRows, ReturnBystander DEF Activate
  <1>14. CASE HaltFailed(p)
    <2>1. RowsAdvance /\ loc[p].exec \in halted'
      BY <1>1, <1>14, HaltedRows DEF HaltFailed
    <2>2. KeepsOwnership(p, "markFailed", loc[p])
      BY <1>14, <2>1 DEF HaltFailed, KeepsOwnership
    <2> QED BY <1>14, <2>1, <2>2, ContinueOwners DEF HaltFailed, Step
  <1>15. CASE MarkFailed(p)
    BY <1>15, SameRows, StepBystander DEF MarkFailed
  <1>16. CASE LaunchError(p)
    BY <1>16, SameRows, StepBystander, ReturnBystander DEF LaunchError
  <1> QED
    BY <1>3, <1>4, <1>5, <1>6, <1>8, <1>9, <1>10, <1>11, <1>12, <1>13, <1>14,
       <1>15, <1>16 DEF LaunchStep

LEMMA StopOwners ==
    ASSUME TypeInv, NEW S \in SUBSET Execs, OwnersBut(S), NEW p \in Proc, StopStep(p)
    PROVE  OwnersBut(S)'
  <1>1. pc[p] \in ExecLabels => loc[p].exec \in Execs
    BY DEF TypeInv, ControlOK, LocalsNamed
  <1> USE DEF Labels, ExecLabels, OwnerLabels
  <1>2. CASE StopGet(p)
    BY <1>2, SameRows, StopTargetBystander DEF StopGet, db
  <1>3. CASE StopRequest(p)
    BY <1>3, SameRows, StepBystander DEF StopRequest, db
  <1>4. CASE StopCheck(p)
    BY <1>4, SameRows, StepBystander, ReturnBystander DEF StopCheck, db
  <1>5. CASE StopDelete(p)
    BY <1>5, SameRows, StepBystander DEF StopDelete, db
  <1>6. CASE DrainDone(p)
    BY <1>6, SameRows, StepBystander DEF DrainDone, db
  <1>7. CASE DrainExpire(p)
    <2>1. loc[p].exec \in Execs /\ {Tail(loc[p].exec)} \subseteq Proc
      BY <1>1, <1>7, TasksAreProcs DEF DrainExpire
    <2>2. RowsAdvance /\ KeepsOwnership(p, "stopRecheck", loc[p])
      BY <1>7, SameRows DEF DrainExpire, db, KeepsOwnership, LaunchLabels, TailLabels
    <2> QED BY <1>7, <2>1, <2>2, MoveOwners DEF DrainExpire
  <1>8. CASE StopRecheck(p)
    BY <1>8, SameRows, StepBystander, ReturnBystander DEF StopRecheck, db
  <1>9. CASE StopHalt(p)
    BY <1>1, <1>9, HaltedRows, StepBystander DEF StopHalt
  <1>10. CASE StopClear(p)
    BY <1>10, SameRows, RestartBystander DEF StopClear
  <1>11. CASE Settle(p)
    BY <1>11, SameRows, ReturnBystander DEF Settle
  <1> QED
    BY <1>2, <1>3, <1>4, <1>5, <1>6, <1>7, <1>8, <1>9, <1>10, <1>11 DEF StopStep

LEMMA TailOwners ==
    ASSUME TypeInv, NEW S \in SUBSET Execs, OwnersBut(S),
           NEW e \in Execs, TailStep(e) \/ IdleFire(e)
    PROVE  OwnersBut(S)'
  <1>1. Tail(e) \in Proc /\ Idle(e) \in Proc
    BY TasksAreProcs
  <1>2. pc[Tail(e)] \in TailLabels => loc[Tail(e)].exec = e
    BY <1>1, TailsDiffer DEF OwnersBut, TailsOwnTheirs
  <1> USE DEF Labels, OwnerLabels, TailLabels, LaunchLabels
  <1>3. CASE TailEnd(e)
    <2> DEFINE v == [loc[Tail(e)] EXCEPT !.req = stopReq[e]]
    <2>1. v.exec = loc[Tail(e)].exec
      BY <1>1 DEF TypeInv, ControlOK, Locals
    <2>2. RowsAdvance /\ KeepsOwnership(Tail(e), "tailHalt", v)
      BY <1>3, <2>1, SameRows DEF TailEnd, db, KeepsOwnership
    <2> QED BY <1>1, <1>3, <2>2, ContinueOwners DEF TailEnd
  <1>4. CASE TailHalt(e)
    <2>1. RowsAdvance /\ loc[Tail(e)].exec \in halted'
      BY <1>2, <1>4, HaltedRows DEF TailHalt
    <2>2. KeepsOwnership(Tail(e), "tailClean", loc[Tail(e)])
      BY <1>4, <2>1 DEF TailHalt, KeepsOwnership
    <2> QED BY <1>1, <1>4, <2>1, <2>2, ContinueOwners DEF TailHalt, Step
  <1>5. CASE TailClean(e)
    BY <1>1, <1>5, SameRows, RestartBystander DEF TailClean
  <1>6. CASE TailFail(e)
    <2>1. RowsAdvance /\ KeepsOwnership(Tail(e), "tailErrHalt", loc[Tail(e)])
      BY <1>6, SameRows DEF TailFail, db, KeepsOwnership
    <2> QED BY <1>1, <1>6, <2>1, ContinueOwners DEF TailFail, Step
  <1>7. CASE TailErrHalt(e)
    <2>1. RowsAdvance /\ loc[Tail(e)].exec \in halted'
      BY <1>2, <1>7, HaltedRows DEF TailErrHalt
    <2>2. KeepsOwnership(Tail(e), "tailErrState", loc[Tail(e)])
      BY <1>7, <2>1 DEF TailErrHalt, KeepsOwnership
    <2> QED BY <1>1, <1>7, <2>1, <2>2, ContinueOwners DEF TailErrHalt, Step
  <1>8. CASE TailErrState(e)
    BY <1>1, <1>8, SameRows, StepBystander DEF TailErrState
  <1>9. CASE TailErrClear(e)
    BY <1>1, <1>9, SameRows, Bystander DEF TailErrClear, db
  <1>10. CASE IdleFire(e)
    BY <1>1, <1>10, SameRows, Bystander, ReturnBystander DEF IdleFire, db
  <1> QED
    BY <1>3, <1>4, <1>5, <1>6, <1>7, <1>8, <1>9, <1>10 DEF TailStep

(* Arming the timer starts the idle task of e, cancelling the old one.     *)
LEMMA ArmOwners ==
    ASSUME TypeInv, NEW S \in SUBSET Execs, OwnersBut(S), NEW r \in Reqs, ArmIdleStop(r)
    PROVE  OwnersBut(S)'
  <1> DEFINE e == loc[r].exec
             i == Idle(e)
             free == e \in idleReg \/ pc[i] = "done"
  <1> USE DEF LaunchLabels, TailLabels
  <1>1. r \in Proc /\ e \in Execs /\ i \in Proc /\ pc[r] = "result"
    BY TasksAreProcs DEF ArmIdleStop, TypeInv, ControlOK, LocalsNamed, ExecLabels
  <1>2. /\ pc' = [pc EXCEPT ![r] = "done", ![i] = IF free THEN "sleep" ELSE @]
        /\ loc' = [loc EXCEPT ![r] = NoLocals,
                              ![i] = IF free THEN NoLocals ELSE @]
        /\ Cancelled({Idle(f) : f \in idleReg \cap {e}})
        /\ UNCHANGED <<phase, halted>>
    BY DEF ArmIdleStop, db
  <1>3. /\ pc'[r] \in {"done", "sleep"}
        /\ free => pc'[i] = "sleep"
        /\ ~free /\ i # r => pc'[i] = pc[i] /\ loc'[i] = loc[i]
        /\ \A q \in Proc : q # r /\ q # i => pc'[q] = pc[q] /\ loc'[q] = loc[q]
    BY <1>1, <1>2 DEF TypeInv, ControlOK
  <1>4. \A q \in Proc : pc'[q] \in OwnerLabels =>
           pc[q] = pc'[q] /\ loc'[q] = loc[q]
    BY <1>1, <1>3 DEF OwnerLabels
  <1>5. \A f \in Execs : pc[Tail(f)] = "done" => pc'[Tail(f)] = "done"
    BY <1>1, <1>3, TailsDiffer, TasksAreProcs
  <1>6. TailsOwnTheirs' /\ LaunchersSole'
    BY <1>4, OwnerKinds DEF OwnersBut, TailsOwnTheirs, LaunchersSole
  <1>7. LaunchersFirst'
    <2> SUFFICES ASSUME NEW q \in Proc, pc'[q] \in LaunchLabels
                 PROVE  /\ phase[loc'[q].exec] # "none"
                        /\ pc'[Tail(loc'[q].exec)] = "done"
      BY <1>2 DEF LaunchersFirst
    <2>1. pc[q] \in LaunchLabels /\ loc'[q] = loc[q] /\ loc[q].exec \in Execs
      BY <1>4, OwnerKinds DEF TypeInv, ControlOK, LocalsNamed, ExecLabels
    <2> QED BY <1>5, <2>1 DEF OwnersBut, LaunchersFirst
  <1>8. FreshTails'
    BY <1>2, <1>5 DEF OwnersBut, FreshTails
  <1>9. OwnedBut(S)'
    <2> SUFFICES ASSUME NEW f \in Unhalted, f \notin abandoned', f \notin S
                 PROVE  \E q \in Proc : pc'[q] \in OwnerLabels /\ loc'[q].exec = f
      BY <1>2 DEF OwnedBut, Unhalted, Owns
    <2>1. PICK q \in Proc : pc[q] \in OwnerLabels /\ loc[q].exec = f
      BY <1>2 DEF OwnersBut, OwnedBut, Owns, Cancelled
    <2>2. q # r /\ pc[q] # "done"
      BY <1>1, <2>1 DEF OwnerLabels
    <2>3. q = i => ~free
      BY <1>1, <1>2, <2>1, <2>2 DEF Cancelled
    <2> QED BY <1>3, <2>1, <2>2, <2>3
  <1>10. Waiting(S)'
    <2>1. \A q \in Proc : pc'[q] \in LaunchLabels =>
             pc[q] \in LaunchLabels /\ loc'[q].exec = loc[q].exec
      BY <1>4, OwnerKinds
    <2>2. phase' = phase
      BY <1>2
    <2> QED BY <1>5, <2>1, <2>2 DEF OwnersBut, Waiting
  <1> QED BY <1>6, <1>7, <1>8, <1>9, <1>10 DEF OwnersBut

LEMMA EventOwners ==
    ASSUME TypeInv, NEW S \in SUBSET Execs, OwnersBut(S), NEW r \in Reqs, EventStep(r)
    PROVE  OwnersBut(S)'
  <1>1. r \in Proc /\ (pc[r] \in ExecLabels => loc[r].exec \in Execs)
    BY TasksAreProcs DEF TypeInv, ControlOK, LocalsNamed
  <1> USE DEF Labels, ExecLabels, OwnerLabels
  <1>2. CASE InterruptAtResult(r)
    BY <1>1, <1>2, SameRows, StopTargetBystander DEF InterruptAtResult, db
  <1>3. CASE ArmIdleStop(r)
    BY <1>3, ArmOwners
  <1>4. CASE MarkFatal(r)
    BY <1>1, <1>4, SameRows, ReturnBystander DEF MarkFatal, db
  <1>5. CASE McpCancelTail(r)
    <2>1. loc[r].exec \in Execs /\ {Tail(loc[r].exec)} \subseteq Proc
      BY <1>1, <1>5, TasksAreProcs DEF McpCancelTail
    <2>2. RowsAdvance /\ KeepsOwnership(r, "mcpDelete", loc[r])
      BY <1>5, SameRows DEF McpCancelTail, db, KeepsOwnership, LaunchLabels, TailLabels
    <2> QED BY <1>1, <1>5, <2>1, <2>2, MoveOwners DEF McpCancelTail
  <1>6. CASE McpDelete(r)
    BY <1>1, <1>6, HaltedRows, Bystander DEF McpDelete
  <1>7. CASE McpError(r)
    BY <1>1, <1>7, SameRows, ReturnBystander DEF McpError
  <1> QED
    BY <1>2, <1>3, <1>4, <1>5, <1>6, <1>7 DEF EventStep

LEMMA StutterOwners ==
    ASSUME NEW S \in SUBSET Execs, OwnersBut(S), UNCHANGED <<db, control>>
    PROVE  OwnersBut(S)'
  BY DEF OwnersBut, TailsOwnTheirs, LaunchersSole, LaunchersFirst, FreshTails,
         Waiting, OwnedBut, Unhalted, Owns, db, control, history

LEMMA OwnStep ==
    ASSUME TypeInv, NEW S \in SUBSET Execs, OwnersBut(S), [Next]_vars
    PROVE  OwnersBut(S)'
  <1>1. CASE \E r \in Reqs : Arrival(r) \/ MessageStep(r) \/ EventStep(r)
    BY <1>1, ArrivalOwners, MessageOwners, EventOwners
  <1>2. CASE \E p \in Proc : LaunchStep(p) \/ StopStep(p)
    BY <1>2, LaunchOwners, StopOwners
  <1>3. CASE \E e \in Execs : TailStep(e) \/ IdleFire(e)
    BY <1>3, TailOwners
  <1>4. CASE (\E e \in Execs : DockerStep(e)) \/ WorkerExit
    <2>1. UNCHANGED <<db, control>>
      BY <1>4 DEF DockerStep, DockerEvict, DockerRun, DockerFail, WorkerExit
    <2> QED BY <2>1, StutterOwners
  <1>5. CASE UNCHANGED vars
    BY <1>5, StutterOwners DEF vars
  <1> QED BY <1>1, <1>2, <1>3, <1>4, <1>5 DEF Next

THEOREM OwnersInvariant == Spec => [](TypeInv /\ OwnInv)
  <1>1. Init => TypeInv /\ OwnInv
    BY InitTypes, InitOwners
  <1>2. TypeInv /\ OwnInv /\ [Next]_vars => (TypeInv /\ OwnInv)'
    BY TypeStep, OwnStep DEF OwnInv
  <1> QED BY <1>1, <1>2, PTL DEF Spec

(* An execution that is not halted has a coroutine that will halt it,      *)
(* unless that coroutine was cancelled: whatever the number of requests,   *)
(* whoever cancels, stops, fails or interrupts.                            *)
THEOREM EveryExecutionOwned == Spec => []ExecutionsOwned
  <1>1. TypeInv /\ OwnInv => ExecutionsOwned
    BY DEF OwnInv, OwnersBut, OwnedBut, ExecutionsOwned
  <1> QED BY <1>1, OwnersInvariant, PTL

(* No execution has two owners: it is launched once and tailed once.       *)
THEOREM NoSharedExecution == Spec => []SoleOwner
  <1>1. TypeInv /\ OwnInv => SoleOwner
    BY OwnersAreSole DEF OwnInv
  <1> QED BY <1>1, OwnersInvariant, PTL

-----------------------------------------------------------------------------
(* ClosedIsFinal.  At rest nobody owns an execution, so that none is       *)
(* active, and what arrives at a closed session without an active          *)
(* execution starts nothing.                                               *)

RestsClosed ==
    /\ sess = "CLOSED" /\ NoneActive
    /\ \A p \in Proc : pc[p] \in {"start", "storeOnly", "done"}

LEMMA ReturnRests ==
    ASSUME RestsClosed, NEW p \in Proc, NEW l \in {"storeOnly", "done"}, NEW v, NEW C,
           Continue(p, l, v, C)
    PROVE  \A q \in Proc : pc'[q] \in {"start", "storeOnly", "done"}
  BY DEF RestsClosed, Continue, Switch

LEMMA RestStep ==
    ASSUME RestsClosed, [Next]_vars
    PROVE  RestsClosed'
  <1>1. \A e \in Execs : ~IsActive(e)
    BY DEF RestsClosed, NoneActive, IsActive
  <1>2. \A p \in Proc : pc[p] \in {"start", "storeOnly", "done"}
    BY DEF RestsClosed
  <1>3. ASSUME NEW p \in Proc, NEW l \in {"storeOnly", "done"}, NEW v, NEW C,
               Continue(p, l, v, C), UNCHANGED <<sess, phase, halted>>
        PROVE  RestsClosed'
    BY <1>3, ReturnRests DEF RestsClosed, NoneActive, Unhalted
  <1>4. ASSUME NEW r \in Reqs, Arrival(r)
        PROVE  RestsClosed'
    <2>1. r \in Proc /\ sess = "CLOSED" /\ UNCHANGED <<sess, phase, halted>>
      BY <1>4, TasksAreProcs
         DEF RestsClosed, Arrival, HandleMessage, ContinueSession, StopExecution,
             CloseSession, ResultEvent, FatalEvent, McpFailureEvent, EventArrives, db
    <2>2. CASE HandleMessage(r)
      BY <1>3, <2>1, <2>2 DEF HandleMessage, Step
    <2>3. CASE ContinueSession(r)
      BY <1>3, <2>1, <2>3 DEF ContinueSession, Step
    <2>4. CASE StopExecution(r)
      BY <1>1, <1>3, <2>1, <2>4 DEF StopExecution, StopTarget, NoLocals
    <2>5. CASE CloseSession(r)
      BY <1>3, <2>1, <2>5 DEF CloseSession, Return
    <2>6. CASE ResultEvent(r) \/ FatalEvent(r) \/ McpFailureEvent(r)
      BY <1>1, <1>3, <2>1, <2>6
         DEF ResultEvent, FatalEvent, McpFailureEvent, EventArrives, Return
    <2> QED BY <1>4, <2>2, <2>3, <2>4, <2>5, <2>6 DEF Arrival
  <1>5. ASSUME NEW r \in Reqs, MessageStep(r)
        PROVE  RestsClosed'
    <2>1. r \in Proc /\ StoreOnly(r)
      BY <1>2, <1>5, TasksAreProcs
         DEF MessageStep, InsertSession, StoreFirst, StoreResume, Followup, FollowupStore,
             MarkInterrupt
    <2> QED BY <1>3, <2>1 DEF StoreOnly, Return
  <1>6. ASSUME NEW r \in Reqs PROVE ~EventStep(r)
    BY <1>2, TasksAreProcs
       DEF EventStep, InterruptAtResult, ArmIdleStop, MarkFatal, McpCancelTail, McpDelete,
           McpError
  <1>7. ASSUME NEW p \in Proc PROVE ~LaunchStep(p) /\ ~StopStep(p)
    BY <1>2
       DEF LaunchStep, ReadPending, AckPending, PrepareFail, CreateRow, LaunchOk, LaunchFail,
           UpdateStatus, StartTail, AckFirst, Activate, HaltFailed, MarkFailed, LaunchError,
           StopStep, StopGet, StopRequest, StopCheck, StopDelete, DrainDone, DrainExpire,
           StopRecheck, StopHalt, StopClear, Settle
  <1>8. ASSUME NEW e \in Execs PROVE ~TailStep(e) /\ ~IdleFire(e)
    BY <1>2, TasksAreProcs
       DEF TailStep, TailEnd, TailHalt, TailClean, TailFail, TailErrHalt, TailErrState,
           TailErrClear, IdleFire
  <1>9. CASE (\E e \in Execs : DockerStep(e)) \/ WorkerExit \/ UNCHANGED vars
    <2>1. UNCHANGED <<sess, phase, halted, pc>>
      BY <1>9 DEF DockerStep, DockerEvict, DockerRun, DockerFail, WorkerExit, vars, db,
             control
    <2> QED BY <2>1 DEF RestsClosed, NoneActive, Unhalted
  <1> QED BY <1>4, <1>5, <1>6, <1>7, <1>8, <1>9 DEF Next

(* close_session: what is closed while nothing is in flight stays closed,  *)
(* whatever requests, worker events and leftovers of Docker come later,    *)
(* for every number of each.                                               *)
THEOREM ClosedStaysClosed == Spec => ClosedIsFinal
  <1>1. TypeInv /\ OwnInv /\ AtRest /\ sess = "CLOSED" /\ abandoned = {} => RestsClosed
    <2> SUFFICES ASSUME OwnInv, AtRest, sess = "CLOSED", abandoned = {}
                 PROVE  RestsClosed
      OBVIOUS
    <2>1. \A p \in Proc : pc[p] \notin OwnerLabels
      BY DEF AtRest, OwnerLabels
    <2>2. Unhalted = {}
      BY <2>1 DEF OwnInv, OwnersBut, OwnedBut, Owns
    <2> QED BY <2>2 DEF RestsClosed, NoneActive, AtRest
  <1>2. RestsClosed /\ [Next]_vars => RestsClosed'
    BY RestStep
  <1>3. RestsClosed => sess = "CLOSED"
    BY DEF RestsClosed
  <1> QED BY <1>1, <1>2, <1>3, OwnersInvariant, PTL DEF Spec, ClosedIsFinal

-----------------------------------------------------------------------------
(* Workers.  What a step does is one of few kinds: most move a coroutine   *)
(* that owns no execution, and leave launches and tailers alone.           *)

StopLabels == {"stopGet", "stopRequest", "stopCheck", "stopDelete", "drain", "stopRecheck",
               "stopHalt", "stopClear", "sleep", "result", "mcpFail", "mcpDelete"}
(* Who may come to stop an execution that is not its own.                  *)
MayStop(p) == p \in Stops \cup Closes \cup Results \cup McpFailures \/ Policy = "interrupt"

SameDock ==
    /\ docker' = docker
    /\ \/ container' = container /\ up' = up
       \/ container' = NoExec /\ up' = FALSE
RowsStay == \A e \in Execs : phase'[e] = "none" => phase[e] = "none"

(* p moves to l without touching an execution it might own.                *)
Apart(p, l) ==
    /\ pc[p] # "done" /\ pc[p] \notin OwnerLabels
    /\ l \in Labels \ OwnerLabels /\ l # "start"
    /\ SameDock /\ RowsStay
    /\ UNCHANGED <<phase, halted>> \/ pc[p] \in {"stopHalt", "mcpFail", "mcpDelete"}
    /\ l \in StopLabels => pc[p] \in StopLabels \/ MayStop(p)
Aside(p) == \E l, v, Q : Switch(p, l, v, Q) /\ Q \subseteq Proc /\ Apart(p, l)

LEMMA ContinueAside ==
    ASSUME TypeInv, NEW p, NEW l, NEW v, NEW C, Continue(p, l, v, C), Apart(p, l)
    PROVE  Aside(p)
  <1> DEFINE Q == {Idle(e) : e \in C \cap idleReg}
  <1>1. Q \subseteq Proc
    BY TasksAreProcs DEF TypeInv
  <1>2. Switch(p, l, v, Q)
    BY DEF Continue
  <1> QED BY <1>1, <1>2 DEF Aside

LEMMA ArrivalAside ==
    ASSUME TypeInv, NEW r \in Reqs, Arrival(r)
    PROVE  Aside(r)
  <1>1. pc[r] = "start" /\ UNCHANGED <<phase, halted, docker, container, up>>
    BY DEF Arrival, HandleMessage, ContinueSession, StopExecution, CloseSession,
           ResultEvent, FatalEvent, McpFailureEvent, EventArrives, MayBegin, db, dock
  <1>2. ASSUME NEW l \in Labels \ OwnerLabels, NEW v, NEW C, Continue(r, l, v, C),
               l # "start", l \in StopLabels => MayStop(r)
        PROVE  Aside(r)
    <2>1. Apart(r, l)
      BY <1>1, <1>2 DEF Apart, SameDock, RowsStay, OwnerLabels
    <2> QED BY <1>2, <2>1, ContinueAside
  <1>3. {"insertSession", "storeResume", "followup", "storeOnly", "done", "stopGet", "result",
         "markFatal", "mcpFail", "settle", "stopRequest"} \subseteq Labels \ OwnerLabels
    BY DEF Labels, OwnerLabels
  <1>4. CASE HandleMessage(r) \/ ContinueSession(r) \/ FatalEvent(r)
    <2>1. \E l \in {"insertSession", "storeResume", "followup", "storeOnly", "done", "markFatal"} :
             \E v : Continue(r, l, v, {})
      BY <1>4 DEF HandleMessage, ContinueSession, FatalEvent, EventArrives, Step, Return
    <2> QED BY <1>2, <1>3, <2>1 DEF StopLabels
  <1>5. CASE StopExecution(r) \/ CloseSession(r) \/ ResultEvent(r) \/ McpFailureEvent(r)
    <2>1. MayStop(r)
      BY <1>5 DEF StopExecution, CloseSession, ResultEvent, McpFailureEvent, EventArrives,
                  MayStop
    <2>2. \E l \in {"done", "stopGet", "result", "mcpFail", "settle", "stopRequest"} :
             \E v, C : Continue(r, l, v, C)
      BY <1>5 DEF StopExecution, StopTarget, CloseSession, ResultEvent, McpFailureEvent,
                  EventArrives, Return
    <2> QED BY <1>2, <1>3, <2>1, <2>2
  <1> QED BY <1>4, <1>5 DEF Arrival

LEMMA MessageAside ==
    ASSUME TypeInv, NEW r \in Reqs, MessageStep(r)
    PROVE  Aside(r)
  <1>1. /\ pc[r] \in {"insertSession", "storeFirst", "storeOnly", "storeResume", "followup",
                      "followupStore", "markInterrupt"}
        /\ UNCHANGED <<phase, halted, docker, container, up>>
    BY DEF MessageStep, InsertSession, StoreFirst, StoreOnly, StoreResume, Followup,
           FollowupStore, MarkInterrupt, db, dock
  <1>2. \E l \in {"storeFirst", "done", "createRow", "readPending", "storeResume",
                  "followupStore", "stopGet", "markInterrupt"} :
           \E v, C : Continue(r, l, v, C) /\ (l = "stopGet" => Policy = "interrupt")
    BY DEF MessageStep, InsertSession, StoreFirst, StoreOnly, StoreResume, Followup,
           FollowupStore, MarkInterrupt, Step, Return
  <1>3. PICK l \in {"storeFirst", "done", "createRow", "readPending", "storeResume",
                    "followupStore", "stopGet", "markInterrupt"} : \E v, C :
           Continue(r, l, v, C) /\ (l = "stopGet" => Policy = "interrupt")
    BY <1>2
  <1>4. Apart(r, l)
    BY <1>1, <1>3 DEF Apart, SameDock, RowsStay, OwnerLabels, Labels, StopLabels, MayStop
  <1> QED BY <1>3, <1>4, ContinueAside

LEMMA LaunchAside ==
    ASSUME TypeInv, NEW p \in Proc, LaunchStep(p)
    PROVE  \/ Aside(p) \/ CreateRow(p) \/ LaunchOk(p) \/ LaunchFail(p) \/ UpdateStatus(p)
           \/ StartTail(p) \/ HaltFailed(p)
  <1> DEFINE L == {"done", "ack", "createRow", "markFailed", "activate", "launchError", "settle"}
  <1>1. SUFFICES ASSUME \/ ReadPending(p) \/ AckPending(p) \/ PrepareFail(p) \/ AckFirst(p)
                        \/ Activate(p) \/ MarkFailed(p) \/ LaunchError(p)
                 PROVE  Aside(p)
    BY DEF LaunchStep
  <1>2. /\ pc[p] \in {"readPending", "ack", "createRow", "ackFirst", "activate", "markFailed",
                      "launchError"}
        /\ UNCHANGED <<phase, halted, docker, container, up>>
    BY <1>1 DEF ReadPending, AckPending, PrepareFail, AckFirst, Activate, MarkFailed,
                LaunchError, db, dock
  <1>3. PICK l \in L : \E v, C : Continue(p, l, v, C)
    BY <1>1 DEF ReadPending, AckPending, PrepareFail, AckFirst, Activate, MarkFailed,
                LaunchError, Step, Return
  <1>4. Apart(p, l)
    BY <1>2 DEF Apart, SameDock, RowsStay, OwnerLabels, Labels, StopLabels
  <1> QED BY <1>3, <1>4, ContinueAside

LEMMA StopAside ==
    ASSUME TypeInv, NEW p \in Proc, StopStep(p)
    PROVE  Aside(p)
  <1> DEFINE L == {"done", "settle", "stopRequest", "stopCheck", "stopDelete", "drain",
                   "stopRecheck", "stopHalt", "stopClear", "readPending"}
  <1>1. pc[p] \in {"stopGet", "stopRequest", "stopCheck", "stopDelete", "drain", "stopRecheck",
                   "stopHalt", "stopClear", "settle"}
    BY DEF StopStep, StopGet, StopRequest, StopCheck, StopDelete, DrainDone, DrainExpire,
           StopRecheck, StopHalt, StopClear, Settle
  <1>2. SameDock
    BY DEF StopStep, StopGet, StopRequest, StopCheck, StopDelete, DrainDone, DrainExpire,
           StopRecheck, StopHalt, StopClear, Settle, SameDock, dock
  <1>3. RowsStay /\ (UNCHANGED <<phase, halted>> \/ pc[p] = "stopHalt")
    <2>1. CASE StopHalt(p)
      BY <2>1 DEF StopHalt, HaltRow, RowsStay, TypeInv, DataOK
    <2>2. CASE ~StopHalt(p)
      <3>1. UNCHANGED <<phase, halted>>
        BY <2>2 DEF StopStep, StopGet, StopRequest, StopCheck, StopDelete, DrainDone,
                    DrainExpire, StopRecheck, StopClear, Settle, db
      <3> QED BY <3>1 DEF RowsStay
    <2> QED BY <2>1, <2>2
  <1>4. ASSUME NEW l \in L, pc[p] = "settle" => l = "done"
        PROVE  Apart(p, l)
    BY <1>1, <1>2, <1>3, <1>4 DEF Apart, OwnerLabels, Labels, StopLabels
  <1>5. CASE DrainExpire(p)
    <2>1. {Tail(loc[p].exec)} \subseteq Proc
      BY <1>5, TasksAreProcs DEF DrainExpire, TypeInv, ControlOK, LocalsNamed, ExecLabels
    <2>2. Apart(p, "stopRecheck")
      BY <1>4, <1>5 DEF DrainExpire
    <2> QED BY <1>5, <2>1, <2>2 DEF DrainExpire, Aside
  <1>6. CASE ~DrainExpire(p)
    <2>1. \E l \in L : \E v, C : Continue(p, l, v, C) /\ (pc[p] = "settle" => l = "done")
      BY <1>6 DEF StopStep, StopGet, StopTarget, StopRequest, StopCheck, StopDelete,
                  DrainDone, StopRecheck, StopHalt, StopClear, RestartOrSettle, Settle, Step,
                  Return
    <2> QED BY <1>4, <2>1, ContinueAside
  <1> QED BY <1>5, <1>6

LEMMA TailAside ==
    ASSUME TypeInv, NEW e \in Execs, TailStep(e) \/ IdleFire(e)
    PROVE  \/ Aside(Tail(e)) \/ Aside(Idle(e))
           \/ TailEnd(e) \/ TailHalt(e) \/ TailFail(e) \/ TailErrHalt(e)
  <1>1. Tail(e) \in Proc /\ Idle(e) \in Proc
    BY TasksAreProcs
  <1>2. CASE TailClean(e) \/ TailErrState(e) \/ TailErrClear(e)
    <2>1. /\ pc[Tail(e)] \in {"tailClean", "tailErrState", "tailErrClear"}
          /\ UNCHANGED <<phase, halted>>
      BY <1>2 DEF TailClean, TailErrState, TailErrClear, db
    <2>2. SameDock
      BY <1>2 DEF TailClean, TailErrState, TailErrClear, SameDock, dock
    <2>3. PICK l \in {"settle", "readPending", "done", "tailErrClear"} : \E v, C :
             Continue(Tail(e), l, v, C)
      BY <1>2 DEF TailClean, TailErrState, TailErrClear, RestartOrSettle, Step
    <2>4. Apart(Tail(e), l)
      BY <2>1, <2>2 DEF Apart, RowsStay, OwnerLabels, Labels, StopLabels
    <2> QED BY <2>3, <2>4, ContinueAside
  <1>3. CASE IdleFire(e)
    <2>1. pc[Idle(e)] = "sleep" /\ UNCHANGED <<phase, halted, docker, container, up>>
      BY <1>3 DEF IdleFire, db, dock
    <2>2. PICK l \in {"stopGet", "done"} : \E v, C : Continue(Idle(e), l, v, C)
      BY <1>3 DEF IdleFire, Return
    <2>3. Apart(Idle(e), l)
      BY <2>1 DEF Apart, SameDock, RowsStay, OwnerLabels, Labels, StopLabels
    <2> QED BY <2>2, <2>3, ContinueAside
  <1> QED BY <1>2, <1>3 DEF TailStep

LEMMA EventAside ==
    ASSUME TypeInv, NEW r \in Reqs, EventStep(r)
    PROVE  Aside(r) \/ ArmIdleStop(r)
  <1> DEFINE L == {"done", "settle", "stopRequest", "mcpDelete", "mcpError"}
  <1>1. SUFFICES ASSUME ~ArmIdleStop(r) PROVE Aside(r)
    OBVIOUS
  <1>2. pc[r] \in {"result", "markFatal", "mcpFail", "mcpDelete", "mcpError"}
    BY DEF EventStep, InterruptAtResult, ArmIdleStop, MarkFatal, McpCancelTail, McpDelete,
           McpError
  <1>3. SameDock
    BY <1>1 DEF EventStep, InterruptAtResult, MarkFatal, McpCancelTail, McpDelete, McpError,
                SameDock, dock
  <1>4. RowsStay /\ (UNCHANGED <<phase, halted>> \/ pc[r] \in {"mcpFail", "mcpDelete"})
    <2>1. CASE McpDelete(r)
      BY <2>1 DEF McpDelete, HaltRow, RowsStay, TypeInv, DataOK
    <2>2. CASE ~McpDelete(r)
      <3>1. UNCHANGED <<phase, halted>>
        BY <1>1, <2>2 DEF EventStep, InterruptAtResult, MarkFatal, McpCancelTail, McpError, db
      <3> QED BY <3>1 DEF RowsStay
    <2> QED BY <2>1, <2>2
  <1>5. ASSUME NEW l \in L, pc[r] \in {"markFatal", "mcpError"} => l = "done"
        PROVE  Apart(r, l)
    BY <1>2, <1>3, <1>4, <1>5 DEF Apart, OwnerLabels, Labels, StopLabels
  <1>6. CASE McpCancelTail(r)
    <2>1. {Tail(loc[r].exec)} \subseteq Proc
      BY <1>6, TasksAreProcs DEF McpCancelTail, TypeInv, ControlOK, LocalsNamed, ExecLabels
    <2>2. Apart(r, "mcpDelete")
      BY <1>5, <1>6 DEF McpCancelTail
    <2> QED BY <1>6, <2>1, <2>2 DEF McpCancelTail, Aside
  <1>7. CASE ~McpCancelTail(r)
    <2>1. \E l \in L : \E v, C :
             Continue(r, l, v, C) /\ (pc[r] \in {"markFatal", "mcpError"} => l = "done")
      BY <1>1, <1>7 DEF EventStep, InterruptAtResult, StopTarget, MarkFatal, McpDelete,
                        McpError, Return
    <2> QED BY <1>5, <2>1, ContinueAside
  <1> QED BY <1>6, <1>7

LEMMA StepKinds ==
    ASSUME TypeInv, [Next]_vars
    PROVE  \/ \E p \in Proc :
                 \/ Aside(p) \/ CreateRow(p) \/ LaunchOk(p) \/ LaunchFail(p)
                 \/ UpdateStatus(p) \/ StartTail(p) \/ HaltFailed(p)
           \/ \E e \in Execs :
                 TailEnd(e) \/ TailHalt(e) \/ TailFail(e) \/ TailErrHalt(e) \/ DockerStep(e)
           \/ \E r \in Reqs : ArmIdleStop(r)
           \/ WorkerExit \/ UNCHANGED vars
  BY ArrivalAside, MessageAside, LaunchAside, StopAside, TailAside, EventAside, TasksAreProcs
     DEF Next

(* Requests start once; tasks are scheduled without a start.               *)
StartsAreRequests == \A p \in Proc : pc[p] = "start" => p \in Reqs

LEMMA StartsStep ==
    ASSUME TypeInv, StartsAreRequests, [Next]_vars
    PROVE  StartsAreRequests'
  <1>1. SUFFICES \A p \in Proc : pc'[p] = "start" => pc[p] = "start"
    BY DEF StartsAreRequests
  <1>2. pc \in [Proc -> Labels]
    BY DEF TypeInv, ControlOK
  <1>3. ASSUME NEW p \in Proc, NEW l \in Labels \ {"start"}, NEW v, NEW Q, Switch(p, l, v, Q)
        PROVE  \A q \in Proc : pc'[q] = "start" => pc[q] = "start"
    BY <1>3 DEF Switch
  <1>4. ASSUME NEW p \in Proc, NEW l \in Labels \ {"start"}, NEW v, NEW C, Continue(p, l, v, C)
        PROVE  \A q \in Proc : pc'[q] = "start" => pc[q] = "start"
    BY <1>3, <1>4 DEF Continue
  <1>5. {"launch", "status", "startTail", "haltFailed", "markFailed", "tailHalt", "tailClean",
         "tailErrHalt", "tailErrState"} \subseteq Labels \ {"start"}
    BY DEF Labels
  <1>6. ASSUME NEW p \in Proc, Aside(p)
        PROVE  \A q \in Proc : pc'[q] = "start" => pc[q] = "start"
    BY <1>3, <1>6 DEF Aside, Apart
  <1>7. ASSUME NEW p \in Proc,
               CreateRow(p) \/ LaunchOk(p) \/ LaunchFail(p) \/ UpdateStatus(p) \/ HaltFailed(p)
        PROVE  \A q \in Proc : pc'[q] = "start" => pc[q] = "start"
    BY <1>4, <1>5, <1>7 DEF CreateRow, LaunchOk, LaunchFail, UpdateStatus, HaltFailed, Step
  <1>8. ASSUME NEW p \in Proc, StartTail(p)
        PROVE  \A q \in Proc : pc'[q] = "start" => pc[q] = "start"
    BY <1>2, <1>8 DEF StartTail
  <1>9. ASSUME NEW e \in Execs, TailEnd(e) \/ TailHalt(e) \/ TailFail(e) \/ TailErrHalt(e)
        PROVE  \A q \in Proc : pc'[q] = "start" => pc[q] = "start"
    BY <1>4, <1>5, <1>9, TasksAreProcs DEF TailEnd, TailHalt, TailFail, TailErrHalt, Step
  <1>10. ASSUME NEW r \in Reqs, ArmIdleStop(r)
         PROVE  \A q \in Proc : pc'[q] = "start" => pc[q] = "start"
    BY <1>2, <1>10 DEF ArmIdleStop
  <1>11. CASE (\E e \in Execs : DockerStep(e)) \/ WorkerExit \/ UNCHANGED vars
    BY <1>11 DEF DockerStep, DockerEvict, DockerRun, DockerFail, WorkerExit, vars, control
  <1> QED BY <1>6, <1>7, <1>8, <1>9, <1>10, <1>11, StepKinds

(* Without launch and log faults a coroutine lets go of an execution only  *)
(* when no worker of it runs nor will.                                     *)
Launching == {"submitted", "retrying"}
NoWorker(e) == docker[e] \notin Launching /\ ~(up /\ container = e)

ReleasesDead == \A p \in Proc : pc[p] \in {"haltFailed", "tailHalt"} => NoWorker(loc[p].exec)
LaunchedFirst ==
    \A p \in Proc : pc[p] \in {"status", "startTail", "logs"} =>
        docker[loc[p].exec] \notin Launching
NoTailErrors == \A p \in Proc : pc[p] # "tailErrHalt"
ContainerRan == container # NoExec => docker[container] = "ran"
RowsFirst == \A e \in Execs : phase[e] = "none" => docker[e] = "none"

DockInv == ReleasesDead /\ LaunchedFirst /\ NoTailErrors /\ ContainerRan /\ RowsFirst

LEMMA MoveDock ==
    ASSUME TypeInv, DockInv, NEW p \in Proc, NEW l \in Labels \ {"tailErrHalt"}, NEW v, NEW Q,
           Switch(p, l, v, Q), SameDock, RowsStay,
           l \in {"haltFailed", "tailHalt"} => NoWorker(v.exec),
           l \in {"status", "startTail", "logs"} => docker[v.exec] \notin Launching
    PROVE  DockInv'
  <1>1. \A q \in Proc :
           \/ pc'[q] = l /\ loc'[q] = v
           \/ pc'[q] = "done"
           \/ pc'[q] = pc[q] /\ loc'[q] = loc[q]
    BY DEF Switch
  <1>2. \A e : NoWorker(e) => NoWorker(e)'
    BY DEF NoWorker, SameDock
  <1>3. ReleasesDead' /\ NoTailErrors'
    BY <1>1, <1>2 DEF DockInv, ReleasesDead, NoTailErrors
  <1>4. LaunchedFirst'
    BY <1>1 DEF DockInv, LaunchedFirst, SameDock
  <1>5. ContainerRan' /\ RowsFirst'
    BY DEF DockInv, ContainerRan, RowsFirst, SameDock, RowsStay
  <1> QED BY <1>3, <1>4, <1>5 DEF DockInv

LEMMA StepDock ==
    ASSUME TypeInv, DockInv, NEW p \in Proc, NEW l \in Labels \ {"tailErrHalt"}, Step(p, l),
           UNCHANGED <<docker, container, up>>, RowsStay,
           l \in {"haltFailed", "tailHalt"} => NoWorker(loc[p].exec),
           l \in {"status", "startTail", "logs"} => docker[loc[p].exec] \notin Launching
    PROVE  DockInv'
  BY MoveDock DEF Step, Continue, SameDock

(* The worker of an execution is not run before there is a row; the row's  *)
(* owner, its launcher and then its tailer, comes after.                   *)
LEMMA OwnedRows ==
    ASSUME TypeInv, NEW S \in SUBSET Execs, OwnersBut(S), NEW p \in Proc, pc[p] \in OwnerLabels
    PROVE  loc[p].exec \in Execs /\ phase[loc[p].exec] # "none"
  <1>1. loc[p].exec \in Execs
    BY DEF TypeInv, ControlOK, LocalsNamed, ExecLabels
  <1>2. CASE pc[p] \in LaunchLabels
    BY <1>1, <1>2 DEF OwnersBut, LaunchersFirst
  <1>3. CASE pc[p] \in TailLabels
    <2>1. p = Tail(loc[p].exec) /\ pc[p] # "done"
      BY <1>3 DEF OwnersBut, TailsOwnTheirs, TailLabels
    <2> QED BY <1>1, <2>1 DEF OwnersBut, FreshTails
  <1> QED BY <1>2, <1>3, OwnerKinds

LEMMA DockStep ==
    ASSUME TypeInv, NEW S \in SUBSET Execs, OwnersBut(S), DockInv, ~LaunchFaults, ~TailFaults,
           [Next]_vars
    PROVE  DockInv'
  <1>0. /\ pc \in [Proc -> Labels] /\ loc \in [Proc -> Locals]
        /\ docker \in [Execs -> DockerStates] /\ container \in Execs \cup {NoExec}
        /\ phase \in [Execs -> Phases]
    BY DEF TypeInv, ControlOK, DataOK
  <1>1. ASSUME NEW p \in Proc, Aside(p) PROVE DockInv'
    <2>1. PICK l, v, Q : Switch(p, l, v, Q) /\ Apart(p, l)
      BY <1>1 DEF Aside
    <2>2. /\ l \in Labels \ {"tailErrHalt"} /\ SameDock /\ RowsStay
          /\ l \notin {"haltFailed", "tailHalt", "status", "startTail", "logs"}
      BY <2>1 DEF Apart, OwnerLabels
    <2> QED BY <2>1, <2>2, MoveDock
  <1>2. ASSUME NEW p \in Proc, CreateRow(p) PROVE DockInv'
    <2>1. PICK e \in Execs :
             /\ phase[e] = "none"
             /\ phase' = [phase EXCEPT ![e] = "STARTING"]
             /\ docker' = [docker EXCEPT ![e] = "submitted"]
             /\ Continue(p, "launch", [loc[p] EXCEPT !.exec = e], {})
      BY <1>2 DEF CreateRow
    <2>2. /\ container' = container /\ up' = up
          /\ container # e
      <3>1. container' = container /\ up' = up
        BY <1>2 DEF CreateRow
      <3>2. e # NoExec
        BY DEF Execs, NoExec
      <3> QED BY <2>1, <3>1, <3>2 DEF DockInv, ContainerRan, RowsFirst
    <2>3. \A q \in Proc :
             \/ q = p /\ pc'[q] = "launch"
             \/ pc'[q] = pc[q] /\ loc'[q] = loc[q]
      BY <1>0, <2>1 DEF Continue, Switch
    <2>4. \A q \in Proc : pc'[q] \in OwnerLabels /\ pc'[q] # "launch" =>
             pc'[q] = pc[q] /\ loc'[q] = loc[q] /\ loc[q].exec \in Execs /\ loc[q].exec # e
      BY <2>1, <2>3, OwnedRows
    <2>5. \A f \in Execs \ {e} : docker'[f] = docker[f] /\ phase'[f] = phase[f]
      BY <1>0, <2>1
    <2>6. ReleasesDead' /\ LaunchedFirst' /\ NoTailErrors'
      BY <2>2, <2>4, <2>5
         DEF DockInv, ReleasesDead, LaunchedFirst, NoTailErrors, NoWorker, OwnerLabels
    <2>7. ContainerRan'
      BY <1>0, <2>2, <2>5 DEF DockInv, ContainerRan
    <2>8. RowsFirst'
      BY <1>0, <2>1, <2>5 DEF DockInv, RowsFirst
    <2> QED BY <2>6, <2>7, <2>8 DEF DockInv
  <1>3. ASSUME NEW p \in Proc, LaunchOk(p) PROVE DockInv'
    <2>1. docker[loc[p].exec] \notin Launching /\ UNCHANGED <<phase, docker, container, up>>
      BY <1>3 DEF LaunchOk, Launching, db, dock
    <2>2. "status" \in Labels \ {"tailErrHalt"} /\ Step(p, "status")
      BY <1>3 DEF LaunchOk, Labels
    <2> QED BY <2>1, <2>2, StepDock DEF RowsStay
  <1>4. ASSUME NEW p \in Proc, LaunchFail(p) PROVE DockInv'
    <2>1. loc[p].exec \in Execs /\ UNCHANGED <<phase, docker, container, up>>
      BY <1>4, OwnedRows DEF LaunchFail, OwnerLabels, db, dock
    <2>2. NoWorker(loc[p].exec)
      BY <1>4, <2>1 DEF LaunchFail, NoWorker, Launching, DockInv, ContainerRan, Execs, NoExec
    <2>3. "haltFailed" \in Labels \ {"tailErrHalt"} /\ Step(p, "haltFailed")
      BY <1>4 DEF LaunchFail, Labels
    <2> QED BY <2>1, <2>2, <2>3, StepDock DEF RowsStay
  <1>5. ASSUME NEW p \in Proc, UpdateStatus(p) PROVE DockInv'
    <2>1. docker[loc[p].exec] \notin Launching /\ UNCHANGED <<docker, container, up>>
      BY <1>5 DEF UpdateStatus, DockInv, LaunchedFirst, dock
    <2>2. "startTail" \in Labels \ {"tailErrHalt"} /\ Step(p, "startTail") /\ RowsStay
      BY <1>0, <1>5 DEF UpdateStatus, Labels, RowsStay
    <2> QED BY <2>1, <2>2, StepDock
  <1>6. ASSUME NEW p \in Proc, StartTail(p) PROVE DockInv'
    <2>1. loc[p].exec \in Execs /\ docker[loc[p].exec] \notin Launching
      BY <1>6, OwnedRows DEF StartTail, OwnerLabels, DockInv, LaunchedFirst
    <2>2. UNCHANGED <<phase, docker, container, up>>
      BY <1>6 DEF StartTail, db, dock
    <2>3. \A q \in Proc :
             \/ pc'[q] \in {"ackFirst", "activate"}
             \/ pc'[q] = "logs" /\ loc'[q].exec = loc[p].exec
             \/ pc'[q] = pc[q] /\ loc'[q] = loc[q]
      BY <1>0, <1>6, <2>1, TasksAreProcs DEF StartTail, NoLocals
    <2>4. ReleasesDead' /\ LaunchedFirst' /\ NoTailErrors'
      BY <2>1, <2>2, <2>3 DEF DockInv, ReleasesDead, LaunchedFirst, NoTailErrors, NoWorker
    <2> QED BY <2>2, <2>4 DEF DockInv, ContainerRan, RowsFirst
  <1>7. ASSUME NEW p \in Proc, HaltFailed(p) PROVE DockInv'
    <2>1. "markFailed" \in Labels \ {"tailErrHalt"} /\ Step(p, "markFailed")
      BY <1>7 DEF HaltFailed, Labels
    <2>2. UNCHANGED <<docker, container, up>> /\ RowsStay
      BY <1>0, <1>7 DEF HaltFailed, HaltRow, RowsStay, dock
    <2> QED BY <2>1, <2>2, StepDock
  <1>8. ASSUME NEW e \in Execs, TailEnd(e) PROVE DockInv'
    <2> DEFINE v == [loc[Tail(e)] EXCEPT !.req = stopReq[e]]
    <2>1. /\ Tail(e) \in Proc /\ v.exec = loc[Tail(e)].exec
          /\ Continue(Tail(e), "tailHalt", v, {})
          /\ UNCHANGED <<phase, docker, container, up>>
      BY <1>0, <1>8, TasksAreProcs DEF TailEnd, Locals, db, dock
    <2>2. NoWorker(v.exec)
      BY <1>8, <2>1 DEF TailEnd, NoWorker, DockInv, LaunchedFirst
    <2>3. "tailHalt" \in Labels \ {"tailErrHalt"} /\ SameDock /\ RowsStay
      BY <2>1 DEF Labels, SameDock, RowsStay
    <2> HIDE DEF v
    <2> QED BY <2>1, <2>2, <2>3, MoveDock DEF Continue
  <1>9. ASSUME NEW e \in Execs, TailHalt(e) PROVE DockInv'
    <2>1. /\ Tail(e) \in Proc /\ "tailClean" \in Labels \ {"tailErrHalt"}
          /\ Step(Tail(e), "tailClean")
      BY <1>9, TasksAreProcs DEF TailHalt, Labels
    <2>2. UNCHANGED <<docker, container, up>> /\ RowsStay
      BY <1>0, <1>9 DEF TailHalt, HaltRow, RowsStay, dock
    <2> QED BY <2>1, <2>2, StepDock
  <1>10. ASSUME NEW e \in Execs PROVE ~TailFail(e) /\ ~TailErrHalt(e)
    BY TasksAreProcs DEF TailFail, TailErrHalt, DockInv, NoTailErrors
  <1>11. ASSUME NEW e \in Execs, DockerStep(e) PROVE DockInv'
    <2>1. docker[e] \in Launching /\ UNCHANGED <<phase, pc, loc>>
      BY <1>11 DEF DockerStep, DockerEvict, DockerRun, DockerFail, Launching, db, control
    <2>2. \A f \in Execs \ {e} : docker'[f] = docker[f]
      BY <1>0, <1>11 DEF DockerStep, DockerEvict, DockerRun, DockerFail
    <2>3. \A f : f # e /\ up' /\ container' = f => up /\ container = f
      BY <1>11 DEF DockerStep, DockerEvict, DockerRun, DockerFail
    <2>4. \A q \in Proc : pc[q] \in OwnerLabels => loc[q].exec \in Execs
      BY OwnedRows
    <2>5. ReleasesDead'
      BY <2>1, <2>2, <2>3, <2>4 DEF DockInv, ReleasesDead, NoWorker, OwnerLabels
    <2>6. LaunchedFirst' /\ NoTailErrors'
      BY <2>1, <2>2, <2>4 DEF DockInv, LaunchedFirst, NoTailErrors, OwnerLabels
    <2>7. ContainerRan'
      BY <1>0, <1>11, <2>2
         DEF DockInv, ContainerRan, DockerStep, DockerEvict, DockerRun, DockerFail
    <2>8. RowsFirst'
      BY <2>1, <2>2 DEF DockInv, RowsFirst, Launching
    <2> QED BY <2>5, <2>6, <2>7, <2>8 DEF DockInv
  <1>12. ASSUME NEW r \in Reqs, ArmIdleStop(r) PROVE DockInv'
    <2>1. UNCHANGED <<phase, docker, container, up>>
      BY <1>12 DEF ArmIdleStop, db, dock
    <2>2. \A q \in Proc :
             \/ pc'[q] \in {"done", "sleep"}
             \/ pc'[q] = pc[q] /\ loc'[q] = loc[q]
      BY <1>0, <1>12, TasksAreProcs DEF ArmIdleStop
    <2>3. ReleasesDead' /\ LaunchedFirst' /\ NoTailErrors'
      BY <2>1, <2>2 DEF DockInv, ReleasesDead, LaunchedFirst, NoTailErrors, NoWorker
    <2> QED BY <2>1, <2>3 DEF DockInv, ContainerRan, RowsFirst
  <1>13. CASE WorkerExit \/ UNCHANGED vars
    <2>1. UNCHANGED <<phase, pc, loc, docker, container>> /\ (up' => up)
      BY <1>13 DEF WorkerExit, vars, db, dock, control
    <2> QED BY <2>1 DEF DockInv, ReleasesDead, LaunchedFirst, NoTailErrors, NoWorker,
                        ContainerRan, RowsFirst
  <1> QED BY <1>1, <1>2, <1>3, <1>4, <1>5, <1>6, <1>7, <1>8, <1>9, <1>10, <1>11, <1>12,
             <1>13, StepKinds

(* WorkersWatched.  A launch Docker has not carried out has its launcher,  *)
(* a worker that runs has its launcher or its tailer.                      *)
WatchLabels == {"launch", "status", "startTail", "logs"}

Launched(e) == \E p \in Proc : pc[p] = "launch" /\ loc[p].exec = e
Watched(e) == \E p \in Proc : pc[p] \in WatchLabels /\ loc[p].exec = e

WatchInv ==
    /\ \A e \in Execs : docker[e] \in Launching => e \in abandoned \/ Launched(e)
    /\ up => container \in abandoned \/ Watched(container)

(* A coroutine stops watching only what has no worker.                     *)
KeepsWatch(p, l, v) ==
    /\ pc[p] = "launch" => docker[loc[p].exec] \notin Launching
    /\ pc[p] \in WatchLabels =>
          \/ l \in WatchLabels /\ v.exec = loc[p].exec
          \/ ~(up /\ container = loc[p].exec)

LEMMA MoveWatch ==
    ASSUME TypeInv, WatchInv, NEW p \in Proc, NEW l, NEW v, NEW Q, Switch(p, l, v, Q),
           SameDock, KeepsWatch(p, l, v)
    PROVE  WatchInv'
  <1>1. \A q \in Proc :
           /\ q = p => pc'[q] = l /\ loc'[q] = v
           /\ q # p => \/ pc'[q] = pc[q] /\ loc'[q] = loc[q]
                       \/ pc[q] \in OwnerLabels => loc[q].exec \in abandoned'
    BY DEF Switch, Cancelled
  <1>2. abandoned \subseteq abandoned'
    BY DEF Switch, Cancelled
  <1>3. ASSUME NEW e \in Execs, docker'[e] \in Launching
        PROVE  e \in abandoned' \/ Launched(e)'
    <2>1. docker[e] \in Launching
      BY <1>3 DEF SameDock
    <2>2. CASE Launched(e)
      <3>1. PICK q \in Proc : pc[q] = "launch" /\ loc[q].exec = e
        BY <2>2 DEF Launched
      <3>2. q # p
        BY <2>1, <3>1 DEF KeepsWatch
      <3> QED BY <1>1, <3>1, <3>2 DEF Launched, OwnerLabels
    <2> QED BY <1>2, <2>1, <2>2 DEF WatchInv
  <1>4. ASSUME up'
        PROVE  container' \in abandoned' \/ Watched(container)'
    <2>1. up /\ container' = container
      BY <1>4 DEF SameDock
    <2>2. CASE Watched(container)
      <3>1. PICK q \in Proc : pc[q] \in WatchLabels /\ loc[q].exec = container
        BY <2>2 DEF Watched
      <3>2. CASE q = p
        BY <1>1, <2>1, <3>1, <3>2 DEF KeepsWatch, Watched
      <3>3. CASE q # p
        BY <1>1, <2>1, <3>1, <3>3 DEF Watched, WatchLabels, OwnerLabels
      <3> QED BY <3>2, <3>3
    <2> QED BY <1>2, <2>1, <2>2 DEF WatchInv
  <1> QED BY <1>3, <1>4 DEF WatchInv

LEMMA StepWatch ==
    ASSUME TypeInv, WatchInv, NEW p \in Proc, NEW l, Step(p, l),
           UNCHANGED <<docker, container, up>>, KeepsWatch(p, l, loc[p])
    PROVE  WatchInv'
  BY MoveWatch DEF Step, Continue, SameDock

LEMMA WatchStep ==
    ASSUME TypeInv, OwnInv, DockInv, WatchInv, ~LaunchFaults, ~TailFaults, [Next]_vars
    PROVE  WatchInv'
  <1>0. /\ pc \in [Proc -> Labels] /\ loc \in [Proc -> Locals]
        /\ docker \in [Execs -> DockerStates] /\ container \in Execs \cup {NoExec}
    BY DEF TypeInv, ControlOK, DataOK
  <1>1. ASSUME NEW p \in Proc, Aside(p) PROVE WatchInv'
    <2>1. PICK l, v, Q : Switch(p, l, v, Q) /\ Apart(p, l)
      BY <1>1 DEF Aside
    <2>2. SameDock /\ KeepsWatch(p, l, v)
      BY <2>1 DEF Apart, KeepsWatch, WatchLabels, OwnerLabels
    <2> QED BY <2>1, <2>2, MoveWatch
  <1>2. ASSUME NEW p \in Proc, CreateRow(p) PROVE WatchInv'
    <2>1. PICK e \in Execs :
             /\ docker' = [docker EXCEPT ![e] = "submitted"]
             /\ Continue(p, "launch", [loc[p] EXCEPT !.exec = e], {})
      BY <1>2 DEF CreateRow
    <2>2. /\ container' = container /\ up' = up /\ abandoned' = abandoned
          /\ pc[p] = "createRow"
      BY <1>2, <2>1 DEF CreateRow, Continue, Switch, Cancelled
    <2>3. \A q \in Proc \ {p} : pc'[q] = pc[q] /\ loc'[q] = loc[q]
      BY <1>0, <2>1 DEF Continue, Switch
    <2>4. pc'[p] = "launch" /\ loc'[p].exec = e
      BY <1>0, <2>1 DEF Continue, Switch, Locals
    <2>5. \A f \in Execs : Launched(f) => Launched(f)'
      BY <2>2, <2>3 DEF Launched
    <2>6. \A f : Watched(f) => Watched(f)'
      BY <2>2, <2>3 DEF Watched, WatchLabels
    <2>7. Launched(e)'
      BY <2>4 DEF Launched
    <2>8. \A f \in Execs \ {e} : docker'[f] = docker[f]
      BY <1>0, <2>1
    <2> QED BY <2>2, <2>5, <2>6, <2>7, <2>8 DEF WatchInv
  <1>3. ASSUME NEW p \in Proc, LaunchOk(p) PROVE WatchInv'
    <2>1. KeepsWatch(p, "status", loc[p]) /\ Step(p, "status")
      BY <1>3 DEF LaunchOk, KeepsWatch, Launching, WatchLabels
    <2>2. UNCHANGED <<docker, container, up>>
      BY <1>3 DEF LaunchOk, dock
    <2> QED BY <2>1, <2>2, StepWatch
  <1>4. ASSUME NEW p \in Proc, LaunchFail(p) PROVE WatchInv'
    <2>1. loc[p].exec \in Execs
      BY <1>4, OwnedRows DEF LaunchFail, OwnerLabels, OwnInv
    <2>2. NoWorker(loc[p].exec)
      BY <1>4, <2>1 DEF LaunchFail, NoWorker, Launching, DockInv, ContainerRan, Execs, NoExec
    <2>3. KeepsWatch(p, "haltFailed", loc[p]) /\ Step(p, "haltFailed")
      BY <1>4, <2>2 DEF LaunchFail, KeepsWatch, NoWorker
    <2>4. UNCHANGED <<docker, container, up>>
      BY <1>4 DEF LaunchFail, dock
    <2> QED BY <2>3, <2>4, StepWatch
  <1>5. ASSUME NEW p \in Proc, UpdateStatus(p) PROVE WatchInv'
    <2>1. KeepsWatch(p, "startTail", loc[p]) /\ Step(p, "startTail")
      BY <1>5 DEF UpdateStatus, KeepsWatch, WatchLabels
    <2>2. UNCHANGED <<docker, container, up>>
      BY <1>5 DEF UpdateStatus, dock
    <2> QED BY <2>1, <2>2, StepWatch
  <1>6. ASSUME NEW p \in Proc, StartTail(p) PROVE WatchInv'
    <2> DEFINE t == Tail(loc[p].exec)
    <2>1. /\ loc[p].exec \in Execs /\ t \in Proc /\ pc[t] = "done"
          /\ pc[p] = "startTail"
      BY <1>6, OwnedRows, TasksAreProcs
         DEF StartTail, OwnerLabels, OwnInv, OwnersBut, LaunchersFirst, LaunchLabels
    <2>2. UNCHANGED <<docker, container, up, abandoned>>
      BY <1>6 DEF StartTail, dock, history
    <2>3. /\ pc'[t] = "logs" /\ loc'[t].exec = loc[p].exec
          /\ \A q \in Proc \ {p, t} : pc'[q] = pc[q] /\ loc'[q] = loc[q]
      BY <1>0, <1>6, <2>1 DEF StartTail, NoLocals
    <2>4. \A f \in Execs : Launched(f) => Launched(f)'
      BY <2>1, <2>3 DEF Launched
    <2>5. \A f : Watched(f) => Watched(f)'
      BY <2>1, <2>3 DEF Watched, WatchLabels
    <2> QED BY <2>2, <2>4, <2>5 DEF WatchInv
  <1>7. ASSUME NEW p \in Proc, HaltFailed(p) PROVE WatchInv'
    <2>1. KeepsWatch(p, "markFailed", loc[p]) /\ Step(p, "markFailed")
      BY <1>7 DEF HaltFailed, KeepsWatch, WatchLabels
    <2>2. UNCHANGED <<docker, container, up>>
      BY <1>7 DEF HaltFailed, dock
    <2> QED BY <2>1, <2>2, StepWatch
  <1>8. ASSUME NEW e \in Execs, TailEnd(e) PROVE WatchInv'
    <2> DEFINE v == [loc[Tail(e)] EXCEPT !.req = stopReq[e]]
    <2>1. /\ Tail(e) \in Proc /\ Continue(Tail(e), "tailHalt", v, {})
          /\ UNCHANGED <<docker, container, up>>
      BY <1>8, TasksAreProcs DEF TailEnd, dock
    <2>2. KeepsWatch(Tail(e), "tailHalt", v)
      BY <1>8 DEF TailEnd, KeepsWatch
    <2> HIDE DEF v
    <2> QED BY <2>1, <2>2, MoveWatch DEF Continue, SameDock
  <1>9. ASSUME NEW e \in Execs, TailHalt(e) PROVE WatchInv'
    <2>1. /\ Tail(e) \in Proc /\ KeepsWatch(Tail(e), "tailClean", loc[Tail(e)])
          /\ Step(Tail(e), "tailClean")
      BY <1>9, TasksAreProcs DEF TailHalt, KeepsWatch, WatchLabels
    <2>2. UNCHANGED <<docker, container, up>>
      BY <1>9 DEF TailHalt, dock
    <2> QED BY <2>1, <2>2, StepWatch
  <1>10. ASSUME NEW e \in Execs PROVE ~TailFail(e) /\ ~TailErrHalt(e)
    BY TasksAreProcs DEF TailFail, TailErrHalt, DockInv, NoTailErrors
  <1>11. ASSUME NEW e \in Execs, DockerStep(e) PROVE WatchInv'
    <2>1. UNCHANGED <<pc, loc, abandoned>> /\ docker[e] \in Launching
      BY <1>11 DEF DockerStep, DockerEvict, DockerRun, DockerFail, Launching, control, history
    <2>2. \A f \in Execs \ {e} : docker'[f] = docker[f]
      BY <1>0, <1>11 DEF DockerStep, DockerEvict, DockerRun, DockerFail
    <2>3. up' => (up /\ container' = container) \/ container' = e
      BY <1>11 DEF DockerStep, DockerEvict, DockerRun, DockerFail
    <2>4. \A f : Launched(f) => Launched(f)' /\ Watched(f)'
      BY <2>1 DEF Launched, Watched, WatchLabels
    <2>5. \A f : Watched(f) => Watched(f)'
      BY <2>1 DEF Watched
    <2> QED BY <2>1, <2>2, <2>3, <2>4, <2>5 DEF WatchInv
  <1>12. ASSUME NEW r \in Reqs, ArmIdleStop(r) PROVE WatchInv'
    <2> DEFINE e == loc[r].exec
               i == Idle(e)
               free == e \in idleReg \/ pc[i] = "done"
    <2>1. r \in Proc /\ e \in Execs /\ i \in Proc /\ pc[r] = "result"
      BY <1>12, TasksAreProcs DEF ArmIdleStop, TypeInv, ControlOK, LocalsNamed, ExecLabels
    <2>2. /\ pc' = [pc EXCEPT ![r] = "done", ![i] = IF free THEN "sleep" ELSE @]
          /\ loc' = [loc EXCEPT ![r] = NoLocals, ![i] = IF free THEN NoLocals ELSE @]
          /\ Cancelled({Idle(f) : f \in idleReg \cap {e}})
          /\ UNCHANGED <<docker, container, up>>
      BY <1>12 DEF ArmIdleStop, dock
    <2>3. \A q \in Proc : pc[q] \in OwnerLabels =>
             \/ pc'[q] = pc[q] /\ loc'[q] = loc[q]
             \/ loc[q].exec \in abandoned'
      <3>1. ASSUME NEW q \in Proc, pc[q] \in OwnerLabels, q # i \/ ~free
            PROVE  pc'[q] = pc[q] /\ loc'[q] = loc[q]
        BY <1>0, <2>1, <2>2, <3>1 DEF OwnerLabels
      <3>2. ASSUME pc[i] \in OwnerLabels, free PROVE loc[i].exec \in abandoned'
        BY <2>1, <2>2, <3>2 DEF Cancelled, OwnerLabels
      <3> QED BY <3>1, <3>2
    <2>4. abandoned \subseteq abandoned'
      BY <2>2 DEF Cancelled
    <2>5. \A f : /\ Launched(f) => Launched(f)' \/ f \in abandoned'
                 /\ Watched(f) => Watched(f)' \/ f \in abandoned'
      BY <2>3 DEF Launched, Watched, WatchLabels, OwnerLabels
    <2> QED BY <2>2, <2>4, <2>5 DEF WatchInv
  <1>13. CASE WorkerExit \/ UNCHANGED vars
    <2>1. UNCHANGED <<pc, loc, docker, container, abandoned>> /\ (up' => up)
      BY <1>13 DEF WorkerExit, vars, dock, control, history
    <2> QED BY <2>1 DEF WatchInv, Launched, Watched
  <1> QED BY <1>1, <1>2, <1>3, <1>4, <1>5, <1>6, <1>7, <1>8, <1>9, <1>10, <1>11, <1>12,
             <1>13, StepKinds

LEMMA InitWatch == Init => DockInv /\ WatchInv
  <1> SUFFICES ASSUME Init PROVE DockInv /\ WatchInv
    OBVIOUS
  <1>1. \A p \in Proc : pc[p] \in {"start", "done"}
    BY DEF Init
  <1> QED BY <1>1 DEF Init, DockInv, ReleasesDead, LaunchedFirst, NoTailErrors, ContainerRan,
                      RowsFirst, WatchInv, Launching

(* Where launches do not time out and log streams do not break off, no     *)
(* worker runs unwatched: its launcher or its tailer is there to remove    *)
(* its container, unless that one was cancelled.  Stops, closes, dead tool *)
(* servers, interruptions and evictions come in any number and order.      *)
THEOREM WorkersAreWatched ==
    ASSUME ~LaunchFaults, ~TailFaults
    PROVE  Spec => []WorkersWatched
  <1>1. Init => DockInv /\ WatchInv
    BY InitWatch
  <1>2. TypeInv /\ OwnInv /\ DockInv /\ WatchInv /\ [Next]_vars => DockInv' /\ WatchInv'
    BY DockStep, WatchStep DEF OwnInv
  <1>3. WatchInv => WorkersWatched
    BY DEF WatchInv, Watched, WatchLabels, WorkersWatched, Owns, OwnerLabels
  <1> QED BY <1>1, <1>2, <1>3, OwnersInvariant, PTL DEF Spec
=============================================================================
