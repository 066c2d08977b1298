---------------------------- MODULE WorkerRunProofs ----------------------------
(***************************************************************************)
(* Theorems about WorkerRun, for every number of lines and restarts.       *)
(*                                                                         *)
(* The order of the stored events rests on one POST at a time: while a     *)
(* handler has an event of Claude in hand, it is the last one posted, and  *)
(* every event posted before it is through.                                *)
(***************************************************************************)
EXTENDS WorkerRun, DataLemmas, SequenceTheorems

Rows == [event : Events, seq : Nat]

TypeInv ==
    /\ WorkerTypeOK
    /\ pipe \in Seq(Lines) /\ seqOf \in [Events -> Nat] /\ rows \in Seq(Rows)
    /\ crashes \in Nat /\ timedOut \in BOOLEAN

(* What the subprocess does, by where the runner is. *)
Stages ==
    /\ runner = "sync" \/ Gone => claude = "none"
    /\ runner \in {"reply", "replying"} => claude \in {"succeeded", "failed"}
    /\ claude = "none" => ~stop

ReplyStored ==
    /\ outbound \in {"deliver", "done"} => stored
    /\ runner = "exited0" /\ Heard => stored

(* A row is stored before its event is published, and no number is above   *)
(* the number of rows.                                                     *)
RowsPosted ==
    \A i \in DOMAIN rows :
        /\ rows[i].event # Input => handler[rows[i].event] \in {"publish", "done"}
        /\ rows[i].seq <= Len(rows)

RunInv == TypeInv /\ Stages /\ ReplyStored

(* The browser's steps change nothing these invariants are about. *)
Panel == Subscribe \/ ReadList \/ ShowList \/ ReceiveEvent

LEMMA PanelSame == Panel => UNCHANGED <<workerVars, eventVars, replyVars, faultVars, stop>>
  BY DEF Panel, Subscribe, ReadList, ShowList, ReceiveEvent

LEMMA RunInit == Init => RunInv
  <1> SUFFICES ASSUME Init PROVE RunInv
    OBVIOUS
  <1>1. TypeInv
    BY RunAssumption DEF Init, TypeInv, WorkerTypeOK, Events, Lines, Input, Idle, Rows
  <1>2. Stages /\ ReplyStored
    BY DEF Init, Stages, ReplyStored, Gone
  <1> QED BY <1>1, <1>2 DEF RunInv

(* The number a handler reads is one above those that are stored.          *)
LEMMA ReadSeqFacts ==
    ASSUME TypeInv, RowsPosted, NEW e \in Events, ReadSeq(e),
           handler' = [handler EXCEPT ![e] = "insert"]
    PROVE  /\ seqOf' \in [Events -> Nat] /\ seqOf'[e] <= Len(rows) + 1
           /\ \A f \in Events \ {e} : seqOf'[f] = seqOf[f]
           /\ \A i \in DOMAIN rows : rows[i].seq < seqOf'[e]
  <1> DEFINE R == {0} \cup {rows[i].seq : i \in DOMAIN rows}
  <1>1. Len(rows) \in Nat /\ \A i \in DOMAIN rows : rows[i].seq \in Nat
    <2>1. rows \in Seq(Rows)
      BY DEF TypeInv
    <2>2. \A i \in DOMAIN rows : rows[i] \in Rows
      BY <2>1
    <2> QED BY <2>1, <2>2 DEF Rows
  <1>2. R \in SUBSET Nat /\ R # {} /\ \A x \in R : x <= Len(rows)
    BY <1>1 DEF RowsPosted
  <1>3. handler[e] = "seq" /\ handler \in [Events -> {"none", "seq", "insert", "publish", "done"}]
    BY DEF ReadSeq, TypeInv, WorkerTypeOK
  <1>4. handler'[e] = "insert"
    BY <1>3
  <1>5. seqOf' = [seqOf EXCEPT ![e] = Max(R) + 1]
    BY <1>3, <1>4 DEF ReadSeq
  <1>6. Max(R) \in R /\ \A x \in R : x <= Max(R)
    <2> HIDE DEF R
    <2> QED BY <1>1, <1>2, MaxProperty
  <1>7. \A i \in DOMAIN rows : rows[i].seq \in R
    OBVIOUS
  <1> HIDE DEF R
  <1> QED BY <1>1, <1>2, <1>5, <1>6, <1>7 DEF TypeInv

LEMMA RunNext == RunInv /\ RowsPosted /\ [Next]_vars => RunInv'
  <1> SUFFICES ASSUME RunInv, RowsPosted, [Next]_vars PROVE RunInv'
    OBVIOUS
  <1> USE DEF RunInv
  <1>1. ASSUME StartClaude PROVE RunInv'
    <2>1. TypeInv'
      BY <1>1 DEF StartClaude, workerVars, eventVars, replyVars, faultVars, panelVars,
         TypeInv, Stages, WorkerTypeOK, ExitWith, Gone, Lines, Idle
    <2>2. Stages' /\ ReplyStored'
      BY <1>1 DEF StartClaude, workerVars, eventVars, replyVars, faultVars, panelVars,
         TypeInv, WorkerTypeOK, Stages, ReplyStored, ExitWith, Gone, Heard
    <2> QED BY <2>1, <2>2
  <1>2. ASSUME ClaudeWrites PROVE RunInv'
    <2>1. TypeInv'
      <3>1. emitted + 1 \in Lines /\ Len(pipe) \in Nat /\ emitted \in Nat
        BY <1>2, RunAssumption DEF ClaudeWrites, TypeInv, WorkerTypeOK, Lines
      <3>2. pipe' \in Seq(Lines) /\ Len(pipe') = Len(pipe) + 1
        BY <1>2, <3>1 DEF ClaudeWrites, TypeInv
      <3> QED BY <1>2, <3>1, <3>2 DEF ClaudeWrites, Lines, eventVars, replyVars, faultVars,
                 panelVars, TypeInv, WorkerTypeOK, Stages
    <2>2. Stages' /\ ReplyStored'
      BY <1>2 DEF ClaudeWrites, workerVars, eventVars, replyVars, faultVars, panelVars,
         TypeInv, WorkerTypeOK, Stages, ReplyStored, ExitWith, Gone, Heard
    <2> QED BY <2>1, <2>2
  <1>3. ASSUME ClaudeExits PROVE RunInv'
    <2>1. TypeInv'
      BY <1>3 DEF ClaudeExits, workerVars, eventVars, replyVars, faultVars, panelVars,
         TypeInv, Stages, WorkerTypeOK, ExitWith, Gone, Lines, Idle
    <2>2. Stages' /\ ReplyStored'
      BY <1>3 DEF ClaudeExits, workerVars, eventVars, replyVars, faultVars, panelVars,
         TypeInv, WorkerTypeOK, Stages, ReplyStored, ExitWith, Gone, Heard
    <2> QED BY <2>1, <2>2
  <1>4. ASSUME PostEvent PROVE RunInv'
    <2>1. TypeInv'
      <3>1. Head(pipe) \in Lines /\ pipe' \in Seq(Lines) /\ Len(pipe') <= Len(pipe)
        BY <1>4, HeadTailProperties DEF PostEvent, TypeInv
      <3>2. Len(pipe) \in Nat /\ Len(pipe') \in Nat
        BY <3>1 DEF TypeInv
      <3>3. current' \in {Idle} \cup Lines
            /\ handler' \in [Events -> {"none", "seq", "insert", "publish", "done"}]
        BY <1>4, <3>1 DEF PostEvent, Events, TypeInv, WorkerTypeOK
      <3>4. Len(pipe') <= emitted /\ emitted \in 0..MaxLines
        BY <3>1, <3>2, RunAssumption DEF TypeInv, WorkerTypeOK
      <3> QED BY <1>4, <3>1, <3>3, <3>4 DEF PostEvent, eventVars, replyVars, faultVars,
                 panelVars, TypeInv, WorkerTypeOK, Stages
    <2>2. Stages' /\ ReplyStored'
      BY <1>4 DEF PostEvent, workerVars, eventVars, replyVars, faultVars, panelVars,
         TypeInv, WorkerTypeOK, Stages, ReplyStored, ExitWith, Gone, Heard
    <2> QED BY <2>1, <2>2
  <1>5. ASSUME PostAnswered PROVE RunInv'
    <2>1. TypeInv'
      BY <1>5 DEF PostAnswered, workerVars, eventVars, replyVars, faultVars, panelVars,
         TypeInv, Stages, WorkerTypeOK, ExitWith, Gone, Lines, Idle
    <2>2. Stages' /\ ReplyStored'
      BY <1>5 DEF PostAnswered, workerVars, eventVars, replyVars, faultVars, panelVars,
         TypeInv, WorkerTypeOK, Stages, ReplyStored, ExitWith, Gone, Heard
    <2> QED BY <2>1, <2>2
  <1>6. ASSUME PostTimeout PROVE RunInv'
    <2>1. TypeInv'
      BY <1>6 DEF PostTimeout, workerVars, eventVars, replyVars, faultVars, panelVars,
         TypeInv, Stages, WorkerTypeOK, ExitWith, Gone, Lines, Idle
    <2>2. Stages' /\ ReplyStored'
      BY <1>6 DEF PostTimeout, workerVars, eventVars, replyVars, faultVars, panelVars,
         TypeInv, WorkerTypeOK, Stages, ReplyStored, ExitWith, Gone, Heard
    <2> QED BY <2>1, <2>2
  <1>7. ASSUME EndOfOutput PROVE RunInv'
    <2>1. TypeInv'
      BY <1>7 DEF EndOfOutput, workerVars, eventVars, replyVars, faultVars, panelVars,
         TypeInv, Stages, WorkerTypeOK, ExitWith, Gone, Lines, Idle
    <2>2. Stages' /\ ReplyStored'
      BY <1>7 DEF EndOfOutput, workerVars, eventVars, replyVars, faultVars, panelVars,
         TypeInv, WorkerTypeOK, Stages, ReplyStored, ExitWith, Gone, Heard
    <2> QED BY <2>1, <2>2
  <1>8. ASSUME PostReply PROVE RunInv'
    <2>1. TypeInv'
      BY <1>8 DEF PostReply, workerVars, eventVars, replyVars, faultVars, panelVars,
         TypeInv, Stages, WorkerTypeOK, ExitWith, Gone, Lines, Idle
    <2>2. Stages' /\ ReplyStored'
      BY <1>8 DEF PostReply, workerVars, eventVars, replyVars, faultVars, panelVars,
         TypeInv, WorkerTypeOK, Stages, ReplyStored, ExitWith, Gone, Heard
    <2> QED BY <2>1, <2>2
  <1>9. ASSUME ReplyEnds PROVE RunInv'
    <2>1. TypeInv'
      BY <1>9 DEF ReplyEnds, workerVars, eventVars, replyVars, faultVars, panelVars,
         TypeInv, Stages, WorkerTypeOK, ExitWith, Gone, Lines, Idle
    <2>2. Stages' /\ ReplyStored'
      BY <1>9 DEF ReplyEnds, workerVars, eventVars, replyVars, faultVars, panelVars,
         TypeInv, WorkerTypeOK, Stages, ReplyStored, ExitWith, Gone, Heard
    <2> QED BY <2>1, <2>2
  <1>10. ASSUME Killed PROVE RunInv'
    <2>1. TypeInv'
      <3>1. pipe' \in Seq(Lines) /\ Len(pipe') = 0 /\ 0 \in 0..MaxLines
        BY <1>10, RunAssumption DEF Killed
      <3>2. {stored', stop'} \subseteq BOOLEAN /\ ~stop'
        BY <1>10 DEF Killed, eventVars, replyVars, faultVars, panelVars, TypeInv,
           WorkerTypeOK, Stages
      <3> QED BY <1>10, <3>1, <3>2 DEF Killed, Idle, eventVars, replyVars, faultVars,
                 panelVars, TypeInv, WorkerTypeOK, Stages
    <2>2. Stages' /\ ReplyStored'
      BY <1>10 DEF Killed, workerVars, eventVars, replyVars, faultVars, panelVars, TypeInv,
         WorkerTypeOK, Stages, ReplyStored, ExitWith, Gone, Heard
    <2> QED BY <2>1, <2>2
  <1>11. ASSUME StopRequest PROVE RunInv'
    <2>1. TypeInv'
      BY <1>11 DEF StopRequest, workerVars, eventVars, replyVars, faultVars, panelVars,
         TypeInv, Stages, WorkerTypeOK, ExitWith, Gone, Lines, Idle
    <2>2. Stages' /\ ReplyStored'
      BY <1>11 DEF StopRequest, workerVars, eventVars, replyVars, faultVars, panelVars,
         TypeInv, WorkerTypeOK, Stages, ReplyStored, ExitWith, Gone, Heard
    <2> QED BY <2>1, <2>2
  <1>12. ASSUME ClaudeStopped PROVE RunInv'
    <2>1. TypeInv'
      BY <1>12 DEF ClaudeStopped, workerVars, eventVars, replyVars, faultVars, panelVars,
         TypeInv, Stages, WorkerTypeOK, ExitWith, Gone, Lines, Idle
    <2>2. Stages' /\ ReplyStored'
      BY <1>12 DEF ClaudeStopped, workerVars, eventVars, replyVars, faultVars, panelVars,
         TypeInv, WorkerTypeOK, Stages, ReplyStored, ExitWith, Gone, Heard
    <2> QED BY <2>1, <2>2
  <1>13. ASSUME StoreReply PROVE RunInv'
    <2>1. TypeInv'
      BY <1>13 DEF StoreReply, workerVars, eventVars, replyVars, faultVars, panelVars,
         TypeInv, Stages, WorkerTypeOK, ExitWith, Gone, Lines, Idle
    <2>2. Stages' /\ ReplyStored'
      BY <1>13 DEF StoreReply, workerVars, eventVars, replyVars, faultVars, panelVars,
         TypeInv, WorkerTypeOK, Stages, ReplyStored, ExitWith, Gone, Heard
    <2> QED BY <2>1, <2>2
  <1>14. ASSUME DeliverReply PROVE RunInv'
    <2>1. TypeInv'
      BY <1>14 DEF DeliverReply, workerVars, eventVars, replyVars, faultVars, panelVars,
         TypeInv, Stages, WorkerTypeOK, ExitWith, Gone, Lines, Idle
    <2>2. Stages' /\ ReplyStored'
      BY <1>14 DEF DeliverReply, workerVars, eventVars, replyVars, faultVars, panelVars,
         TypeInv, WorkerTypeOK, Stages, ReplyStored, ExitWith, Gone, Heard
    <2> QED BY <2>1, <2>2
  <1>15. ASSUME Crash PROVE RunInv'
    <2>1. TypeInv'
      BY <1>15 DEF Crash, workerVars, eventVars, replyVars, faultVars, panelVars, TypeInv,
         Stages, WorkerTypeOK, ExitWith, Gone, Lines, Idle
    <2>2. Stages' /\ ReplyStored'
      BY <1>15 DEF Crash, workerVars, eventVars, replyVars, faultVars, panelVars, TypeInv,
         WorkerTypeOK, Stages, ReplyStored, ExitWith, Gone, Heard
    <2> QED BY <2>1, <2>2
  <1>16. ASSUME NEW e \in Events, ReadSeq(e) PROVE RunInv'
    <2>1. TypeInv'
      <3>1. seqOf' \in [Events -> Nat]
        <4>1. CASE handler' = [handler EXCEPT ![e] = "insert"]
          BY <1>16, <4>1, ReadSeqFacts
        <4>2. CASE UNCHANGED seqOf
          BY <4>2 DEF TypeInv
        <4> QED BY <1>16, <4>1, <4>2 DEF ReadSeq
      <3> QED BY <1>16, <3>1 DEF ReadSeq, workerVars, eventVars, replyVars, faultVars,
                 panelVars, TypeInv, WorkerTypeOK, Stages
    <2>2. Stages' /\ ReplyStored'
      BY <1>16 DEF ReadSeq, workerVars, eventVars, replyVars, faultVars, panelVars,
         TypeInv, WorkerTypeOK, Stages, ReplyStored, ExitWith, Gone, Heard
    <2> QED BY <2>1, <2>2
  <1>17. ASSUME NEW e \in Events, InsertEvent(e) PROVE RunInv'
    <2>1. TypeInv'
      <3>1. [event |-> e, seq |-> seqOf[e]] \in Rows
        BY <1>17 DEF Rows, TypeInv
      <3>2. rows' \in Seq(Rows)
        BY <1>17, <3>1 DEF InsertEvent, TypeInv
      <3> QED BY <1>17, <3>2 DEF InsertEvent, workerVars, eventVars, replyVars, faultVars,
                 panelVars, TypeInv, WorkerTypeOK, Stages
    <2>2. Stages' /\ ReplyStored'
      BY <1>17 DEF InsertEvent, workerVars, eventVars, replyVars, faultVars, panelVars,
         TypeInv, WorkerTypeOK, Stages, ReplyStored, ExitWith, Gone, Heard
    <2> QED BY <2>1, <2>2
  <1>18. ASSUME NEW e \in Events, PublishEvent(e) PROVE RunInv'
    <2>1. TypeInv'
      BY <1>18 DEF PublishEvent, workerVars, eventVars, replyVars, faultVars, panelVars,
         TypeInv, Stages, WorkerTypeOK, ExitWith, Gone, Lines, Idle
    <2>2. Stages' /\ ReplyStored'
      BY <1>18 DEF PublishEvent, workerVars, eventVars, replyVars, faultVars, panelVars,
         TypeInv, WorkerTypeOK, Stages, ReplyStored, ExitWith, Gone, Heard
    <2> QED BY <2>1, <2>2
  <1>19. CASE Panel \/ UNCHANGED vars
    BY <1>19, PanelSame DEF vars, workerVars, eventVars, replyVars, faultVars, TypeInv,
       WorkerTypeOK, Stages,
       ReplyStored, Gone, Heard
  <1> QED BY <1>1, <1>2, <1>3, <1>4, <1>5, <1>6, <1>7, <1>8, <1>9, <1>10, <1>11, <1>12,
             <1>13, <1>14, <1>15, <1>16, <1>17, <1>18, <1>19 DEF Next, Run, Handle, Panel

-----------------------------------------------------------------------------
(* Lines leave the pipe in the order they were written. *)
Posted(e) == handler[e] # "none"

PipeOrdered ==
    /\ \A i, j \in DOMAIN pipe : i < j => pipe[i] < pipe[j]
    /\ \A i \in DOMAIN pipe : pipe[i] <= emitted
    /\ ~Gone => \A e \in Lines :
         Posted(e) => e <= emitted /\ \A i \in DOMAIN pipe : e < pipe[i]

(* One POST at a time, unless one timed out. *)
InFlight(e) == handler[e] \in {"seq", "insert", "publish"}

OneInFlight ==
    ~timedOut => \A e \in Lines :
        InFlight(e) =>
            /\ current = e \/ runner = "killed"
            /\ \A f \in Lines \ {e} : Posted(f) => f < e /\ handler[f] = "done"

(* A number that was read is above those of all events of Claude.          *)
NumbersAhead ==
    /\ \A e \in Events : seqOf[e] <= Len(rows) + 1
    /\ ~timedOut => \A e \in Lines :
         handler[e] = "insert" =>
            \A i \in DOMAIN rows : rows[i].event # Input => rows[i].seq < seqOf[e]

OrderInv ==
    RunInv /\ PipeOrdered /\ OneInFlight /\ RowsPosted /\ NumbersAhead /\ EventsInOrder

LEMMA OrderInit == Init => OrderInv
  <1> SUFFICES ASSUME Init PROVE OrderInv
    OBVIOUS
  <1>1. RunInv
    BY RunInit
  <1>2. PipeOrdered /\ OneInFlight /\ RowsPosted /\ NumbersAhead /\ EventsInOrder
    BY DEF Init, PipeOrdered, OneInFlight, RowsPosted, NumbersAhead, EventsInOrder, Posted,
       InFlight, Events, Lines, Input, Gone
  <1> QED BY <1>1, <1>2 DEF OrderInv

(* The types, in the form the steps use them. *)
LEMMA OrderTypes ==
    ASSUME OrderInv
    PROVE  /\ pipe \in Seq(Lines) /\ Len(pipe) \in Nat /\ DOMAIN pipe = 1..Len(pipe)
           /\ rows \in Seq(Rows) /\ Len(rows) \in Nat /\ DOMAIN rows = 1..Len(rows)
           /\ \A i \in DOMAIN rows : rows[i].event \in Events /\ rows[i].seq \in Nat
           /\ \A i \in DOMAIN pipe : pipe[i] \in Lines
           /\ seqOf \in [Events -> Nat] /\ emitted \in Nat
           /\ handler \in [Events -> {"none", "seq", "insert", "publish", "done"}]
           /\ Lines \subseteq Nat /\ Lines \subseteq Events /\ Input \notin Lines /\ Idle \notin Lines
           /\ Events = Lines \cup {Input}
  <1>1. pipe \in Seq(Lines) /\ rows \in Seq(Rows)
    BY DEF OrderInv, RunInv, TypeInv
  <1>2. \A i \in DOMAIN rows : rows[i] \in Rows
    BY <1>1
  <1>3. seqOf \in [Events -> Nat] /\ emitted \in Nat
        /\ handler \in [Events -> {"none", "seq", "insert", "publish", "done"}]
    BY DEF OrderInv, RunInv, TypeInv, WorkerTypeOK
  <1>4. /\ Lines \subseteq Nat /\ Lines \subseteq Events /\ Input \notin Lines /\ Idle \notin Lines
        /\ Events = Lines \cup {Input}
    BY DEF Events, Lines, Input, Idle
  <1>5. \A i \in DOMAIN rows : rows[i].event \in Events /\ rows[i].seq \in Nat
    BY <1>2 DEF Rows
  <1> QED BY <1>1, <1>3, <1>4, <1>5

(* A step that leaves the events, the pipe and the POST alone. *)
LEMMA OrderSame ==
    ASSUME OrderInv, RunInv', UNCHANGED <<eventVars, pipe, current, timedOut, emitted>>,
           Gone => Gone', runner = "killed" => runner' = "killed"
    PROVE  OrderInv'
  BY DEF OrderInv, PipeOrdered, OneInFlight, RowsPosted, NumbersAhead, EventsInOrder,
     Posted,
     InFlight, eventVars

LEMMA OrderNext == OrderInv /\ [Next]_vars => OrderInv'
  <1> SUFFICES ASSUME OrderInv, [Next]_vars PROVE OrderInv'
    OBVIOUS
  <1> USE DEF OrderInv
  <1>0. RunInv'
    BY RunNext
  <1>1. CASE StartClaude
    BY <1>0, <1>1, OrderSame DEF StartClaude, ExitWith, Gone, workerVars, faultVars
  <1>2. CASE ClaudeExits
    BY <1>0, <1>2, OrderSame DEF ClaudeExits, ExitWith, Gone, workerVars, faultVars
  <1>3. CASE PostReply
    BY <1>0, <1>3, OrderSame DEF PostReply, ExitWith, Gone, workerVars, faultVars
  <1>4. CASE ReplyEnds
    BY <1>0, <1>4, OrderSame DEF ReplyEnds, ExitWith, Gone, workerVars, faultVars
  <1>5. CASE StopRequest
    BY <1>0, <1>5, OrderSame DEF StopRequest, ExitWith, Gone, workerVars, faultVars
  <1>6. CASE ClaudeStopped
    BY <1>0, <1>6, OrderSame DEF ClaudeStopped, ExitWith, Gone, workerVars, faultVars
  <1>7. CASE StoreReply
    BY <1>0, <1>7, OrderSame DEF StoreReply, ExitWith, Gone, workerVars, faultVars
  <1>8. CASE DeliverReply
    BY <1>0, <1>8, OrderSame DEF DeliverReply, ExitWith, Gone, workerVars, faultVars
  <1>9. ASSUME ClaudeWrites PROVE OrderInv'
    <2>1. PipeOrdered'
      <3>1. /\ DOMAIN pipe' = 1..(Len(pipe) + 1) /\ pipe'[Len(pipe) + 1] = emitted + 1
            /\ \A i \in DOMAIN pipe : pipe'[i] = pipe[i] /\ pipe[i] \in Nat
        <4>1. emitted + 1 \in Nat /\ pipe' = Append(pipe, emitted + 1) /\ pipe \in Seq(Nat)
          BY <1>9, OrderTypes DEF ClaudeWrites
        <4> QED BY <4>1, OrderTypes
      <3>2. UNCHANGED handler /\ emitted' = emitted + 1 /\ ~Gone
        BY <1>9 DEF ClaudeWrites, eventVars
      <3>3. \A i \in DOMAIN pipe' : i \in DOMAIN pipe \/ i = Len(pipe) + 1
        BY <3>1, OrderTypes, SMTT(60)
      <3>4. \A i \in DOMAIN pipe : pipe[i] <= emitted /\ pipe[i] < emitted + 1
        BY <3>1, OrderTypes DEF PipeOrdered
      <3>5. \A i, j \in DOMAIN pipe' : i < j => pipe'[i] < pipe'[j]
        <4> SUFFICES ASSUME NEW i \in DOMAIN pipe', NEW j \in DOMAIN pipe', i < j
                     PROVE  pipe'[i] < pipe'[j]
          OBVIOUS
        <4>1. i \in DOMAIN pipe
          BY <3>1, <3>3, OrderTypes
        <4>2. CASE j \in DOMAIN pipe
          BY <3>1, <4>1, <4>2 DEF PipeOrdered
        <4>3. CASE j = Len(pipe) + 1
          BY <3>1, <3>4, <4>1, <4>3
        <4> QED BY <3>3, <4>2, <4>3
      <3>6. \A i \in DOMAIN pipe' : pipe'[i] <= emitted'
        <4> SUFFICES ASSUME NEW i \in DOMAIN pipe' PROVE pipe'[i] <= emitted + 1
          BY <3>2
        <4>1. CASE i \in DOMAIN pipe
          BY <3>1, <3>4, <4>1, OrderTypes
        <4>2. CASE i = Len(pipe) + 1
          BY <3>1, <4>2, OrderTypes
        <4> QED BY <3>3, <4>1, <4>2
      <3>7. ASSUME NEW e \in Lines, Posted(e)'
            PROVE  e <= emitted' /\ \A i \in DOMAIN pipe' : e < pipe'[i]
        <4>1. Posted(e)
          BY <3>2, <3>7 DEF Posted
        <4>2. e <= emitted /\ e \in Nat /\ \A i \in DOMAIN pipe : e < pipe[i]
          BY <3>2, <4>1, OrderTypes DEF PipeOrdered
        <4> QED BY <3>1, <3>2, <3>3, <4>2, OrderTypes, SMTT(60)
      <3> QED BY <3>5, <3>6, <3>7 DEF PipeOrdered, Posted
    <2>2. OneInFlight'
      BY <1>9, OrderTypes DEF ClaudeWrites, OneInFlight, Posted, InFlight, ExitWith,
         eventVars, faultVars, workerVars
    <2>3. RowsPosted'
      BY <1>9, OrderTypes DEF ClaudeWrites, RowsPosted, ExitWith, eventVars, faultVars,
         workerVars
    <2>4. NumbersAhead'
      BY <1>9, OrderTypes DEF ClaudeWrites, NumbersAhead, ExitWith, eventVars, faultVars,
         workerVars
    <2>5. EventsInOrder'
      BY <1>9, OrderTypes DEF ClaudeWrites, EventsInOrder, ExitWith, eventVars, faultVars,
         workerVars
    <2> QED BY <1>0, <2>1, <2>2, <2>3, <2>4, <2>5
  <1>10. ASSUME PostEvent PROVE OrderInv'
    <2>0. /\ runner = "drain" /\ current = Idle /\ ~Gone /\ UNCHANGED <<runner, emitted, seqOf, rows, timedOut>>
          /\ \A i \in DOMAIN pipe' : i \in Nat /\ i > 0 /\ i + 1 \in DOMAIN pipe /\ pipe'[i] = pipe[i + 1]
          /\ 1 \in DOMAIN pipe /\ pipe[1] \in Lines
          /\ \/ current' = pipe[1] /\ handler' = [handler EXCEPT ![pipe[1]] = "seq"]
             \/ UNCHANGED <<current, handler>>
      <3>1. /\ pipe # <<>> /\ pipe' = Tail(pipe) /\ runner = "drain" /\ current = Idle
            /\ \/ current' = Head(pipe) /\ handler' = [handler EXCEPT ![Head(pipe)] = "seq"]
               \/ UNCHANGED <<current, handler>>
            /\ UNCHANGED <<runner, emitted, seqOf, rows, timedOut>>
        BY <1>10 DEF PostEvent, faultVars
      <3>2. /\ Len(pipe) \in Nat /\ Len(pipe) # 0 /\ Head(pipe) = pipe[1]
            /\ DOMAIN pipe' = 1..(Len(pipe) - 1) /\ \A i \in DOMAIN pipe' : pipe'[i] = pipe[i + 1]
        BY <3>1, HeadTailProperties, OrderTypes
      <3>3. 1 \in DOMAIN pipe /\ pipe[1] \in Lines
        BY <3>2, OrderTypes
      <3>4. \A i \in DOMAIN pipe' :
              i \in Nat /\ i > 0 /\ i + 1 \in DOMAIN pipe /\ pipe'[i] = pipe[i + 1]
        BY <3>2, OrderTypes, SMTT(60)
      <3> QED BY <3>1, <3>2, <3>3, <3>4 DEF Gone
    <2>p. \A e \in Lines : Posted(e) => e < pipe[1] /\ e <= emitted
      BY <2>0 DEF PipeOrdered
    <2>q. \A e \in Events : handler'[e] = handler[e] \/ (e = pipe[1] /\ current' = e /\ handler'[e] = "seq")
      BY <2>0, OrderTypes
    <2>f. ~timedOut => \A e \in Lines : ~InFlight(e)
      BY <2>0, OrderTypes DEF OneInFlight
    <2>1. PipeOrdered'
      <3>1. ASSUME NEW i \in DOMAIN pipe', NEW j \in DOMAIN pipe', i < j PROVE pipe'[i] < pipe'[j]
        <4>1. i + 1 \in DOMAIN pipe /\ j + 1 \in DOMAIN pipe /\ i + 1 < j + 1
          BY <2>0, <3>1
        <4> QED BY <2>0, <4>1 DEF PipeOrdered
      <3>2. \A i \in DOMAIN pipe' : pipe'[i] <= emitted
        BY <2>0 DEF PipeOrdered
      <3>3. ASSUME NEW e \in Lines, Posted(e)'
            PROVE  e <= emitted /\ \A i \in DOMAIN pipe' : e < pipe'[i]
        <4>1. e <= pipe[1] /\ e \in Nat /\ pipe[1] \in Nat /\ pipe[1] <= emitted
          BY <2>0, <2>p, <2>q, <3>3, OrderTypes DEF Posted, PipeOrdered
        <4>2. ASSUME NEW i \in DOMAIN pipe' PROVE pipe[1] < pipe'[i]
          <5>1. i + 1 \in DOMAIN pipe /\ 1 < i + 1
            BY <2>0
          <5>2. pipe[1] < pipe[i + 1]
            BY <2>0, <5>1 DEF PipeOrdered
          <5> QED BY <2>0, <5>2
        <4>3. \A i \in DOMAIN pipe' : pipe'[i] \in Nat
          BY <2>0, OrderTypes
        <4> QED BY <4>1, <4>2, <4>3, OrderTypes
      <3> QED BY <2>0, <3>1, <3>2, <3>3 DEF PipeOrdered, Posted
    <2>2. OneInFlight'
      <3>1. SUFFICES ASSUME ~timedOut, NEW e \in Lines, InFlight(e)'
                     PROVE  /\ current' = e
                            /\ \A f \in Lines \ {e} : Posted(f)' => f < e /\ handler'[f] = "done"
        BY <2>0 DEF OneInFlight, InFlight, Posted
      <3>2. e = pipe[1] /\ current' = e
        BY <2>f, <2>q, <3>1, OrderTypes DEF InFlight
      <3>3. ASSUME NEW f \in Lines \ {e}, Posted(f)' PROVE f < e /\ handler'[f] = "done"
        <4>1. handler'[f] = handler[f] /\ Posted(f) /\ ~InFlight(f)
          BY <2>f, <2>q, <3>1, <3>2, <3>3, OrderTypes DEF Posted
        <4> QED BY <2>p, <3>2, <4>1, OrderTypes DEF Posted, InFlight
      <3> QED BY <3>2, <3>3
    <2>3. RowsPosted'
      <3>1. ASSUME NEW i \in DOMAIN rows, rows[i].event # Input
            PROVE  handler'[rows[i].event] \in {"publish", "done"}
        <4>1. rows[i].event \in Lines /\ handler[rows[i].event] \in {"publish", "done"}
          BY <3>1, OrderTypes DEF RowsPosted
        <4>2. rows[i].event # pipe[1]
          BY <2>0, <2>p, <4>1, OrderTypes DEF Posted
        <4> QED BY <2>q, <4>1, <4>2, OrderTypes
      <3> QED BY <2>0, <3>1 DEF RowsPosted
    <2>4. NumbersAhead'
      BY <1>10, OrderTypes DEF PostEvent, NumbersAhead, ExitWith, eventVars, faultVars,
         workerVars
    <2>5. EventsInOrder'
      BY <1>10, OrderTypes DEF PostEvent, EventsInOrder, ExitWith, eventVars, faultVars,
         workerVars
    <2> QED BY <1>0, <2>1, <2>2, <2>3, <2>4, <2>5
  <1>11. ASSUME PostAnswered PROVE OrderInv'
    <2>1. PipeOrdered'
      BY <1>11, OrderTypes DEF PostAnswered, PipeOrdered, Posted, Gone, ExitWith,
         eventVars, faultVars, workerVars
    <2>2. OneInFlight'
      BY <1>11, OrderTypes DEF PostAnswered, OneInFlight, Posted, InFlight, ExitWith,
         eventVars, faultVars, workerVars
    <2>3. RowsPosted'
      BY <1>11, OrderTypes DEF PostAnswered, RowsPosted, ExitWith, eventVars, faultVars,
         workerVars
    <2>4. NumbersAhead'
      BY <1>11, OrderTypes DEF PostAnswered, NumbersAhead, ExitWith, eventVars, faultVars,
         workerVars
    <2>5. EventsInOrder'
      BY <1>11, OrderTypes DEF PostAnswered, EventsInOrder, ExitWith, eventVars, faultVars,
         workerVars
    <2> QED BY <1>0, <2>1, <2>2, <2>3, <2>4, <2>5
  <1>12. ASSUME PostTimeout PROVE OrderInv'
    <2>1. PipeOrdered'
      BY <1>12, OrderTypes DEF PostTimeout, PipeOrdered, Posted, Gone, ExitWith, eventVars,
         faultVars, workerVars
    <2>2. OneInFlight'
      BY <1>12, OrderTypes DEF PostTimeout, OneInFlight, Posted, InFlight, ExitWith,
         eventVars, faultVars, workerVars
    <2>3. RowsPosted'
      BY <1>12, OrderTypes DEF PostTimeout, RowsPosted, ExitWith, eventVars, faultVars,
         workerVars
    <2>4. NumbersAhead'
      BY <1>12, OrderTypes DEF PostTimeout, NumbersAhead, ExitWith, eventVars, faultVars,
         workerVars
    <2>5. EventsInOrder'
      BY <1>12, OrderTypes DEF PostTimeout, EventsInOrder, ExitWith, eventVars, faultVars,
         workerVars
    <2> QED BY <1>0, <2>1, <2>2, <2>3, <2>4, <2>5
  <1>13. ASSUME EndOfOutput PROVE OrderInv'
    <2>1. PipeOrdered'
      BY <1>13, OrderTypes DEF EndOfOutput, PipeOrdered, Posted, Gone, ExitWith, eventVars,
         faultVars, workerVars
    <2>2. OneInFlight'
      BY <1>13, OrderTypes DEF EndOfOutput, OneInFlight, Posted, InFlight, ExitWith,
         eventVars, faultVars, workerVars
    <2>3. RowsPosted'
      BY <1>13, OrderTypes DEF EndOfOutput, RowsPosted, ExitWith, eventVars, faultVars,
         workerVars
    <2>4. NumbersAhead'
      BY <1>13, OrderTypes DEF EndOfOutput, NumbersAhead, ExitWith, eventVars, faultVars,
         workerVars
    <2>5. EventsInOrder'
      BY <1>13, OrderTypes DEF EndOfOutput, EventsInOrder, ExitWith, eventVars, faultVars,
         workerVars
    <2> QED BY <1>0, <2>1, <2>2, <2>3, <2>4, <2>5
  <1>14. ASSUME Killed PROVE OrderInv'
    <2>1. PipeOrdered'
      BY <1>14, OrderTypes DEF Killed, PipeOrdered, Posted, Gone, ExitWith, eventVars,
         faultVars, workerVars
    <2>2. OneInFlight'
      BY <1>14, OrderTypes DEF Killed, OneInFlight, Posted, InFlight, ExitWith, eventVars,
         faultVars, workerVars
    <2>3. RowsPosted'
      BY <1>14, OrderTypes DEF Killed, RowsPosted, ExitWith, eventVars, faultVars,
         workerVars
    <2>4. NumbersAhead'
      BY <1>14, OrderTypes DEF Killed, NumbersAhead, ExitWith, eventVars, faultVars,
         workerVars
    <2>5. EventsInOrder'
      BY <1>14, OrderTypes DEF Killed, EventsInOrder, ExitWith, eventVars, faultVars,
         workerVars
    <2> QED BY <1>0, <2>1, <2>2, <2>3, <2>4, <2>5
  <1>15. ASSUME Crash PROVE OrderInv'
    <2>1. PipeOrdered'
      BY <1>15, OrderTypes DEF Crash, PipeOrdered, Posted, Gone, ExitWith, eventVars,
         faultVars, workerVars
    <2>2. OneInFlight'
      BY <1>15, OrderTypes DEF Crash, OneInFlight, Posted, InFlight, ExitWith, eventVars,
         faultVars, workerVars
    <2>3. RowsPosted'
      BY <1>15, OrderTypes DEF Crash, RowsPosted, ExitWith, eventVars, faultVars, workerVars
    <2>4. NumbersAhead'
      BY <1>15, OrderTypes DEF Crash, NumbersAhead, ExitWith, eventVars, faultVars,
         workerVars
    <2>5. EventsInOrder'
      BY <1>15, OrderTypes DEF Crash, EventsInOrder, ExitWith, eventVars, faultVars,
         workerVars
    <2> QED BY <1>0, <2>1, <2>2, <2>3, <2>4, <2>5
  <1>16. ASSUME NEW e \in Events, ReadSeq(e) PROVE OrderInv'
    <2>1. PipeOrdered'
      BY <1>16, OrderTypes DEF ReadSeq, PipeOrdered, Posted, Gone, ExitWith, eventVars,
         faultVars, workerVars
    <2>2. OneInFlight'
      BY <1>16, OrderTypes DEF ReadSeq, OneInFlight, Posted, InFlight, ExitWith, eventVars,
         faultVars, workerVars
    <2>3. RowsPosted'
      BY <1>16, OrderTypes DEF ReadSeq, RowsPosted, ExitWith, eventVars, faultVars,
         workerVars
    <2>4. NumbersAhead'
      <3>1. CASE handler' = [handler EXCEPT ![e] = "insert"]
        BY <1>16, <3>1, ReadSeqFacts, OrderTypes
           DEF ReadSeq, RunInv, NumbersAhead, faultVars
      <3>2. CASE UNCHANGED seqOf /\ handler' = [handler EXCEPT ![e] = "done"]
        BY <1>16, <3>2, OrderTypes DEF ReadSeq, NumbersAhead, faultVars
      <3> QED BY <1>16, <3>1, <3>2 DEF ReadSeq
    <2>5. EventsInOrder'
      BY <1>16, OrderTypes DEF ReadSeq, EventsInOrder, ExitWith, eventVars, faultVars,
         workerVars
    <2> QED BY <1>0, <2>1, <2>2, <2>3, <2>4, <2>5
  <1>17. ASSUME NEW e \in Events, InsertEvent(e) PROVE OrderInv'
    <2>0. /\ handler[e] = "insert" /\ handler' = [handler EXCEPT ![e] = "publish"]
          /\ UNCHANGED <<seqOf, timedOut, current, runner>>
          /\ DOMAIN rows' = 1..(Len(rows) + 1) /\ Len(rows') = Len(rows) + 1
          /\ \A i \in DOMAIN rows : rows'[i] = rows[i]
          /\ rows'[Len(rows) + 1] = [event |-> e, seq |-> seqOf[e]]
      <3>1. [event |-> e, seq |-> seqOf[e]] \in Rows
        BY OrderTypes DEF Rows
      <3>2. rows' = Append(rows, [event |-> e, seq |-> seqOf[e]]) /\ rows \in Seq(Rows)
        BY <1>17, OrderTypes DEF InsertEvent
      <3> QED BY <1>17, <3>1, <3>2, OrderTypes DEF InsertEvent, workerVars, faultVars
    <2>i. \A i \in DOMAIN rows' : i \in DOMAIN rows \/ i = Len(rows) + 1
      BY <2>0, OrderTypes
    <2>n. ASSUME ~timedOut, e # Input, NEW i \in DOMAIN rows, rows[i].event # Input
          PROVE  rows[i].event < e /\ rows[i].seq < seqOf[e]
      <3>1. e \in Lines /\ rows[i].event \in Lines /\ handler[rows[i].event] \in {"publish", "done"}
        BY <2>n, OrderTypes DEF RowsPosted
      <3>2. rows[i].event # e
        BY <2>0, <3>1
      <3> QED BY <2>0, <2>n, <3>1, <3>2 DEF OneInFlight, InFlight, Posted, NumbersAhead
    <2>1. PipeOrdered'
      BY <1>17, OrderTypes DEF InsertEvent, PipeOrdered, Posted, Gone, ExitWith, eventVars,
         faultVars, workerVars
    <2>2. OneInFlight'
      BY <1>17, OrderTypes DEF InsertEvent, OneInFlight, Posted, InFlight, ExitWith,
         eventVars, faultVars, workerVars
    <2>3. RowsPosted'
      <3>1. ASSUME NEW i \in DOMAIN rows'
            PROVE  /\ rows'[i].event # Input => handler'[rows'[i].event] \in {"publish", "done"}
                   /\ rows'[i].seq <= Len(rows')
        <4>1. CASE i \in DOMAIN rows
          BY <2>0, <4>1, OrderTypes DEF RowsPosted
        <4>2. CASE i = Len(rows) + 1
          BY <2>0, <4>2, OrderTypes DEF NumbersAhead
        <4> QED BY <2>i, <4>1, <4>2
      <3> QED BY <3>1 DEF RowsPosted
    <2>4. NumbersAhead'
      <3>1. \A f \in Events : seqOf'[f] <= Len(rows') + 1
        BY <2>0, OrderTypes DEF NumbersAhead
      <3>2. ASSUME ~timedOut, NEW f \in Lines, handler'[f] = "insert", NEW i \in DOMAIN rows',
                   rows'[i].event # Input
            PROVE  rows'[i].seq < seqOf[f]
        <4>1. f # e /\ handler[f] = "insert"
          BY <2>0, <3>2, OrderTypes
        <4>2. e = Input
          BY <2>0, <3>2, <4>1, OrderTypes DEF OneInFlight, InFlight, Posted
        <4>3. i \in DOMAIN rows
          BY <2>0, <2>i, <3>2, <4>2
        <4> QED BY <2>0, <3>2, <4>1, <4>3 DEF NumbersAhead
      <3> QED BY <2>0, <3>1, <3>2 DEF NumbersAhead
    <2>5. EventsInOrder'
      <3>1. ASSUME ~timedOut, NEW i \in DOMAIN rows', NEW j \in DOMAIN rows',
                   rows'[i].event # Input, rows'[j].event # Input, rows'[i].event < rows'[j].event
            PROVE  rows'[i].seq < rows'[j].seq
        <4>1. CASE i \in DOMAIN rows /\ j \in DOMAIN rows
          BY <2>0, <3>1, <4>1 DEF EventsInOrder
        <4>2. CASE i \in DOMAIN rows /\ j = Len(rows) + 1
          BY <2>0, <2>n, <3>1, <4>2
        <4>3. CASE i = Len(rows) + 1 /\ j \in DOMAIN rows
          <5>1. rows[j].event < e /\ e < rows[j].event
            BY <2>0, <2>n, <3>1, <4>3
          <5>2. rows[j].event \in Nat /\ e \in Nat
            BY <4>3, OrderTypes DEF Input
          <5> QED BY <5>1, <5>2
        <4>4. CASE i = Len(rows) + 1 /\ j = Len(rows) + 1
          BY <2>0, <3>1, <4>4, OrderTypes
        <4> QED BY <2>i, <4>1, <4>2, <4>3, <4>4
      <3> QED BY <2>0, <3>1 DEF EventsInOrder
    <2> QED BY <1>0, <2>1, <2>2, <2>3, <2>4, <2>5
  <1>18. ASSUME NEW e \in Events, PublishEvent(e) PROVE OrderInv'
    <2>1. PipeOrdered'
      BY <1>18, OrderTypes DEF PublishEvent, PipeOrdered, Posted, Gone, ExitWith,
         eventVars, faultVars, workerVars
    <2>2. OneInFlight'
      BY <1>18, OrderTypes DEF PublishEvent, OneInFlight, Posted, InFlight, ExitWith,
         eventVars, faultVars, workerVars
    <2>3. RowsPosted'
      BY <1>18, OrderTypes DEF PublishEvent, RowsPosted, ExitWith, eventVars, faultVars,
         workerVars
    <2>4. NumbersAhead'
      BY <1>18, OrderTypes DEF PublishEvent, NumbersAhead, ExitWith, eventVars, faultVars,
         workerVars
    <2>5. EventsInOrder'
      BY <1>18, OrderTypes DEF PublishEvent, EventsInOrder, ExitWith, eventVars, faultVars,
         workerVars
    <2> QED BY <1>0, <2>1, <2>2, <2>3, <2>4, <2>5
  <1>19. CASE Panel \/ UNCHANGED vars
    BY <1>0, <1>19, PanelSame, OrderSame DEF vars, workerVars, faultVars, Gone
  <1> QED BY <1>1, <1>2, <1>3, <1>4, <1>5, <1>6, <1>7, <1>8, <1>9, <1>10, <1>11, <1>12,
             <1>13, <1>14, <1>15, <1>16, <1>17, <1>18, <1>19 DEF Next, Run, Handle, Panel

-----------------------------------------------------------------------------
(* The variables keep their types, and a worker's subprocess is only       *)
(* signalled while it runs.                                                *)
THEOREM WorkerTypeCorrect == Spec => []WorkerTypeOK
  <1>1. OrderInv => WorkerTypeOK
    BY DEF OrderInv, RunInv, TypeInv
  <1> QED BY <1>1, OrderInit, OrderNext, PTL DEF Spec

(* However many lines Claude writes and however often the controller       *)
(* restarts, the events are numbered in the order they were written, as    *)
(* long as no POST times out (append_conversation_event reads the number   *)
(* before it uses it).                                                     *)
THEOREM EventsNumberedInOrder == Spec => []EventsInOrder
  <1>1. OrderInv => EventsInOrder
    BY DEF OrderInv
  <1> QED BY <1>1, OrderInit, OrderNext, PTL DEF Spec

(* A worker whose exit status says success has had its reply stored, or    *)
(* Claude said nothing (SessionRunner.run, receive_outbound).              *)
THEOREM SuccessIsStored == Spec => []SuccessMeansStored
  <1>1. OrderInv => SuccessMeansStored
    BY DEF OrderInv, RunInv, ReplyStored, SuccessMeansStored
  <1> QED BY <1>1, OrderInit, OrderNext, PTL DEF Spec

-----------------------------------------------------------------------------
(* What the list's and the panel's sort returns: the chosen elements, all  *)
(* of them and no others.                                                  *)
Ahead(s, I, i) ==
    {j \in I : s[j].seq < s[i].seq \/ (s[j].seq = s[i].seq /\ j <= i)}

LEMMA AheadIs ==
    ASSUME NEW s, NEW I, NEW i
    PROVE  Place(s, I, i) = Cardinality(Ahead(s, I, i))
  BY DEF Place, Ahead

LEMMA PlacesDiffer ==
    ASSUME NEW s \in Seq(Rows), NEW I \in SUBSET DOMAIN s, IsFiniteSet(I),
           NEW i \in I, NEW j \in I, Place(s, I, i) = Place(s, I, j)
    PROVE  i = j
  <1>1. \A k \in I : s[k].seq \in Nat /\ k \in Nat
    <2>1. \A k \in I : s[k] \in Rows /\ k \in Nat
      OBVIOUS
    <2> QED BY <2>1 DEF Rows
  <1>2. ASSUME NEW a \in I, NEW b \in I, a # b, Place(s, I, a) = Place(s, I, b),
               s[a].seq < s[b].seq \/ (s[a].seq = s[b].seq /\ a < b)
        PROVE  FALSE
    <2>1. Ahead(s, I, a) \in SUBSET Ahead(s, I, b)
      BY <1>1, <1>2 DEF Ahead
    <2>2. b \in Ahead(s, I, b) /\ b \notin Ahead(s, I, a)
      BY <1>1, <1>2 DEF Ahead
    <2>3. IsFiniteSet(Ahead(s, I, b))
      BY FS_Subset DEF Ahead
    <2>4. Ahead(s, I, a) = Ahead(s, I, b)
      BY <1>2, <2>1, <2>3, FS_Subset, AheadIs
    <2> QED BY <2>2, <2>4
  <1> QED BY <1>1, <1>2

LEMMA PlaceBounds ==
    ASSUME NEW s \in Seq(Rows), NEW I \in SUBSET DOMAIN s, IsFiniteSet(I), NEW i \in I
    PROVE  Place(s, I, i) \in 1..Cardinality(I)
  <1>1. Ahead(s, I, i) \in SUBSET I /\ i \in Ahead(s, I, i)
    <2>1. s[i] \in Rows /\ i \in Nat
      OBVIOUS
    <2> QED BY <2>1 DEF Ahead, Rows
  <1>2. IsFiniteSet(Ahead(s, I, i)) /\ Cardinality(Ahead(s, I, i)) <= Cardinality(I)
    BY <1>1, FS_Subset
  <1>3. Cardinality(Ahead(s, I, i)) \in Nat /\ Cardinality(I) \in Nat
        /\ Cardinality(Ahead(s, I, i)) # 0
    BY <1>1, <1>2, FS_CardinalityType, FS_EmptySet
  <1> QED BY <1>2, <1>3, AheadIs

LEMMA PlacesTaken ==
    ASSUME NEW s \in Seq(Rows), NEW I \in SUBSET DOMAIN s, IsFiniteSet(I),
           NEW k \in 1..Cardinality(I)
    PROVE  \E i \in I : Place(s, I, i) = k
  <1> DEFINE n == Cardinality(I)
             f == [i \in I |-> Place(s, I, i)]
  <1>1. n \in Nat
    BY FS_CardinalityType
  <1>2. f \in [I -> 1..n] /\ \A i, j \in I : f[i] = f[j] => i = j
    BY PlaceBounds, PlacesDiffer
  <1>3. f \in Injection(I, 1..n)
    BY <1>2 DEF Injection, IsInjective
  <1>4. IsFiniteSet(1..n) /\ Cardinality(1..n) = n
    BY <1>1, FS_Interval
  <1>5. f \in Surjection(I, 1..n)
    BY <1>3, <1>4, FS_Injection
  <1> QED BY <1>5 DEF Surjection

LEMMA InOrderHolds ==
    ASSUME NEW s \in Seq(Rows), NEW I \in SUBSET DOMAIN s
    PROVE  /\ InOrder(s, I) \in Seq(Rows)
           /\ \A k \in DOMAIN InOrder(s, I) : \E i \in I : InOrder(s, I)[k] = s[i]
           /\ \A i \in I : \E k \in DOMAIN InOrder(s, I) : InOrder(s, I)[k] = s[i]
  <1> DEFINE o == InOrder(s, I)
             at(k) == CHOOSE i \in I : Place(s, I, i) = k
  <1>1. IsFiniteSet(I) /\ Cardinality(I) \in Nat
    <2>1. IsFiniteSet(DOMAIN s)
      BY FS_Interval
    <2> QED BY <2>1, FS_Subset, FS_CardinalityType
  <1>2. \A k \in 1..Cardinality(I) : at(k) \in I /\ Place(s, I, at(k)) = k
    BY <1>1, PlacesTaken
  <1>3. DOMAIN o = 1..Cardinality(I) /\ \A k \in DOMAIN o : o[k] = s[at(k)]
    BY DEF InOrder
  <1>4. \A i \in I : s[i] \in Rows
    OBVIOUS
  <1>5. o \in Seq(Rows)
    <2>1. \A k \in 1..Cardinality(I) : s[at(k)] \in Rows
      BY <1>2, <1>4
    <2>2. o = [k \in 1..Cardinality(I) |-> s[at(k)]]
      BY DEF InOrder
    <2> HIDE DEF at, o
    <2> QED BY <1>1, <2>1, <2>2
  <1>6. ASSUME NEW i \in I PROVE Place(s, I, i) \in DOMAIN o /\ at(Place(s, I, i)) = i
    <2>1. Place(s, I, i) \in 1..Cardinality(I)
      BY <1>1, PlaceBounds
    <2> DEFINE j == at(Place(s, I, i))
    <2>2. j \in I /\ Place(s, I, j) = Place(s, I, i)
      BY <1>2, <2>1
    <2> HIDE DEF at
    <2> QED BY <1>1, <1>3, <2>1, <2>2, PlacesDiffer
  <1> HIDE DEF o, at
  <1>7. \A k \in DOMAIN o : \E i \in I : o[k] = s[i]
    BY <1>2, <1>3
  <1>8. \A i \in I : \E k \in DOMAIN o : o[k] = s[i]
    BY <1>3, <1>6
  <1> QED BY <1>5, <1>7, <1>8 DEF o

(* Of the elements with a key, the first is chosen. *)
LEMMA FirstsHaveKeys ==
    ASSUME NEW s \in Seq(Rows), NEW i \in DOMAIN s
    PROVE  \E j \in Firsts(s) : Key(s[j]) = Key(s[i])
  <1> DEFINE S == {j \in DOMAIN s : Key(s[j]) = Key(s[i])}
             m == Min(S)
  <1>1. S \in SUBSET Nat /\ i \in S
    OBVIOUS
  <1>2. m \in S /\ \A y \in S : m <= y
    BY <1>1, MinProperty
  <1>3. ASSUME NEW j \in 1..(m - 1) PROVE Key(s[j]) # Key(s[m])
    <2>1. j \in DOMAIN s /\ ~(m <= j)
      BY <1>1, <1>2
    <2> QED BY <1>2, <2>1
  <1> QED BY <1>2, <1>3 DEF Firsts

-----------------------------------------------------------------------------
(* Whatever the browser holds is a stored row, and so is what a handler is *)
(* about to publish.                                                       *)
Holds(s, r) == \E k \in DOMAIN s : s[k] = r

PanelStored ==
    /\ {queue, response, shown} \subseteq Seq(Rows)
    /\ \A s \in {queue, response, shown} : \A k \in DOMAIN s : Holds(rows, s[k])
    /\ \A e \in Events :
         handler[e] = "publish" => Holds(rows, [event |-> e, seq |-> seqOf[e]])

(* Row i is in the panel or on its way there: the list is not read yet, its *)
(* handler has it to publish, it is in the stream or in the answer, or      *)
(* another row has its key.                                                 *)
Reaches(i) ==
    \/ history = "asked"
    \/ handler[rows[i].event] = "publish" /\ seqOf[rows[i].event] = rows[i].seq
    \/ Holds(queue, rows[i]) \/ Holds(shown, rows[i])
    \/ history = "read" /\ Holds(response, rows[i])
    \/ \E j \in DOMAIN rows : j # i /\ Key(rows[j]) = Key(rows[i])

PanelFollows == watching => stream = "open" /\ \A i \in DOMAIN rows : Reaches(i)

PanelInv == PanelStored /\ PanelFollows

LEMMA PanelInit == Init => PanelInv
  BY DEF Init, PanelInv, PanelStored, PanelFollows, Holds, Events, Lines, Input

(* A step that neither stores nor publishes, nor concerns the browser. *)
LEMMA PanelKept ==
    ASSUME PanelInv, UNCHANGED <<panelVars, rows>>,
           \A e \in Events : /\ handler[e] = "publish" <=> handler'[e] = "publish"
                             /\ handler[e] = "publish" => seqOf'[e] = seqOf[e],
           \A i \in DOMAIN rows : rows[i].event \in Events
    PROVE  PanelInv'
  <1>1. UNCHANGED <<stream, queue, history, response, shown, watching, rows>>
    BY DEF panelVars
  <1>2. PanelStored'
    BY <1>1 DEF PanelInv, PanelStored, Holds
  <1>3. \A i \in DOMAIN rows : Reaches(i) => Reaches(i)'
    BY <1>1 DEF Reaches, Holds
  <1>4. PanelFollows'
    BY <1>1, <1>3 DEF PanelInv, PanelFollows
  <1> QED BY <1>2, <1>4 DEF PanelInv

LEMMA AppendHolds ==
    ASSUME NEW s \in Seq(Rows), NEW r \in Rows
    PROVE  /\ Append(s, r) \in Seq(Rows) /\ Holds(Append(s, r), r)
           /\ \A x : Holds(s, x) => Holds(Append(s, r), x)
           /\ \A x : Holds(Append(s, r), x) => Holds(s, x) \/ x = r
  <1> DEFINE t == Append(s, r)
  <1>1. /\ t \in Seq(Rows) /\ Len(s) \in Nat /\ DOMAIN s = 1..Len(s)
        /\ DOMAIN t = 1..(Len(s) + 1) /\ t[Len(s) + 1] = r
        /\ \A k \in DOMAIN s : t[k] = s[k]
    OBVIOUS
  <1> HIDE DEF t
  <1>2. \A k \in DOMAIN t : k \in DOMAIN s \/ k = Len(s) + 1
    BY <1>1
  <1>3. DOMAIN s \subseteq DOMAIN t /\ Len(s) + 1 \in DOMAIN t
    BY <1>1
  <1>4. t \in Seq(Rows) /\ Holds(t, r) /\ (\A x : Holds(s, x) => Holds(t, x))
        /\ \A x : Holds(t, x) => Holds(s, x) \/ x = r
    BY <1>1, <1>2, <1>3 DEF Holds
  <1> QED BY <1>4 DEF t

LEMMA JoinHolds ==
    ASSUME NEW s \in Seq(Rows), NEW t \in Seq(Rows)
    PROVE  /\ s \o t \in Seq(Rows)
           /\ \A x : Holds(s \o t, x) <=> Holds(s, x) \/ Holds(t, x)
  <1> DEFINE u == s \o t
  <1>1. /\ u \in Seq(Rows) /\ Len(s) \in Nat /\ Len(t) \in Nat
        /\ DOMAIN s = 1..Len(s) /\ DOMAIN t = 1..Len(t)
        /\ DOMAIN u = 1..(Len(s) + Len(t))
        /\ \A k \in DOMAIN s : u[k] = s[k]
        /\ \A k \in DOMAIN t : u[k + Len(s)] = t[k]
    BY ConcatProperties
  <1> HIDE DEF u
  <1>2. \A k \in DOMAIN u : k \in DOMAIN s \/ (k - Len(s) \in DOMAIN t /\ u[k] = t[k - Len(s)])
    <2>1. \A k \in DOMAIN u : k \in DOMAIN s \/ k - Len(s) \in DOMAIN t
      BY <1>1
    <2>2. \A k \in DOMAIN u : (k - Len(s)) + Len(s) = k
      BY <1>1
    <2> QED BY <1>1, <2>1, <2>2
  <1>3. DOMAIN s \subseteq DOMAIN u /\ \A k \in DOMAIN t : k + Len(s) \in DOMAIN u
    BY <1>1
  <1>4. u \in Seq(Rows) /\ \A x : Holds(u, x) <=> Holds(s, x) \/ Holds(t, x)
    BY <1>1, <1>2, <1>3 DEF Holds
  <1> QED BY <1>4 DEF u

LEMMA TailHolds ==
    ASSUME NEW s \in Seq(Rows), s # <<>>
    PROVE  /\ Head(s) \in Rows /\ Tail(s) \in Seq(Rows) /\ Holds(s, Head(s))
           /\ \A x : Holds(s, x) => x = Head(s) \/ Holds(Tail(s), x)
           /\ \A x : Holds(Tail(s), x) => Holds(s, x)
  <1> DEFINE t == Tail(s)
  <1>1. /\ t \in Seq(Rows) /\ Len(s) \in Nat /\ Len(s) # 0 /\ Head(s) = s[1]
        /\ DOMAIN s = 1..Len(s) /\ DOMAIN t = 1..(Len(s) - 1)
        /\ \A k \in DOMAIN t : t[k] = s[k + 1]
    BY HeadTailProperties
  <1> HIDE DEF t
  <1>2. 1 \in DOMAIN s /\ s[1] \in Rows
    BY <1>1
  <1>3. \A k \in DOMAIN s : k = 1 \/ (k - 1 \in DOMAIN t /\ t[k - 1] = s[k])
    <2>1. \A k \in DOMAIN s : k = 1 \/ k - 1 \in DOMAIN t
      BY <1>1
    <2>2. \A k \in DOMAIN s : (k - 1) + 1 = k
      BY <1>1
    <2> QED BY <1>1, <2>1, <2>2
  <1>4. \A k \in DOMAIN t : k + 1 \in DOMAIN s
    BY <1>1
  <1>5. /\ Head(s) \in Rows /\ t \in Seq(Rows) /\ Holds(s, Head(s))
        /\ \A x : Holds(s, x) => x = Head(s) \/ Holds(t, x)
        /\ \A x : Holds(t, x) => Holds(s, x)
    BY <1>1, <1>2, <1>3, <1>4 DEF Holds
  <1> QED BY <1>5 DEF t

(* The list holds what is stored. *)
LEMMA ListHolds ==
    ASSUME NEW s \in Seq(Rows)
    PROVE  \A x : Holds(InOrder(s, DOMAIN s), x) <=> Holds(s, x)
  BY InOrderHolds DEF Holds

(* The panel holds nothing new, and for every event one with its key. *)
LEMMA PanelHolds ==
    ASSUME NEW s \in Seq(Rows)
    PROVE  LET t == InOrder(s, Firsts(s))
           IN  /\ t \in Seq(Rows) /\ \A x : Holds(t, x) => Holds(s, x)
               /\ \A x : Holds(s, x) => \E y : Holds(t, y) /\ Key(y) = Key(x)
  <1> DEFINE I == Firsts(s)
             t == InOrder(s, I)
  <1>1. I \in SUBSET DOMAIN s
    BY DEF Firsts
  <1>2. \A i \in DOMAIN s : \E j \in I : Key(s[j]) = Key(s[i])
    BY FirstsHaveKeys
  <1> HIDE DEF I
  <1>3. /\ t \in Seq(Rows) /\ \A k \in DOMAIN t : \E i \in I : t[k] = s[i]
        /\ \A i \in I : \E k \in DOMAIN t : t[k] = s[i]
    BY <1>1, InOrderHolds
  <1> HIDE DEF t
  <1>4. /\ t \in Seq(Rows) /\ \A x : Holds(t, x) => Holds(s, x)
        /\ \A x : Holds(s, x) => \E y : Holds(t, y) /\ Key(y) = Key(x)
    BY <1>1, <1>2, <1>3 DEF Holds
  <1> QED BY <1>4 DEF t, I

(* What the browser holds is rows, by sequence. *)
LEMMA PanelStoredIs ==
    PanelStored <=>
        /\ queue \in Seq(Rows) /\ response \in Seq(Rows) /\ shown \in Seq(Rows)
        /\ \A x : Holds(queue, x) \/ Holds(response, x) \/ Holds(shown, x) => Holds(rows, x)
        /\ \A e \in Events :
             handler[e] = "publish" => Holds(rows, [event |-> e, seq |-> seqOf[e]])
  <1> DEFINE fromRows(s) == \A k \in DOMAIN s : Holds(rows, s[k])
  <1>1. \A s : fromRows(s) <=> (\A x : Holds(s, x) => Holds(rows, x))
    BY DEF Holds
  <1>2. PanelStored <=>
          /\ queue \in Seq(Rows) /\ response \in Seq(Rows) /\ shown \in Seq(Rows)
          /\ fromRows(queue) /\ fromRows(response) /\ fromRows(shown)
          /\ \A e \in Events :
               handler[e] = "publish" => Holds(rows, [event |-> e, seq |-> seqOf[e]])
    BY DEF PanelStored
  <1> HIDE DEF fromRows
  <1> QED BY <1>1, <1>2

(* A step of the browser after which it holds stored rows. *)
LEMMA PanelKeepsStored ==
    ASSUME PanelStored, UNCHANGED <<handler, seqOf, rows>>,
           queue' \in Seq(Rows), response' \in Seq(Rows), shown' \in Seq(Rows),
           \A x : Holds(queue', x) \/ Holds(response', x) \/ Holds(shown', x) => Holds(rows, x)
    PROVE  PanelStored'
  <1>1. \A s \in {queue', response', shown'} : \A k \in DOMAIN s : Holds(rows', s[k])
    BY DEF Holds
  <1>2. \A e \in Events :
          handler'[e] = "publish" => Holds(rows', [event |-> e, seq |-> seqOf'[e]])
    BY DEF PanelStored
  <1>3. {queue', response', shown'} \subseteq Seq(Rows)
    OBVIOUS
  <1> QED BY <1>1, <1>2, <1>3 DEF PanelStored, Holds

LEMMA PanelNext == OrderInv /\ PanelInv /\ [Next]_vars => PanelInv'
  <1> SUFFICES ASSUME OrderInv, PanelInv, [Next]_vars PROVE PanelInv'
    OBVIOUS
  <1>0. /\ queue \in Seq(Rows) /\ response \in Seq(Rows) /\ shown \in Seq(Rows)
        /\ rows \in Seq(Rows)
        /\ \A x : Holds(queue, x) \/ Holds(response, x) \/ Holds(shown, x) => Holds(rows, x)
        /\ \A e \in Events :
             handler[e] = "publish" => Holds(rows, [event |-> e, seq |-> seqOf[e]])
    BY PanelStoredIs, OrderTypes DEF PanelInv
  <1>1. CASE \/ StartClaude \/ ClaudeWrites \/ ClaudeExits \/ PostAnswered \/ PostTimeout
             \/ EndOfOutput \/ PostReply \/ ReplyEnds \/ Killed \/ StopRequest
             \/ ClaudeStopped \/ StoreReply \/ DeliverReply \/ UNCHANGED vars
    <2>1. UNCHANGED <<panelVars, eventVars>>
      BY <1>1 DEF StartClaude, ClaudeWrites, ClaudeExits, PostAnswered, PostTimeout,
         EndOfOutput, PostReply, ReplyEnds, Killed, StopRequest, ClaudeStopped, StoreReply,
         DeliverReply, vars
    <2> QED BY <2>1, PanelKept, OrderTypes DEF eventVars
  <1>2. CASE PostEvent
    <2>1. /\ pipe # <<>> /\ runner = "drain" /\ UNCHANGED <<panelVars, seqOf, rows>>
          /\ \/ handler' = [handler EXCEPT ![Head(pipe)] = "seq"]
             \/ UNCHANGED handler
      BY <1>2 DEF PostEvent
    <2>2. Head(pipe) = pipe[1] /\ 1 \in DOMAIN pipe /\ Head(pipe) \in Lines
      BY <2>1, HeadTailProperties, OrderTypes
    <2>3. handler[Head(pipe)] # "publish"
      <3>1. ~Posted(pipe[1])
        BY <2>1, <2>2, OrderTypes DEF OrderInv, PipeOrdered, Gone
      <3> QED BY <2>2, <3>1 DEF Posted
    <2>4. \A e \in Events : handler[e] = "publish" <=> handler'[e] = "publish"
      BY <2>1, <2>2, <2>3, OrderTypes
    <2> QED BY <2>1, <2>4, PanelKept, OrderTypes
  <1>3. ASSUME NEW e \in Events, ReadSeq(e) PROVE PanelInv'
    <2>1. /\ handler[e] = "seq" /\ UNCHANGED <<panelVars, rows>>
          /\ handler' \in {[handler EXCEPT ![e] = "done"], [handler EXCEPT ![e] = "insert"]}
          /\ \A f \in Events \ {e} : seqOf'[f] = seqOf[f]
      BY <1>3, OrderTypes DEF ReadSeq
    <2>2. \A f \in Events : /\ handler[f] = "publish" <=> handler'[f] = "publish"
                            /\ handler[f] = "publish" => seqOf'[f] = seqOf[f]
      BY <2>1, OrderTypes
    <2> QED BY <2>1, <2>2, PanelKept, OrderTypes
  <1>4. ASSUME NEW e \in Events, InsertEvent(e) PROVE PanelInv'
    <2> DEFINE r == [event |-> e, seq |-> seqOf[e]]
    <2>1. /\ handler[e] = "insert" /\ handler' = [handler EXCEPT ![e] = "publish"]
          /\ rows' = Append(rows, r)
          /\ UNCHANGED <<seqOf, stream, queue, history, response, shown, watching>>
      BY <1>4 DEF InsertEvent, panelVars
    <2>2. r \in Rows /\ r.event = e /\ r.seq = seqOf[e]
      BY OrderTypes DEF Rows
    <2> HIDE DEF r
    <2>3. /\ Holds(rows', r) /\ (\A x : Holds(rows, x) => Holds(rows', x))
      BY <2>1, <2>2, OrderTypes, AppendHolds
    <2>4. \A f \in Events : handler'[f] = "publish" => Holds(rows', [event |-> f, seq |-> seqOf[f]])
      BY <1>0, <2>1, <2>3, OrderTypes DEF r
    <2>5. PanelStored'
      BY <1>0, <2>1, <2>3, <2>4, PanelStoredIs DEF PanelStored, Holds
    <2>6. /\ DOMAIN rows' = 1..(Len(rows) + 1) /\ rows'[Len(rows) + 1] = r
          /\ \A i \in DOMAIN rows : rows'[i] = rows[i] /\ i \in DOMAIN rows'
      BY <2>1, <2>2, OrderTypes
    <2>7. ASSUME NEW i \in DOMAIN rows, Reaches(i) PROVE Reaches(i)'
      <3>1. rows'[i] = rows[i] /\ rows[i].event \in Events
        BY <2>6, OrderTypes
      <3>2. handler[rows[i].event] = "publish" => handler'[rows[i].event] = "publish"
        BY <2>1, <3>1, OrderTypes
      <3> QED BY <2>1, <2>6, <2>7, <3>1, <3>2 DEF Reaches, Holds
    <2>8. ASSUME NEW i \in DOMAIN rows', rows'[i] = r PROVE Reaches(i)'
      <3>1. handler'[e] = "publish"
        BY <2>1, OrderTypes
      <3> QED BY <2>1, <2>2, <2>8, <3>1 DEF Reaches
    <2>9. \A i \in DOMAIN rows' : i \in DOMAIN rows \/ rows'[i] = r
      <3>1. DOMAIN rows = 1..Len(rows) /\ Len(rows) \in Nat
        BY OrderTypes
      <3> QED BY <2>6, <3>1
    <2>10. PanelFollows'
      BY <2>1, <2>7, <2>8, <2>9 DEF PanelInv, PanelFollows
    <2> QED BY <2>5, <2>10 DEF PanelInv
  <1>5. ASSUME NEW e \in Events, PublishEvent(e) PROVE PanelInv'
    <2> DEFINE r == [event |-> e, seq |-> seqOf[e]]
    <2>1. /\ handler[e] = "publish" /\ handler' = [handler EXCEPT ![e] = "done"]
          /\ queue' = IF stream = "open" THEN Append(queue, r) ELSE queue
          /\ \A f \in Events \ {e} : seqOf'[f] = seqOf[f]
          /\ UNCHANGED <<rows, stream, history, response, shown, watching>>
      BY <1>5, OrderTypes DEF PublishEvent
    <2>2. r \in Rows /\ Holds(rows, r)
      BY <1>0, <2>1, OrderTypes DEF Rows
    <2>3. \A x \in Rows : x.event = e /\ x.seq = seqOf[e] => x = r
      BY DEF Rows
    <2> HIDE DEF r
    <2>4. /\ queue' \in Seq(Rows) /\ (\A x : Holds(queue, x) => Holds(queue', x))
          /\ (\A x : Holds(queue', x) => Holds(rows, x))
          /\ (stream = "open" => Holds(queue', r))
      <3>1. CASE stream = "open"
        BY <1>0, <2>1, <2>2, <3>1, AppendHolds
      <3>2. CASE stream # "open"
        BY <1>0, <2>1, <3>2
      <3> QED BY <3>1, <3>2
    <2>5. PanelStored'
      <3>1. \A f \in Events : handler'[f] = "publish" =>
              f # e /\ handler[f] = "publish" /\ seqOf'[f] = seqOf[f]
        BY <2>1, OrderTypes
      <3>2. /\ response' \in Seq(Rows) /\ shown' \in Seq(Rows) /\ rows' = rows
            /\ \A x : Holds(response', x) \/ Holds(shown', x) => Holds(rows, x)
        BY <1>0, <2>1
      <3>3. \A f \in Events :
              handler'[f] = "publish" => Holds(rows, [event |-> f, seq |-> seqOf'[f]])
        BY <1>0, <3>1
      <3> QED BY <2>4, <3>2, <3>3 DEF PanelStored, Holds
    <2>6. ASSUME watching, NEW i \in DOMAIN rows, Reaches(i) PROVE Reaches(i)'
      <3>1. stream = "open" /\ rows[i] \in Rows /\ rows[i].event \in Events
        BY <2>6, OrderTypes DEF PanelInv, PanelFollows
      <3>2. CASE rows[i].event = e /\ seqOf[e] = rows[i].seq
        <4>1. rows[i] = r
          BY <2>3, <3>1, <3>2
        <4> QED BY <2>1, <2>4, <3>1, <4>1 DEF Reaches
      <3>3. CASE ~(rows[i].event = e /\ seqOf[e] = rows[i].seq)
        <4>1. handler[rows[i].event] = "publish" /\ seqOf[rows[i].event] = rows[i].seq
                => /\ handler'[rows[i].event] = "publish"
                   /\ seqOf'[rows[i].event] = rows[i].seq
          BY <2>1, <3>1, <3>3, OrderTypes
        <4> QED BY <2>1, <2>4, <2>6, <4>1 DEF Reaches
      <3> QED BY <3>2, <3>3
    <2>7. PanelFollows'
      BY <2>1, <2>6 DEF PanelInv, PanelFollows
    <2> QED BY <2>5, <2>7 DEF PanelInv
  <1>6. CASE Crash
    <2>1. /\ queue' = <<>> /\ response' = <<>> /\ shown' = <<>> /\ watching' = FALSE
          /\ \A e \in Events : handler'[e] # "publish"
      BY <1>6 DEF Crash
    <2>2. PanelStored' /\ PanelFollows'
      BY <2>1 DEF PanelStored, PanelFollows
    <2> QED BY <2>2 DEF PanelInv
  <1>7. CASE Subscribe
    <2>1. /\ stream' = "open" /\ watching' = (history = "asked")
          /\ UNCHANGED <<queue, history, response, shown, handler, seqOf, rows>>
      BY <1>7 DEF Subscribe, eventVars
    <2>2. PanelStored'
      BY <2>1 DEF PanelInv, PanelStored, Holds
    <2>3. PanelFollows'
      BY <2>1 DEF PanelFollows, Reaches
    <2> QED BY <2>2, <2>3 DEF PanelInv
  <1>8. CASE ReadList
    <2>1. /\ history' = "read" /\ response' = InOrder(rows, DOMAIN rows)
          /\ UNCHANGED <<stream, queue, shown, watching, handler, seqOf, rows>>
      BY <1>8 DEF ReadList, eventVars
    <2>2. response' \in Seq(Rows) /\ \A x : Holds(response', x) <=> Holds(rows, x)
      BY <1>0, <2>1, InOrderHolds, ListHolds
    <2>3. PanelStored'
      <3>1. /\ queue' \in Seq(Rows) /\ response' \in Seq(Rows) /\ shown' \in Seq(Rows)
            /\ \A x : Holds(queue', x) \/ Holds(response', x) \/ Holds(shown', x) => Holds(rows, x)
        BY <1>0, <2>1, <2>2
      <3> QED BY <2>1, <3>1, PanelKeepsStored DEF PanelInv
    <2>4. \A i \in DOMAIN rows : Reaches(i)'
      BY <2>1, <2>2 DEF Reaches, Holds
    <2>5. PanelFollows'
      BY <2>1, <2>4 DEF PanelInv, PanelFollows
    <2> QED BY <2>3, <2>5 DEF PanelInv
  <1>9. CASE ShowList
    <2> DEFINE all == response \o shown
    <2>1. /\ history = "read" /\ history' = "done" /\ shown' = InOrder(all, Firsts(all))
          /\ response' = <<>>
          /\ UNCHANGED <<stream, queue, watching, handler, seqOf, rows>>
      BY <1>9 DEF ShowList, eventVars
    <2>2. all \in Seq(Rows) /\ \A x : Holds(all, x) <=> Holds(response, x) \/ Holds(shown, x)
      BY <1>0, JoinHolds
    <2> HIDE DEF all
    <2>3. /\ shown' \in Seq(Rows) /\ \A x : Holds(shown', x) => Holds(rows, x)
          /\ \A x : Holds(response, x) \/ Holds(shown, x) =>
               \E y : Holds(shown', y) /\ Key(y) = Key(x)
      BY <1>0, <2>1, <2>2, PanelHolds
    <2>4. PanelStored'
      <3>1. response' \in Seq(Rows) /\ DOMAIN response' = {}
        BY <2>1
      <3>2. queue' \in Seq(Rows) /\ \A x : Holds(queue', x) => Holds(rows, x)
        BY <1>0, <2>1
      <3>3. \A x : ~Holds(response', x)
        BY <3>1 DEF Holds
      <3> QED BY <2>1, <2>3, <3>1, <3>2, <3>3, PanelKeepsStored DEF PanelInv
    <2>5. ASSUME NEW i \in DOMAIN rows, Reaches(i) PROVE Reaches(i)'
      <3>1. CASE Holds(response, rows[i]) \/ Holds(shown, rows[i])
        <4>1. PICK y : Holds(shown', y) /\ Key(y) = Key(rows[i])
          BY <2>3, <3>1
        <4>2. PICK j \in DOMAIN rows : rows[j] = y
          BY <2>3, <4>1 DEF Holds
        <4> QED BY <2>1, <4>1, <4>2 DEF Reaches
      <3>2. CASE ~(Holds(response, rows[i]) \/ Holds(shown, rows[i]))
        BY <2>1, <2>5, <3>2 DEF Reaches, Holds
      <3> QED BY <3>1, <3>2
    <2>6. PanelFollows'
      BY <2>1, <2>5 DEF PanelInv, PanelFollows
    <2> QED BY <2>4, <2>6 DEF PanelInv
  <1>10. CASE ReceiveEvent
    <2>1. /\ queue # <<>> /\ queue' = Tail(queue) /\ shown' = Append(shown, Head(queue))
          /\ UNCHANGED <<stream, history, response, watching, handler, seqOf, rows>>
      BY <1>10 DEF ReceiveEvent, eventVars
    <2>2. /\ Head(queue) \in Rows /\ queue' \in Seq(Rows) /\ Holds(queue, Head(queue))
          /\ \A x : Holds(queue, x) => x = Head(queue) \/ Holds(queue', x)
          /\ \A x : Holds(queue', x) => Holds(queue, x)
      BY <1>0, <2>1, TailHolds
    <2>3. /\ shown' \in Seq(Rows) /\ Holds(shown', Head(queue))
          /\ \A x : Holds(shown, x) => Holds(shown', x)
          /\ \A x : Holds(shown', x) => Holds(shown, x) \/ x = Head(queue)
      BY <1>0, <2>1, <2>2, AppendHolds
    <2>4. /\ queue' \in Seq(Rows) /\ response' \in Seq(Rows) /\ shown' \in Seq(Rows)
          /\ \A x : Holds(queue', x) \/ Holds(response', x) \/ Holds(shown', x) => Holds(rows, x)
      BY <1>0, <2>1, <2>2, <2>3
    <2>5. PanelStored'
      BY <2>1, <2>4, PanelKeepsStored DEF PanelInv
    <2>6. ASSUME NEW i \in DOMAIN rows, Reaches(i) PROVE Reaches(i)'
      <3>1. Holds(queue, rows[i]) \/ Holds(shown, rows[i])
              => Holds(queue', rows[i]) \/ Holds(shown', rows[i])
        BY <2>2, <2>3
      <3> QED BY <2>1, <2>6, <3>1 DEF Reaches
    <2>7. PanelFollows'
      BY <2>1, <2>6 DEF PanelInv, PanelFollows
    <2> QED BY <2>5, <2>7 DEF PanelInv
  <1> QED BY <1>1, <1>2, <1>3, <1>4, <1>5, <1>6, <1>7, <1>8, <1>9, <1>10
          DEF Next, Run, Handle

(* A panel that was followed since before its list was read shows every     *)
(* stored event, but for those whose key another has, whichever of the      *)
(* list, the buffer and the stream brought it (sse.py, ConversationEvent-   *)
(* Panel.tsx).                                                              *)
THEOREM PanelIsComplete == Spec => []PanelComplete
  <1>1. OrderInv /\ PanelInv => PanelComplete
    <2> SUFFICES ASSUME OrderInv, PanelInv, watching, history = "done", queue = <<>>,
                        \A e \in Events : handler[e] # "publish", NEW i \in DOMAIN rows
                 PROVE  \/ \E k \in DOMAIN shown : shown[k] = rows[i]
                        \/ \E j \in DOMAIN rows : j # i /\ Key(rows[j]) = Key(rows[i])
      BY DEF PanelComplete
    <2>1. Reaches(i) /\ rows[i].event \in Events
      BY OrderTypes DEF PanelInv, PanelFollows
    <2> QED BY <2>1 DEF Reaches, Holds
  <1> QED BY <1>1, OrderInit, OrderNext, PanelInit, PanelNext, PTL DEF Spec
=============================================================================
