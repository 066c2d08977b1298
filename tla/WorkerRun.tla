------------------------------- MODULE WorkerRun -------------------------------
(***************************************************************************)
(* One worker's run: Claude Code under SessionRunner (session/runner.py)   *)
(* in the worker process (cli.py, session/server.py), the controller's     *)
(* handlers that store and publish its events and its reply, and a browser *)
(* that watches them (sse.py, ui/ConversationEventPanel.tsx).              *)
(*                                                                         *)
(* A handler's step runs up to and including its next database call.  The  *)
(* worker's requests time out after 5 s; their handlers run on.            *)
(***************************************************************************)
EXTENDS Integers, Sequences, SequencesExt, FiniteSets, FiniteSetsExt

CONSTANTS
    MaxLines,       \* bound: lines Claude writes
    MaxCrashes      \* bound: restarts of the controller

ASSUME RunAssumption == {MaxLines, MaxCrashes} \subseteq Nat

Lines == 1..MaxLines        \* in the order Claude writes them
Input == 0                  \* the prompt, recorded by the launcher
Events == {Input} \cup Lines

VARIABLES
    runner,     \* where SessionRunner.run is
    claude,     \* the subprocess: none, running, succeeded, failed
    pipe,       \* lines of stdout not read yet
    emitted,    \* lines written so far
    current,    \* the line whose POST is in flight
    handler,    \* where the controller's handler of each event is
    seqOf,      \* the number get_next_conversation_event_seq returned to it
    rows,       \* conversation_events of the execution, by id
    outbound,   \* where the handler of the reply is
    stored,     \* the reply is stored
    crashes, timedOut, \* crashes so far; history: a POST timed out
    stop,       \* Claude was sent SIGTERM by graceful_stop
    stream,     \* the browser's event stream: closed, open
    queue,      \* what it still has to receive
    history,    \* GET conversation-events: asked, read, done, failed
    response,   \* its answer
    shown,      \* the panel's events, buffered ones until history is done
    watching    \* history: open since before the list was read

workerVars == <<runner, claude, pipe, emitted, current>>
eventVars == <<handler, seqOf, rows>>
replyVars == <<outbound, stored>>
faultVars == <<crashes, timedOut>>
panelVars == <<stream, queue, history, response, shown, watching>>
vars == <<workerVars, eventVars, replyVars, faultVars, stop, panelVars>>

Idle == 0   \* no POST in flight

(* The launcher's input event goes straight to its sequence number. *)
Init ==
    /\ runner = "sync" /\ claude = "none" /\ pipe = <<>> /\ emitted = 0
    /\ current = Idle
    /\ handler = [e \in Events |-> IF e = Input THEN "seq" ELSE "none"]
    /\ seqOf = [e \in Events |-> 0] /\ rows = <<>>
    /\ outbound = "none" /\ stored = FALSE
    /\ crashes = 0 /\ timedOut = FALSE
    /\ stop = FALSE
    /\ stream = "closed" /\ queue = <<>> /\ history = "asked"
    /\ response = <<>> /\ shown = <<>> /\ watching = FALSE

(* Claude said something: the lines are those with text or a result.       *)
Heard == emitted > Len(pipe)

Gone == runner \in {"exited0", "exited1", "killed"}

-----------------------------------------------------------------------------
(* The worker. *)

(* Attachments are synced, or not, then the subprocess starts; that a stop *)
(* was requested meanwhile is not looked at.  What raises here ends the    *)
(* run without a reply.                                                    *)
StartClaude ==
    /\ runner = "sync"
    /\ \/ runner' = "drain" /\ claude' = "running"
       \/ runner' = "exited1" /\ UNCHANGED claude
    /\ UNCHANGED <<pipe, emitted, current, eventVars, replyVars, faultVars,
                   stop, panelVars>>

ClaudeWrites ==
    /\ claude = "running" /\ emitted < MaxLines /\ ~Gone
    /\ emitted' = emitted + 1 /\ pipe' = Append(pipe, emitted + 1)
    /\ UNCHANGED <<runner, claude, current, eventVars, replyVars, faultVars,
                   stop, panelVars>>

ClaudeExits ==
    /\ claude = "running" /\ ~Gone /\ claude' \in {"succeeded", "failed"}
    /\ stop' = FALSE
    /\ UNCHANGED <<runner, pipe, emitted, current, eventVars, replyVars,
                   faultVars, panelVars>>

(* Mutant of PostEvent: events are posted without waiting for the answer.  *)
PostEventUnawaited ==
    /\ runner = "drain" /\ pipe # <<>>
    /\ current' = Idle /\ pipe' = Tail(pipe)
    /\ handler' = [handler EXCEPT ![Head(pipe)] = "seq"]
    /\ UNCHANGED <<runner, claude, emitted, seqOf, rows, replyVars, faultVars,
                   stop, panelVars>>

(* The next line is posted; a controller out of reach loses the event.     *)
PostEvent ==
    /\ runner = "drain" /\ current = Idle /\ pipe # <<>>
    /\ pipe' = Tail(pipe)
    /\ \/ current' = Head(pipe) /\ handler' = [handler EXCEPT ![Head(pipe)] = "seq"]
       \/ UNCHANGED <<current, handler>>
    /\ UNCHANGED <<runner, claude, emitted, seqOf, rows, replyVars, faultVars,
                   stop, panelVars>>

(* The answer, whatever its status, or the broken connection. *)
PostAnswered ==
    /\ runner = "drain" /\ current # Idle /\ handler[current] = "done"
    /\ current' = Idle
    /\ UNCHANGED <<runner, claude, pipe, emitted, eventVars, replyVars, faultVars,
                   stop, panelVars>>

(* Mutant of PostTimeout: the client waits for ever.                       *)
PostTimeoutNever == FALSE /\ UNCHANGED vars

(* timeout=5.0 of the POST; the exception is swallowed.                    *)
PostTimeout ==
    /\ runner = "drain" /\ current # Idle /\ handler[current] # "done"
    /\ current' = Idle /\ timedOut' = TRUE
    /\ UNCHANGED <<runner, claude, pipe, emitted, eventVars, replyVars, crashes,
                   stop, panelVars>>

(* The process ends with the status of SessionRunner.run. *)
ExitWith(ok) ==
    runner' = (IF ok THEN "exited0" ELSE "exited1") /\ claude' = "none"

(* End of the pipe.  The body is the result, the assistant's text or, of a *)
(* failure without either, the error; without a body nothing is sent.      *)
EndOfOutput ==
    /\ runner = "drain" /\ current = Idle /\ pipe = <<>>
    /\ claude \in {"succeeded", "failed"}
    /\ IF Heard \/ claude = "failed" THEN runner' = "reply" /\ UNCHANGED claude
       ELSE ExitWith(TRUE)
    /\ UNCHANGED <<pipe, emitted, current, eventVars, replyVars, faultVars,
                   stop, panelVars>>

(* DevChannel.send_message: a POST with a timeout of 5 s, too.             *)
PostReply ==
    /\ runner = "reply"
    /\ \/ outbound' = "store" /\ runner' = "replying" /\ UNCHANGED claude
       \/ ExitWith(FALSE) /\ UNCHANGED outbound
    /\ UNCHANGED <<pipe, emitted, current, eventVars, stored, faultVars,
                   stop, panelVars>>

(* Mutant of ReplyEnds: a reply that cannot be sent is ignored.            *)
ReplyEndsIgnored ==
    /\ runner = "replying" /\ ExitWith(claude = "succeeded")
    /\ UNCHANGED <<pipe, emitted, current, eventVars, replyVars, faultVars,
                   stop, panelVars>>

(* An answer of any status ends the run with Claude's exit status; a time  *)
(* out or a lost connection raises.                                        *)
ReplyEnds ==
    /\ runner = "replying"
    /\ \/ outbound = "done" /\ ExitWith(claude = "succeeded")
       \/ outbound # "done" /\ ExitWith(FALSE)
    /\ UNCHANGED <<pipe, emitted, current, eventVars, replyVars, faultVars,
                   stop, panelVars>>

(* The container is removed. *)
Killed ==
    /\ ~Gone /\ runner' = "killed" /\ claude' = "none" /\ pipe' = <<>>
    /\ current' = Idle /\ stop' = FALSE /\ emitted' = 0
    /\ UNCHANGED <<eventVars, replyVars, faultVars, panelVars>>

-----------------------------------------------------------------------------
(* /shutdown of the worker. *)

(* _require_token compares the token the worker was started with to the    *)
(* one _request_worker_stop has just minted, whose exp counts in seconds:  *)
(* a request is refused but within the second of the launch.  Without a    *)
(* subprocess graceful_stop reports success and does nothing.              *)
StopRequest ==
    /\ ~Gone /\ claude = "running" /\ stop' = TRUE
    /\ UNCHANGED <<workerVars, eventVars, replyVars, faultVars, panelVars>>

(* Mutant of ClaudeStopped: it is signalled again when it has ended.       *)
ClaudeStoppedAgain ==
    /\ stop /\ claude' = "failed" /\ UNCHANGED stop
    /\ UNCHANGED <<runner, pipe, emitted, current, eventVars, replyVars,
                   faultVars, panelVars>>

(* SIGTERM, or SIGKILL ten seconds later. *)
ClaudeStopped ==
    /\ stop /\ claude' = "failed" /\ stop' = FALSE
    /\ UNCHANGED <<runner, pipe, emitted, current, eventVars, replyVars,
                   faultVars, panelVars>>

-----------------------------------------------------------------------------
(* The controller. *)

(* get_active_execution answers 404 (or another execution) once this one   *)
(* is halted; otherwise SELECT MAX(seq) + 1.                               *)
ReadSeq(e) ==
    /\ handler[e] = "seq"
    /\ \/ /\ e # Input
          /\ handler' = [handler EXCEPT ![e] = "done"] /\ UNCHANGED seqOf
       \/ /\ handler' = [handler EXCEPT ![e] = "insert"]
          /\ seqOf' = [seqOf EXCEPT ![e] = Max({0} \cup {rows[i].seq : i \in DOMAIN rows}) + 1]
    /\ UNCHANGED <<rows, workerVars, replyVars, faultVars, stop, panelVars>>

InsertEvent(e) ==
    /\ handler[e] = "insert" /\ handler' = [handler EXCEPT ![e] = "publish"]
    /\ rows' = Append(rows, [event |-> e, seq |-> seqOf[e]])
    /\ UNCHANGED <<seqOf, workerVars, replyVars, faultVars, stop, panelVars>>

(* Mutant of PublishEvent: only the launcher's event is published.         *)
PublishEventSkipped(e) ==
    /\ handler[e] = "publish" /\ handler' = [handler EXCEPT ![e] = "done"]
    /\ queue' = IF e = Input THEN Append(queue, [event |-> e, seq |-> seqOf[e]]) ELSE queue
    /\ UNCHANGED <<seqOf, rows, workerVars, replyVars, faultVars, stop,
                   stream, history, response, shown, watching>>

(* SSEBroker.publish: to the queues subscribed now. *)
PublishEvent(e) ==
    /\ handler[e] = "publish" /\ handler' = [handler EXCEPT ![e] = "done"]
    /\ queue' = IF stream = "open" THEN Append(queue, [event |-> e, seq |-> seqOf[e]])
                ELSE queue
    /\ seqOf' = [seqOf EXCEPT ![e] = 0]
    /\ UNCHANGED <<rows, workerVars, replyVars, faultVars, stop,
                   stream, history, response, shown, watching>>

(* receive_outbound: the reply is stored, then its attachments (a failure  *)
(* answers 500), then it goes to the channel, whose failure is logged.     *)
StoreReply ==
    /\ outbound = "store" /\ stored' = TRUE /\ outbound' \in {"deliver", "done"}
    /\ UNCHANGED <<workerVars, eventVars, faultVars, stop, panelVars>>

DeliverReply ==
    /\ outbound = "deliver" /\ outbound' = "done"
    /\ UNCHANGED <<stored, workerVars, eventVars, faultVars, stop, panelVars>>

(* The controller process ends and a new one serves: handlers, queues and  *)
(* connections are lost, committed rows stay.  A panel that was open then  *)
(* is not followed any further.                                            *)
Crash ==
    /\ crashes < MaxCrashes /\ crashes' = crashes + 1
    /\ handler' = [e \in Events |->
                     IF handler[e] = "none" THEN "none" ELSE "done"]
    /\ seqOf' = [e \in Events |-> 0]
    /\ outbound' = IF outbound \in {"none", "done"} THEN outbound ELSE "lost"
    /\ stream' = "closed" /\ queue' = <<>> /\ watching' = FALSE
    /\ history' = "failed" /\ response' = <<>> /\ shown' = <<>>
    /\ UNCHANGED <<workerVars, rows, stored, timedOut, stop>>

-----------------------------------------------------------------------------
(* The browser.  Opening the panel subscribes and asks for the list; the   *)
(* two requests may be served in either order.                             *)

(* GET /events subscribes. *)
Subscribe ==
    /\ history # "failed" /\ stream = "closed" /\ stream' = "open"
    /\ watching' = (history = "asked")
    /\ UNCHANGED <<queue, history, response, shown, workerVars, eventVars, replyVars,
                   faultVars, stop>>

(* The elements of s at positions I, by number and then by position.       *)
Place(s, I, i) ==
    Cardinality({j \in I : s[j].seq < s[i].seq \/ (s[j].seq = s[i].seq /\ j <= i)})
InOrder(s, I) == [k \in 1..Cardinality(I) |-> s[CHOOSE i \in I : Place(s, I, i) = k]]

(* list_conversation_events: ORDER BY seq, id.                             *)
ReadList ==
    /\ history = "asked" /\ history' = "read"
    /\ response' = InOrder(rows, DOMAIN rows)
    /\ UNCHANGED <<stream, queue, shown, watching, workerVars, eventVars, replyVars,
                   faultVars, stop>>

(* The key by which the panel tells events apart: number and type.         *)
Key(r) == <<r.seq, r.event = Input>>

(* Mutant of ShowList: the buffered events are forgotten.                  *)
ShowListOnly ==
    /\ history = "read" /\ history' = "done" /\ shown' = response
    /\ UNCHANGED <<stream, queue, response, watching, workerVars, eventVars, replyVars,
                   faultVars, stop>>

(* The list and what was buffered, without repeated keys; the sort is      *)
(* stable.                                                                 *)
Firsts(s) == {i \in DOMAIN s : \A j \in 1..(i - 1) : Key(s[j]) # Key(s[i])}

ShowList ==
    /\ history = "read" /\ history' = "done"
    /\ shown' = InOrder(response \o shown, Firsts(response \o shown))
    /\ response' = <<>>
    /\ UNCHANGED <<stream, queue, watching, workerVars, eventVars, replyVars, faultVars,
                   stop>>

ReceiveEvent ==
    /\ stream = "open" /\ queue # <<>>
    /\ queue' = Tail(queue) /\ shown' = Append(shown, Head(queue))
    /\ UNCHANGED <<stream, history, response, watching, workerVars, eventVars, replyVars,
                   faultVars, stop>>

-----------------------------------------------------------------------------
Run ==
    \/ StartClaude \/ PostEvent \/ PostAnswered \/ PostTimeout \/ EndOfOutput
    \/ PostReply \/ ReplyEnds

Handle(e) == ReadSeq(e) \/ InsertEvent(e) \/ PublishEvent(e)

Next ==
    \/ Run \/ ClaudeWrites \/ ClaudeExits \/ Killed
    \/ StopRequest \/ ClaudeStopped
    \/ \E e \in Events : Handle(e)
    \/ StoreReply \/ DeliverReply \/ Crash
    \/ Subscribe \/ ReadList \/ ShowList \/ ReceiveEvent

Spec == Init /\ [][Next]_vars

(* The runner runs on and its timers expire, and a signalled subprocess is *)
(* killed in the end; nothing is assumed of Claude or of the controller.   *)
FairSpec == Spec /\ WF_vars(Run) /\ WF_vars(ClaudeStopped)

-----------------------------------------------------------------------------
WorkerTypeOK ==
    /\ runner \in {"sync", "drain", "reply", "replying", "exited0", "exited1", "killed"}
    /\ claude \in {"none", "running", "succeeded", "failed"}
    /\ emitted \in 0..MaxLines /\ Len(pipe) <= emitted
    /\ current \in {Idle} \cup Lines
    /\ handler \in [Events -> {"none", "seq", "insert", "publish", "done"}]
    /\ outbound \in {"none", "store", "deliver", "done", "lost"}
    /\ {stored, stop} \subseteq BOOLEAN /\ (stop => claude = "running")

(* As long as no POST timed out, the stored events of a worker have        *)
(* distinct numbers in the order Claude wrote them, although each number   *)
(* is read before it is used (append_conversation_event); only the         *)
(* launcher's input event may share one.                                   *)
EventsInOrder ==
    ~timedOut =>
        \A i, j \in DOMAIN rows :
            rows[i].event # Input /\ rows[j].event # Input /\ rows[i].event < rows[j].event
                => rows[i].seq < rows[j].seq

(* A panel whose stream was open before its list was read, and ever since, *)
(* in the end shows every stored event, except one whose key another has,  *)
(* whichever way the list, the buffer and the stream overlapped.           *)
PanelComplete ==
    /\ watching /\ history = "done" /\ queue = <<>>
    /\ \A e \in Events : handler[e] # "publish"
    => \A i \in DOMAIN rows :
         \/ \E k \in DOMAIN shown : shown[k] = rows[i]
         \/ \E j \in DOMAIN rows : j # i /\ Key(rows[j]) = Key(rows[i])

(* A worker that reports success has stored what Claude said, whatever     *)
(* became of the controller meanwhile (SessionRunner.run).                 *)
SuccessMeansStored == runner = "exited0" /\ Heard => stored

(* When Claude has ended, or a stop was accepted, the worker ends, with    *)
(* whatever controller: none of its requests holds it for ever.            *)
WorkerEnds == claude \in {"succeeded", "failed"} \/ stop ~> Gone
=============================================================================
