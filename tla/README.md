# TLA+ models of Claudius

Claudius turns an e-mail thread (or a conversation in its UI) into a *session*:
the controller stores the messages, starts a worker container that runs Claude
on them, watches the container, and starts another one for the next message.
These modules model the life cycle of a session and what it rests on: the
launch of the containers, the log tailer, the worker's run, the model proxy.
TLC checks each on small instances; TLAPS proves their safety properties for all
instances.

Paths below are relative to `src/` of the repository; `sm` is
`src/claudius/controller/session_manager.py`.

## 1. Inventory

| Component | State it keeps | Operations | Interacts with |
|---|---|---|---|
| Session manager (`sm`) | dictionaries of tail tasks, idle tasks, interrupt flags, fatal-error flags and stop requests, by execution | handle_message, continue_session, stop_execution, close_session, worker events, log tailers, idle timers, recover, shutdown, delete_pending_message, receive_outbound | database and Docker backend (awaits), broker (publishes), worker's `/shutdown` |
| Database (`controller/db.py`) | sessions, messages, executions, conversation events, logs, attachments in SQLite | one statement per call, one connection and one thread for all calls | session manager, proxy |
| Docker backend (`controller/backends/docker.py`) | containers and sidecars, addressed by session | create with conflict retry and 30 s timeouts, delete by name, tail logs, exit code | Docker daemon, in threads |
| Worker (`session/runner.py`, `session/server.py`, `cli.py`) | the Claude process, its event loop | run a prompt, post events and replies, obey `/shutdown` | controller's HTTP API |
| Sidecar and MCP bridge (`runtime_sidecar.py`, `runtime_mcp_bridge.py`, `runtime.py`) | tool server processes | start, health, forward calls | worker |
| HTTP server (`controller/server.py`) | none of its own | endpoints that call the session manager | all |
| Model proxy (`controller/proxy.py`, `proxy_adapters.py`) | session tokens, usage of a stream in progress | check token, translate streams, count usage | worker, provider, database |
| Event broker (`controller/sse.py`) | a list of queues per session | subscribe, publish, close | session manager, browser |
| Routing, configuration, templates | none (pure) | match a message to a workflow, load and render | session manager |
| Channels (`channels/`) | none | parse and send mail | session manager |
| Attachments | files by name | store, open | session manager |
| UI (`ui/`) | none of the system's | HTTP client | server |

What is hard: the controller is one asyncio process and every `await` is a
point where another request, a tailer or a timer runs. Operations of several
steps (store, read pending, acknowledge, create the row, launch, tail, settle
the state) interleave freely; nothing is locked. What a coroutine read from the
database may be stale when it acts on it; tasks cancel one another; containers
are named after the session and not after the execution; a launch that times
out goes on in its thread. `PROJECT.json` lists these hazards line by line.

What makes each component correct:

* session life cycle: no execution is left unwatched or watched twice; a
  message is acknowledged only if a worker got it or will; a closed session
  stays closed; requests come to an end; follow-ups are picked up;
* database: what several coroutines read and write adds up: sequence numbers in
  the order of the events, token usage charged once, one direction for the
  delivery status of a message;
* Docker backend: the worker starts after the sidecar's hooks, a launch that
  returns has its own containers, a failed one leaves nothing behind, a
  container of another session is not touched;
* log tailing: lines are neither lost nor repeated, and the tailer ends when the
  worker has;
* worker: what it reports as success was stored, and whatever the controller
  does, it ends;
* proxy: a client sees a well-formed message, an answer is charged what it cost
  and has its exchange on record;
* broker and UI: a panel opened at any moment shows every event.

## 2. Modules

| Module | Models |
|---|---|
| `SessionLifecycle` | `sm` for one session in one run of the controller, with the rows of `db.py` and the Docker container it works on |
| `SessionRecovery` | that session across a crash or a shutdown of the controller and `recover()` (EXTENDS `SessionLifecycle`) |
| `MCSessionLifecycle` | symmetry for TLC |
| `DockerLaunch` | `create_execution` and `delete_execution` in detail: the sidecar, its hooks and its probe, name conflicts, the threads a launch gives up |
| `LogTail` | `tail_logs` and the storing of lines by `_tail_task`, across restarts of the controller |
| `WorkerRun` | the worker's process with Claude, the controller's handlers of its events and its reply, the event broker, the panel of a browser |
| `ModelProxy` | the requests of the workers to the model: admission, log, translation of the stream, accounting |
| `AnthropicStream` | what a client of the proxy may see of a streamed message; `ModelProxy` implements it |
| `SessionLifecycleProofs` | theorems: types, ownership of executions, closed sessions, watched workers |
| `SessionDeliveryProofs` | theorems: what becomes of acknowledged and of pending messages |
| `SessionRecoveryProofs` | theorems: executions, workers and acknowledged messages across restarts |
| `DockerLaunchProofs`, `LogTailProofs`, `WorkerRunProofs`, `ModelProxyProofs` | theorems about the module they are named after |
| `DataLemmas` | least elements and sums over finite sets, for the proofs |

The life cycle sees Docker as one container name, a launch that succeeds or
fails and a worker that exits; `DockerLaunch`, `LogTail` and `WorkerRun` open
these three up. They are not composed with it. `DockerLaunch` assumes nothing of
it: launches and deletions may come at any time, also twice at once, and
launches may be cancelled. `LogTail` assumes that a tailer follows an execution
whose launch returned and whose container no other launch replaces, `WorkerRun`
that the session's events are those of one execution.

### The life cycle: state

`sess`, `msg`, `phase`, `halted` are the rows (`sessions.state`, delivery
status of a message, phase and `halted_at` of an execution). `docker[e]` is how
far the launch of execution `e` got in Docker, `container`/`up` who holds the
container name of the session and whether that process runs, `prompt[e]` which
messages were rendered into the worker's environment. `tailReg`, `interrupt`,
`fatal`, `stopReq`, `idleReg` are the dictionaries created in
`SessionManager.__init__`. `pc` and `loc` are the coroutines: one per request,
one tailer and one idle task per execution. Two history variables record
cancellations: `abandoned` (executions whose owner was cancelled) and `dropped`
(messages a cancelled launcher had acknowledged).

`SessionRecovery` EXTENDS `SessionLifecycle` and adds `life` (the process serves,
stops or recovers), `todo` (rows `recover()` has listed and not come to),
`failing` (between the two statements that give up a starting row) and `exits`.
An `Exit` keeps rows and containers and loses dictionaries and coroutines; a
message a launcher held is added to `dropped`.

The three user operations and the worker's events are constants, sets of
requests that arrive at any time, once each. `MaxExecs` bounds the executions a
session may create; when it is used up, `CreateRow` waits (safety runs lose only
behaviours; the liveness runs choose it large enough never to be reached).
A webhook and a UI message are `Inbounds` and `Continues`; what they carry is
not modelled, a message is its request.

### Atomicity

What follows holds for every module.

The event loop is single-threaded, and aiosqlite runs the calls on its
connection one by one in the order they were issued. An action is therefore the
code a coroutine runs when it resumes, up to and *including the effect of the
next database call it issues*; the result is in the coroutine's locals and may
be stale when it resumes. Reads or writes of columns no property distinguishes
(`last_execution_result`, token usage, worker address, logs) are merged with
the step before them. `broker.publish` puts into unbounded queues and
`delete_execution`, `get_exit_code` do not await: they do not yield.
`create_execution` does: the Docker thread is a process of its own
(`docker[e]`), and its timeouts leave the thread running. The POST to
`/shutdown` only makes the worker exit sooner, which `WorkerExit` may do at any
time; waits with a timeout may end at any time, the wait for a tailer by
cancelling it (`DrainExpires`). A cancelled task is delivered its cancellation
at once. Database statements and container deletion are assumed not to fail,
except for the `UNIQUE` constraint on `thread_id`.

For a restart it is assumed that it takes longer than a call of the Docker
daemon (a launch not carried out when the process ends is never carried out),
that the database is the same afterwards, and that no request is served before
`recover()` returned (`cli.py` builds the server after it). The tailers
`recover()` starts run beside it.

### The life cycle: actions

| Code | Actions |
|---|---|
| `handle_message`, `continue_session`, follow-up policies | `HandleMessage`, `ContinueSession`, `StoreOnly`, `StoreResume`, `Followup`, `FollowupStore`, `MarkInterrupt` |
| `_create_session` | `InsertSession`, `StoreFirst`, then the launch, `AckFirst` |
| `_resume_session` | `ReadPending`, `AckPending`, then the launch |
| launch, common to both | `PrepareFail`, `CreateRow`, `LaunchOk`, `LaunchFail`, `UpdateStatus`, `StartTail`, `Activate`, `HaltFailed`, `MarkFailed`, `LaunchError` |
| `stop_execution`, `close_session` | `StopExecution`, `CloseSession`, `StopGet` ... `StopClear`, `Settle` |
| `_tail_task` | `TailEnd`, `TailHalt`, `TailClean`; on an exception `TailFail`, `TailErrHalt`, `TailErrState`, `TailErrClear` |
| `_resume_or_transition` | `RestartOrSettle`, `ReadPending` ..., `Settle` |
| `_idle_stop_task`, `_arm_idle_stop` | `IdleFire`, `ArmIdleStop` |
| worker events | `ResultEvent`, `InterruptAtResult`, `FatalEvent`, `MarkFatal`, `McpFailureEvent`, `McpCancelTail`, `McpDelete`, `McpError` |
| Docker, worker | `DockerEvict`, `DockerRun`, `DockerFail`, `WorkerExit` |
| `serve` (`cli.py`), `shutdown`, `recover` | `Exit`, `Shutdown`; `RecoverStartup`, `RecoverError`, `RecoverTail`, `Serve` |

### The launch of the containers (`DockerLaunch`)

`named` is who holds the name of the worker's and of the sidecar's container
(nobody, a launch of this session, or another session whose id begins with the
same letters: names carry eight characters of it) and how that container is;
`hooks` is the sidecar's FastAPI application (`runtime_sidecar.create_app`).
`pc[l]` is the coroutine of launch `l`, `thread[l][r]` the thread that runs its
container of role `r`, which goes on when `wait_for` has given it up or the
coroutine was cancelled, and `removing` the launches with a thread of that kind
that removes their sidecar. Two history variables: `leftover[l]` are the roles of
which launch `l` may have left a container, `disturbed` the launches that others
interfered with.

| Code | Actions |
|---|---|
| `create_execution` | `Begin`, `SidecarRun`, `ProbeReady`, `ProbeFails`, `WorkerRun`, `Inspect`, `Cleanup`; cancelled at one of its awaits, `Cancel` |
| `_stop_sidecars_async` | `Cleanup`; the thread it gave up, `LateRemoval` |
| `_run_container_with_conflict_retry`, `_remove_managed_container` | `RunContainer`, `GetConflicting`, `RemoveConflicting`, `RerunContainer` |
| `delete_execution` | `DeleteWorker`, `DeleteSidecar` |
| sidecar, containers | `HooksEnd`, `ContainerExits` |

Nothing keeps two launches apart. The session manager has no lock: two coroutines
may resume a session at once, a session may be resumed between the tailer's
halting of the row and its `delete_execution`, and the tailer's error path does
not delete at all. `Begin` is therefore possible whatever the other launches do.
A launch is cancelled by the drain of a stop, by the report of a dead tool server
and by `shutdown` (`sm:416`, `sm:1717`, `sm:128`). `CancelledError` is not an
`Exception`: neither handler of `create_execution` runs, and `Cancel` stops
nothing.

`create_execution` starts at most one sidecar here, as the workflows of the
repository do; images, volumes, networks and environment are arguments the
properties do not tell apart.

### The log tailer (`LogTail`)

What goes into a row is a piece of output, as `splitlines()` and `strip()` leave
it. The daemon stamps each line, but `splitlines()` also breaks a line at a
carriage return, U+2028, NEL and others of that kind, and only the first piece
keeps the stamp; a line with nothing but blanks keeps its stamp and nothing that
separates it, which makes it a piece without one, too. An element of `log` is a
piece: its stream, the stamp of its line (`at`), and whether the piece has it
(`stamped`). `Stamps` lets the daemon's stamps ascend and be equal, which they are
within a microsecond, across streams as well; the daemon's clock is assumed not
to go back. `_parse_docker_ts` gives a piece without a stamp `datetime.now()`, or
the date its first word happens to be: any time (`ParsedAs`), which has nothing to
do with the daemon's.

`reader` and `pos` are the threads, one per stream, `queue` is `work_queue`,
`done`, `sawWorker` and `deadline` the locals of `tail_logs`, `rows` the table
`execution_logs` with the number of restarts before each row as history, `last`
the latest `logged_at` in it, `since` the timestamp a tailer resumes from.

| Code | Actions |
|---|---|
| `_stream`, a thread for each stream | `ReadLine`, `StreamDone`; broken off, `StreamBreaks` |
| the loop of `tail_logs` with `_tail_task`'s body | `Attach`, `GetItem`, `StoreLine` (`ParsedAs`, `Store`), `Check` |
| `_tail_task`'s except clause | `TailFails` |
| `recover`, `get_last_log_timestamp` | `Recover` (`LastTimestamps`) |
| containers, `delete_execution`, controller's end | `WriteLine`, `WorkerExits`, `DeleteWorker`, `DeleteSidecar`, `Crash` |

Docker's `since` counts in whole seconds: what has an older stamp may come again,
from any piece on (`Start`). `StreamBreaks` is an exception in the thread while
the container is there: it is passed over, the stream is marked done and never
followed again (`cut` records it, as it does a removal under the readers).
`TailFails` is whatever else raises, also the comparison of `since` with a date
that has no zone. `get_last_log_timestamp` takes the maximum of `logged_at` as
text. That is the latest one unless a piece began with a date of another zone;
`misled` records that `recover()` took another timestamp than the latest.

### The worker's run (`WorkerRun`)

`runner` is where `SessionRunner.run` is, `claude` and `pipe` the subprocess and
its output, `handler[e]`, `seqOf[e]` the controller's handler of event `e`,
`rows` the conversation events, `outbound` and `stored` the reply and its
handler. `stream`, `queue`, `history`, `response`, `shown` are one browser: the
SSE stream it opened, the list it asked for and what its panel shows. Event 0 is
the prompt, which the launcher records beside the worker's first events.

| Code | Actions |
|---|---|
| `SessionRunner.run`, `_drain_stdout`, `DevChannel.send_message` | `StartClaude`, `PostEvent`, `PostAnswered`, `PostTimeout`, `EndOfOutput`, `PostReply`, `ReplyEnds` |
| `/shutdown`, `graceful_stop` | `StopRequest`, `ClaudeStopped` |
| `append_conversation_event`, `SSEBroker.publish` | `ReadSeq`, `InsertEvent`, `PublishEvent` |
| `receive_outbound` | `StoreReply`, `DeliverReply` |
| `ConversationEventPanel` | `Subscribe`, `ReadList`, `ShowList`, `ReceiveEvent` |
| Claude, removal of the container, controller's end | `ClaudeWrites`, `ClaudeExits`, `Killed`, `Crash` |

`_run_claude_code` reads the pipe to its end before it waits for Claude; the pipe is
assumed to close when Claude ends (a descendant that keeps it open would hold
the worker). A line of output is an event or no JSON at all, as Claude's format has
it: one that is JSON and not an object would make `_handle_stdout_line` raise and
the run fail, which no property tells from another failure.

### The model proxy (`ModelProxy`, `AnthropicStream`)

`active` is the execution that is not halted, `charged` the token and cost
columns of the executions, `logs` the rows of the proxy log. Per request: `pc`
and `exec` (the coroutine and the `execution_id` it read), `up` (the provider's
side), `gen` (the locals of `_openai_sse_to_anthropic_sse`), `seen` (what the
client received), `body` (the usage found in `response_chunks`), `gone` (how the
client left). `billed` records which requests were charged.

| Code | Actions |
|---|---|
| `proxy` up to the upstream's answer | `Admit`, `Lookup`, `LogRequest`, `Send`, `LogFailure` |
| `body_iter` with the translation | `StreamEvent`, `YieldChunk`, `StreamEnd` |
| a JSON answer | `JsonEnd` |
| accounting | `FetchFails`, `Charge` (`Increment`), `LogResponse` |
| client, session | `Disconnect`, `HaltExecution`, `StartExecution` |

The events of a provider are those the OpenAI API sends: text, fragments of tool
calls (a call is begun before it is continued, one call after the other), a finish
reason, usage at the start, with it or after it. `AnthropicStream` says what may come next of a
message: blocks numbered from 0, one open at a time, deltas of the open block's
kind, `message_delta` after the last block and `message_stop` after it. The
refinement mapping is what the client has received (`view <- seen`).

## 3. What is checked

Operators named like an action with a suffix (`StartTailLost`,
`AckPendingSkipped`, ...) are *mutants*: the action with a plausible bug. Each
property is known to fail when its mutant replaces the action
(`PROJECT.json`, "mutants").

Runs that pass:

| Run | Instance | Shows |
|---|---|---|
| `closed_is_final` | a first message, a follow-up, a close; drains may expire | `TypeOK`, `ExecutionsOwned`, `ClosedIsFinal` |
| `launch_faults` | two messages, a report of a dead tool server; preparing, launching and tailing may fail | `ExecutionsOwned`, `AcknowledgedInHand`, `PendingNotInPrompt` |
| `interrupted_turns` | two messages under `interrupt_after_turn`, a turn's end, a fatal error, the idle timer; drains may expire | `ExecutionsOwned`, `SoleOwner`, `WorkersWatched`, `AcknowledgedInHand` |
| `requests_answered` | a message and a stop, three executions, launches may fail, drains may expire; fair | `RequestsAnswered`, `DeadWorkersHalted` |
| `restart_recovers` | `SessionRecovery`: two messages, one restart anywhere; fair | `RecoveryTypeOK`, `ExecutionsRecovered`, `WorkersRecovered`, `AcknowledgedInHand`, `DeadWorkersRecovered` |
| `launches` | `DockerLaunch`: two launches, at once or over one another, cancellations, every start of the names, deletions; fair | `LaunchTypeOK`, `HooksBeforeWorker`, `FailedLaunchIsClean`, `OwnContainers`, `ForeignSpared`, `LaunchEnds` |
| `log_tail` | `LogTail`: a stream of the worker, one of the sidecar, two pieces with or without a stamp, one restart; fair | `LogTypeOK`, `LinesOnceInOrder`, `WorkerLinesKept`, `TailEnds` |
| `worker_reports` | `WorkerRun`: two lines of Claude and the prompt, one restart of the controller, one panel; fair | `WorkerTypeOK`, `EventsInOrder`, `PanelComplete`, `SuccessMeansStored`, `WorkerEnds` |
| `proxy_streams` | `ModelProxy`: a streamed and a JSON request, two tool calls, two provider events before the end, two executions | `ProxyTypeOK`, `ChargesAddUp`, `AnswersRecorded`, `ClientProtocol` |

Bounds. Where no number is given a session may create two executions, enough for
the races between a finishing and a starting one; the life cycle's instances with
three, and with other mixes of requests and policies, were explored to a time
limit with the same results. Two launches show what an earlier one leaves to a
later one; a third meets nothing else. Two pieces of output are enough for one
before and one after a restart, for a stamped one beside one that is not and for
two streams out of step; a piece may be stored twice and the first one late. A
worker with two streams is left to the theorems. Two lines and the prompt give three events, of
which two can share a number and a third tell what was shifted by it. In
`proxy_streams` the two requests meet in the columns they charge; the translation
touches only one request, and with that request alone four events were explored.
Every run disables the deadlock check: sessions rest, launches, runs and requests
end.

What the properties except is what the code really does:

* `EventsInOrder` is about runs in which no POST timed out: a handler that runs
  on after five seconds may store its event beside the next one. The prompt may
  share a number with the worker's first event; a panel tells them apart by type.
* `PanelComplete` is about a panel whose stream was open before its list was read.
  Nothing orders the two requests: an event published between a list and a later
  subscription is not shown until the panel is opened again. One that arrives on
  the stream after the list already contained it is shown twice.
* `LinesOnceInOrder` is about one tailer and, over restarts, about pieces that
  have a stamp. A piece without one gets a new time whenever it is parsed: after a
  restart it is newer than `since`, passes the filter and is stored again. Where
  dates of several zones were compared (`misled`) `since` may be too early, and
  stamped pieces come again, too.
* `WorkerLinesKept` excepts restarts, streams that broke and removal under the
  readers. A tailer resumes from the latest stored timestamp of *all* streams, so
  that lines of a slower stream are dropped, and a piece without a stamp may have
  been stored with a time that lies ahead of the next stamps.
* `TailEnds` excepts a tailer started by `recover()` that finds a sidecar and no
  worker: it has never seen the worker and waits as long as the sidecar lives. It
  takes a crash between the two halves of `delete_execution`.
* `FailedLaunchIsClean` names what leaves a container behind, role by role: a
  thread that was given up, a container created and not started, a sidecar that
  could not be stopped; and both containers if the worker could not be inspected or
  the launch was cancelled, since no handler stops anything then.
* `OwnContainers` is about a launch nobody disturbed: no other launch and no thread
  of one was at work when it began, and since then none began and nothing was
  deleted. What stood before, returned or left behind, it evicts. A launch that
  begins over one that has returned takes its names, and the double resume does
  that.
* `ForeignSpared` excepts `delete_execution`, which finds the worker by its name.
* `AnswersRecorded` excepts answers whose client left: the task may be cancelled
  between two log rows.

`abandoned` and `dropped` appear in the life cycle's properties because of
cancellation: the one-second drain of a stop and the report of a dead tool server
cancel tailers, of which one may be launching the next execution. These are the
ways to lose an owner while the controller runs.
`ExecutionsOwned` does not say there is only one active execution: the double
resume (two coroutines that both saw none) is possible, and the second launch
evicts the first one's container by name.

`ClosedIsFinal` says that a session which is closed while no coroutine is in
flight stays closed. A coroutine that began before the close may still reopen it
for a while (it read the session when it was active, or is the tailer's restart);
what comes later may not, and the follow-up of the instance may come at any time.

`restart_recovers` has neither stops nor dead tool servers: with a stop during a
launch (`stop_during_launch`) the row is halted while its worker is about to
start, and a restart then finds nothing to tail. `WorkersRecovered` is the claim
without those. One restart is enough for what `recover()` does with any state
the first process can leave; a second one starts from states of the same kind.
A crash costs messages, too: those a launcher held stay acknowledged and reach no
worker (`dropped`), and `AcknowledgedInHand` says across restarts that no others
are lost. A crash between the launch and the acknowledgement of a first message
offers it again: `PendingNotInPrompt` is not claimed across restarts, and no
document promises it.

Fairness:

* `requests_answered`, `restart_recovers`: every coroutine that can run does,
  timers and timeouts expire, Docker's thread ends, tailers that see the end of
  the log go on, `recover()` comes to its end. Users, workers, faults and crashes
  owe nothing. Without `DrainExpires` requests do *not* always come to an end: a
  close and a stop can leave the tailer of a deleted container following the logs
  of its successor, because the logs are found by session name; the one-second
  drain is what ends the wait.
* `launches`: the coroutine of a launch runs on and its timers expire, and a
  deletion that has begun ends (its Docker calls are made on the event loop, and
  are assumed to answer). Nothing is assumed of Docker's threads, which is the
  point of `LaunchEnds`.
* `log_tail`: the loop and the threads run. The deadline of half a second is
  strong fairness on the end of `Check`: a turn of the loop after it has passed
  comes, though turns before it do not end.
* `worker_reports`: the runner runs on and its five-second timeouts expire, and a
  subprocess that got SIGTERM gets SIGKILL ten seconds later. Claude may run for
  ever and the controller may never answer.

Runs that end in a violation show what the code does where a docstring, a
comment, a test or the README says otherwise:

| Run | Property | What happens |
|---|---|---|
| `stop_during_launch` | `StopStops` | a stop during the first launch halts the row; the worker that starts afterwards runs on with no active execution on record |
| `lost_wakeup` | `FollowupsPickedUp` | a follow-up stored between the tailer's read of the pending messages and its state update waits for ever, even for a single user who waits for every answer |
| `usage_after_finish` | `UsageReported` | the usage a provider sends after the finish reason, as the request asks it to, is neither sent on nor charged |

Three more were found in the life cycle and are defined beside these, without a
run of their own (all with two executions):

| Property | What happens | Instance |
|---|---|---|
| `InterruptDelivers` | the one-second drain cancels the tailer inside its own restart; acknowledged messages reach no worker | two messages, policy `interrupt`, `DrainExpires` |
| `FailedNeverReceived` | a timed-out launch goes on in its thread; a message stored as never received is in a running worker's prompt | one message, `LaunchFaults` |
| `FatalErrorRestarts` | a fatal error with a pending message ends in ERROR; the test that expects a restart describes other code | two messages, a turn's end, a fatal error |

## 4. What is proved

Every safety invariant and action property the passing runs check is a theorem
for all values of the constants; the theorems use the constants' named
assumptions only (kinds of requests are disjoint, bounds are numbers, streams
belong to one container) and, where it is said, a hypothesis.
Each module of proofs is built the same way: an inductive invariant in layers,
each layer with the lemmas its steps need, one step per action.

### The life cycle (`SessionLifecycleProofs`, `SessionDeliveryProofs`)

For every set of requests, every policy, every number of executions and every
combination of faults:

* `TypeCorrect`: `Spec => []TypeOK`. `TypeInv` adds that a coroutine at a label
  that acts on an execution names one (`LocalsNamed`) and that only messages are
  stored first.
* `EveryExecutionOwned`: `Spec => []ExecutionsOwned`, and `NoSharedExecution`:
  `Spec => []SoleOwner`. Neither is inductive. `OwnersBut(S)` adds: a tailer
  works for its own execution; a launcher is the only one of its execution, and
  its tailer has not started; an execution without a row has no tailer. `S` is
  a set of rows that wait for an owner from elsewhere, none in one run of the
  process. The argument: `CreateRow` takes a fresh execution, `StartTail` hands
  it over, and every other action either keeps its owner or halts it
  (`KeepsOwnership`), or cancels the owner, which `abandoned` records.
* `ClosedStaysClosed`: `Spec => ClosedIsFinal`. With nothing in flight nobody
  owns an execution, so that none is active (`ExecutionsOwned`); from there
  `RestsClosed` is kept: what arrives at a closed session without an active
  execution is refused, stored or ignored.
* `WorkersAreWatched`: `~LaunchFaults /\ ~TailFaults` implies
  `Spec => []WorkersWatched`. `StepKinds` sorts the steps: most move a coroutine
  that owns nothing and change neither launches nor tailers (`Aside`).
  `DockInv` says that a coroutine lets go of an execution only when no worker of
  it runs nor will, `WatchInv` that a launch Docker has not carried out has its
  launcher. Both hypotheses are needed: a launch that times out and a tailer that
  raises do leave a container behind.
* `AcknowledgedMessagesInHand`: `Spec => []AcknowledgedInHand`. `HandInv` adds
  that the prompt of an execution is what its launcher holds until the launch
  succeeded (`PromptHeld`), that a launcher past `LaunchOk` has an execution
  Docker ran (`LaunchedRan`), and that an execution without a row was never
  launched (`FreshDocker`), so that a prompt, once run, is never overwritten.
* `PromptsNotOfferedAgain`: `Spec => []PendingNotInPrompt`. `PendInv` adds that
  a message is stored once and by its own request (`StoredLater`), that what is
  held or written into a prompt was stored before (`HeldStored`), that a
  launcher about to create a row holds no pending message but its own
  (`CreatorsOwn`), and that a pending message whose request is launching is the
  first of its session and held by it (`FirstHeld`): `AckFirst` or `MarkFailed`
  will settle it.

Nearly every action moves one coroutine and cancels some tasks, so one lemma per
invariant (`MoveControl`, `MoveOwners`, `MovePrompt`, `MovePending`, `MoveDock`,
`MoveWatch`) carries the argument and each action only meets its hypotheses;
`CreateRow`, `StartTail` and `ArmIdleStop`, which start something, are done by
hand.

### Restarts (`SessionRecoveryProofs`)

For every number of ends of the process, wherever they come:

* `RecoveryTypeCorrect`: `RecoverySpec => []RecoveryTypeOK`.
* `ExecutionsAreRecovered`: `RecoverySpec => []ExecutionsRecovered`, and
  `NoSharedRecovery`: `SoleOwner` holds across restarts. The invariant is
  `OwnersBut(todo)`: while a process runs, the life cycle's own step lemma keeps
  it; at the end of the process every row that is not halted goes on `todo`; and
  `RecoverTail` finds the tailer of such a row not started and no launcher of it
  (`Waiting`), also when tailers it started before are launching again.
* `WorkersAreRecovered`: `NothingStops` implies
  `RecoverySpec => []WorkersRecovered`. `NothingStops` says what `restart_recovers`
  assumes: no stops, closes, ends of turns or dead tool servers, no interrupting
  policy, no faults. Then a worker that runs or may still be started belongs to
  a row that is not halted (`WorkersActive`), and no row on `todo` is being
  launched, since a launch is lost with its process (`ListedLaunched`).
* `AcknowledgedAcrossRestarts`: `RecoverySpec => []AcknowledgedInHand`, from the
  life cycle's `HandInv`, whose step lemma needs of the owners only that a
  launcher comes before its tailer (`LaunchersFirst`): the end of the process
  drops what launchers held and takes no carried-out launch back, and `recover()`
  launches nothing.

### The containers (`DockerLaunchProofs`)

For every number of launches, with deletions and given-up threads anywhere:

* `LaunchTypeCorrect`, and `HooksFirst`: `Spec => []HooksBeforeWorker`. A thread
  for the worker exists only after the probe succeeded (`ThreadsInStep`,
  `HooksInStep`), and a container has a launch's name only when that launch's
  thread has ended (`NamedByThread`).
* `FailedLaunchCleans`: `Spec => []FailedLaunchIsClean`. `CleanInv`: of a role a
  launch is not on record for (`leftover`) it has only a container its thread ran
  well; on its way to raise no such thread is at work any more, and its sidecar is
  gone once it has raised. A coroutine that is cancelled puts both roles on record.
* `LaunchOwnsContainers`: `Spec => []OwnContainers`. `Alone`: while a launch is
  not disturbed no other launch is under way, no thread of another works, and what
  its threads ran still has the names. A `Begin` disturbs every launch that
  stands, in whatever state the others are; `RemovingFailed` says that a thread
  which removes a sidecar late belongs to a launch that has raised.
* `ForeignContainersSpared`: `Spec => ForeignSpared`, from the types: what a thread
  has looked up to remove it (`handle`) is a container of a launch, and a thread
  that gives its container a name found it free.

### The logs (`LogTailProofs`)

For every number of streams, pieces and restarts, stamped or not:

* `LogTypeCorrect`, and `LinesStoredOnce`: `Spec => []LinesOnceInOrder`. The
  invariants follow a piece from its reader through the work queue and the
  tailer's hand into a row: what is in the queue was read (`OfStream`), and the
  items of a stream are ascending with its mark last (`InHandOrdered`). Within one
  tailer that is enough. Across restarts a row is before all that is still on its
  way, or its stamp is at or before the timestamp the tailer started from
  (`RowBefore`), so that the filter drops it: this needs that stamps ascend
  (`StampsAscend`), that a stamped row's stamp counts in `last` (`RowsKnown`) and
  that `recover()` took the latest (`~misled`).
* `WorkerLinesComplete`: `Spec => []WorkerLinesKept`. `NoneDropped`: without a
  restart every line read is in a row, in the queue or in hand; `DoneRead`: a
  reader that is done has read all; `MarksTaken`: a stream counted as done has
  nothing in the queue; `WorkerSeen`, `EndedDone`: the tailer ends only after the
  worker's streams. A stream that breaks is done without having been read: `cut`
  excepts it.

### The worker (`WorkerRunProofs`)

For every number of lines and of restarts of the controller:

* `WorkerTypeCorrect`, and `SuccessIsStored`: `Spec => []SuccessMeansStored`
  (`Stages`, `ReplyStored`).
* `EventsNumberedInOrder`: `Spec => []EventsInOrder`. Unless a POST timed out one
  event of Claude is in flight at a time and every earlier one is through
  (`OneInFlight`), and a number that was read is above those of all its events
  (`NumbersAhead`), although the prompt may be stored between the reading and the
  insertion.
* `PanelIsComplete`: `Spec => []PanelComplete`. `PanelStored`: the browser holds
  stored rows only, and a handler publishes only what it stored. `PanelFollows`:
  while a panel is followed, each row still has a way into it, through the list
  that is not read yet, the handler that will publish it, the stream, the answer or
  the panel itself, unless another row has its key. It rests on what the sort
  returns (`InOrderHolds`): `Place` numbers the chosen positions one to one, so by
  counting no element is lost, and the first event of a key is always chosen
  (`FirstsHaveKeys`).

### The proxy (`ModelProxyProofs`)

For every number of requests, tools, events of a provider and executions:

* `ProxyTypeCorrect`, and `StreamsWellFormed`: `Spec => ClientProtocol`, the
  refinement of `AnthropicStream`, for a provider that sends one tool call after the
  other (of mixed calls the code would send deltas for closed blocks): an event that reaches a client is a legal next
  event of its message, all other steps stutter. `StreamInv` relates the
  generator's locals to what the client has seen: the chunks still to be yielded
  lead, legally one after the other, to a view that agrees with the locals.
* `AnswersOnRecord`: `Spec => []AnswersRecorded`, by where the request's coroutine
  is (`Recorded`).
* `ChargesAreSums`: `Spec => []ChargesAddUp`. `Metered` bounds what the body of an
  answer has counted: the input once, the output once.

`DataLemmas` holds what these modules share: the least and the greatest element of
a bounded set of numbers, and the sum of a function over a finite set, which
`Increment` extends by one term (`SumAdd`). The sum is a fold, that is a recursive
function; its lemmas are proved by a least counterexample, since the library's
induction theorems cannot be instantiated.

### Only model-checked

* Liveness (`RequestsAnswered`, `DeadWorkersHalted`, `DeadWorkersRecovered`,
  `LaunchEnds`, `TailEnds`, `WorkerEnds`): fairness is out of the prover's reach.
* The runs that end in a violation.

## 5. What is left to prove

1. That the panel is in order: `InOrder` is ascending in `seq`, which the counting
   argument of `PlacesTaken` nearly gives.
2. `delete_pending_message` as a request of the life cycle, with `HandInv` and
   `PendInv` for messages that may disappear.

## 6. Not modelled

* Matching of messages to workflows, configuration and templates, and the
  translation of requests to other providers: pure functions of their inputs,
  which the repository's tests cover case by case.
* Bodies that pass through unchanged (an Anthropic upstream), headers, parsing
  and serialisation of the HTTP endpoints.
* Mail, attachment files, workspaces, volumes: I/O around data no property is
  about.
* Calls of tools through the sidecar and the MCP bridge, which keep no state
  between calls.
* `resend_outbound_message` and `delete_pending_message`. The latter checks the
  status, awaits, and deletes, while a resume may acknowledge the same message;
  a session's messages would have to be deletable in every invariant proved.
* The token a worker compares on `/shutdown`: it is minted anew with an expiry in
  seconds, so it equals the worker's own only within the same second, and nearly
  every graceful stop is refused. `SessionLifecycle` lets every such request fail,
  `WorkerRun` lets it arrive.
* The memory of the broker's unbounded queues, and `close()`.
* The UI but for the panel of conversation events.
