------------------------------ MODULE ModelProxy ------------------------------
(***************************************************************************)
(* The model proxy (controller/proxy.py) for the workers of one session,   *)
(* with the translation of OpenAI streams (controller/proxy_adapters.py):  *)
(* a request is admitted, logged, forwarded, its answer translated while   *)
(* it arrives, and at the end its usage is charged to an execution.        *)
(* log_conversation is on; without it nothing is logged or charged.        *)
(*                                                                         *)
(* A coroutine's step runs up to and including its next database call.     *)
(***************************************************************************)
EXTENDS Integers, Sequences, FiniteSets, Functions

CONSTANTS
    Requests,       \* requests of the session's workers
    Streaming,      \* those that ask for a streamed answer
    Tools,          \* indices of tool calls in an answer
    MaxExecs,       \* bound: executions of the session
    MaxEvents,      \* bound: events of all streams together
    OpenRouter,     \* the upstream is OpenRouter, whose costs are fetched
    Priced          \* model_pricing is configured

ASSUME ProxyAssumption ==
    /\ MaxExecs \in Nat \ {0} /\ MaxEvents \in Nat
    /\ Streaming \subseteq Requests /\ Tools \subseteq Nat
    /\ {OpenRouter, Priced} \subseteq BOOLEAN

Retries == 3    \* _OPENROUTER_GENERATION_RETRIES

Execs == 1..MaxExecs
NoExec == 0
NoEvent == [type |-> "none"]
NoTool == -1
Kinds == {"text", "tool_use"}
NoCounts == [input |-> 0, output |-> 0]
Spent == [input |-> 1, output |-> 1]    \* what one answer costs, in units
Stages == {"request_in", "request_out", "response_in", "response_out"}

VARIABLES
    active,     \* the execution that is not halted, if any
    created,    \* executions created so far
    charged,    \* token columns of each execution, and how often a cost was added
    logs,       \* stages of the proxy log rows of each request, in order
    pc,         \* where each request's coroutine is
    exec,       \* execution_id a request's coroutine read
    gone,       \* has the client left: no, closed (body_iter is closed later,
                \* and runs to its end) or cut (its next await is cancelled)
    up,         \* the provider's side of an answer
    gen,        \* locals of _openai_sse_to_anthropic_sse
    seen,       \* what the client has received
    body,       \* usage found in response_chunks
    tries,      \* attempts of fetch_cost_usd
    sent,       \* events sent by providers so far
    billed      \* history: requests whose usage was charged

requestVars == <<pc, exec, gone>>
streamVars == <<up, gen, seen, body, sent>>
execVars == <<active, created>>
billVars == <<charged, billed, tries>>
vars == <<requestVars, streamVars, execVars, billVars, logs>>

-----------------------------------------------------------------------------
(* _openai_sse_to_anthropic_sse: the effect of one upstream event on the   *)
(* generator's locals, the events it will yield last.                      *)

NewGen == [started |-> FALSE, index |-> -1, kind |-> "none",
           blocks |-> [t \in Tools |-> -1], input |-> 0, output |-> 0, out |-> <<>>]

NewUp == [heard |-> FALSE, finished |-> FALSE, done |-> FALSE, usage |-> NoCounts,
          tools |-> {}, current |-> NoTool]

NewClient == [last |-> NoEvent, phase |-> "begin", open |-> -1, next |-> 0]

Yield(g, e) == [g EXCEPT !.out = Append(@, e)]

(* The open block, if any, is closed. *)
CloseBlock(g) ==
    IF g.index < 0 THEN g
    ELSE Yield(g, [type |-> "content_block_stop", index |-> g.index])

OpenBlock(g, k) ==
    Yield([g EXCEPT !.index = @ + 1, !.kind = k],
          [type |-> "content_block_start", index |-> g.index + 1, kind |-> k])

OnStart(g, ev) ==
    IF g.started THEN g
    ELSE Yield([g EXCEPT !.started = TRUE, !.input = ev.usage.input],
               [type |-> "message_start", input |-> ev.usage.input])

OnUsage(g, ev) ==
    IF ev.usage = NoCounts THEN g
    ELSE [g EXCEPT !.input = ev.usage.input, !.output = ev.usage.output]

OnText(g, ev) ==
    IF ~ev.text THEN g
    ELSE LET h == IF g.kind = "text" THEN g ELSE OpenBlock(CloseBlock(g), "text")
         IN  Yield(h, [type |-> "content_block_delta", index |-> h.index, kind |-> "text"])

(* The argument fragment goes to the block of its tool call.               *)
Fragment(g, ev) ==
    IF ~ev.args THEN g
    ELSE Yield(g, [type |-> "content_block_delta", index |-> g.blocks[ev.tool],
                   kind |-> "tool_use"])

(* Mutant of OnTool: a new tool call does not close the block before it.   *)
OnToolUnclosed(g, ev) ==
    CASE ev.tool = NoTool -> g
      [] ev.tool # NoTool /\ g.blocks[ev.tool] >= 0 -> Fragment(g, ev)
      [] OTHER -> Fragment([OpenBlock(g, "tool_use")
                               EXCEPT !.blocks[ev.tool] = g.index + 1], ev)

OnTool(g, ev) ==
    CASE ev.tool = NoTool -> g
      [] ev.tool # NoTool /\ g.blocks[ev.tool] >= 0 -> Fragment(g, ev)
      [] OTHER -> Fragment([OpenBlock(CloseBlock(g), "tool_use")
                               EXCEPT !.blocks[ev.tool] = g.index + 1], ev)

OnFinish(g, ev) ==
    IF ~ev.finish THEN g
    ELSE Yield(Yield([CloseBlock(g) EXCEPT !.index = -1, !.kind = "none"],
                     [type |-> "message_delta", output |-> g.output]),
               [type |-> "message_stop"])

(* An event without choices ends after the usage update.                   *)
OnEvent(g, ev) ==
    LET u == OnUsage(OnStart(g, ev), ev)
    IN  IF ev.choices THEN OnFinish(OnTool(OnText(u, ev), ev), ev) ELSE u

(* What _extract_usage_counts adds up over the events in the body.         *)
Counted(b, e) ==
    CASE e.type = "message_start" -> [b EXCEPT !.input = @ + e.input]
      [] e.type = "message_delta" -> [b EXCEPT !.output = @ + e.output]
      [] OTHER -> b

(* The client's view: the event without its usage, the phase of the        *)
(* message, the block it takes for open and the index it expects next.     *)
Received(c, e) ==
    CASE e.type = "message_start" ->
            [c EXCEPT !.last = [type |-> e.type], !.phase = "body"]
      [] e.type = "message_delta" ->
            [c EXCEPT !.last = [type |-> e.type], !.phase = "closing"]
      [] e.type = "message_stop" -> [c EXCEPT !.last = e, !.phase = "end"]
      [] e.type = "content_block_start" ->
            [c EXCEPT !.last = e, !.open = e.index, !.next = e.index + 1]
      [] e.type = "content_block_stop" -> [c EXCEPT !.last = e, !.open = -1]
      [] OTHER -> [c EXCEPT !.last = e]

(* The provider, as the OpenAI API has it: the deltas of a tool call are   *)
(* contiguous, an answer finishes once, and after the finish reason only   *)
(* an event without choices may follow, which carries the usage; others    *)
(* send it with the finish reason or at the start.                         *)
ProviderEvents(u) ==
    LET new == [text : BOOLEAN, tool : {NoTool} \cup Tools, args : BOOLEAN,
                choices : {TRUE}, finish : BOOLEAN, usage : {NoCounts, Spent}]
        usageOnly == [text |-> FALSE, tool |-> NoTool, args |-> FALSE,
                      choices |-> FALSE, finish |-> FALSE, usage |-> Spent]
    IN  IF u.finished THEN {usageOnly}
        ELSE {ev \in new :
                /\ ev.text => ev.tool = NoTool
                /\ ev.args => ev.tool # NoTool
                /\ ev.tool \in u.tools => ev.tool = u.current
                /\ ev.usage = Spent => ev.finish \/ ~u.heard}

ProviderAfter(u, ev) ==
    LET more == ~(u.finished \/ ev.finish) IN
    [u EXCEPT !.heard = TRUE, !.finished = ~more,
              !.usage = IF ev.usage = NoCounts THEN @ ELSE ev.usage,
              !.tools = IF more THEN @ \cup ({ev.tool} \ {NoTool}) ELSE {},
              !.current = IF more /\ (ev.text \/ ev.tool # NoTool) THEN ev.tool
                          ELSE IF more THEN @ ELSE NoTool]

Ended(u, ok) == [u EXCEPT !.done = ok, !.tools = {}, !.current = NoTool]

-----------------------------------------------------------------------------
Init ==
    /\ active = 1 /\ created = 1
    /\ charged = [e \in Execs |-> [input |-> 0, output |-> 0, costs |-> 0]]
    /\ logs = [r \in Requests |-> <<>>]
    /\ pc = [r \in Requests |-> "start"]
    /\ exec = [r \in Requests |-> NoExec]
    /\ gone = [r \in Requests |-> "no"]
    /\ up = [r \in Requests |-> NewUp]
    /\ gen = [r \in Requests |-> NewGen]
    /\ seen = [r \in Requests |-> NewClient]
    /\ body = [r \in Requests |-> NoCounts]
    /\ tries = [r \in Requests |-> 0]
    /\ sent = 0 /\ billed = {}

Goto(r, l) == pc' = [pc EXCEPT ![r] = l]

(* verify_token, then is_execution_active; either may answer 401.          *)
Admit(r) ==
    /\ pc[r] = "start"
    /\ \/ Goto(r, "done")
       \/ active = NoExec /\ Goto(r, "done")
       \/ active # NoExec /\ Goto(r, "lookup")
    /\ UNCHANGED <<exec, gone, streamVars, execVars, billVars, logs>>

(* get_active_execution is a second query: the execution may be gone, or   *)
(* another one.  An unknown model answers 400.                             *)
Lookup(r) ==
    /\ pc[r] = "lookup" /\ exec' = [exec EXCEPT ![r] = active]
    /\ Goto(r, "request") \/ (Priced /\ Goto(r, "done"))
    /\ UNCHANGED <<gone, streamVars, execVars, billVars, logs>>

(* A row of the proxy log; without an execution there is none, and no      *)
(* await either.  A coroutine that was cut ends at its next await.         *)
Log(r, from, stages, to) ==
    /\ pc[r] = from
    /\ IF exec[r] = NoExec THEN Goto(r, to) /\ UNCHANGED logs
       ELSE /\ logs' = [logs EXCEPT ![r] = @ \o stages]
            /\ Goto(r, IF gone[r] = "cut" THEN "done" ELSE to)
    /\ UNCHANGED <<exec, gone, streamVars, execVars, billVars>>

(* Rows written one after the other, while nothing can cut the coroutine,  *)
(* are one step.                                                           *)
LogRequest(r) == Log(r, "request", <<"request_in", "request_out">>, "send")

(* Forwarding: the provider is out of reach, refuses, or starts to answer. *)
Send(r) ==
    /\ pc[r] = "send"
    /\ \E l \in {"unreachable", "refused",
                IF r \in Streaming THEN "stream" ELSE "json"} : Goto(r, l)
    /\ UNCHANGED <<exec, gone, streamVars, execVars, billVars, logs>>

LogFailure(r) ==
    \/ Log(r, "unreachable", <<"response_in">>, "done")
    \/ Log(r, "refused", <<"response_in", "response_out">>, "done")

(* An event arrives: the generator runs to its first yield.                *)
StreamEvent(r) ==
    /\ pc[r] = "stream" /\ gen[r].out = <<>> /\ sent < MaxEvents
    /\ \E ev \in ProviderEvents(up[r]) :
         /\ up' = [up EXCEPT ![r] = ProviderAfter(@, ev)]
         /\ gen' = [gen EXCEPT ![r] = OnEvent(@, ev)]
    /\ sent' = sent + 1
    /\ UNCHANGED <<requestVars, seen, body, execVars, billVars, logs>>

(* The chunk is recorded before it is sent on.                             *)
YieldChunk(r) ==
    /\ pc[r] = "stream" /\ gen[r].out # <<>>
    /\ LET e == Head(gen[r].out) IN
         /\ body' = [body EXCEPT ![r] = Counted(@, e)]
         /\ seen' = [seen EXCEPT ![r] = Received(@, e)]
    /\ gen' = [gen EXCEPT ![r].out = Tail(@)]
    /\ UNCHANGED <<requestVars, up, sent, execVars, billVars, logs>>

(* Mutant of StreamEnd: the finally clause is missing.                     *)
StreamEndUnhandled(r) ==
    /\ pc[r] = "stream" /\ gen[r].out = <<>>
    /\ \E ok \in {FALSE, up[r].finished} :
         /\ up' = [up EXCEPT ![r] = Ended(@, ok)]
         /\ Goto(r, IF ok THEN "cost" ELSE "done")
    /\ gen' = [gen EXCEPT ![r] = NewGen]
    /\ UNCHANGED <<exec, gone, seen, body, sent, execVars, billVars, logs>>

(* [DONE] after the finish reason, or a stream that breaks off anywhere.   *)
StreamEnd(r) ==
    /\ pc[r] = "stream" /\ gen[r].out = <<>>
    /\ \E ok \in {FALSE, up[r].finished} : up' = [up EXCEPT ![r] = Ended(@, ok)]
    /\ Goto(r, "cost") /\ gen' = [gen EXCEPT ![r] = NewGen]
    /\ UNCHANGED <<exec, gone, seen, body, sent, execVars, billVars, logs>>

(* A JSON answer is collected, converted whole and yielded once.           *)
JsonEnd(r) ==
    /\ pc[r] = "json" /\ Goto(r, "cost")
    /\ \/ UNCHANGED <<up, body>>
       \/ /\ up' = [up EXCEPT ![r].done = TRUE, ![r].usage = Spent]
          /\ body' = [body EXCEPT ![r] = Spent]
    /\ UNCHANGED <<exec, gone, gen, seen, sent, execVars, billVars, logs>>

(* A cost is asked for when the body has a response id.                    *)
Fetchable(r) ==
    OpenRouter /\ (seen[r] # NewClient \/ body[r] # NoCounts)

(* Starlette cancels the response of a client that left, or drops it to be *)
(* closed; in the finally clause a cancelled coroutine is cancelled again  *)
(* at each await, after the statement it issued.                           *)
Disconnect(r) ==
    /\ gone[r] = "no"
    /\ \/ /\ pc[r] \in {"stream", "json"} /\ Goto(r, "cost")
          /\ gen' = [gen EXCEPT ![r] = NewGen]
          /\ up' = [up EXCEPT ![r] = Ended(@, FALSE)]
          /\ \E how \in {"closed", "cut"} : gone' = [gone EXCEPT ![r] = how]
       \/ /\ \/ pc[r] = "cost" /\ Fetchable(r)
             \/ pc[r] = "responseIn" /\ r \in billed
             \/ pc[r] = "responseOut"
          /\ Goto(r, "done") /\ UNCHANGED <<gen, up>>
          /\ gone' = [gone EXCEPT ![r] = "cut"]
    /\ UNCHANGED <<exec, seen, body, sent, execVars, billVars, logs>>

(* Mutant of FetchFails: one attempt too many.                             *)
FetchFailsAgain(r) ==
    /\ pc[r] = "cost" /\ Fetchable(r) /\ tries[r] <= Retries
    /\ IF gone[r] = "cut" THEN Goto(r, "done") /\ UNCHANGED tries
       ELSE tries' = [tries EXCEPT ![r] = @ + 1] /\ UNCHANGED pc
    /\ UNCHANGED <<exec, gone, streamVars, execVars, charged, billed, logs>>

(* fetch_cost_usd: one attempt that fails.                                 *)
FetchFails(r) ==
    /\ pc[r] = "cost" /\ Fetchable(r) /\ tries[r] < Retries
    /\ IF gone[r] = "cut" THEN Goto(r, "done") /\ UNCHANGED tries
       ELSE tries' = [tries EXCEPT ![r] = @ + 1] /\ UNCHANGED pc
    /\ UNCHANGED <<exec, gone, streamVars, execVars, charged, billed, logs>>

(* Mutant of Increment: the columns are set.                               *)
IncrementOverwrites(e, counts, cost) ==
    charged' = [charged EXCEPT ![e].input = counts.input,
                               ![e].output = counts.output,
                               ![e].costs = @ + cost]

(* increment_execution_token_usage: one UPDATE that adds to the columns.   *)
Increment(e, counts, cost) ==
    charged' = [charged EXCEPT ![e].input = @ + counts.input,
                               ![e].output = @ + counts.output,
                               ![e].costs = @ + cost]

(* _resolve_cost_usd ends with a fetched cost, a computed one or none.     *)
Costs(r) ==
    LET computed == IF Priced /\ body[r] # NoCounts THEN 1 ELSE 0
    IN  IF Fetchable(r)
        THEN (IF gone[r] # "cut" /\ tries[r] < Retries THEN {1} ELSE {})
             \cup (IF tries[r] = Retries THEN {computed} ELSE {})
        ELSE {computed}

Charge(r) ==
    /\ pc[r] = "cost"
    /\ \E cost \in Costs(r) :
         IF exec[r] = NoExec \/ (body[r] = NoCounts /\ cost = 0)
         THEN Goto(r, "responseIn") /\ UNCHANGED <<charged, billed>>
         ELSE /\ Increment(exec[r], body[r], cost)
              /\ billed' = billed \cup {r}
              /\ Goto(r, IF gone[r] = "cut" THEN "done" ELSE "responseIn")
    /\ tries' = [tries EXCEPT ![r] = 0]
    /\ UNCHANGED <<exec, gone, streamVars, execVars, logs>>

LogResponse(r) ==
    \/ Log(r, "responseIn", <<"response_in">>, "responseOut")
    \/ Log(r, "responseOut", <<"response_out">>, "done")

(* The session's executions end and start meanwhile.                       *)
HaltExecution ==
    /\ active # NoExec /\ active' = NoExec
    /\ UNCHANGED <<requestVars, streamVars, created, billVars, logs>>

StartExecution ==
    /\ active = NoExec /\ created < MaxExecs
    /\ created' = created + 1 /\ active' = created + 1
    /\ UNCHANGED <<requestVars, streamVars, billVars, logs>>

Step(r) ==
    \/ Admit(r) \/ Lookup(r) \/ LogRequest(r) \/ Send(r) \/ LogFailure(r)
    \/ StreamEvent(r) \/ YieldChunk(r) \/ StreamEnd(r) \/ JsonEnd(r)
    \/ FetchFails(r) \/ Charge(r) \/ LogResponse(r)

Next ==
    \/ \E r \in Requests : Step(r) \/ Disconnect(r)
    \/ HaltExecution \/ StartExecution

Spec == Init /\ [][Next]_vars

-----------------------------------------------------------------------------
(* Every variable keeps its type, and the open block of the generator is   *)
(* the last one it opened (current_block_index).                           *)
ProxyTypeOK ==
    /\ active \in {NoExec, created} /\ created \in Execs
    /\ charged \in [Execs -> [input : Nat, output : Nat, costs : Nat]]
    /\ logs \in [Requests -> Seq(Stages)]
    /\ exec \in [Requests -> 0..created]
    /\ gone \in [Requests -> {"no", "closed", "cut"}]
    /\ tries \in [Requests -> 0..Retries]
    /\ billed \subseteq Requests
    /\ \A r \in Requests :
         gen[r].index >= 0 => \A t \in Tools : gen[r].blocks[t] <= gen[r].index

(* The client of a translated stream sees a well-formed message: blocks    *)
(* numbered in order, opened and closed one at a time, deltas only for the *)
(* open block, nothing after message_stop (_openai_sse_to_anthropic_sse).  *)
Client == INSTANCE AnthropicStream WITH Clients <- Requests, view <- seen

ClientProtocol == Client!Spec

(* What an execution was charged is exactly the sum over the requests      *)
(* billed to it, never more than their providers reported, however many    *)
(* answers end at once or are cut off (increment_execution_token_usage).   *)
ChargesAddUp ==
    \A e \in Execs :
        LET mine == {r \in billed : exec[r] = e} IN
        /\ charged[e].input = SumFunctionOnSet([r \in Requests |-> body[r].input], mine)
        /\ charged[e].output = SumFunctionOnSet([r \in Requests |-> body[r].output], mine)
        /\ charged[e].costs <= Cardinality(mine)
        /\ \A r \in mine : body[r].input <= up[r].usage.input
                           /\ body[r].output <= up[r].usage.output

(* An answer that began to arrive for a known execution has the whole      *)
(* exchange on record at its end, also when the provider broke off, unless *)
(* the client left (the finally clause of body_iter).                      *)
AnswersRecorded ==
    \A r \in Requests :
        /\ pc[r] = "done" /\ gone[r] = "no" /\ exec[r] # NoExec
        /\ up[r].heard \/ up[r].done
        => logs[r] = <<"request_in", "request_out", "response_in", "response_out">>

(* A complete answer is charged what its provider reported: the request    *)
(* asks for it (stream_options.include_usage), and "some providers send    *)
(* usage-only events".                                                     *)
UsageReported ==
    \A r \in Requests :
        up[r].done /\ gone[r] = "no" => body[r] = up[r].usage
=============================================================================
