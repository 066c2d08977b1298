--------------------------- MODULE AnthropicStream ---------------------------
(***************************************************************************)
(* What the clients of the model proxy may see of their streamed answers:  *)
(* the order of events of the Anthropic messages API.  The proxy's         *)
(* translation of other providers' streams (ModelProxy) implements it.     *)
(***************************************************************************)
EXTENDS Integers

CONSTANTS Clients,      \* each waits for one answer
          Kinds         \* the kinds of content blocks

VARIABLE view   \* per client: the last event received, the phase of the
                \* message (begin, body, closing, end), the index of the
                \* open block (-1: none) and the index the next one will have

Init ==
    view = [c \in Clients |->
              [last |-> [type |-> "none"], phase |-> "begin", open |-> -1, next |-> 0]]

MessageStart(v) ==
    IF v.phase # "begin" THEN {}
    ELSE {[v EXCEPT !.phase = "body", !.last = [type |-> "message_start"]]}

BlockStart(v) ==
    IF v.phase # "body" \/ v.open >= 0 THEN {}
    ELSE {[v EXCEPT !.open = v.next, !.next = @ + 1,
                    !.last = [type |-> "content_block_start", index |-> v.next, kind |-> k]]
            : k \in Kinds}

(* A delta continues the open block and has its kind. *)
BlockDelta(v) ==
    IF v.open < 0 THEN {}
    ELSE {[v EXCEPT !.last = [type |-> "content_block_delta", index |-> v.open,
                              kind |-> v.last.kind]]}

BlockStop(v) ==
    IF v.open < 0 THEN {}
    ELSE {[v EXCEPT !.open = -1,
                    !.last = [type |-> "content_block_stop", index |-> v.open]]}

MessageDelta(v) ==
    IF v.phase # "body" \/ v.open >= 0 THEN {}
    ELSE {[v EXCEPT !.phase = "closing", !.last = [type |-> "message_delta"]]}

MessageStop(v) ==
    IF v.phase # "closing" THEN {}
    ELSE {[v EXCEPT !.phase = "end", !.last = [type |-> "message_stop"]]}

Receive(c) ==
    \E w \in MessageStart(view[c]) \cup BlockStart(view[c]) \cup BlockDelta(view[c])
               \cup BlockStop(view[c]) \cup MessageDelta(view[c])
               \cup MessageStop(view[c]) :
        view' = [view EXCEPT ![c] = w]

Next == \E c \in Clients : Receive(c)

(* The stream may break off anywhere. *)
Spec == Init /\ [][Next]_view
=============================================================================
