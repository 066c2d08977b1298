---------------------------- MODULE ModelProxyProofs ----------------------------
(***************************************************************************)
(* Theorems about ModelProxy, for every number of requests, executions,    *)
(* events and tools.                                                       *)
(*                                                                         *)
(* That a translated stream is well formed is shown along the path of what *)
(* the client sees: the generator yields several events for one it gets,   *)
(* and each of them must be legal after those before it, up to a view that *)
(* agrees with the generator's locals.                                     *)
(***************************************************************************)
EXTENDS ModelProxy, DataLemmas, SequenceTheorems

(* The events the generator yields and what a client may hold of them.     *)
Counts == [input : Nat, output : Nat]

Outs(m) ==
    [type : {"message_start"}, input : 0..m.input]
        \cup [type : {"content_block_start", "content_block_delta"}, index : Nat, kind : Kinds]
        \cup [type : {"content_block_stop"}, index : Nat]
        \cup [type : {"message_delta"}, output : 0..m.output] \cup [type : {"message_stop"}]

Lasts ==
    [type : {"none", "message_start", "message_delta", "message_stop"}]
        \cup [type : {"content_block_start", "content_block_delta"}, index : Nat, kind : Kinds]
        \cup [type : {"content_block_stop"}, index : Nat]

Views == [last : Lasts, phase : {"begin", "body", "closing", "end"},
          open : Nat \cup {-1}, next : Nat]

Legal(v, w) ==
    w \in Client!MessageStart(v) \cup Client!BlockStart(v) \cup Client!BlockDelta(v)
            \cup Client!BlockStop(v) \cup Client!MessageDelta(v) \cup Client!MessageStop(v)

(* A client that has c and receives the events of out arrives at w.        *)
Path(c, out, w, v) ==
    /\ v \in Seq(Views) /\ Len(v) = Len(out) + 1 /\ v[1] = c /\ v[Len(out) + 1] = w
    /\ \A k \in 1..Len(out) : v[k + 1] = Received(v[k], out[k]) /\ Legal(v[k], v[k + 1])

Reach(c, out, w) == \E v \in Seq(Views) : Path(c, out, w, v)

LEMMA ReachNothing ==
    ASSUME NEW c \in Views
    PROVE  Reach(c, <<>>, c)
  <1> DEFINE v == <<c>>
  <1>1. v \in Seq(Views) /\ Len(v) = 1 /\ v[1] = c
    OBVIOUS
  <1>2. Len(<< >>) = 0 /\ 1..0 = {}
    OBVIOUS
  <1> HIDE DEF v
  <1>3. Path(c, << >>, c, v)
    BY <1>1, <1>2 DEF Path
  <1> QED BY <1>1, <1>3 DEF Reach

LEMMA ReachMore ==
    ASSUME NEW m \in Counts,
           NEW c \in Views, NEW out \in Seq(Outs(m)), NEW w \in Views, Reach(c, out, w),
           NEW e \in Outs(m), NEW x \in Views, x = Received(w, e), Legal(w, x)
    PROVE  Reach(c, Append(out, e), x)
  <1>1. PICK v \in Seq(Views) : Path(c, out, w, v)
    BY DEF Reach
  <1> DEFINE n == Len(out)
             u == Append(v, x)
             more == Append(out, e)
  <1>2. n \in Nat /\ Len(v) = n + 1 /\ DOMAIN v = 1..(n + 1)
    BY <1>1 DEF Path
  <1>3. /\ u \in Seq(Views) /\ Len(u) = n + 2 /\ u[n + 2] = x
        /\ \A k \in 1..(n + 1) : u[k] = v[k]
    BY <1>2
  <1>4. Len(more) = n + 1 /\ more[n + 1] = e /\ \A k \in 1..n : more[k] = out[k]
    OBVIOUS
  <1>5. ASSUME NEW k \in 1..(n + 1)
        PROVE  u[k + 1] = Received(u[k], more[k]) /\ Legal(u[k], u[k + 1])
    <2> HIDE DEF u, more
    <2>1. CASE k = n + 1
      BY <1>1, <1>2, <1>3, <1>4, <2>1 DEF Path
    <2>2. CASE k # n + 1
      <3>1. k \in 1..n /\ k + 1 \in 1..(n + 1)
        BY <1>2, <2>2
      <3> QED BY <1>1, <1>3, <1>4, <3>1 DEF Path
    <2> QED BY <2>1, <2>2
  <1>6. u[1] = c /\ u[n + 2] = x
    BY <1>1, <1>2, <1>3 DEF Path
  <1> HIDE DEF u, more
  <1>7. Path(c, more, x, u)
    BY <1>2, <1>3, <1>4, <1>5, <1>6 DEF Path
  <1> QED BY <1>3, <1>7 DEF Reach, more

(* Of a path the first step can be taken. *)
LEMMA ReachFirst ==
    ASSUME NEW m \in Counts,
           NEW c \in Views, NEW out \in Seq(Outs(m)), out # <<>>, NEW w \in Views,
           Reach(c, out, w)
    PROVE  LET x == Received(c, Head(out))
           IN  x \in Views /\ Legal(c, x) /\ Reach(x, Tail(out), w)
  <1>1. PICK v \in Seq(Views) : Path(c, out, w, v)
    BY DEF Reach
  <1> DEFINE n == Len(out)
             u == Tail(v)
             x == Received(c, Head(out))
  <1>2. n \in Nat /\ n > 0 /\ Len(v) = n + 1 /\ DOMAIN v = 1..(n + 1) /\ v # <<>>
    BY <1>1 DEF Path
  <1>3. x = v[2] /\ Legal(c, x) /\ x \in Views
    <2>1. Head(out) = out[1] /\ 1 \in 1..n /\ 2 \in DOMAIN v
      BY <1>2
    <2> QED BY <1>1, <2>1 DEF Path
  <1>4. u \in Seq(Views) /\ Len(u) = n /\ \A k \in 1..n : u[k] = v[k + 1]
    BY <1>2, HeadTailProperties
  <1>5. Len(Tail(out)) = n - 1 /\ \A k \in 1..(n - 1) : Tail(out)[k] = out[k + 1]
    BY <1>2, HeadTailProperties
  <1>6. ASSUME NEW k \in 1..(n - 1)
        PROVE  u[k + 1] = Received(u[k], Tail(out)[k]) /\ Legal(u[k], u[k + 1])
    <2>1. k + 1 \in 1..n /\ k \in 1..n
      BY <1>2
    <2>2. u[k] = v[k + 1] /\ u[k + 1] = v[(k + 1) + 1] /\ Tail(out)[k] = out[k + 1]
      BY <1>4, <1>5, <2>1
    <2> QED BY <1>1, <2>1, <2>2 DEF Path
  <1>7. u[1] = x /\ u[n] = w
    BY <1>1, <1>2, <1>3, <1>4 DEF Path
  <1> HIDE DEF u, x
  <1>8. Path(x, Tail(out), w, u)
    BY <1>2, <1>4, <1>5, <1>6, <1>7 DEF Path
  <1> QED BY <1>3, <1>4, <1>8 DEF Reach, x

-----------------------------------------------------------------------------
(* Which events are legal in which view, and where they lead. *)

LEMMA ViewFields ==
    ASSUME NEW v \in Views, NEW w \in Views, v.last = w.last, v.phase = w.phase,
           v.open = w.open, v.next = w.next
    PROVE  v = w
  BY DEF Views

LEMMA SeeMessageStart ==
    ASSUME NEW m \in Counts,
           NEW w \in Views, w.phase = "begin", NEW n \in 0..m.input
    PROVE  LET e == [type |-> "message_start", input |-> n]
               x == Received(w, e)
           IN  /\ e \in Outs(m) /\ x \in Views /\ Legal(w, x)
               /\ x.phase = "body" /\ x.open = w.open /\ x.next = w.next
  BY DEF Views, Lasts, Outs, Received, Legal, Client!MessageStart

LEMMA SeeBlockStart ==
    ASSUME NEW m \in Counts,
           NEW w \in Views, w.phase = "body", w.open = -1, NEW k \in Kinds
    PROVE  LET e == [type |-> "content_block_start", index |-> w.next, kind |-> k]
               x == Received(w, e)
           IN  /\ e \in Outs(m) /\ x \in Views /\ Legal(w, x) /\ x.phase = "body"
               /\ x.open = w.next /\ x.next = w.next + 1 /\ x.last.kind = k
  <1> DEFINE e == [type |-> "content_block_start", index |-> w.next, kind |-> k]
             x == Received(w, e)
             y == [last |-> e, phase |-> w.phase, open |-> w.next, next |-> w.next + 1]
  <1>1. e \in Outs(m) /\ e \in Lasts
    BY DEF Views, Outs, Lasts
  <1>2. x = y
    BY DEF Received, Views
  <1>3. y \in Views
    BY <1>1 DEF Views
  <1>4. y \in Client!BlockStart(w)
    <2> DEFINE z == [w EXCEPT !.open = w.next, !.next = @ + 1, !.last = e]
    <2>1. /\ z \in Views /\ z.last = y.last /\ z.phase = y.phase
          /\ z.open = y.open /\ z.next = y.next
      <3>1. e \in Lasts /\ w.next \in Nat /\ w.next + 1 \in Nat
        BY DEF Views, Lasts
      <3> HIDE DEF e
      <3> QED BY <3>1 DEF Views
    <2>2. y = z
      <3> HIDE DEF y, z
      <3> QED BY <1>3, <2>1, ViewFields
    <2>3. ~(w.phase # "body" \/ w.open >= 0)
      OBVIOUS
    <2>4. z \in Client!BlockStart(w)
      BY <2>3, Zenon DEF Client!BlockStart
    <2> QED BY <2>2, <2>4
  <1> QED BY <1>1, <1>2, <1>3, <1>4 DEF Legal

LEMMA SeeBlockDelta ==
    ASSUME NEW m \in Counts,
           NEW w \in Views, w.phase = "body", w.open >= 0, NEW k \in Kinds, w.last.kind = k
    PROVE  LET e == [type |-> "content_block_delta", index |-> w.open, kind |-> k]
               x == Received(w, e)
           IN  /\ e \in Outs(m) /\ x \in Views /\ Legal(w, x) /\ x.phase = "body"
               /\ x.open = w.open /\ x.next = w.next /\ x.last.kind = k
  <1> DEFINE e == [type |-> "content_block_delta", index |-> w.open, kind |-> k]
             x == Received(w, e)
             y == [last |-> e, phase |-> w.phase, open |-> w.open, next |-> w.next]
  <1>1. e \in Outs(m) /\ e \in Lasts
    BY DEF Views, Outs, Lasts
  <1>2. x = y
    BY DEF Received, Views
  <1>3. y \in Views
    BY <1>1 DEF Views
  <1>4. y \in Client!BlockDelta(w)
    BY DEF Client!BlockDelta, Views
  <1> QED BY <1>1, <1>2, <1>3, <1>4 DEF Legal

LEMMA SeeBlockStop ==
    ASSUME NEW m \in Counts, NEW w \in Views, w.phase = "body", w.open >= 0
    PROVE  LET e == [type |-> "content_block_stop", index |-> w.open]
               x == Received(w, e)
           IN  /\ e \in Outs(m) /\ x \in Views /\ Legal(w, x) /\ x.phase = "body"
               /\ x.open = -1 /\ x.next = w.next
  <1> DEFINE e == [type |-> "content_block_stop", index |-> w.open]
             x == Received(w, e)
             y == [last |-> e, phase |-> w.phase, open |-> -1, next |-> w.next]
  <1>1. e \in Outs(m) /\ e \in Lasts
    BY DEF Views, Outs, Lasts
  <1>2. x = y
    BY DEF Received, Views
  <1>3. y \in Views
    BY <1>1 DEF Views
  <1>4. y \in Client!BlockStop(w)
    <2> DEFINE z == [w EXCEPT !.open = -1, !.last = e]
    <2>1. /\ z \in Views /\ z.last = y.last /\ z.phase = y.phase
          /\ z.open = y.open /\ z.next = y.next
      <3>1. y.last \in Lasts
        BY DEF Views, Lasts
      <3> HIDE DEF e
      <3> QED BY <3>1 DEF Views
    <2>2. y = z
      <3> HIDE DEF y, z
      <3> QED BY <1>3, <2>1, ViewFields
    <2> HIDE DEF y
    <2> QED BY <2>2 DEF Client!BlockStop, Views
  <1> QED BY <1>1, <1>2, <1>3, <1>4 DEF Legal

LEMMA SeeMessageDelta ==
    ASSUME NEW m \in Counts,
           NEW w \in Views, w.phase = "body", w.open = -1, NEW n \in 0..m.output
    PROVE  LET e == [type |-> "message_delta", output |-> n]
               x == Received(w, e)
           IN  e \in Outs(m) /\ x \in Views /\ Legal(w, x) /\ x.phase = "closing"
  <1> DEFINE e == [type |-> "message_delta", output |-> n]
             x == Received(w, e)
             y == [last |-> [type |-> "message_delta"], phase |-> "closing", open |-> w.open, next |-> w.next]
  <1>1. e \in Outs(m)
    BY DEF Outs
  <1>2. x = y
    BY DEF Received, Views
  <1>3. y \in Views
    BY DEF Views, Lasts
  <1>4. y \in Client!MessageDelta(w)
    <2> DEFINE z == [w EXCEPT !.phase = "closing", !.last = [type |-> "message_delta"]]
    <2>1. /\ z \in Views /\ z.last = y.last /\ z.phase = y.phase
          /\ z.open = y.open /\ z.next = y.next
      <3>1. y.last \in Lasts
        BY DEF Views, Lasts
      <3> HIDE DEF e
      <3> QED BY <3>1 DEF Views
    <2>2. y = z
      <3> HIDE DEF y, z
      <3> QED BY <1>3, <2>1, ViewFields
    <2> HIDE DEF y
    <2> QED BY <2>2 DEF Client!MessageDelta, Views
  <1> QED BY <1>1, <1>2, <1>3, <1>4 DEF Legal

LEMMA SeeMessageStop ==
    ASSUME NEW m \in Counts, NEW w \in Views, w.phase = "closing"
    PROVE  LET e == [type |-> "message_stop"]
               x == Received(w, e)
           IN  e \in Outs(m) /\ x \in Views /\ Legal(w, x) /\ x.phase = "end"
  BY DEF Views, Lasts, Outs, Received, Legal, Client!MessageStop

-----------------------------------------------------------------------------
(* What one event does to the generator: the events it will yield continue *)
(* the message, and its locals agree with the view they lead to.           *)

Gens(m) == [started : BOOLEAN, index : Nat \cup {-1}, kind : {"none"} \cup Kinds,
         blocks : [Tools -> Nat \cup {-1}], input : Nat, output : 0..m.output, out : Seq(Outs(m))]

Sames(g, h) ==
    h.started = g.started /\ h.input = g.input /\ h.output = g.output /\ h.blocks = g.blocks

Within(b, m) == b.input <= m.input /\ b.output <= m.output

(* Of a message under way the current block is the last one opened. *)
Live(g) ==
    /\ g.started
    /\ g.kind = "none" <=> g.index = -1
    /\ \A t \in Tools : g.blocks[t] <= g.index

Under(c, g, w) == Reach(c, g.out, w) /\ w.phase = "body" /\ w.next = g.index + 1

Between(c, g) == \E w \in Views : Under(c, g, w) /\ w.open = -1

Inside(c, g) ==
    \E w \in Views : /\ Under(c, g, w) /\ w.open = g.index
                     /\ g.index >= 0 => w.last.kind = g.kind

Over(c, g) == \E w \in Views : Reach(c, g.out, w) /\ w.phase = "end"

LEMMA YieldFacts ==
    ASSUME NEW m \in Counts, NEW g \in Gens(m), NEW e \in Outs(m)
    PROVE  LET h == Yield(g, e)
           IN  /\ h \in Gens(m) /\ Sames(g, h) /\ h.index = g.index /\ h.kind = g.kind
               /\ h.out = Append(g.out, e)
  <1> DEFINE more == Append(g.out, e)
             h == [g EXCEPT !.out = more]
  <1>1. g.out \in Seq(Outs(m))
    BY DEF Gens
  <1>2. more \in Seq(Outs(m))
    BY <1>1
  <1>3. Yield(g, e) = h
    BY DEF Yield
  <1> HIDE DEF more
  <1>4. h \in Gens(m) /\ h.out = more
    BY <1>2 DEF Gens
  <1>5. Sames(g, h) /\ h.index = g.index /\ h.kind = g.kind
    BY DEF Gens, Sames
  <1> QED BY <1>3, <1>4, <1>5 DEF more

LEMMA CloseBlockFacts ==
    ASSUME NEW m \in Counts, NEW c \in Views, NEW g \in Gens(m), Inside(c, g)
    PROVE  LET h == CloseBlock(g)
           IN  /\ h \in Gens(m) /\ Sames(g, h) /\ h.index = g.index /\ h.kind = g.kind
               /\ Between(c, h)
  <1>1. PICK w \in Views : /\ Under(c, g, w) /\ w.open = g.index
                           /\ g.index >= 0 => w.last.kind = g.kind
    BY DEF Inside
  <1>2. CASE g.index < 0
    <2>1. CloseBlock(g) = g /\ g.index = -1
      BY <1>2 DEF CloseBlock, Gens
    <2> QED BY <1>1, <2>1 DEF Between, Sames
  <1>3. CASE ~(g.index < 0)
    <2> DEFINE e == [type |-> "content_block_stop", index |-> w.open]
               x == Received(w, e)
               h == Yield(g, e)
    <2>1. CloseBlock(g) = h /\ w.open >= 0
      BY <1>1, <1>3 DEF CloseBlock, Gens
    <2>2. /\ e \in Outs(m) /\ x \in Views /\ Legal(w, x) /\ x.phase = "body"
          /\ x.open = -1 /\ x.next = w.next
      BY <1>1, <2>1, SeeBlockStop DEF Under
    <2> HIDE DEF e, x
    <2>3. /\ h \in Gens(m) /\ Sames(g, h) /\ h.index = g.index /\ h.kind = g.kind
          /\ h.out = Append(g.out, e)
      BY <2>2, YieldFacts
    <2>4. Reach(c, h.out, x)
      <3>1. g.out \in Seq(Outs(m)) /\ Reach(c, g.out, w)
        BY <1>1 DEF Gens, Under
      <3> QED BY <2>2, <2>3, <3>1, ReachMore DEF x
    <2>5. Between(c, h)
      BY <1>1, <2>2, <2>3, <2>4 DEF Between, Under
    <2> QED BY <2>1, <2>3, <2>5
  <1> QED BY <1>2, <1>3

LEMMA OpenBlockFacts ==
    ASSUME NEW m \in Counts,
           NEW c \in Views, NEW g \in Gens(m), Between(c, g), NEW k \in Kinds
    PROVE  LET h == OpenBlock(g, k)
           IN  /\ h \in Gens(m) /\ Sames(g, h) /\ h.index = g.index + 1 /\ h.kind = k
               /\ h.index \in Nat /\ Inside(c, h)
  <1>1. PICK w \in Views : Under(c, g, w) /\ w.open = -1
    BY DEF Between
  <1> DEFINE f == [g EXCEPT !.index = @ + 1, !.kind = k]
             e == [type |-> "content_block_start", index |-> w.next, kind |-> k]
             x == Received(w, e)
             h == Yield(f, e)
  <1>2. /\ f \in Gens(m) /\ Sames(g, f) /\ f.index = g.index + 1 /\ f.kind = k
        /\ f.out = g.out /\ f.index \in Nat
    <2>1. g.index + 1 \in Nat
      BY DEF Gens
    <2>2. f \in Gens(m)
      BY <2>1 DEF Gens
    <2>3. f.index = g.index + 1 /\ f.kind = k /\ f.out = g.out
      BY DEF Gens
    <2>4. Sames(g, f)
      BY DEF Gens, Sames
    <2> QED BY <2>1, <2>2, <2>3, <2>4
  <1>3. OpenBlock(g, k) = h
    BY <1>1 DEF OpenBlock, Under
  <1>4. /\ e \in Outs(m) /\ x \in Views /\ Legal(w, x) /\ x.phase = "body"
        /\ x.open = w.next /\ x.next = w.next + 1 /\ x.last.kind = k
    BY <1>1, SeeBlockStart DEF Under
  <1> HIDE DEF e, x, f
  <1>5. /\ h \in Gens(m) /\ Sames(f, h) /\ h.index = f.index /\ h.kind = f.kind
        /\ h.out = Append(f.out, e)
    BY <1>2, <1>4, YieldFacts
  <1>6. Reach(c, h.out, x)
    <2>1. g.out \in Seq(Outs(m)) /\ Reach(c, g.out, w)
      BY <1>1 DEF Gens, Under
    <2> QED BY <1>2, <1>4, <1>5, <2>1, ReachMore DEF x
  <1>7. Inside(c, h)
    BY <1>1, <1>2, <1>4, <1>5, <1>6 DEF Inside, Under
  <1> QED BY <1>2, <1>3, <1>5, <1>7 DEF Sames

LEMMA DeltaFacts ==
    ASSUME NEW m \in Counts,
           NEW c \in Views, NEW g \in Gens(m), Inside(c, g), g.index >= 0, g.kind \in Kinds
    PROVE  LET h == Yield(g, [type |-> "content_block_delta", index |-> g.index,
                              kind |-> g.kind])
           IN  /\ h \in Gens(m) /\ Sames(g, h) /\ h.index = g.index /\ h.kind = g.kind
               /\ Inside(c, h)
  <1>1. PICK w \in Views : Under(c, g, w) /\ w.open = g.index /\ w.last.kind = g.kind
    BY DEF Inside
  <1> DEFINE e == [type |-> "content_block_delta", index |-> w.open, kind |-> g.kind]
             x == Received(w, e)
             h == Yield(g, e)
  <1>2. /\ e \in Outs(m) /\ x \in Views /\ Legal(w, x) /\ x.phase = "body"
        /\ x.open = w.open /\ x.next = w.next /\ x.last.kind = g.kind
    BY <1>1, SeeBlockDelta DEF Under
  <1> HIDE DEF e, x
  <1>3. /\ h \in Gens(m) /\ Sames(g, h) /\ h.index = g.index /\ h.kind = g.kind
        /\ h.out = Append(g.out, e)
    BY <1>2, YieldFacts
  <1>4. Reach(c, h.out, x)
    <2>1. g.out \in Seq(Outs(m)) /\ Reach(c, g.out, w)
      BY <1>1 DEF Gens, Under
    <2> QED BY <1>2, <1>3, <2>1, ReachMore DEF x
  <1>5. Inside(c, h)
    BY <1>1, <1>2, <1>3, <1>4 DEF Inside, Under
  <1> QED BY <1>1, <1>3, <1>5 DEF e

(* Text goes to the open text block, or to a new one. *)
LEMMA OnTextFacts ==
    ASSUME NEW m \in Counts,
           NEW c \in Views, NEW g \in Gens(m), Live(g), Inside(c, g), NEW ev, ev.text
    PROVE  LET h == OnText(g, ev)
           IN  /\ h \in Gens(m) /\ Live(h) /\ Inside(c, h)
               /\ h.kind = "text" /\ h.blocks = g.blocks
  <1> DEFINE d == IF g.kind = "text" THEN g ELSE OpenBlock(CloseBlock(g), "text")
             e == [type |-> "content_block_delta", index |-> d.index, kind |-> "text"]
             h == Yield(d, e)
  <1>1. OnText(g, ev) = h
    BY DEF OnText
  <1>2. /\ d \in Gens(m) /\ Sames(g, d) /\ Inside(c, d) /\ d.kind = "text"
        /\ d.index >= 0 /\ d.index >= g.index
    <2>1. CASE g.kind = "text"
      <3>1. d = g
        BY <2>1
      <3>2. g.index \in Nat \cup {-1} /\ g.index # -1
        BY <2>1 DEF Live, Gens
      <3>3. g.index >= 0 /\ g.index >= g.index
        BY <3>2
      <3> HIDE DEF d
      <3> QED BY <2>1, <3>1, <3>3 DEF Sames
    <2>2. CASE g.kind # "text"
      <3> DEFINE b == CloseBlock(g)
      <3>1. b \in Gens(m) /\ Sames(g, b) /\ b.index = g.index /\ Between(c, b)
        BY CloseBlockFacts
      <3>2. "text" \in Kinds
        BY DEF Kinds
      <3> HIDE DEF b
      <3>3. LET o == OpenBlock(b, "text")
            IN  /\ o \in Gens(m) /\ Sames(b, o) /\ o.index = b.index + 1
                /\ o.kind = "text" /\ o.index \in Nat /\ Inside(c, o)
        BY <3>1, <3>2, OpenBlockFacts
      <3>4. d = OpenBlock(b, "text") /\ g.index \in Nat \cup {-1}
        BY <2>2 DEF b, Gens
      <3> QED BY <3>1, <3>3, <3>4 DEF Sames
    <2> QED BY <2>1, <2>2
  <1> HIDE DEF d
  <1>3. h \in Gens(m) /\ Sames(d, h) /\ h.index = d.index /\ h.kind = d.kind /\ Inside(c, h)
    BY <1>2, DeltaFacts DEF Kinds
  <1>4. Live(h)
    <2>1. /\ g.index \in Nat \cup {-1} /\ d.index \in Nat \cup {-1}
          /\ \A t \in Tools : g.blocks[t] \in Nat \cup {-1}
      BY <1>2 DEF Gens
    <2>2. h.index = d.index /\ h.kind = "text" /\ h.blocks = g.blocks /\ h.started
      BY <1>2, <1>3 DEF Live, Sames
    <2>3. \A t \in Tools : g.blocks[t] <= d.index
      BY <1>2, <2>1 DEF Live
    <2> HIDE DEF h
    <2> QED BY <1>2, <2>2, <2>3 DEF Live
  <1> QED BY <1>1, <1>2, <1>3, <1>4 DEF Sames

(* A fragment of the arguments goes to the open block. *)
LEMMA FragmentFacts ==
    ASSUME NEW m \in Counts,
           NEW c \in Views, NEW g \in Gens(m), Live(g), Inside(c, g), NEW ev,
           ev.tool \in Tools, g.blocks[ev.tool] = g.index, g.kind = "tool_use"
    PROVE  LET h == Fragment(g, ev)
           IN  /\ h \in Gens(m) /\ Live(h) /\ Inside(c, h)
               /\ h.index = g.index /\ h.kind = g.kind /\ h.blocks = g.blocks
  <1>1. CASE ~ev.args
    BY <1>1 DEF Fragment
  <1>2. CASE ev.args
    <2> DEFINE h == Yield(g, [type |-> "content_block_delta", index |-> g.index,
                              kind |-> g.kind])
    <2>1. Fragment(g, ev) = h
      BY <1>2 DEF Fragment
    <2>2. /\ h \in Gens(m) /\ Sames(g, h) /\ h.index = g.index /\ h.kind = g.kind
          /\ Inside(c, h)
      <3>1. g.index >= 0 /\ g.kind \in Kinds
        BY DEF Live, Gens, Kinds
      <3> QED BY <3>1, DeltaFacts
    <2>3. Live(h)
      BY <2>2 DEF Live, Sames
    <2> QED BY <2>1, <2>2, <2>3 DEF Sames
  <1> QED BY <1>1, <1>2

(* A tool call that has its block is the open one, so that what comes of   *)
(* it goes there; a new one closes the open block.                         *)
LEMMA OnToolFacts ==
    ASSUME NEW m \in Counts,
           NEW c \in Views, NEW g \in Gens(m), Live(g), Inside(c, g), NEW ev,
           ev.tool \in Tools,
           g.blocks[ev.tool] >= 0 => g.blocks[ev.tool] = g.index /\ g.kind = "tool_use"
    PROVE  LET h == OnTool(g, ev)
           IN  /\ h \in Gens(m) /\ Live(h) /\ Inside(c, h) /\ h.kind = "tool_use"
               /\ h.index >= 0
               /\ h.blocks = [g.blocks EXCEPT ![ev.tool] = h.index]
  <1>0. ev.tool # NoTool /\ g.blocks \in [Tools -> Nat \cup {-1}] /\ g.index \in Nat \cup {-1}
    BY ProxyAssumption DEF NoTool, Gens
  <1>1. CASE g.blocks[ev.tool] >= 0
    <2>1. OnTool(g, ev) = Fragment(g, ev)
      BY <1>0, <1>1 DEF OnTool
    <2>2. LET h == Fragment(g, ev)
          IN  /\ h \in Gens(m) /\ Live(h) /\ Inside(c, h)
              /\ h.index = g.index /\ h.kind = g.kind /\ h.blocks = g.blocks
      BY <1>1, FragmentFacts
    <2>3. g.blocks = [g.blocks EXCEPT ![ev.tool] = g.index]
      BY <1>0, <1>1
    <2> QED BY <1>1, <2>1, <2>2, <2>3
  <1>2. CASE ~(g.blocks[ev.tool] >= 0)
    <2> DEFINE b == CloseBlock(g)
               o == OpenBlock(b, "tool_use")
               new == [g.blocks EXCEPT ![ev.tool] = g.index + 1]
               f == [o EXCEPT !.blocks[ev.tool] = g.index + 1]
    <2>1. OnTool(g, ev) = Fragment(f, ev)
      BY <1>0, <1>2 DEF OnTool
    <2>2. b \in Gens(m) /\ Sames(g, b) /\ b.index = g.index /\ Between(c, b)
      BY CloseBlockFacts
    <2>3. /\ o \in Gens(m) /\ Sames(b, o) /\ o.index = b.index + 1
          /\ o.kind = "tool_use" /\ o.index \in Nat /\ Inside(c, o)
      <3> HIDE DEF b
      <3> QED BY <2>2, OpenBlockFacts DEF Kinds
    <2> HIDE DEF b, o
    <2>4. o.blocks = g.blocks /\ o.index = g.index + 1 /\ o.started = g.started
      BY <2>2, <2>3 DEF Sames
    <2>5. new \in [Tools -> Nat \cup {-1}] /\ new[ev.tool] = o.index
      BY <1>0, <2>3, <2>4
    <2>6. /\ f \in Gens(m) /\ f.index = o.index /\ f.kind = o.kind /\ f.out = o.out
          /\ f.started = o.started /\ f.blocks = new
      <3>1. f = [o EXCEPT !.blocks = new]
        BY <2>4
      <3> HIDE DEF f, new
      <3>2. f \in Gens(m)
        BY <2>3, <2>5, <3>1 DEF Gens
      <3> QED BY <2>3, <3>1, <3>2 DEF Gens
    <2> HIDE DEF f
    <2>7. Inside(c, f)
      BY <2>3, <2>6 DEF Inside, Under
    <2>8. Live(f)
      <3>1. \A t \in Tools : new[t] <= f.index
        <4> TAKE t \in Tools
        <4>1. g.blocks[t] <= g.index /\ g.blocks[t] \in Nat \cup {-1}
          BY <1>0 DEF Live
        <4> QED BY <1>0, <2>3, <2>4, <2>6, <4>1
      <3> HIDE DEF new
      <3> QED BY <2>3, <2>4, <2>6, <3>1 DEF Live
    <2>9. LET h == Fragment(f, ev)
          IN  /\ h \in Gens(m) /\ Live(h) /\ Inside(c, h)
              /\ h.index = f.index /\ h.kind = f.kind /\ h.blocks = f.blocks
      <3> HIDE DEF new
      <3> QED BY <2>3, <2>5, <2>6, <2>7, <2>8, FragmentFacts
    <2> QED BY <2>1, <2>3, <2>4, <2>6, <2>9
  <1> QED BY <1>1, <1>2

(* The finish reason closes the open block and ends the message. *)
LEMMA OnFinishFacts ==
    ASSUME NEW m \in Counts,
           NEW c \in Views, NEW g \in Gens(m), Inside(c, g), NEW ev, ev.finish
    PROVE  LET h == OnFinish(g, ev)
           IN  h \in Gens(m) /\ h.started = g.started /\ h.index = -1 /\ Over(c, h)
  <1> DEFINE b == CloseBlock(g)
             f == [b EXCEPT !.index = -1, !.kind = "none"]
             e == [type |-> "message_delta", output |-> g.output]
             i == Yield(f, e)
             h == Yield(i, [type |-> "message_stop"])
  <1>1. OnFinish(g, ev) = h
    BY DEF OnFinish
  <1>2. b \in Gens(m) /\ Sames(g, b) /\ Between(c, b)
    BY CloseBlockFacts
  <1> HIDE DEF b
  <1>3. f \in Gens(m) /\ f.out = b.out /\ f.started = b.started /\ f.index = -1
    BY <1>2 DEF Gens
  <1>4. PICK w \in Views : Under(c, b, w) /\ w.open = -1
    BY <1>2 DEF Between
  <1> DEFINE x == Received(w, e)
  <1>5. e \in Outs(m) /\ x \in Views /\ Legal(w, x) /\ x.phase = "closing"
    <2>1. g.output \in 0..m.output
      BY DEF Gens
    <2> QED BY <1>4, <2>1, SeeMessageDelta DEF Under
  <1> HIDE DEF f, e, x
  <1>6. i \in Gens(m) /\ Sames(f, i) /\ i.index = -1 /\ i.out = Append(f.out, e)
    BY <1>3, <1>5, YieldFacts
  <1>7. Reach(c, i.out, x)
    <2>1. b.out \in Seq(Outs(m)) /\ Reach(c, b.out, w)
      BY <1>2, <1>4 DEF Gens, Under
    <2> QED BY <1>3, <1>5, <1>6, <2>1, ReachMore DEF x
  <1> HIDE DEF i
  <1> DEFINE s == [type |-> "message_stop"]
             y == Received(x, s)
  <1>8. s \in Outs(m) /\ y \in Views /\ Legal(x, y) /\ y.phase = "end"
    BY <1>5, SeeMessageStop
  <1> HIDE DEF s, y
  <1>9. /\ Yield(i, s) \in Gens(m) /\ Sames(i, Yield(i, s)) /\ Yield(i, s).index = -1
        /\ Yield(i, s).out = Append(i.out, s)
    BY <1>6, <1>8, YieldFacts
  <1>10. Reach(c, Yield(i, s).out, y)
    <2>1. i.out \in Seq(Outs(m))
      BY <1>6 DEF Gens
    <2> QED BY <1>5, <1>7, <1>8, <1>9, <2>1, ReachMore DEF y
  <1> QED BY <1>1, <1>2, <1>3, <1>6, <1>8, <1>9, <1>10 DEF Over, Sames, s

-----------------------------------------------------------------------------
(* One event of a provider. *)

Ups == [heard : BOOLEAN, finished : BOOLEAN, done : BOOLEAN, usage : {NoCounts, Spent},
        tools : SUBSET Tools, current : {NoTool} \cup Tools]

(* The tool calls begun have their blocks; that of the current one is open. *)
Synced(u, g) ==
    /\ \A t \in Tools : t \in u.tools <=> g.blocks[t] >= 0
    /\ u.current \in Tools => g.kind = "tool_use" /\ g.blocks[u.current] = g.index

Streams(c, u, g) ==
    \/ /\ ~u.finished /\ u.tools = {} /\ u.current = NoTool
       /\ g = NewGen /\ c = NewClient
    \/ ~u.finished /\ Live(g) /\ Inside(c, g) /\ Synced(u, g)
    \/ u.finished /\ g.started /\ g.index = -1 /\ Over(c, g)

(* What is reported only grows, and what was yielded stays within it. *)
LEMMA CountTypes ==
    /\ NoCounts \in Counts /\ Spent \in Counts /\ NoCounts # Spent
    /\ NoCounts.input = 0 /\ NoCounts.output = 0 /\ Spent.input = 1 /\ Spent.output = 1
  BY DEF NoCounts, Spent, Counts

LEMMA GensMore ==
    ASSUME NEW m \in Counts, NEW n \in Counts, m.input <= n.input, m.output <= n.output
    PROVE  Gens(m) \subseteq Gens(n) /\ Outs(m) \subseteq Outs(n)
  <1>1. 0..m.input \subseteq 0..n.input /\ 0..m.output \subseteq 0..n.output
    BY DEF Counts
  <1>2. Outs(m) \subseteq Outs(n)
    BY <1>1 DEF Outs
  <1>3. Seq(Outs(m)) \subseteq Seq(Outs(n))
    BY <1>2, SeqMonotonic
  <1>4. Gens(m) \subseteq Gens(n)
    BY <1>1, <1>3 DEF Gens
  <1> QED BY <1>2, <1>4

LEMMA NewTypes ==
    /\ \A m \in Counts : NewGen \in Gens(m)
    /\ NewUp \in Ups /\ NewClient \in Views
  <1>1. ASSUME NEW m \in Counts PROVE NewGen \in Gens(m)
    <2>1. << >> \in Seq(Outs(m)) /\ 0 \in 0..m.output
      BY DEF Counts
    <2> QED BY <2>1 DEF NewGen, Gens
  <1>2. NewUp \in Ups
    BY DEF NewUp, Ups, Counts, NoCounts
  <1>3. NewClient \in Views
    BY DEF NewClient, Views, Lasts, NoEvent
  <1> QED BY <1>1, <1>2, <1>3

LEMMA EventTypes ==
    ASSUME NEW u \in Ups, NEW ev \in ProviderEvents(u)
    PROVE  /\ ev.text \in BOOLEAN /\ ev.tool \in {NoTool} \cup Tools /\ ev.args \in BOOLEAN
           /\ ev.choices \in BOOLEAN /\ ev.finish \in BOOLEAN
           /\ ev.usage \in {NoCounts, Spent} /\ ev.usage \in Counts
           /\ u.finished => ~ev.choices
           /\ ~u.finished => /\ ev.choices /\ (ev.text => ev.tool = NoTool)
                             /\ (ev.tool \in u.tools => ev.tool = u.current)
  <1>1. NoCounts \in Counts /\ Spent \in Counts
    BY CountTypes
  <1>2. CASE u.finished
    <2>1. ev = [text |-> FALSE, tool |-> NoTool, args |-> FALSE,
                choices |-> FALSE, finish |-> FALSE, usage |-> Spent]
      BY <1>2, Zenon DEF ProviderEvents
    <2>2. /\ ev.text = FALSE /\ ev.tool = NoTool /\ ev.args = FALSE
          /\ ev.choices = FALSE /\ ev.finish = FALSE /\ ev.usage = Spent
      BY <2>1
    <2> QED BY <1>1, <1>2, <2>2
  <1>3. CASE ~u.finished
    BY <1>1, <1>3 DEF ProviderEvents
  <1> QED BY <1>2, <1>3

LEMMA ProviderAfterFacts ==
    ASSUME NEW u \in Ups, NEW ev \in ProviderEvents(u)
    PROVE  LET n == ProviderAfter(u, ev)
               more == ~(u.finished \/ ev.finish)
           IN  /\ n \in Ups /\ n.finished = ~more /\ n.heard
               /\ n.done = u.done
               /\ n.usage = IF ev.usage = NoCounts THEN u.usage ELSE ev.usage
               /\ more => n.tools = u.tools \cup ({ev.tool} \ {NoTool})
               /\ more /\ (ev.text \/ ev.tool # NoTool) => n.current = ev.tool
               /\ more /\ ~(ev.text \/ ev.tool # NoTool) => n.current = u.current
  <1>1. /\ ev.text \in BOOLEAN /\ ev.tool \in {NoTool} \cup Tools
        /\ ev.finish \in BOOLEAN /\ ev.usage \in {NoCounts, Spent}
    BY EventTypes
  <1>2. u.tools \cup ({ev.tool} \ {NoTool}) \in SUBSET Tools /\ {} \in SUBSET Tools
    BY <1>1 DEF Ups
  <1> DEFINE more == ~(u.finished \/ ev.finish)
  <1>3. more \in BOOLEAN
    BY <1>1 DEF Ups
  <1> QED BY <1>1, <1>2, <1>3, ZenonT(60) DEF ProviderAfter, Ups

(* The first event starts the message. *)
LEMMA OnStartFacts ==
    ASSUME NEW m \in Counts, NEW ev, ev.usage \in Counts, ev.usage.input <= m.input
    PROVE  LET h == OnStart(NewGen, ev)
           IN  /\ h \in Gens(m) /\ Live(h) /\ Inside(NewClient, h)
               /\ h.blocks = NewGen.blocks /\ h.index = -1 /\ h.kind = "none"
  <1> DEFINE c == NewClient
             f == [NewGen EXCEPT !.started = TRUE, !.input = ev.usage.input]
             e == [type |-> "message_start", input |-> ev.usage.input]
             x == Received(c, e)
             h == Yield(f, e)
  <1>1. OnStart(NewGen, ev) = h
    BY DEF OnStart, NewGen
  <1>2. ev.usage.input \in 0..m.input /\ ev.usage.input \in Nat /\ c \in Views /\ NewGen \in Gens(m)
    BY NewTypes DEF Counts
  <1>3. f \in Gens(m)
    BY <1>2 DEF Gens
  <1>4. /\ f.started /\ f.blocks = NewGen.blocks /\ f.index = -1 /\ f.kind = "none"
        /\ f.out = << >>
    BY DEF NewGen
  <1>5. c.phase = "begin" /\ c.open = -1 /\ c.next = 0
    BY DEF NewClient
  <1>6. /\ e \in Outs(m) /\ x \in Views /\ Legal(c, x)
        /\ x.phase = "body" /\ x.open = -1 /\ x.next = 0
    BY <1>2, <1>5, SeeMessageStart
  <1> HIDE DEF c, f, e, x
  <1>7. /\ h \in Gens(m) /\ Sames(f, h) /\ h.index = f.index /\ h.kind = f.kind
        /\ h.out = Append(f.out, e)
    BY <1>3, <1>6, YieldFacts
  <1>8. Reach(c, h.out, x)
    <2>1. f.out \in Seq(Outs(m)) /\ Reach(c, f.out, c)
      BY <1>2, <1>3, <1>4, ReachNothing DEF Gens
    <2> QED BY <1>2, <1>4, <1>6, <1>7, <2>1, ReachMore DEF x
  <1>9. h.started /\ h.blocks = NewGen.blocks /\ h.index = -1 /\ h.kind = "none"
    BY <1>4, <1>7 DEF Sames
  <1>10. Inside(c, h)
    BY <1>6, <1>8, <1>9 DEF Inside, Under
  <1>11. Live(h)
    <2>1. \A t \in Tools : h.blocks[t] = -1
      BY <1>9 DEF NewGen
    <2> HIDE DEF h
    <2> QED BY <1>9, <2>1 DEF Live
  <1> QED BY <1>1, <1>7, <1>9, <1>10, <1>11 DEF c

LEMMA OnUsageFacts ==
    ASSUME NEW m \in Counts, NEW g \in Gens(m), NEW ev,
           ev.usage \in Counts, ev.usage.output <= m.output
    PROVE  LET h == OnUsage(g, ev)
           IN  /\ h \in Gens(m) /\ h.started = g.started /\ h.index = g.index
               /\ h.kind = g.kind /\ h.blocks = g.blocks /\ h.out = g.out
  <1>1. ev.usage.input \in Nat /\ ev.usage.output \in 0..m.output
    BY DEF Counts
  <1> DEFINE f == [g EXCEPT !.input = ev.usage.input, !.output = ev.usage.output]
  <1>2. f \in Gens(m)
    BY <1>1 DEF Gens
  <1>3. /\ f.started = g.started /\ f.index = g.index
        /\ f.kind = g.kind /\ f.blocks = g.blocks /\ f.out = g.out
    BY DEF Gens
  <1> QED BY <1>2, <1>3 DEF OnUsage

LEMMA EventFacts ==
    ASSUME NEW c \in Views, NEW u \in Ups, NEW g \in Gens(u.usage), Streams(c, u, g),
           NEW ev \in ProviderEvents(u)
    PROVE  /\ OnEvent(g, ev) \in Gens(ProviderAfter(u, ev).usage)
           /\ Streams(c, ProviderAfter(u, ev), OnEvent(g, ev))
  <1> DEFINE n == ProviderAfter(u, ev)
             m == n.usage
             s == OnStart(g, ev)
             q == OnUsage(s, ev)
             x == OnText(q, ev)
             y == OnTool(x, ev)
             z == OnFinish(y, ev)
  <1>1. /\ ev.text \in BOOLEAN /\ ev.tool \in {NoTool} \cup Tools /\ ev.args \in BOOLEAN
        /\ ev.choices \in BOOLEAN /\ ev.finish \in BOOLEAN /\ ev.usage \in Counts
        /\ u.finished => ~ev.choices
        /\ ~u.finished => /\ ev.choices /\ (ev.text => ev.tool = NoTool)
                          /\ (ev.tool \in u.tools => ev.tool = u.current)
    BY EventTypes
  <1>2. /\ n.finished <=> u.finished \/ ev.finish
        /\ ~(u.finished \/ ev.finish) =>
             /\ n.tools = u.tools \cup ({ev.tool} \ {NoTool})
             /\ (ev.text \/ ev.tool # NoTool) => n.current = ev.tool
             /\ ~(ev.text \/ ev.tool # NoTool) => n.current = u.current
    BY ProviderAfterFacts
  <1>3. u.finished \in BOOLEAN /\ u.tools \subseteq Tools /\ NoTool \notin Tools
    BY ProxyAssumption DEF Ups, NoTool
  <1>reported. m = IF ev.usage = NoCounts THEN u.usage ELSE ev.usage
    BY ProviderAfterFacts
  <1> HIDE DEF n, m
  <1>bound. m \in Counts /\ ev.usage.input <= m.input /\ ev.usage.output <= m.output
    <2>1. ev.usage \in {NoCounts, Spent} /\ u.usage \in {NoCounts, Spent}
      BY EventTypes DEF Ups
    <2> QED BY <1>reported, <2>1, CountTypes
  <1>within. g \in Gens(m)
    <2>1. /\ ev.usage \in {NoCounts, Spent} /\ u.usage \in {NoCounts, Spent}
          /\ u.usage \in Counts
      BY EventTypes, CountTypes DEF Ups
    <2>2. u.usage.input <= m.input /\ u.usage.output <= m.output
      BY <1>reported, <2>1, CountTypes
    <2> QED BY <1>bound, <2>1, <2>2, GensMore
  <1>4. CASE u.finished
    <2>1. g.started /\ g.index = -1 /\ Over(c, g)
      BY <1>4 DEF Streams
    <2>2. s = g /\ OnEvent(g, ev) = q
      BY <1>1, <1>4, <2>1 DEF OnEvent, OnStart
    <2>3. q \in Gens(m) /\ q.started = g.started /\ q.index = g.index /\ q.out = g.out
      BY <1>bound, <1>within, <1>1, <2>2, OnUsageFacts
    <2>4. Over(c, q) /\ q.started /\ q.index = -1
      BY <2>1, <2>3 DEF Over
    <2> QED BY <1>2, <1>4, <2>2, <2>3, <2>4 DEF Streams, n, m
  <1>5. CASE ~u.finished
    <2>1. OnEvent(g, ev) = z
      BY <1>1, <1>5 DEF OnEvent
    <2>2. s \in Gens(m) /\ Live(s) /\ Inside(c, s) /\ Synced(u, s)
      <3>1. CASE g = NewGen /\ c = NewClient /\ u.tools = {} /\ u.current = NoTool
        <4>1. /\ s \in Gens(m) /\ Live(s) /\ Inside(NewClient, s)
              /\ s.blocks = NewGen.blocks
          <5>1. s = OnStart(NewGen, ev)
            BY <3>1
          <5> HIDE DEF s
          <5> QED BY <1>bound, <1>1, <5>1, OnStartFacts
        <4> HIDE DEF s
        <4>2. \A t \in Tools : s.blocks[t] = -1
          BY <4>1 DEF NewGen
        <4> QED BY <1>3, <3>1, <4>1, <4>2 DEF Synced
      <3>2. CASE Live(g) /\ Inside(c, g) /\ Synced(u, g)
        <4>1. s = g
          BY <3>2 DEF OnStart, Live
        <4> QED BY <1>within, <3>2, <4>1
      <3> QED BY <1>5, <3>1, <3>2 DEF Streams
    <2> HIDE DEF s
    <2>3. q \in Gens(m) /\ Live(q) /\ Inside(c, q) /\ Synced(u, q)
      <3>1. /\ q \in Gens(m) /\ q.started = s.started /\ q.index = s.index
            /\ q.kind = s.kind /\ q.blocks = s.blocks /\ q.out = s.out
        BY <1>bound, <1>within, <1>1, <2>2, OnUsageFacts
      <3> HIDE DEF q
      <3> QED BY <2>2, <3>1 DEF Live, Inside, Under, Synced
    <2> HIDE DEF q
    <2>4. q.blocks \in [Tools -> Nat \cup {-1}]
      BY <2>3 DEF Gens
    <2>5. /\ y \in Gens(m) /\ Live(y) /\ Inside(c, y)
          /\ ~ev.finish => Synced(n, y)
      <3>1. CASE ev.text
        <4>1. /\ x \in Gens(m) /\ Live(x) /\ Inside(c, x)
              /\ x.kind = "text" /\ x.blocks = q.blocks
          BY <1>bound, <1>within, <2>3, <3>1, OnTextFacts
        <4>2. ev.tool = NoTool /\ y = x
          BY <1>1, <1>5, <3>1 DEF OnTool
        <4>3. ~ev.finish => n.current = NoTool /\ n.tools = u.tools
          BY <1>1, <1>2, <1>5, <3>1, <4>2
        <4>4. ~ev.finish => Synced(n, x)
          <5> HIDE DEF x
          <5> QED BY <1>3, <2>3, <4>1, <4>3 DEF Synced
        <4> QED BY <4>1, <4>2, <4>4
      <3>2. CASE ~ev.text /\ ev.tool = NoTool
        <4>1. x = q /\ y = q
          BY <3>2 DEF OnText, OnTool
        <4>2. ~ev.finish => n.current = u.current /\ n.tools = u.tools
          BY <1>1, <1>2, <1>5, <3>2
        <4>3. ~ev.finish => Synced(n, q)
          BY <2>3, <4>2 DEF Synced
        <4> QED BY <2>3, <4>1, <4>3
      <3>3. CASE ~ev.text /\ ev.tool # NoTool
        <4>1. x = q /\ ev.tool \in Tools
          BY <1>1, <3>3 DEF OnText
        <4>2. q.blocks[ev.tool] >= 0 => q.blocks[ev.tool] = q.index /\ q.kind = "tool_use"
          BY <1>1, <1>5, <2>3, <4>1 DEF Synced
        <4>3. /\ y \in Gens(m) /\ Live(y) /\ Inside(c, y) /\ y.kind = "tool_use"
              /\ y.index >= 0
              /\ y.blocks = [q.blocks EXCEPT ![ev.tool] = y.index]
          BY <1>bound, <1>within, <2>3, <4>1, <4>2, OnToolFacts
        <4>4. /\ y.blocks[ev.tool] = y.index
              /\ \A t \in Tools \ {ev.tool} : y.blocks[t] = q.blocks[t]
          <5> HIDE DEF y
          <5> QED BY <2>4, <4>1, <4>3
        <4>5. ~ev.finish => n.current = ev.tool /\ n.tools = u.tools \cup {ev.tool}
          BY <1>1, <1>2, <1>5, <3>3
        <4>6. ~ev.finish => Synced(n, y)
          <5> HIDE DEF y
          <5> QED BY <2>3, <4>1, <4>3, <4>4, <4>5 DEF Synced
        <4> QED BY <4>3, <4>6
      <3> QED BY <1>1, <3>1, <3>2, <3>3
    <2> HIDE DEF y
    <2>6. CASE ev.finish
      <3>1. z \in Gens(m) /\ z.started = y.started /\ z.index = -1 /\ Over(c, z)
        BY <1>bound, <1>within, <2>5, <2>6, OnFinishFacts
      <3>2. y.started
        BY <2>5 DEF Live
      <3> HIDE DEF z
      <3> QED BY <1>2, <2>1, <2>6, <3>1, <3>2 DEF Streams, n, m
    <2>7. CASE ~ev.finish
      <3>1. z = y
        BY <2>7 DEF OnFinish
      <3> QED BY <1>2, <1>5, <2>1, <2>5, <2>7, <3>1 DEF Streams, n, m
    <2> QED BY <2>6, <2>7
  <1> QED BY <1>4, <1>5

(* What is yielded next is legal, and the rest goes on from there. *)
LEMMA ChunkFacts ==
    ASSUME NEW m \in Counts,
           NEW c \in Views, NEW u \in Ups, NEW g \in Gens(m), Streams(c, u, g), g.out # << >>
    PROVE  LET x == Received(c, Head(g.out))
               h == [g EXCEPT !.out = Tail(@)]
           IN  /\ Head(g.out) \in Outs(m) /\ x \in Views /\ Legal(c, x)
               /\ h \in Gens(m) /\ Streams(x, u, h)
  <1> DEFINE e == Head(g.out)
             x == Received(c, e)
             rest == Tail(g.out)
             h == [g EXCEPT !.out = rest]
  <1>1. g.out \in Seq(Outs(m))
    BY DEF Gens
  <1>2. rest \in Seq(Outs(m)) /\ e \in Outs(m)
    BY <1>1, HeadTailProperties
  <1>3. ASSUME NEW w \in Views, Reach(c, g.out, w)
        PROVE  x \in Views /\ Legal(c, x) /\ Reach(x, rest, w)
    BY <1>1, <1>3, ReachFirst
  <1> HIDE DEF e, x, rest
  <1>4. /\ h \in Gens(m) /\ h.started = g.started /\ h.index = g.index /\ h.kind = g.kind
        /\ h.blocks = g.blocks /\ h.out = rest
    BY <1>2 DEF Gens
  <1> HIDE DEF h
  <1>5. g # NewGen
    BY DEF NewGen
  <1>6. CASE ~u.finished /\ Live(g) /\ Inside(c, g) /\ Synced(u, g)
    <2>1. Live(h) /\ Synced(u, h)
      BY <1>4, <1>6 DEF Live, Synced
    <2>2. PICK w \in Views : /\ Under(c, g, w) /\ w.open = g.index
                             /\ g.index >= 0 => w.last.kind = g.kind
      BY <1>6 DEF Inside
    <2>3. x \in Views /\ Legal(c, x) /\ Reach(x, rest, w)
      BY <1>3, <2>2 DEF Under
    <2>4. Inside(x, h)
      BY <1>4, <2>2, <2>3 DEF Inside, Under
    <2> QED BY <1>2, <1>4, <1>6, <2>1, <2>3, <2>4 DEF Streams, h, x, e, rest
  <1>7. CASE u.finished /\ g.started /\ g.index = -1 /\ Over(c, g)
    <2>1. PICK w \in Views : Reach(c, g.out, w) /\ w.phase = "end"
      BY <1>7 DEF Over
    <2>2. x \in Views /\ Legal(c, x) /\ Reach(x, rest, w)
      BY <1>3, <2>1
    <2>3. Over(x, h)
      BY <1>4, <2>1, <2>2 DEF Over
    <2> QED BY <1>2, <1>4, <1>7, <2>2, <2>3 DEF Streams, h, x, e, rest
  <1> QED BY <1>5, <1>6, <1>7 DEF Streams

-----------------------------------------------------------------------------
(* The invariants. *)

Before == {"start", "lookup", "request", "send"}
Failed == {"unreachable", "refused"}
After == {"cost", "responseIn"}
Places == Before \cup Failed \cup {"stream", "json"} \cup After \cup {"responseOut", "done"}

Charges == [input : Nat, output : Nat, costs : Nat]

TypeInv ==
    /\ active \in {NoExec, created} /\ created \in Execs
    /\ charged \in [Execs -> Charges]
    /\ logs \in [Requests -> Seq(Stages)]
    /\ pc \in [Requests -> Places]
    /\ exec \in [Requests -> Nat] /\ \A r \in Requests : exec[r] <= created
    /\ gone \in [Requests -> {"no", "closed", "cut"}]
    /\ tries \in [Requests -> 0..Retries]
    /\ billed \subseteq Requests
    /\ up \in [Requests -> Ups] /\ gen \in [Requests -> Gens(Spent)]
    /\ seen \in [Requests -> Views] /\ body \in [Requests -> Counts]

(* Only a stream uses the generator, and until the provider answers there  *)
(* is nothing to translate or to see.                                      *)
Flow(r) ==
    /\ pc[r] = "stream" => /\ gen[r] \in Gens(up[r].usage)
                           /\ Streams(seen[r], up[r], gen[r])
    /\ pc[r] # "stream" => gen[r] = NewGen
    /\ pc[r] \in Before \cup Failed => up[r] = NewUp /\ seen[r] = NewClient

StreamInv == TypeInv /\ \A r \in Requests : Flow(r)

(* A request's coroutine and its connection; another's are not touched.    *)
Coroutine(r) ==
    <<pc[r], exec[r], gone[r], up[r], gen[r], seen[r], body[r], tries[r], logs[r]>>

LEMMA InitTypes == Init => TypeInv
  <1> SUFFICES ASSUME Init PROVE TypeInv
    OBVIOUS
  <1>1. << >> \in Seq(Stages)
    OBVIOUS
  <1>2. 1 \in Execs
    BY ProxyAssumption DEF Execs
  <1>3. NoCounts \in Counts /\ [input |-> 0, output |-> 0, costs |-> 0] \in Charges
    BY DEF NoCounts, Counts, Charges
  <1> QED BY <1>1, <1>2, <1>3, NewTypes, CountTypes
       DEF Init, TypeInv, NoExec, Places, Before, Retries

LEMMA LogTypes ==
    ASSUME TypeInv, NEW r \in Requests, NEW from, NEW stages \in Seq(Stages),
           NEW to \in Places, Log(r, from, stages, to)
    PROVE  /\ TypeInv'
           /\ \A q \in Requests \ {r} : Coroutine(q)' = Coroutine(q)
  <1>1. logs[r] \o stages \in Seq(Stages) /\ "done" \in Places
    BY DEF TypeInv, Places
  <1> QED BY <1>1 DEF TypeInv, Log, Goto, Coroutine, execVars, billVars, streamVars

(* What an event leaves of the totals in the body is a count again. *)
LEMMA CountedType ==
    ASSUME NEW m \in Counts, NEW b \in Counts, NEW e \in Outs(m)
    PROVE  Counted(b, e) \in Counts
  <1>1. CASE e.type = "message_start"
    <2>1. e.input \in Nat
      BY <1>1 DEF Outs, Counts
    <2> QED BY <1>1, <2>1 DEF Counts, Counted
  <1>2. CASE e.type = "message_delta"
    <2>1. e.output \in Nat
      BY <1>2 DEF Outs, Counts
    <2> QED BY <1>2, <2>1 DEF Counts, Counted
  <1>3. CASE e.type # "message_start" /\ e.type # "message_delta"
    BY <1>3 DEF Counted
  <1> QED BY <1>1, <1>2, <1>3

LEMMA UpsSpent ==
    ASSUME NEW u \in Ups
    PROVE  Gens(u.usage) \subseteq Gens(Spent)
  <1>1. /\ u.usage \in Counts /\ u.usage.input <= Spent.input
        /\ u.usage.output <= Spent.output
    BY CountTypes DEF Ups
  <1> QED BY <1>1, CountTypes, GensMore

LEMMA StreamEventFacts ==
    ASSUME StreamInv, NEW r \in Requests, StreamEvent(r)
    PROVE  /\ TypeInv' /\ Streams(seen[r], up[r], gen[r])'
           /\ gen'[r] \in Gens(up'[r].usage)
           /\ pc' = pc
           /\ \A q \in Requests \ {r} : Coroutine(q)' = Coroutine(q)
           /\ up'[r].done = up[r].done /\ up'[r].heard
           /\ \A b \in Counts : Within(b, up[r].usage) => Within(b, up'[r].usage)
  <1>1. PICK ev \in ProviderEvents(up[r]) :
           /\ up' = [up EXCEPT ![r] = ProviderAfter(@, ev)]
           /\ gen' = [gen EXCEPT ![r] = OnEvent(@, ev)]
    BY DEF StreamEvent
  <1>2. /\ seen[r] \in Views /\ up[r] \in Ups /\ gen[r] \in Gens(up[r].usage)
        /\ Streams(seen[r], up[r], gen[r])
    BY DEF StreamInv, TypeInv, Flow, StreamEvent
  <1>3. /\ OnEvent(gen[r], ev) \in Gens(ProviderAfter(up[r], ev).usage)
        /\ Streams(seen[r], ProviderAfter(up[r], ev), OnEvent(gen[r], ev))
    BY <1>2, EventFacts
  <1>4. /\ ProviderAfter(up[r], ev) \in Ups /\ ProviderAfter(up[r], ev).heard
        /\ ProviderAfter(up[r], ev).done = up[r].done
    BY <1>2, ProviderAfterFacts
  <1>grown. ASSUME NEW b \in Counts, Within(b, up[r].usage)
            PROVE  Within(b, ProviderAfter(up[r], ev).usage)
    <2>1. /\ ev.usage \in {NoCounts, Spent} /\ up[r].usage \in {NoCounts, Spent}
          /\ ProviderAfter(up[r], ev).usage = IF ev.usage = NoCounts THEN up[r].usage
                                             ELSE ev.usage
      BY <1>2, EventTypes, ProviderAfterFacts DEF Ups
    <2>2. b.input \in Nat /\ b.output \in Nat
      BY DEF Counts
    <2> HIDE DEF Within
    <2>3. CASE ev.usage = NoCounts
      BY <1>grown, <2>1, <2>3
    <2>4. CASE ev.usage = Spent
      <3>1. ProviderAfter(up[r], ev).usage = Spent
        BY <2>1, <2>4, CountTypes
      <3>2. b.input <= 1 /\ b.output <= 1
        BY <1>grown, <2>1, <2>2, CountTypes DEF Within
      <3> QED BY <3>1, <3>2, CountTypes DEF Within
    <2> QED BY <2>1, <2>3, <2>4
  <1>spent. OnEvent(gen[r], ev) \in Gens(Spent)
    BY <1>3, <1>4, UpsSpent
  <1>5. /\ gen' \in [Requests -> Gens(Spent)] /\ gen'[r] = OnEvent(gen[r], ev)
        /\ up' \in [Requests -> Ups] /\ up'[r] = ProviderAfter(up[r], ev)
        /\ \A q \in Requests \ {r} : gen'[q] = gen[q] /\ up'[q] = up[q]
    BY <1>1, <1>spent, <1>4 DEF StreamInv, TypeInv
  <1>6. UNCHANGED <<requestVars, seen, body, execVars, billVars, logs>>
    BY DEF StreamEvent
  <1>7. TypeInv'
    BY <1>5, <1>6 DEF StreamInv, TypeInv, requestVars, execVars, billVars
  <1>8. \A q \in Requests \ {r} : Coroutine(q)' = Coroutine(q)
    BY <1>5, <1>6 DEF Coroutine, requestVars, execVars, billVars
  <1> QED BY <1>3, <1>4, <1>5, <1>6, <1>7, <1>8, <1>grown DEF requestVars

LEMMA YieldChunkFacts ==
    ASSUME StreamInv, NEW r \in Requests, YieldChunk(r)
    PROVE  /\ TypeInv' /\ Streams(seen[r], up[r], gen[r])'
           /\ gen'[r] \in Gens(up'[r].usage)
           /\ Legal(seen[r], seen'[r]) /\ seen' = [seen EXCEPT ![r] = seen'[r]]
           /\ seen'[r] = Received(seen[r], Head(gen[r].out))
           /\ body'[r] = Counted(body[r], Head(gen[r].out))
           /\ Head(gen[r].out) \in Outs(up[r].usage)
           /\ pc' = pc
           /\ \A q \in Requests \ {r} : Coroutine(q)' = Coroutine(q)
  <1> DEFINE c == seen[r]
             g == gen[r]
             x == Received(c, Head(g.out))
             h == [g EXCEPT !.out = Tail(@)]
  <1>1. /\ c \in Views /\ up[r] \in Ups /\ g \in Gens(up[r].usage)
        /\ Streams(c, up[r], g) /\ g.out # << >>
    BY DEF StreamInv, TypeInv, Flow, YieldChunk
  <1>usage. up[r].usage \in Counts
    BY <1>1, CountTypes DEF Ups
  <1>2. /\ Head(g.out) \in Outs(up[r].usage) /\ x \in Views /\ Legal(c, x)
        /\ h \in Gens(up[r].usage) /\ Streams(x, up[r], h)
    BY <1>1, <1>usage, ChunkFacts
  <1>spent. h \in Gens(Spent)
    BY <1>1, <1>2, UpsSpent
  <1>3. Counted(body[r], Head(g.out)) \in Counts
    BY <1>2, <1>usage, CountedType DEF StreamInv, TypeInv
  <1>4. /\ gen' = [gen EXCEPT ![r] = h] /\ seen' = [seen EXCEPT ![r] = x]
        /\ body' = [body EXCEPT ![r] = Counted(body[r], Head(g.out))]
        /\ UNCHANGED <<requestVars, up, sent, execVars, billVars, logs>>
    BY DEF YieldChunk
  <1> HIDE DEF h, x
  <1>5. /\ gen' \in [Requests -> Gens(Spent)] /\ gen'[r] = h
        /\ seen' \in [Requests -> Views] /\ seen'[r] = x
        /\ body' \in [Requests -> Counts] /\ body'[r] = Counted(body[r], Head(g.out))
        /\ \A q \in Requests \ {r} :
              gen'[q] = gen[q] /\ seen'[q] = seen[q] /\ body'[q] = body[q]
    BY <1>2, <1>spent, <1>3, <1>4 DEF StreamInv, TypeInv
  <1>6. TypeInv'
    BY <1>4, <1>5 DEF StreamInv, TypeInv, requestVars, execVars, billVars
  <1>7. \A q \in Requests \ {r} : Coroutine(q)' = Coroutine(q)
    BY <1>4, <1>5 DEF Coroutine, requestVars, execVars, billVars
  <1> QED BY <1>2, <1>4, <1>5, <1>6, <1>7 DEF requestVars, x

LEMMA GotoFacts ==
    ASSUME TypeInv, NEW r \in Requests, NEW l \in Places, Goto(r, l)
    PROVE  /\ pc' \in [Requests -> Places] /\ pc'[r] = l
           /\ \A q \in Requests \ {r} : pc'[q] = pc[q]
  BY DEF Goto, TypeInv

LEMMA EndedFacts ==
    ASSUME NEW u \in Ups, NEW ok \in BOOLEAN
    PROVE  LET n == Ended(u, ok)
           IN  /\ n \in Ups /\ n.done = ok /\ n.heard = u.heard /\ n.usage = u.usage
               /\ n.finished = u.finished
  <1>1. {} \in SUBSET Tools
    OBVIOUS
  <1> QED BY <1>1 DEF Ended, Ups

LEMMA JsonEndFacts ==
    ASSUME TypeInv, NEW r \in Requests, JsonEnd(r)
    PROVE  /\ up' \in [Requests -> Ups] /\ body' \in [Requests -> Counts]
           /\ \A q \in Requests \ {r} : up'[q] = up[q] /\ body'[q] = body[q]
           /\ \/ up'[r] = up[r] /\ body'[r] = body[r]
              \/ up'[r].done /\ up'[r].usage = Spent /\ body'[r] = Spent
  <1>1. CASE UNCHANGED <<up, body>>
    BY <1>1 DEF TypeInv
  <1>2. CASE /\ up' = [up EXCEPT ![r].done = TRUE, ![r].usage = Spent]
             /\ body' = [body EXCEPT ![r] = Spent]
    <2>1. Spent \in Counts
      BY DEF Spent, Counts
    <2> DEFINE n == [up[r] EXCEPT !.done = TRUE, !.usage = Spent]
    <2>2. n \in Ups /\ n.done /\ n.usage = Spent
      <3>1. up[r] \in Ups
        BY DEF TypeInv
      <3>2. n \in Ups
        BY <2>1, <3>1 DEF Ups
      <3>3. n.done = TRUE /\ n.usage = Spent
        BY <3>1 DEF Ups
      <3> QED BY <3>2, <3>3
    <2>3. up' = [up EXCEPT ![r] = n]
      BY <1>2 DEF TypeInv
    <2> HIDE DEF n
    <2>4. up' \in [Requests -> Ups] /\ up'[r] = n
          /\ \A q \in Requests \ {r} : up'[q] = up[q]
      BY <2>2, <2>3 DEF TypeInv
    <2>5. body' \in [Requests -> Counts] /\ body'[r] = Spent
          /\ \A q \in Requests \ {r} : body'[q] = body[q]
      BY <1>2, <2>1 DEF TypeInv
    <2> QED BY <2>2, <2>4, <2>5
  <1> QED BY <1>1, <1>2 DEF JsonEnd

(* Adding to the columns of an execution. *)
LEMMA IncrementFacts ==
    ASSUME charged \in [Execs -> Charges], NEW e \in Execs, NEW counts \in Counts,
           NEW cost \in {0, 1}, Increment(e, counts, cost)
    PROVE  /\ charged' \in [Execs -> Charges]
           /\ charged'[e].input = charged[e].input + counts.input
           /\ charged'[e].output = charged[e].output + counts.output
           /\ charged'[e].costs = charged[e].costs + cost
           /\ \A d \in Execs \ {e} : charged'[d] = charged[d]
  <1> DEFINE c == charged[e]
             n == [input |-> c.input + counts.input, output |-> c.output + counts.output,
                   costs |-> c.costs + cost]
             c1 == [c EXCEPT !.input = @ + counts.input]
             d1 == [charged EXCEPT ![e] = c1]
             c2 == [d1[e] EXCEPT !.output = @ + counts.output]
             d2 == [d1 EXCEPT ![e] = c2]
             c3 == [d2[e] EXCEPT !.costs = @ + cost]
             d3 == [d2 EXCEPT ![e] = c3]
  <1>1. n \in Charges
    BY DEF Charges, Counts
  <1>2. charged' = [charged EXCEPT ![e] = n]
    <2>1. charged' = d3
      BY DEF Increment
    <2>2. c \in Charges
      OBVIOUS
    <2>3. c1 = [input |-> c.input + counts.input, output |-> c.output, costs |-> c.costs]
      BY <2>2 DEF Charges
    <2> HIDE DEF c, c1
    <2>4. d1[e] = c1
      OBVIOUS
    <2>5. c2 = [input |-> c.input + counts.input, output |-> c.output + counts.output,
                costs |-> c.costs]
      BY <2>3, <2>4
    <2> HIDE DEF c2
    <2>6. d2[e] = c2 /\ d2 = [charged EXCEPT ![e] = c2]
      OBVIOUS
    <2>7. c3 = n
      BY <2>5, <2>6
    <2> HIDE DEF c3, n
    <2> QED BY <2>1, <2>6, <2>7
  <1> HIDE DEF n
  <1>3. charged' \in [Execs -> Charges] /\ charged'[e] = n
    BY <1>1, <1>2
  <1> QED BY <1>2, <1>3 DEF n

LEMMA CostsType ==
    ASSUME NEW r, NEW cost \in Costs(r)
    PROVE  cost \in {0, 1}
  BY DEF Costs

(* A charge goes to the execution the request was admitted for. *)
LEMMA ChargeFacts ==
    ASSUME TypeInv, NEW r \in Requests, Charge(r)
    PROVE  \/ /\ UNCHANGED <<charged, billed>> /\ Goto(r, "responseIn")
           \/ \E cost \in {0, 1} :
                /\ exec[r] \in Execs /\ Increment(exec[r], body[r], cost)
                /\ billed' = billed \cup {r}
                /\ \/ gone[r] = "cut" /\ Goto(r, "done")
                   \/ gone[r] # "cut" /\ Goto(r, "responseIn")
  <1>1. PICK cost \in Costs(r) :
          IF exec[r] = NoExec \/ (body[r] = NoCounts /\ cost = 0)
          THEN Goto(r, "responseIn") /\ UNCHANGED <<charged, billed>>
          ELSE /\ Increment(exec[r], body[r], cost)
               /\ billed' = billed \cup {r}
               /\ Goto(r, IF gone[r] = "cut" THEN "done" ELSE "responseIn")
    BY DEF Charge
  <1>2. cost \in {0, 1}
    BY CostsType
  <1>3. exec[r] # NoExec => exec[r] \in Execs
    BY ProxyAssumption DEF TypeInv, NoExec, Execs
  <1> QED BY <1>1, <1>2, <1>3

LEMMA StepTypes ==
    ASSUME StreamInv, NEW r \in Requests, Step(r) \/ Disconnect(r)
    PROVE  /\ TypeInv'
           /\ \A q \in Requests \ {r} : Coroutine(q)' = Coroutine(q)
  <1> USE DEF StreamInv
  <1>1. /\ <<"request_in", "request_out">> \in Seq(Stages)
        /\ <<"response_in">> \in Seq(Stages) /\ <<"response_out">> \in Seq(Stages)
        /\ <<"response_in", "response_out">> \in Seq(Stages)
        /\ {"send", "done", "responseIn", "responseOut"} \subseteq Places
    BY DEF Stages, Places, Before, After
  <1>2. CASE LogRequest(r)
    BY <1>1, <1>2, LogTypes DEF LogRequest
  <1>3. CASE LogFailure(r)
    BY <1>1, <1>3, LogTypes DEF LogFailure
  <1>4. CASE LogResponse(r)
    BY <1>1, <1>4, LogTypes DEF LogResponse
  <1>5. CASE StreamEvent(r)
    BY <1>5, StreamEventFacts
  <1>6. CASE YieldChunk(r)
    BY <1>6, YieldChunkFacts
  <1>7. CASE Admit(r)
    BY <1>7, NewTypes DEF Admit, TypeInv, Goto, Coroutine, Places, Before, Failed, After,
       streamVars, execVars, billVars, requestVars
  <1>8. CASE Lookup(r)
    <2>1. /\ pc' \in [Requests -> Places]
          /\ \A q \in Requests \ {r} : pc'[q] = pc[q]
      BY <1>8, GotoFacts DEF Lookup, Places, Before
    <2>2. active \in Nat /\ active <= created
      BY DEF TypeInv, NoExec, Execs
    <2> QED BY <1>8, <2>1, <2>2
         DEF Lookup, TypeInv, Coroutine, streamVars, execVars, billVars
  <1>9. CASE Send(r)
    BY <1>9, NewTypes DEF Send, TypeInv, Goto, Coroutine, Places, Before, Failed, After,
       streamVars, execVars, billVars, requestVars
  <1>10. CASE StreamEnd(r)
    <2>1. PICK ok \in BOOLEAN : up' = [up EXCEPT ![r] = Ended(@, ok)]
      BY <1>10 DEF StreamEnd, TypeInv, Ups
    <2>2. /\ up' \in [Requests -> Ups]
          /\ \A q \in Requests \ {r} : up'[q] = up[q]
      BY <2>1, EndedFacts DEF TypeInv
    <2>3. /\ pc' \in [Requests -> Places]
          /\ \A q \in Requests \ {r} : pc'[q] = pc[q]
      BY <1>10, GotoFacts DEF StreamEnd, Places, After
    <2>4. /\ gen' \in [Requests -> Gens(Spent)]
          /\ \A q \in Requests \ {r} : gen'[q] = gen[q]
      BY <1>10, NewTypes, CountTypes DEF StreamEnd, TypeInv
    <2> QED BY <1>10, <2>2, <2>3, <2>4
         DEF StreamEnd, TypeInv, Coroutine, execVars, billVars
  <1>11. CASE JsonEnd(r)
    <2>1. /\ pc' \in [Requests -> Places]
          /\ \A q \in Requests \ {r} : pc'[q] = pc[q]
      BY <1>11, GotoFacts DEF JsonEnd, Places, After
    <2>2. /\ up' \in [Requests -> Ups] /\ body' \in [Requests -> Counts]
          /\ \A q \in Requests \ {r} : up'[q] = up[q] /\ body'[q] = body[q]
      BY <1>11, JsonEndFacts
    <2> QED BY <1>11, <2>1, <2>2
         DEF JsonEnd, TypeInv, Coroutine, execVars, billVars
  <1>12. CASE FetchFails(r)
    <2>1. /\ pc' \in [Requests -> Places]
          /\ \A q \in Requests \ {r} : pc'[q] = pc[q]
      BY <1>12, GotoFacts DEF FetchFails, Places, TypeInv
    <2>2. tries[r] + 1 \in 0..Retries
      <3>1. tries[r] < Retries /\ tries[r] \in 0..Retries
        BY <1>12 DEF FetchFails, TypeInv
      <3> QED BY <3>1 DEF Retries
    <2>3. /\ tries' \in [Requests -> 0..Retries]
          /\ \A q \in Requests \ {r} : tries'[q] = tries[q]
      BY <1>12, <2>2 DEF FetchFails, TypeInv
    <2> QED BY <1>12, <2>1, <2>3
         DEF FetchFails, TypeInv, Coroutine, streamVars, execVars
  <1>13. CASE Charge(r)
    <2>1. /\ pc' \in [Requests -> Places]
          /\ \A q \in Requests \ {r} : pc'[q] = pc[q]
      <3>1. \/ Goto(r, "responseIn") \/ Goto(r, "done")
        BY <1>13, ChargeFacts
      <3> QED BY <3>1, GotoFacts DEF Places, After
    <2>2. charged' \in [Execs -> Charges] /\ billed' \subseteq Requests
      <3>1. CASE UNCHANGED <<charged, billed>>
        BY <3>1 DEF TypeInv
      <3>2. ASSUME NEW cost \in {0, 1}, exec[r] \in Execs,
                   Increment(exec[r], body[r], cost), billed' = billed \cup {r}
            PROVE  charged' \in [Execs -> Charges] /\ billed' \subseteq Requests
        BY <3>2, IncrementFacts DEF TypeInv
      <3> QED BY <1>13, <3>1, <3>2, ChargeFacts
    <2>3. /\ tries' \in [Requests -> 0..Retries]
          /\ \A q \in Requests \ {r} : tries'[q] = tries[q]
      BY <1>13 DEF Charge, TypeInv, Retries
    <2> QED BY <1>13, <2>1, <2>2, <2>3
         DEF Charge, TypeInv, Coroutine, streamVars, execVars
  <1>14. CASE Disconnect(r)
    <2>1. /\ pc' \in [Requests -> Places]
          /\ \A q \in Requests \ {r} : pc'[q] = pc[q]
      <3>1. Goto(r, "cost") \/ Goto(r, "done")
        BY <1>14 DEF Disconnect
      <3> QED BY <3>1, GotoFacts DEF Places, After
    <2>2. /\ gone' \in [Requests -> {"no", "closed", "cut"}]
          /\ \A q \in Requests \ {r} : gone'[q] = gone[q]
      BY <1>14 DEF Disconnect, TypeInv
    <2>3. /\ up' \in [Requests -> Ups] /\ gen' \in [Requests -> Gens(Spent)]
          /\ \A q \in Requests \ {r} : up'[q] = up[q] /\ gen'[q] = gen[q]
      <3>1. CASE UNCHANGED <<gen, up>>
        BY <3>1 DEF TypeInv
      <3>2. CASE /\ gen' = [gen EXCEPT ![r] = NewGen]
                 /\ up' = [up EXCEPT ![r] = Ended(@, FALSE)]
        <4>1. Ended(up[r], FALSE) \in Ups
          BY EndedFacts DEF TypeInv
        <4> QED BY <3>2, <4>1, NewTypes, CountTypes DEF TypeInv
      <3> QED BY <1>14, <3>1, <3>2 DEF Disconnect
    <2> QED BY <1>14, <2>1, <2>2, <2>3
         DEF Disconnect, TypeInv, Coroutine, execVars, billVars
  <1> QED BY <1>2, <1>3, <1>4, <1>5, <1>6, <1>7, <1>8, <1>9, <1>10, <1>11, <1>12, <1>13,
             <1>14 DEF Step


LEMMA LogFlow ==
    ASSUME StreamInv, NEW r \in Requests, NEW from, NEW stages, NEW to \in Places,
           Log(r, from, stages, to), from # "stream", to # "stream",
           to \in Before \cup Failed => from \in Before \cup Failed
    PROVE  Flow(r)'
  <1>1. (Goto(r, to) \/ Goto(r, "done")) /\ "done" \in Places
    BY DEF Log, Places
  <1>2. pc[r] = from /\ pc'[r] \in {to, "done"}
    BY <1>1, GotoFacts DEF Log, StreamInv
  <1>3. "done" \notin Before \cup Failed
    BY DEF Before, Failed
  <1>4. gen' = gen /\ up' = up /\ seen' = seen
    BY DEF Log, streamVars
  <1> QED BY <1>2, <1>3, <1>4 DEF StreamInv, Flow

(* What a request's own step makes of its stream. *)
LEMMA FlowStep ==
    ASSUME StreamInv, NEW r \in Requests, Step(r) \/ Disconnect(r)
    PROVE  Flow(r)'
  <1> USE DEF StreamInv
  <1>1. {"send", "done", "responseIn", "responseOut", "lookup", "request", "cost",
         "unreachable", "refused", "stream", "json"} \subseteq Places
    BY DEF Places, Before, Failed, After
  <1>2. CASE Admit(r)
    <2>1. /\ pc[r] = "start" /\ pc'[r] \in {"done", "lookup"}
          /\ gen' = gen /\ up' = up /\ seen' = seen
      BY <1>1, <1>2, GotoFacts DEF Admit, streamVars
    <2> QED BY <2>1 DEF Flow, Before, Failed
  <1>3. CASE Lookup(r)
    <2>1. /\ pc[r] = "lookup" /\ pc'[r] \in {"request", "done"}
          /\ gen' = gen /\ up' = up /\ seen' = seen
      BY <1>1, <1>3, GotoFacts DEF Lookup, streamVars
    <2> QED BY <2>1 DEF Flow, Before, Failed
  <1>4. CASE LogRequest(r)
    BY <1>1, <1>4, LogFlow DEF LogRequest, Before, Failed
  <1>5. CASE Send(r)
    <2>1. /\ pc[r] = "send" /\ pc'[r] \in {"unreachable", "refused", "stream", "json"}
          /\ gen' = gen /\ up' = up /\ seen' = seen
      BY <1>1, <1>5, GotoFacts DEF Send, streamVars
    <2>2. up[r] = NewUp /\ seen[r] = NewClient /\ gen[r] = NewGen
      BY <2>1 DEF Flow, Before
    <2>3. Streams(NewClient, NewUp, NewGen)
      BY DEF Streams, NewUp
    <2>4. NewGen \in Gens(NewUp.usage)
      BY NewTypes, CountTypes DEF NewUp
    <2> QED BY <2>1, <2>2, <2>3, <2>4 DEF Flow
  <1>6. CASE LogFailure(r)
    BY <1>1, <1>6, LogFlow DEF LogFailure, Before, Failed
  <1>7. CASE StreamEnd(r)
    <2>1. pc'[r] \in {"cost"}
      <3>1. \/ Goto(r, "cost")
        BY <1>7 DEF StreamEnd
      <3> QED BY <1>1, <3>1, GotoFacts
    <2>2. gen'[r] = NewGen
      BY <1>7 DEF StreamEnd, TypeInv, Flow, streamVars
    <2> QED BY <2>1, <2>2 DEF Flow, Before, Failed
  <1>8. CASE JsonEnd(r)
    <2>1. pc'[r] \in {"cost"}
      <3>1. \/ Goto(r, "cost")
        BY <1>8 DEF JsonEnd
      <3> QED BY <1>1, <3>1, GotoFacts
    <2>2. gen'[r] = NewGen
      BY <1>8 DEF JsonEnd, TypeInv, Flow, streamVars
    <2> QED BY <2>1, <2>2 DEF Flow, Before, Failed
  <1>9. CASE FetchFails(r)
    <2>1. pc'[r] \in {"done", "cost"}
      <3>1. \/ Goto(r, "done") \/ Goto(r, "cost") \/ (pc' = pc /\ pc[r] = "cost")
        BY <1>9 DEF FetchFails
      <3> QED BY <1>1, <3>1, GotoFacts
    <2>2. gen'[r] = NewGen
      BY <1>9 DEF FetchFails, TypeInv, Flow, streamVars
    <2> QED BY <2>1, <2>2 DEF Flow, Before, Failed
  <1>10. CASE Charge(r)
    <2>1. pc'[r] \in {"responseIn", "done"}
      <3>1. \/ Goto(r, "responseIn") \/ Goto(r, "done")
        BY <1>10, ChargeFacts DEF Charge
      <3> QED BY <1>1, <3>1, GotoFacts
    <2>2. gen'[r] = NewGen
      BY <1>10 DEF Charge, TypeInv, Flow, streamVars
    <2> QED BY <2>1, <2>2 DEF Flow, Before, Failed
  <1>11. CASE LogResponse(r)
    BY <1>1, <1>11, LogFlow DEF LogResponse, Before, Failed
  <1>12. CASE Disconnect(r)
    <2>1. pc'[r] \in {"cost", "done"}
      <3>1. \/ Goto(r, "cost") \/ Goto(r, "done")
        BY <1>12 DEF Disconnect
      <3> QED BY <1>1, <3>1, GotoFacts
    <2>2. gen'[r] = NewGen
      BY <1>12 DEF Disconnect, TypeInv, Flow, streamVars
    <2> QED BY <2>1, <2>2 DEF Flow, Before, Failed
  <1>13. CASE StreamEvent(r)
    <2>1. pc[r] = "stream" /\ pc' = pc
      BY <1>13, StreamEventFacts DEF StreamEvent
    <2> QED BY <1>13, <2>1, StreamEventFacts DEF Flow, Before, Failed
  <1>14. CASE YieldChunk(r)
    <2>1. pc[r] = "stream" /\ pc' = pc
      BY <1>14, YieldChunkFacts DEF YieldChunk
    <2> QED BY <1>14, <2>1, YieldChunkFacts DEF Flow, Before, Failed
  <1> QED BY <1>2, <1>3, <1>4, <1>5, <1>6, <1>7, <1>8, <1>9, <1>10, <1>11, <1>12, <1>13,
             <1>14 DEF Step

LEMMA StreamStep ==
    ASSUME StreamInv, [Next]_vars
    PROVE  StreamInv'
  <1>1. CASE UNCHANGED vars
    BY <1>1 DEF StreamInv, TypeInv, Flow, vars, requestVars, streamVars, execVars, billVars
  <1>2. CASE HaltExecution
    BY <1>2 DEF HaltExecution, StreamInv, TypeInv, Flow, requestVars, streamVars, billVars
  <1>3. CASE StartExecution
    <2>1. created' = created + 1 /\ active' = created' /\ created' \in Execs
      BY <1>3, ProxyAssumption DEF StartExecution, StreamInv, TypeInv, Execs
    <2>2. \A r \in Requests : exec[r] <= created'
      BY <2>1 DEF StreamInv, TypeInv, Execs
    <2>3. UNCHANGED <<requestVars, streamVars, billVars, logs>>
      BY <1>3 DEF StartExecution
    <2> QED BY <2>1, <2>2, <2>3
         DEF StreamInv, TypeInv, Flow, requestVars, streamVars, billVars
  <1>4. ASSUME NEW r \in Requests, Step(r) \/ Disconnect(r)
        PROVE  StreamInv'
    <2>1. TypeInv' /\ \A q \in Requests \ {r} : Coroutine(q)' = Coroutine(q)
      BY <1>4, StepTypes
    <2>2. ASSUME NEW q \in Requests \ {r} PROVE Flow(q)'
      <3>1. pc'[q] = pc[q] /\ up'[q] = up[q] /\ gen'[q] = gen[q] /\ seen'[q] = seen[q]
        BY <2>1 DEF Coroutine
      <3> QED BY <3>1 DEF StreamInv, Flow
    <2>3. Flow(r)'
      BY <1>4, FlowStep
    <2> QED BY <2>1, <2>2, <2>3 DEF StreamInv
  <1> QED BY <1>1, <1>2, <1>3, <1>4 DEF Next

LEMMA StreamStart == Init => StreamInv
  <1> SUFFICES ASSUME Init PROVE \A r \in Requests : Flow(r)
    BY InitTypes DEF StreamInv
  <1> QED BY DEF Init, Flow

LEMMA StreamAlways == Spec => []StreamInv
  BY StreamStart, StreamStep, PTL DEF Spec

LEMMA StreamTypes == StreamInv => ProxyTypeOK
  <1> SUFFICES ASSUME StreamInv PROVE ProxyTypeOK
    OBVIOUS
  <1>1. ASSUME NEW r \in Requests, gen[r].index >= 0, NEW t \in Tools
        PROVE  gen[r].blocks[t] <= gen[r].index
    <2>1. NewGen.index = -1
      BY DEF NewGen
    <2>2. pc[r] = "stream" /\ Streams(seen[r], up[r], gen[r])
      BY <1>1, <2>1 DEF StreamInv, Flow
    <2>3. Live(gen[r])
      BY <1>1, <2>1, <2>2 DEF Streams
    <2> QED BY <2>3 DEF Live
  <1>2. exec \in [Requests -> 0..created]
    BY DEF StreamInv, TypeInv, Execs
  <1> QED BY <1>1, <1>2 DEF ProxyTypeOK, StreamInv, TypeInv, Charges

(* ModelProxy: every variable keeps its type, and the block the generator  *)
(* has open is the last one it opened (current_block_index), whatever the  *)
(* provider sends.                                                         *)
THEOREM ProxyTypeCorrect == Spec => []ProxyTypeOK
  BY StreamAlways, StreamTypes, PTL

(* A step is at most one event more for one client, and a legal one. *)
LEMMA ClientStep ==
    ASSUME StreamInv, [Next]_vars
    PROVE  [Client!Next]_seen
  <1>1. CASE UNCHANGED seen
    BY <1>1
  <1>2. ASSUME NEW r \in Requests, YieldChunk(r)
        PROVE  Client!Next
    <2>1. Legal(seen[r], seen'[r]) /\ seen' = [seen EXCEPT ![r] = seen'[r]]
      BY <1>2, YieldChunkFacts
    <2>2. Client!Receive(r)
      BY <2>1 DEF Client!Receive, Legal
    <2> QED BY <2>2 DEF Client!Next
  <1>3. ASSUME NEW r \in Requests, Step(r) \/ Disconnect(r)
        PROVE  UNCHANGED seen \/ YieldChunk(r)
    BY <1>3 DEF Step, Admit, Lookup, LogRequest, LogFailure, LogResponse, Log, Send,
       StreamEvent, StreamEnd, JsonEnd, FetchFails, Charge, Disconnect, streamVars
  <1>4. HaltExecution \/ StartExecution \/ UNCHANGED vars => UNCHANGED seen
    BY DEF HaltExecution, StartExecution, vars, streamVars
  <1> QED BY <1>1, <1>2, <1>3, <1>4 DEF Next

(* ModelProxy: the client of a translated stream sees a well-formed        *)
(* message, however a provider that sends one tool call after the other    *)
(* orders text, calls and usage, and wherever its stream breaks off: the   *)
(* proxy implements AnthropicStream.  Deltas of several calls mixed would  *)
(* be sent on for blocks already closed (_openai_sse_to_anthropic_sse).    *)
THEOREM StreamsWellFormed == Spec => ClientProtocol
  <1>1. Init => Client!Init
    BY DEF Init, Client!Init, NewClient, NoEvent
  <1>2. StreamInv /\ [Next]_vars => [Client!Next]_seen
    BY ClientStep
  <1> QED BY <1>1, <1>2, StreamAlways, PTL DEF Spec, ClientProtocol, Client!Spec

-----------------------------------------------------------------------------
(* The rows of the proxy log, by where a request's coroutine is. *)

Asked == <<"request_in", "request_out">>
Heard == <<"request_in", "request_out", "response_in">>
Told == <<"request_in", "request_out", "response_in", "response_out">>

Recorded(r) ==
    /\ pc[r] \in {"start", "lookup", "request"} => logs[r] = << >>
    /\ exec[r] # NoExec =>
         /\ pc[r] \in {"send", "stream", "json"} \cup Failed \cup After => logs[r] = Asked
         /\ pc[r] = "responseOut" => logs[r] = Heard
         /\ pc[r] = "done" /\ gone[r] = "no" /\ (up[r].heard \/ up[r].done)
              => logs[r] = Told

RecordInv == StreamInv /\ \A r \in Requests : Recorded(r)

LEMMA RowsAdded ==
    /\ << >> \o Asked = Asked
    /\ Asked \o <<"response_in">> = Heard
    /\ Heard \o <<"response_out">> = Told
  <1>1. /\ Asked \in Seq(Stages) /\ Heard \in Seq(Stages)
        /\ "response_in" \in Stages /\ "response_out" \in Stages
    BY DEF Asked, Heard, Stages
  <1>2. << >> \o Asked = Asked
    BY <1>1, ConcatEmptySeq
  <1>3. Asked \o <<"response_in">> = Heard
    <2>1. Append(Asked, "response_in") = Asked \o <<"response_in">>
      BY <1>1, AppendIsConcat
    <2>2. Append(Asked, "response_in") = Heard
      <3> DEFINE a == Append(Asked, "response_in")
      <3>1. a \in Seq(Stages) /\ Len(a) = 3 /\ Heard \in Seq(Stages) /\ Len(Heard) = 3
        BY <1>1 DEF Asked, Heard
      <3>2. a[1] = Heard[1] /\ a[2] = Heard[2] /\ a[3] = Heard[3]
        BY DEF Asked, Heard
      <3> HIDE DEF a
      <3>3. \A i \in 1..3 : a[i] = Heard[i]
        BY <3>2
      <3>4. a = Heard
        BY <3>1, <3>3, SeqEqual
      <3> QED BY <3>4 DEF a
    <2> QED BY <2>1, <2>2
  <1>4. Heard \o <<"response_out">> = Told
    <2>1. Append(Heard, "response_out") = Heard \o <<"response_out">>
      BY <1>1, AppendIsConcat
    <2>2. Append(Heard, "response_out") = Told
      <3> DEFINE a == Append(Heard, "response_out")
      <3>1. a \in Seq(Stages) /\ Len(a) = 4 /\ Told \in Seq(Stages) /\ Len(Told) = 4
        BY <1>1 DEF Heard, Told
      <3>2. a[1] = Told[1] /\ a[2] = Told[2] /\ a[3] = Told[3] /\ a[4] = Told[4]
        BY DEF Heard, Told
      <3> HIDE DEF a
      <3>3. \A i \in 1..4 : a[i] = Told[i]
        BY <3>2
      <3>4. a = Told
        BY <3>1, <3>3, SeqEqual
      <3> QED BY <3>4 DEF a
    <2> QED BY <2>1, <2>2
  <1> QED BY <1>2, <1>3, <1>4

LEMMA LogFacts ==
    ASSUME StreamInv, NEW r \in Requests, NEW from, NEW stages, NEW to \in Places,
           Log(r, from, stages, to)
    PROVE  /\ pc[r] = from /\ exec' = exec /\ gone' = gone /\ up' = up
           /\ exec[r] # NoExec =>
                /\ logs'[r] = logs[r] \o stages
                /\ pc'[r] = IF gone[r] = "cut" THEN "done" ELSE to
           /\ exec[r] = NoExec => pc'[r] = to
  <1>1. "done" \in Places
    BY DEF Places
  <1>2. CASE exec[r] = NoExec
    BY <1>1, <1>2, GotoFacts DEF Log, StreamInv, streamVars
  <1>3. CASE exec[r] # NoExec
    <2>1. logs'[r] = logs[r] \o stages
      BY <1>3 DEF Log, StreamInv, TypeInv
    <2>2. pc'[r] = IF gone[r] = "cut" THEN "done" ELSE to
      BY <1>1, <1>3, GotoFacts DEF Log, StreamInv
    <2> QED BY <1>3, <2>1, <2>2 DEF Log, streamVars
  <1> QED BY <1>2, <1>3

LEMMA RecordStep ==
    ASSUME RecordInv, NEW r \in Requests, Step(r) \/ Disconnect(r)
    PROVE  Recorded(r)'
  <1>0. StreamInv /\ TypeInv /\ Recorded(r) /\ Flow(r)
    BY DEF RecordInv, StreamInv
  <1>1. {"send", "done", "responseIn", "responseOut", "lookup", "request", "cost",
         "unreachable", "refused", "stream", "json"} \subseteq Places
    BY DEF Places, Before, Failed, After
  <1>2. ~NewUp.heard /\ ~NewUp.done
    BY DEF NewUp
  <1>3. CASE Admit(r)
    <2>1. /\ pc[r] = "start" /\ pc'[r] \in {"done", "lookup"}
          /\ logs' = logs /\ up' = up
      BY <1>0, <1>1, <1>3, GotoFacts DEF Admit, streamVars
    <2>2. up[r] = NewUp
      BY <1>0, <2>1 DEF Flow, Before
    <2> QED BY <1>0, <1>2, <2>1, <2>2 DEF Recorded, Failed, After
  <1>4. CASE Lookup(r)
    <2>1. /\ pc[r] = "lookup" /\ pc'[r] \in {"done", "request"}
          /\ logs' = logs /\ up' = up
      BY <1>0, <1>1, <1>4, GotoFacts DEF Lookup, streamVars
    <2>2. up[r] = NewUp
      BY <1>0, <2>1 DEF Flow, Before
    <2> QED BY <1>0, <1>2, <2>1, <2>2 DEF Recorded, Failed, After
  <1>5. CASE LogRequest(r)
    <2>1. /\ pc[r] = "request" /\ exec' = exec /\ gone' = gone /\ up' = up
          /\ exec[r] # NoExec => logs'[r] = logs[r] \o Asked
          /\ pc'[r] \in {"send", "done"}
      BY <1>0, <1>1, <1>5, LogFacts DEF LogRequest, Asked
    <2>2. up[r] = NewUp /\ logs[r] = << >>
      BY <1>0, <2>1 DEF Flow, Before, Recorded
    <2> QED BY <1>2, <2>1, <2>2, RowsAdded DEF Recorded, Failed, After
  <1>6. CASE Send(r)
    <2>1. /\ pc[r] = "send" /\ pc'[r] \in {"unreachable", "refused", "stream", "json"}
          /\ logs' = logs /\ exec' = exec
      BY <1>0, <1>1, <1>6, GotoFacts DEF Send
    <2> QED BY <1>0, <2>1 DEF Recorded, Failed, After
  <1>7. CASE LogFailure(r)
    <2>1. pc[r] \in Failed /\ up' = up /\ pc'[r] = "done"
      BY <1>0, <1>1, <1>7, LogFacts DEF LogFailure, Failed
    <2>2. up[r] = NewUp
      BY <1>0, <2>1 DEF Flow
    <2> QED BY <1>2, <2>1, <2>2 DEF Recorded, Failed, After
  <1>8. CASE StreamEvent(r) \/ YieldChunk(r)
    <2>1. /\ pc[r] = "stream" /\ pc' = pc /\ logs' = logs /\ exec' = exec
      BY <1>8 DEF StreamEvent, YieldChunk, requestVars
    <2> QED BY <1>0, <2>1 DEF Recorded, Failed, After
  <1>9. CASE StreamEnd(r) \/ JsonEnd(r)
    <2>1. /\ pc[r] \in {"stream", "json"} /\ pc'[r] = "cost"
          /\ logs' = logs /\ exec' = exec
      BY <1>0, <1>1, <1>9, GotoFacts DEF StreamEnd, JsonEnd
    <2> QED BY <1>0, <2>1 DEF Recorded, Failed, After
  <1>10. CASE FetchFails(r)
    <2>1. /\ pc[r] = "cost" /\ logs' = logs /\ exec' = exec /\ gone' = gone
          /\ pc'[r] = "cost" \/ (pc'[r] = "done" /\ gone[r] = "cut")
      BY <1>0, <1>1, <1>10, GotoFacts DEF FetchFails
    <2> QED BY <1>0, <2>1 DEF Recorded, Failed, After
  <1>11. CASE Charge(r)
    <2>1. /\ pc[r] = "cost" /\ logs' = logs /\ exec' = exec /\ gone' = gone
      BY <1>11 DEF Charge
    <2>2. pc'[r] = "responseIn" \/ (pc'[r] = "done" /\ gone[r] = "cut")
      BY <1>0, <1>1, <1>11, ChargeFacts, GotoFacts
    <2> QED BY <1>0, <2>1, <2>2 DEF Recorded, Failed, After
  <1>12. CASE LogResponse(r)
    <2>1. CASE Log(r, "responseIn", <<"response_in">>, "responseOut")
      <3>1. /\ pc[r] = "responseIn" /\ exec' = exec /\ gone' = gone /\ up' = up
            /\ exec[r] # NoExec => /\ logs'[r] = logs[r] \o <<"response_in">>
                                  /\ \/ pc'[r] = "responseOut"
                                     \/ pc'[r] = "done" /\ gone[r] = "cut"
            /\ exec[r] = NoExec => pc'[r] = "responseOut"
        BY <1>0, <1>1, <2>1, LogFacts
      <3>2. exec[r] # NoExec => logs[r] = Asked
        BY <1>0, <3>1 DEF Recorded, After
      <3> QED BY <3>1, <3>2, RowsAdded DEF Recorded, Failed, After
    <2>2. CASE Log(r, "responseOut", <<"response_out">>, "done")
      <3>1. /\ pc[r] = "responseOut" /\ exec' = exec /\ gone' = gone /\ up' = up
            /\ exec[r] # NoExec => logs'[r] = logs[r] \o <<"response_out">>
            /\ pc'[r] = "done"
        BY <1>0, <1>1, <2>2, LogFacts
      <3>2. exec[r] # NoExec => logs[r] = Heard
        BY <1>0, <3>1 DEF Recorded
      <3> QED BY <3>1, <3>2, RowsAdded DEF Recorded, Failed, After
    <2> QED BY <1>12, <2>1, <2>2 DEF LogResponse
  <1>13. CASE Disconnect(r)
    <2>1. logs' = logs /\ exec' = exec
      BY <1>13 DEF Disconnect
    <2>2. \/ pc[r] \in {"stream", "json"} /\ pc'[r] = "cost"
          \/ pc'[r] = "done" /\ gone'[r] = "cut"
      BY <1>0, <1>1, <1>13, GotoFacts DEF Disconnect, TypeInv
    <2> QED BY <1>0, <2>1, <2>2 DEF Recorded, Failed, After
  <1> QED BY <1>3, <1>4, <1>5, <1>6, <1>7, <1>8, <1>9, <1>10, <1>11, <1>12, <1>13 DEF Step

LEMMA RecordAlways == Spec => []RecordInv
  <1>1. Init => RecordInv
    <2> SUFFICES ASSUME Init PROVE \A r \in Requests : Recorded(r)
      BY StreamStart DEF RecordInv
    <2> QED BY DEF Init, Recorded, Failed, After
  <1>2. RecordInv /\ [Next]_vars => RecordInv'
    <2> SUFFICES ASSUME RecordInv, [Next]_vars PROVE \A q \in Requests : Recorded(q)'
      BY StreamStep DEF RecordInv
    <2>1. CASE UNCHANGED vars \/ HaltExecution \/ StartExecution
      <3>1. UNCHANGED <<pc, exec, gone, up, logs>>
        BY <2>1 DEF HaltExecution, StartExecution, vars, requestVars, streamVars
      <3> QED BY <3>1 DEF RecordInv, Recorded
    <2>2. ASSUME NEW r \in Requests, Step(r) \/ Disconnect(r), NEW q \in Requests
          PROVE  Recorded(q)'
      <3>1. CASE q = r
        BY <2>2, <3>1, RecordStep
      <3>2. CASE q # r
        <4>1. Coroutine(q)' = Coroutine(q)
          BY <2>2, <3>2, StepTypes DEF RecordInv
        <4>2. /\ pc'[q] = pc[q] /\ exec'[q] = exec[q] /\ gone'[q] = gone[q]
              /\ up'[q] = up[q] /\ logs'[q] = logs[q]
          BY <4>1 DEF Coroutine
        <4> QED BY <4>2 DEF RecordInv, Recorded
      <3> QED BY <3>1, <3>2
    <2> QED BY <2>1, <2>2 DEF Next
  <1> QED BY <1>1, <1>2, PTL DEF Spec

(* ModelProxy: an answer that began to arrive for a known execution has    *)
(* the whole exchange on record at its end, unless the client left,        *)
(* wherever the provider broke off (the finally clause of body_iter).      *)
THEOREM AnswersOnRecord == Spec => []AnswersRecorded
  <1>1. RecordInv => AnswersRecorded
    BY DEF RecordInv, Recorded, AnswersRecorded, Told
  <1> QED BY <1>1, RecordAlways, PTL

-----------------------------------------------------------------------------
(* What is charged.  The body of an answer counts the input once, with the *)
(* event that starts the message, and the output once, with the one that   *)
(* ends it; neither is more than the provider reported by then.            *)

Metered(r) ==
    /\ Within(body[r], up[r].usage)
    /\ pc[r] \in Before \cup Failed \cup {"json"} => body[r] = NoCounts
    /\ pc[r] = "stream" =>
         /\ seen[r].phase = "begin" => body[r].input = 0
         /\ seen[r].phase \in {"begin", "body"} => body[r].output = 0
    /\ r \in billed => exec[r] \in Execs /\ pc[r] \in {"responseIn", "responseOut", "done"}

BillInv ==
    /\ StreamInv /\ IsFiniteSet(billed) /\ \A r \in Requests : Metered(r)
    /\ ChargesAddUp

(* The messages of an answer start and end once. *)
LEMMA LegalPhases ==
    ASSUME NEW w \in Views, NEW x, Legal(w, x)
    PROVE  /\ x.last.type = "message_start" => w.phase = "begin"
           /\ x.last.type = "message_delta" => w.phase = "body"
  <1>1. CASE x \in Client!MessageStart(w)
    <2>1. w.phase = "begin" /\ x.last = [type |-> "message_start"]
      BY <1>1 DEF Client!MessageStart, Views
    <2> QED BY <2>1
  <1>2. CASE x \in Client!BlockStart(w)
    <2>1. PICK k \in Kinds :
            x.last = [type |-> "content_block_start", index |-> w.next, kind |-> k]
      BY <1>2 DEF Client!BlockStart, Views
    <2> QED BY <2>1
  <1>3. CASE x \in Client!BlockDelta(w)
    <2>1. x.last = [type |-> "content_block_delta", index |-> w.open, kind |-> w.last.kind]
      BY <1>3 DEF Client!BlockDelta, Views
    <2> QED BY <2>1
  <1>4. CASE x \in Client!BlockStop(w)
    <2>1. x.last = [type |-> "content_block_stop", index |-> w.open]
      BY <1>4 DEF Client!BlockStop, Views
    <2> QED BY <2>1
  <1>5. CASE x \in Client!MessageDelta(w)
    <2>1. w.phase = "body" /\ x.last = [type |-> "message_delta"]
      BY <1>5 DEF Client!MessageDelta, Views
    <2> QED BY <2>1
  <1>6. CASE x \in Client!MessageStop(w)
    <2>1. x.last = [type |-> "message_stop"]
      BY <1>6 DEF Client!MessageStop, Views
    <2> QED BY <2>1
  <1> QED BY <1>1, <1>2, <1>3, <1>4, <1>5, <1>6 DEF Legal

LEMMA ChunkCounts ==
    ASSUME NEW m \in Counts, NEW b \in Counts, NEW w \in Views, NEW e \in Outs(m),
           Legal(w, Received(w, e)), Within(b, m),
           w.phase = "begin" => b.input = 0,
           w.phase \in {"begin", "body"} => b.output = 0
    PROVE  LET x == Received(w, e)
               c == Counted(b, e)
           IN  /\ Within(c, m)
               /\ x.phase = "begin" => c.input = 0
               /\ x.phase \in {"begin", "body"} => c.output = 0
  <1> DEFINE x == Received(w, e)
             c == Counted(b, e)
  <1>1. CASE e.type = "message_start"
    <2>1. x.last = [type |-> "message_start"] /\ x.phase = "body"
      BY <1>1 DEF Received, Views
    <2>2. w.phase = "begin"
      <3>1. x.last.type = "message_start"
        BY <2>1
      <3> HIDE DEF x
      <3> QED BY <3>1, LegalPhases DEF x
    <2>3. e.input \in 0..m.input
      BY <1>1 DEF Outs
    <2>4. c.input = b.input + e.input /\ c.output = b.output
      BY <1>1 DEF Counted, Counts
    <2>5. b.input = 0 /\ b.output = 0
      BY <2>2
    <2> HIDE DEF x, c
    <2> QED BY <2>1, <2>3, <2>4, <2>5 DEF Within, Counts, x, c
  <1>2. CASE e.type = "message_delta"
    <2>1. x.last = [type |-> "message_delta"] /\ x.phase = "closing"
      BY <1>2 DEF Received, Views
    <2>2. w.phase = "body"
      <3>1. x.last.type = "message_delta"
        BY <2>1
      <3> HIDE DEF x
      <3> QED BY <3>1, LegalPhases DEF x
    <2>3. e.output \in 0..m.output
      BY <1>2 DEF Outs
    <2>4. c.input = b.input /\ c.output = b.output + e.output
      BY <1>2 DEF Counted, Counts
    <2>5. b.output = 0
      BY <2>2
    <2> HIDE DEF x, c
    <2> QED BY <2>1, <2>3, <2>4, <2>5 DEF Within, Counts, x, c
  <1>3. CASE e.type # "message_start" /\ e.type # "message_delta"
    <2>1. c = b
      BY <1>3 DEF Counted
    <2>2. x.phase = w.phase \/ x.phase = "end"
      BY <1>3 DEF Received, Views
    <2> HIDE DEF x, c
    <2> QED BY <2>1, <2>2 DEF x, c
  <1> QED BY <1>1, <1>2, <1>3

LEMMA MeteredStep ==
    ASSUME StreamInv, \A q \in Requests : Metered(q),
           NEW r \in Requests, Step(r) \/ Disconnect(r)
    PROVE  Metered(r)'
  <1>0. TypeInv /\ Metered(r) /\ Flow(r)
    BY DEF StreamInv
  <1>1. {"send", "done", "responseIn", "responseOut", "lookup", "request", "cost",
         "unreachable", "refused", "stream", "json"} \subseteq Places
    BY DEF Places, Before, Failed, After
  <1>2. /\ "start" \in Before /\ "lookup" \in Before /\ "request" \in Before
        /\ "send" \in Before
        /\ {"json", "stream", "cost", "responseIn", "responseOut", "done"}
             \cap (Before \cup Failed) = {}
        /\ {"responseIn", "responseOut", "done"} \cap (Before \cup Failed \cup {"json"}) = {}
    BY DEF Before, Failed
  <1>3. CASE Admit(r)
    <2>1. /\ pc[r] = "start" /\ pc'[r] \in {"lookup", "done"}
          /\ UNCHANGED <<streamVars, billVars>>
      BY <1>0, <1>1, <1>3, GotoFacts DEF Admit
    <2>2. body[r] = NoCounts /\ r \notin billed
      BY <1>0, <1>2, <2>1 DEF Metered
    <2> QED BY <1>0, <1>2, <2>1, <2>2, CountTypes DEF Metered, streamVars, billVars
  <1>4. CASE Lookup(r)
    <2>1. /\ pc[r] = "lookup" /\ pc'[r] \in {"request", "done"}
          /\ UNCHANGED <<streamVars, billVars>>
      BY <1>0, <1>1, <1>4, GotoFacts DEF Lookup
    <2>2. body[r] = NoCounts /\ r \notin billed
      BY <1>0, <1>2, <2>1 DEF Metered
    <2> QED BY <1>0, <1>2, <2>1, <2>2, CountTypes DEF Metered, streamVars, billVars
  <1>5. CASE Send(r)
    <2>1. /\ pc[r] = "send" /\ pc'[r] \in {"unreachable", "refused", "stream", "json"}
          /\ UNCHANGED <<streamVars, billVars>>
      BY <1>0, <1>1, <1>5, GotoFacts DEF Send
    <2>2. body[r] = NoCounts /\ r \notin billed
      BY <1>0, <1>2, <2>1 DEF Metered
    <2> QED BY <1>0, <1>2, <2>1, <2>2, CountTypes DEF Metered, streamVars, billVars
  <1>6. CASE LogRequest(r)
    <2>1. UNCHANGED <<exec, streamVars, billVars>>
      BY <1>6 DEF LogRequest, Log
    <2>2. \/ pc[r] = "request" /\ pc'[r] \in {"send", "done"}
      BY <1>0, <1>1, <1>6, LogFacts DEF LogRequest, StreamInv
    <2> QED BY <1>0, <1>2, <2>1, <2>2 DEF Metered, streamVars, billVars
  <1>7. CASE LogFailure(r)
    <2>1. UNCHANGED <<exec, streamVars, billVars>>
      BY <1>7 DEF LogFailure, Log
    <2>2. \/ pc[r] = "unreachable" /\ pc'[r] \in {"done"}
          \/ pc[r] = "refused" /\ pc'[r] \in {"done"}
      BY <1>0, <1>1, <1>7, LogFacts DEF LogFailure, StreamInv
    <2> QED BY <1>0, <1>2, <2>1, <2>2 DEF Metered, streamVars, billVars, Failed
  <1>8. CASE LogResponse(r)
    <2>1. UNCHANGED <<exec, streamVars, billVars>>
      BY <1>8 DEF LogResponse, Log
    <2>2. \/ pc[r] = "responseIn" /\ pc'[r] \in {"responseOut", "done"}
          \/ pc[r] = "responseOut" /\ pc'[r] \in {"done"}
      BY <1>0, <1>1, <1>8, LogFacts DEF LogResponse, StreamInv
    <2> QED BY <1>0, <1>2, <2>1, <2>2 DEF Metered, streamVars, billVars
  <1>9. CASE StreamEvent(r)
    <2>1. /\ pc[r] = "stream" /\ pc' = pc /\ UNCHANGED <<requestVars, seen, body, billVars>>
          /\ Within(body[r], up'[r].usage)
      <3>1. Within(body[r], up[r].usage) /\ body[r] \in Counts
        BY <1>0 DEF Metered, TypeInv
      <3>2. \A b \in Counts : Within(b, up[r].usage) => Within(b, up'[r].usage)
        BY <1>9, StreamEventFacts
      <3>3. pc[r] = "stream" /\ UNCHANGED <<requestVars, seen, body, billVars>>
        BY <1>9 DEF StreamEvent
      <3> HIDE DEF Within
      <3> QED BY <3>1, <3>2, <3>3 DEF requestVars
    <2> QED BY <1>0, <1>2, <2>1 DEF Metered, requestVars, billVars
  <1>10. CASE YieldChunk(r)
    <2> DEFINE e == Head(gen[r].out)
               m == up[r].usage
    <2>1. /\ pc[r] = "stream" /\ pc' = pc /\ UNCHANGED <<requestVars, up, billVars>>
      BY <1>10 DEF YieldChunk, requestVars
    <2>2. /\ seen'[r] = Received(seen[r], e) /\ body'[r] = Counted(body[r], e)
          /\ e \in Outs(m) /\ Legal(seen[r], Received(seen[r], e))
      BY <1>10, YieldChunkFacts
    <2>3. m \in Counts /\ body[r] \in Counts /\ seen[r] \in Views
      BY <1>0, CountTypes DEF TypeInv, Ups
    <2>4. /\ Within(body[r], m) /\ r \notin billed
          /\ seen[r].phase = "begin" => body[r].input = 0
          /\ seen[r].phase \in {"begin", "body"} => body[r].output = 0
      BY <1>0, <2>1 DEF Metered
    <2> HIDE DEF e, m
    <2>5. /\ Within(body'[r], m)
          /\ seen'[r].phase = "begin" => body'[r].input = 0
          /\ seen'[r].phase \in {"begin", "body"} => body'[r].output = 0
      BY <2>2, <2>3, <2>4, ChunkCounts
    <2> QED BY <1>2, <2>1, <2>4, <2>5 DEF Metered, requestVars, billVars, m
  <1>11. CASE StreamEnd(r)
    <2>1. PICK ok \in BOOLEAN : up' = [up EXCEPT ![r] = Ended(@, ok)]
      BY <1>0, <1>11 DEF StreamEnd, TypeInv, Ups
    <2>2. up'[r].usage = up[r].usage
      BY <1>0, <2>1, EndedFacts DEF TypeInv
    <2>3. /\ pc[r] = "stream" /\ pc'[r] = "cost" /\ UNCHANGED <<exec, body, billVars>>
      BY <1>0, <1>1, <1>11, GotoFacts DEF StreamEnd
    <2> QED BY <1>0, <1>2, <2>2, <2>3 DEF Metered, billVars
  <1>12. CASE JsonEnd(r)
    <2>1. Within(body'[r], up'[r].usage)
      <3>1. Within(Spent, Spent)
        BY CountTypes DEF Within
      <3>2. Within(body[r], up[r].usage)
        BY <1>0 DEF Metered
      <3> QED BY <1>0, <1>12, <3>1, <3>2, JsonEndFacts
    <2>2. pc[r] = "json" /\ pc'[r] = "cost" /\ UNCHANGED <<exec, billVars>>
      BY <1>0, <1>1, <1>12, GotoFacts DEF JsonEnd
    <2> QED BY <1>0, <1>2, <2>1, <2>2 DEF Metered, billVars
  <1>13. CASE FetchFails(r)
    <2>1. /\ pc[r] = "cost" /\ pc'[r] \in {"cost", "done"}
          /\ UNCHANGED <<exec, streamVars, billed>>
      BY <1>0, <1>1, <1>13, GotoFacts DEF FetchFails
    <2> QED BY <1>0, <1>2, <2>1 DEF Metered, streamVars
  <1>14. CASE Charge(r)
    <2>1. pc[r] = "cost" /\ UNCHANGED <<exec, streamVars>>
      BY <1>14 DEF Charge
    <2>2. /\ pc'[r] \in {"responseIn", "done"}
          /\ r \in billed' => r \in billed \/ exec[r] \in Execs
      BY <1>0, <1>1, <1>14, ChargeFacts, GotoFacts
    <2> QED BY <1>0, <1>2, <2>1, <2>2 DEF Metered, streamVars
  <1>15. CASE Disconnect(r)
    <2>1. up'[r].usage = up[r].usage
      <3>1. CASE up' = [up EXCEPT ![r] = Ended(@, FALSE)]
        BY <1>0, <3>1, EndedFacts DEF TypeInv
      <3>2. CASE up' = up
        BY <3>2
      <3> QED BY <1>15, <3>1, <3>2 DEF Disconnect
    <2>2. UNCHANGED <<exec, body, billVars>>
      BY <1>15 DEF Disconnect
    <2>3. \/ pc[r] \in {"stream", "json"} /\ pc'[r] = "cost"
          \/ pc'[r] = "done"
      BY <1>0, <1>1, <1>15, GotoFacts DEF Disconnect
    <2>4. r \in billed' => pc'[r] = "done" /\ exec'[r] \in Execs
      BY <1>0, <2>2, <2>3 DEF Metered, billVars
    <2> QED BY <1>0, <1>2, <2>1, <2>2, <2>3, <2>4 DEF Metered
  <1> QED BY <1>3, <1>4, <1>5, <1>6, <1>7, <1>8, <1>9, <1>10, <1>11, <1>12, <1>13, <1>14,
             <1>15 DEF Step

Mine(e) == {r \in billed : exec[r] = e}
Inputs == [r \in Requests |-> body[r].input]
Outputs == [r \in Requests |-> body[r].output]

Adds(e) ==
    /\ charged[e].input = SumFunctionOnSet(Inputs, Mine(e))
    /\ charged[e].output = SumFunctionOnSet(Outputs, Mine(e))
    /\ charged[e].costs <= Cardinality(Mine(e))

LEMMA ChargesAre ==
    ASSUME billed \subseteq Requests, \A r \in Requests : Metered(r)
    PROVE  ChargesAddUp <=> \A e \in Execs : Adds(e)
  <1>1. \A e \in Execs : \A r \in Mine(e) : /\ body[r].input <= up[r].usage.input
                                            /\ body[r].output <= up[r].usage.output
    BY DEF Mine, Metered, Within
  <1> QED BY <1>1 DEF ChargesAddUp, Adds, Mine, Inputs, Outputs

LEMMA MineFinite ==
    ASSUME IsFiniteSet(billed), NEW e
    PROVE  IsFiniteSet(Mine(e)) /\ Cardinality(Mine(e)) \in Nat /\ Mine(e) \subseteq billed
  <1>1. Mine(e) \subseteq billed
    BY DEF Mine
  <1> QED BY <1>1, FS_Subset, FS_CardinalityType

(* What is not billed may change without changing a sum. *)
LEMMA AddsKept ==
    ASSUME TypeInv, TypeInv', IsFiniteSet(billed), NEW e \in Execs, Adds(e),
           Mine(e)' = Mine(e), charged'[e] = charged[e],
           \A q \in Mine(e) : body'[q] = body[q]
    PROVE  Adds(e)'
  <1>1. IsFiniteSet(Mine(e)) /\ Mine(e) \subseteq Requests
    BY MineFinite DEF TypeInv, Mine
  <1>2. \A q \in Mine(e) : Inputs'[q] = Inputs[q] /\ Outputs'[q] = Outputs[q]
    BY <1>1 DEF Inputs, Outputs
  <1>3. /\ SumFunctionOnSet(Inputs', Mine(e)) = SumFunctionOnSet(Inputs, Mine(e))
        /\ SumFunctionOnSet(Outputs', Mine(e)) = SumFunctionOnSet(Outputs, Mine(e))
    BY <1>1, <1>2, SumSame
  <1> QED BY <1>3 DEF Adds

(* A charge adds the request's usage to the sums of its execution. *)
LEMMA AddsMore ==
    ASSUME TypeInv, TypeInv', IsFiniteSet(billed), NEW e \in Execs, Adds(e),
           NEW r \in Requests \ Mine(e), Mine(e)' = Mine(e) \cup {r}, body' = body,
           NEW cost \in {0, 1}, Increment(e, body[r], cost)
    PROVE  Adds(e)'
  <1>1. /\ IsFiniteSet(Mine(e)) /\ Mine(e) \in SUBSET Requests
        /\ Cardinality(Mine(e)) \in Nat
    BY MineFinite DEF TypeInv, Mine
  <1>2. body[r] \in Counts /\ charged[e] \in Charges
    BY DEF TypeInv
  <1>3. /\ charged'[e].input = charged[e].input + body[r].input
        /\ charged'[e].output = charged[e].output + body[r].output
        /\ charged'[e].costs = charged[e].costs + cost
    BY <1>2, IncrementFacts DEF TypeInv
  <1>4. /\ Inputs \in [Requests -> Nat] /\ Outputs \in [Requests -> Nat]
        /\ Inputs[r] = body[r].input /\ Outputs[r] = body[r].output
        /\ Inputs' = Inputs /\ Outputs' = Outputs
    BY DEF Inputs, Outputs, TypeInv, Counts
  <1>5. /\ SumFunctionOnSet(Inputs, Mine(e) \cup {r})
             = Inputs[r] + SumFunctionOnSet(Inputs, Mine(e))
        /\ SumFunctionOnSet(Outputs, Mine(e) \cup {r})
             = Outputs[r] + SumFunctionOnSet(Outputs, Mine(e))
    BY <1>1, <1>4, SumAdd
  <1>6. /\ SumFunctionOnSet(Inputs, Mine(e)) \in Nat
        /\ SumFunctionOnSet(Outputs, Mine(e)) \in Nat
    BY <1>1, <1>4, SumNat
  <1>7. Cardinality(Mine(e) \cup {r}) = Cardinality(Mine(e)) + 1
    BY <1>1, FS_AddElement
  <1>8. charged'[e].input = SumFunctionOnSet(Inputs, Mine(e) \cup {r})
    BY <1>2, <1>3, <1>4, <1>5, <1>6 DEF Adds, Charges, Counts
  <1>9. charged'[e].output = SumFunctionOnSet(Outputs, Mine(e) \cup {r})
    BY <1>2, <1>3, <1>4, <1>5, <1>6 DEF Adds, Charges, Counts
  <1>10. charged'[e].costs <= Cardinality(Mine(e) \cup {r})
    BY <1>1, <1>2, <1>3, <1>7 DEF Adds, Charges
  <1> QED BY <1>4, <1>8, <1>9, <1>10 DEF Adds

LEMMA BillStep ==
    ASSUME BillInv, [Next]_vars
    PROVE  BillInv'
  <1>0. /\ StreamInv /\ TypeInv /\ IsFiniteSet(billed) /\ billed \subseteq Requests
        /\ \A r \in Requests : Metered(r)
    BY DEF BillInv, StreamInv, TypeInv
  <1>1. \A e \in Execs : Adds(e)
    BY <1>0, ChargesAre DEF BillInv
  <1>2. StreamInv' /\ TypeInv' /\ billed' \subseteq Requests
    BY <1>0, StreamStep DEF StreamInv, TypeInv
  <1> SUFFICES /\ IsFiniteSet(billed') /\ \A r \in Requests : Metered(r)'
               /\ \A e \in Execs : Adds(e)'
    <2>1. ASSUME \A r \in Requests : Metered(r)', \A e \in Execs : Adds(e)'
          PROVE  ChargesAddUp'
      <3>1. ASSUME NEW e \in Execs, NEW q \in Mine(e)'
            PROVE  /\ body'[q].input <= up'[q].usage.input
                   /\ body'[q].output <= up'[q].usage.output
        <4>1. q \in billed' /\ q \in Requests
          BY <1>2, <3>1 DEF Mine
        <4> QED BY <2>1, <4>1 DEF Metered, Within
      <3> QED BY <2>1, <3>1 DEF ChargesAddUp, Adds, Mine, Inputs, Outputs
    <2> QED BY <1>2, <2>1 DEF BillInv
  <1>3. CASE UNCHANGED vars \/ HaltExecution \/ StartExecution
    <2>1. UNCHANGED <<requestVars, streamVars, billVars>>
      BY <1>3 DEF HaltExecution, StartExecution, vars
    <2>2. \A r \in Requests : Metered(r)'
      BY <1>0, <2>1 DEF Metered, requestVars, streamVars, billVars
    <2>3. \A e \in Execs : Adds(e)'
      BY <1>1, <2>1 DEF Adds, Mine, Inputs, Outputs, requestVars, streamVars, billVars
    <2> QED BY <1>0, <2>1, <2>2, <2>3 DEF billVars
  <1>4. ASSUME NEW r \in Requests, Step(r) \/ Disconnect(r)
        PROVE  /\ IsFiniteSet(billed') /\ \A q \in Requests : Metered(q)'
               /\ \A e \in Execs : Adds(e)'
    <2>1. Metered(r)' /\ \A q \in Requests \ {r} : Coroutine(q)' = Coroutine(q)
      BY <1>0, <1>4, MeteredStep, StepTypes
    <2>2. \A q \in Requests \ {r} : /\ pc'[q] = pc[q] /\ exec'[q] = exec[q] /\ up'[q] = up[q]
                                   /\ seen'[q] = seen[q] /\ body'[q] = body[q]
      BY <2>1 DEF Coroutine
    <2>3. \/ UNCHANGED <<charged, billed>> /\ (r \in billed => exec'[r] = exec[r] /\ body'[r] = body[r])
          \/ Charge(r)
      <3>1. r \in billed => pc[r] \in {"responseIn", "responseOut", "done"}
        BY <1>0 DEF Metered
      <3> QED BY <1>4, <3>1 DEF Step, Admit, Lookup, LogRequest, LogFailure, LogResponse,
                 Log,
              Send, StreamEvent, YieldChunk, StreamEnd, JsonEnd, FetchFails, Disconnect,
              requestVars, streamVars, billVars
    <2>4. CASE UNCHANGED <<charged, billed>> /\ (r \in billed => exec'[r] = exec[r] /\ body'[r] = body[r])
      <3>1. \A q \in Requests : Metered(q)'
        BY <1>0, <2>1, <2>2, <2>4 DEF Metered
      <3>2. ASSUME NEW e \in Execs PROVE Adds(e)'
        <4>1. Mine(e)' = Mine(e) /\ \A q \in Mine(e) : body'[q] = body[q]
          BY <1>0, <2>2, <2>4 DEF Mine
        <4> QED BY <1>0, <1>1, <1>2, <2>4, <4>1, AddsKept
      <3> QED BY <1>0, <2>4, <3>1, <3>2
    <2>5. CASE Charge(r)
      <3>1. /\ r \notin billed /\ UNCHANGED <<exec, body>>
        <4>1. pc[r] = "cost" /\ UNCHANGED <<exec, body>>
          BY <2>5 DEF Charge, streamVars
        <4> QED BY <1>0, <4>1 DEF Metered
      <3>2. CASE UNCHANGED <<charged, billed>>
        BY <2>4, <3>1, <3>2
      <3>3. ASSUME NEW cost \in {0, 1}, exec[r] \in Execs,
                   Increment(exec[r], body[r], cost), billed' = billed \cup {r}
            PROVE  /\ IsFiniteSet(billed') /\ \A q \in Requests : Metered(q)'
                   /\ \A e \in Execs : Adds(e)'
        <4>1. IsFiniteSet(billed')
          BY <1>0, <3>3, FS_AddElement
        <4>2. \A q \in Requests : Metered(q)'
          BY <1>0, <2>1, <2>2, <3>3 DEF Metered
        <4>3. ASSUME NEW e \in Execs PROVE Adds(e)'
          <5>1. CASE e = exec[r]
            <6>1. Mine(e)' = Mine(e) \cup {r} /\ r \notin Mine(e)
              BY <3>1, <3>3, <5>1 DEF Mine
            <6> QED BY <1>0, <1>1, <1>2, <3>1, <3>3, <5>1, <6>1, AddsMore
          <5>2. CASE e # exec[r]
            <6>1. Mine(e)' = Mine(e)
              BY <3>1, <3>3, <5>2 DEF Mine
            <6>2. charged'[e] = charged[e]
              <7>1. body[r] \in Counts /\ charged \in [Execs -> Charges]
                BY <1>0 DEF TypeInv
              <7> QED BY <3>3, <5>2, <7>1, IncrementFacts
            <6> QED BY <1>0, <1>1, <1>2, <3>1, <6>1, <6>2, AddsKept
          <5> QED BY <5>1, <5>2
        <4> QED BY <4>1, <4>2, <4>3
      <3> QED BY <1>0, <2>5, <3>2, <3>3, ChargeFacts
    <2> QED BY <2>3, <2>4, <2>5
  <1> QED BY <1>3, <1>4 DEF Next

(* ModelProxy: what an execution is charged is exactly the sum over the    *)
(* requests billed to it, and never more than their providers reported,    *)
(* however many answers end at once or are cut off                         *)
(* (increment_execution_token_usage).                                      *)
THEOREM ChargesAreSums == Spec => []ChargesAddUp
  <1>1. Init => BillInv
    <2> SUFFICES ASSUME Init PROVE BillInv
      OBVIOUS
    <2>1. \A r \in Requests : Metered(r)
      BY CountTypes DEF Init, Metered, Within, NewUp, NewClient
    <2>2. IsFiniteSet(billed) /\ billed \subseteq Requests
      BY FS_EmptySet DEF Init
    <2>3. ASSUME NEW e \in Execs PROVE Adds(e)
      <3>1. Mine(e) = {} /\ charged[e] = [input |-> 0, output |-> 0, costs |-> 0]
        BY DEF Init, Mine
      <3>2. /\ SumFunctionOnSet(Inputs, {}) = 0 /\ SumFunctionOnSet(Outputs, {}) = 0
            /\ Cardinality({}) = 0
        BY SumTaken, FS_EmptySet
      <3> QED BY <3>1, <3>2 DEF Adds
    <2> QED BY <2>1, <2>2, <2>3, StreamStart, ChargesAre DEF BillInv
  <1>2. BillInv /\ [Next]_vars => BillInv'
    BY BillStep
  <1>3. BillInv => ChargesAddUp
    BY DEF BillInv
  <1> QED BY <1>1, <1>2, <1>3, PTL DEF Spec
=============================================================================
