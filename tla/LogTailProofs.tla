----------------------------- MODULE LogTailProofs -----------------------------
(***************************************************************************)
(* Theorems about LogTail, for every number of streams, lines and          *)
(* restarts.                                                               *)
(*                                                                         *)
(* Both invariants follow a line on its way: what a thread has read of its *)
(* stream is first in the work queue, then the item the tailer holds, then *)
(* a row, unless it is at or before the timestamp the tailer started from. *)
(* Across restarts only the stamps of the rows say what comes before what. *)
(***************************************************************************)
EXTENDS LogTail, DataLemmas, SequenceTheorems

Pieces == [stream : Streams, at : Nat \ {Never}, stamped : BOOLEAN]
Items == [stream : Streams, line : Nat]
StoredRows == [line : Nat, run : Nat]

TypeInv ==
    /\ LogTypeOK
    /\ queue \in Seq(Items) /\ rows \in Seq(StoredRows)
    /\ item \in Items \cup {Nothing} /\ restarts \in Nat
    /\ pc = "store" => item \in Items
    /\ pc # "store" => item = Nothing
    /\ restarts = 0 => since = Never /\ pc # "down"

(* What a thread has put into the queue are lines of its stream, up to     *)
(* pos, and the mark of its end when it is done.                           *)
OfStream(it) ==
    /\ it.line # End => it.line \in 1..pos[it.stream] /\ log[it.line].stream = it.stream
    /\ it.line = End => reader[it.stream] = "done"

InHandRead ==
    /\ \A i \in DOMAIN queue : OfStream(queue[i])
    /\ pc = "store" => OfStream(item) /\ item.line # End

OffUnread == \A s \in Streams : reader[s] = "off" => pos[s] = 0

BaseInv == TypeInv /\ InHandRead /\ OffUnread

LEMMA BaseInit == Init => BaseInv
  <1> SUFFICES ASSUME Init PROVE BaseInv
    OBVIOUS
  <1>1. LogTypeOK
    <2>1. {sawWorker, deadline, cut, misled} \subseteq BOOLEAN
      BY DEF Init, Fresh
    <2>2. pos \in [Streams -> 0..Len(log)]
      BY DEF Init, Fresh
    <2> QED BY <2>1, <2>2 DEF Init, Fresh, LogTypeOK, Attached, Never
  <1>2. TypeInv
    BY <1>1 DEF Init, Fresh, TypeInv, Items
  <1>3. InHandRead /\ OffUnread
    BY DEF Init, Fresh, InHandRead, OffUnread
  <1> QED BY <1>2, <1>3 DEF BaseInv

LEMMA BaseNext == BaseInv /\ [Next]_vars => BaseInv'
  <1> SUFFICES ASSUME BaseInv, [Next]_vars PROVE BaseInv'
    OBVIOUS
  <1> USE DEF BaseInv
  <1>t. log \in Seq(Pieces)
    BY DEF TypeInv, LogTypeOK, Pieces
  <1>1. ASSUME NEW s \in Streams, WriteLine(s) PROVE BaseInv'
    <2>1. PICK piece \in Pieces : log' = Append(log, piece)
      <3>1. Stamps \subseteq Nat \ {Never}
        <4>1. log # <<>> => log[Len(log)] \in Pieces
          BY <1>t
        <4>2. log # <<>> => log[Len(log)].at \in Nat \ {Never}
          BY <4>1 DEF Pieces
        <4> QED BY <4>2 DEF Stamps, Never
      <3> QED BY <1>1, <3>1 DEF WriteLine, Pieces
    <2>2. log \in Seq(Pieces) /\ log' \in Seq(Pieces)
      BY <2>1 DEF TypeInv, LogTypeOK, Pieces
    <2>3. /\ Len(log) \in Nat /\ DOMAIN log = 1..Len(log)
          /\ Len(log') = Len(log) + 1 /\ DOMAIN log' = 1..(Len(log) + 1)
          /\ \A i \in 1..Len(log) : log'[i] = log[i]
      BY <2>1, <2>2
    <2>4. UNCHANGED <<worker, sidecar, cut, readerVars, loopVars, queue, pc, rowVars,
                      restarts>>
      BY <1>1 DEF WriteLine
    <2>5. LogTypeOK'
      <3>1. log' \in Seq([stream : Streams, at : Nat \ {Never}, stamped : BOOLEAN])
        BY <2>2 DEF Pieces
      <3>2. pos' \in [Streams -> 0..Len(log')] /\ UNCHANGED Attached
        <4>1. pos \in [Streams -> 0..Len(log)]
          BY DEF TypeInv, LogTypeOK
        <4> QED BY <2>3, <2>4, <4>1 DEF Attached, readerVars
      <3>3. \A i \in DOMAIN rows' : rows'[i].line \in DOMAIN log'
        <4>1. \A i \in DOMAIN rows : rows[i].line \in DOMAIN log
          BY DEF TypeInv, LogTypeOK
        <4> QED BY <2>3, <2>4, <4>1 DEF rowVars
      <3>4. UNCHANGED <<worker, sidecar, cut, reader, done, sawWorker, deadline, since,
                        pc, last, misled>>
        BY <2>4 DEF readerVars, loopVars, rowVars
      <3>5. /\ worker' \in {"running", "exited", "gone"} /\ sidecar' \in {"running", "gone"}
            /\ reader' \in [Streams -> {"off", "on", "done"}]
            /\ done' \subseteq Attached'
            /\ pc' \in {"attach", "get", "store", "check", "ended", "failed", "down"}
            /\ {sawWorker', deadline', cut', misled'} \subseteq BOOLEAN
            /\ last' \in Nat /\ since' \in 0..last'
        BY <3>2, <3>4 DEF LogTypeOK, TypeInv
      <3> QED BY ONLY <3>1, <3>2, <3>3, <3>5, Zenon DEF LogTypeOK
    <2>6. TypeInv'
      BY <2>4, <2>5 DEF TypeInv, loopVars, rowVars
    <2>7. \A it \in Items : OfStream(it) => OfStream(it)'
      <3>1. pos \in [Streams -> 0..Len(log)] /\ UNCHANGED <<pos, reader>>
        BY <2>4 DEF LogTypeOK, TypeInv, readerVars
      <3>2. \A q \in Streams : pos[q] \in 0..Len(log)
        BY <3>1
      <3>3. ASSUME NEW it \in Items, OfStream(it) PROVE OfStream(it)'
        <4>1. it.stream \in Streams /\ it.line \in Nat
          BY DEF Items
        <4>2. it.line # End => it.line \in 1..Len(log)
          BY <3>2, <3>3, <4>1 DEF OfStream, End
        <4>3. it.line # End => log'[it.line] = log[it.line]
          BY <2>3, <4>2
        <4> QED BY <3>1, <3>3, <4>3 DEF OfStream
      <3> QED BY <3>3
    <2>8. UNCHANGED <<queue, pc, item, pos, reader>>
      BY <2>4 DEF readerVars, loopVars
    <2>9. ASSUME NEW i \in DOMAIN queue' PROVE OfStream(queue[i])'
      BY <2>7, <2>8 DEF InHandRead, OfStream, TypeInv
    <2> QED BY <2>6, <2>7, <2>8, <2>9 DEF InHandRead, OffUnread, TypeInv, OfStream
  <1>2. CASE WorkerExits
    <2>1. LogTypeOK'
      BY <1>2 DEF WorkerExits, LogTypeOK, TypeInv, InHandRead, OfStream, Attached,
         containerVars, readerVars, loopVars, rowVars
    <2>2. TypeInv'
      BY <1>2, <2>1 DEF WorkerExits, LogTypeOK, TypeInv, InHandRead, OfStream, Items,
         containerVars, readerVars, loopVars, rowVars
    <2>3. InHandRead' /\ OffUnread'
      BY <1>2 DEF WorkerExits, OffUnread, LogTypeOK, TypeInv, InHandRead, OfStream, Items,
         containerVars, readerVars, loopVars, rowVars
    <2> QED BY <2>2, <2>3
  <1>3. CASE DeleteWorker
    <2>1. LogTypeOK'
      BY <1>3 DEF DeleteWorker, LogTypeOK, TypeInv, InHandRead, OfStream, Attached,
         containerVars, readerVars, loopVars, rowVars
    <2>2. TypeInv'
      BY <1>3, <2>1 DEF DeleteWorker, LogTypeOK, TypeInv, InHandRead, OfStream, Items,
         containerVars, readerVars, loopVars, rowVars
    <2>3. InHandRead' /\ OffUnread'
      BY <1>3 DEF DeleteWorker, OffUnread, LogTypeOK, TypeInv, InHandRead, OfStream, Items,
         containerVars, readerVars, loopVars, rowVars
    <2> QED BY <2>2, <2>3
  <1>4. CASE DeleteSidecar
    <2>1. LogTypeOK'
      BY <1>4 DEF DeleteSidecar, LogTypeOK, TypeInv, InHandRead, OfStream, Attached,
         containerVars, readerVars, loopVars, rowVars
    <2>2. TypeInv'
      BY <1>4, <2>1 DEF DeleteSidecar, LogTypeOK, TypeInv, InHandRead, OfStream, Items,
         containerVars, readerVars, loopVars, rowVars
    <2>3. InHandRead' /\ OffUnread'
      BY <1>4 DEF DeleteSidecar, OffUnread, LogTypeOK, TypeInv, InHandRead, OfStream, Items,
         containerVars, readerVars, loopVars, rowVars
    <2> QED BY <2>2, <2>3
  <1>5. ASSUME NEW s \in Streams, ReadLine(s) PROVE BaseInv'
    <2> DEFINE next == Min(Unread(s))
               it == [stream |-> s, line |-> next]
    <2>1. next \in Unread(s)
      <3>1. Unread(s) \in SUBSET Nat
        BY DEF Unread, LogTypeOK, TypeInv
      <3> QED BY <1>5, <3>1, MinProperty DEF ReadLine
    <2>2. next \in Nat /\ next \in 1..Len(log) /\ pos[s] < next
          /\ log[next].stream = s
      <3>1. log \in Seq(Pieces) /\ Len(log) \in Nat /\ pos[s] \in Nat
        <4>1. pos \in [Streams -> 0..Len(log)] /\ Len(log) \in Nat
          BY <1>t DEF LogTypeOK, TypeInv
        <4> QED BY <1>t, <4>1
      <3> HIDE DEF next
      <3> QED BY <2>1, <3>1 DEF Unread
    <2>3. pos' = [pos EXCEPT ![s] = next] /\ queue' = Append(queue, it)
          /\ reader[s] = "on" /\ UNCHANGED <<reader, rowVars, restarts, pc>>
      BY <1>5 DEF ReadLine
    <2> HIDE DEF next
    <2>4. it \in Items
      BY <2>2 DEF Items
    <2>5. pos' \in [Streams -> 0..Len(log)] /\ pos'[s] = next
          /\ \A u \in Streams : pos[u] <= pos'[u]
      BY <2>2, <2>3 DEF LogTypeOK, TypeInv
    <2>6. LogTypeOK'
      BY <1>5, <2>3, <2>5 DEF rowVars, ReadLine, LogTypeOK, TypeInv, Attached,
         containerVars, loopVars
    <2>7. TypeInv'
      BY <1>5, <2>3, <2>4, <2>6, SMTT(60) DEF ReadLine, TypeInv, loopVars, rowVars
    <2>8. \A x \in Items : OfStream(x) => OfStream(x)'
      BY <1>5, <2>5 DEF ReadLine, OfStream, Items, LogTypeOK, TypeInv, containerVars
    <2>9. \A x \in Items : x = it => OfStream(x)'
      BY <1>5, <2>2, <2>5 DEF ReadLine, OfStream, containerVars, End
    <2>10. ASSUME NEW i \in DOMAIN queue' PROVE OfStream(queue[i])'
      <3>1. queue'[i] \in Items /\ (queue'[i] = it \/ (i \in DOMAIN queue /\ queue'[i] = queue[i]))
        BY <2>3, <2>4 DEF TypeInv
      <3> QED BY <2>8, <2>9, <3>1 DEF InHandRead, OfStream
    <2>11. InHandRead' /\ OffUnread'
      BY <1>5, <2>3, <2>8, <2>10 DEF OffUnread, LogTypeOK, ReadLine, InHandRead,
         TypeInv, loopVars, OfStream
    <2> QED BY <2>7, <2>11
  <1>6. ASSUME NEW s \in Streams, StreamDone(s) \/ StreamBreaks(s) PROVE BaseInv'
    <2> DEFINE it == [stream |-> s, line |-> End]
    <2>1. it \in Items /\ queue' = Append(queue, it)
      BY <1>6 DEF StreamDone, StreamBreaks, Items, End
    <2>2. reader' = [reader EXCEPT ![s] = "done"]
      BY <1>6 DEF StreamDone, StreamBreaks
    <2>3. LogTypeOK'
      <3>1. cut' \in BOOLEAN
        BY <1>6 DEF StreamDone, StreamBreaks, containerVars, LogTypeOK, TypeInv
      <3> QED BY <1>6, <3>1 DEF StreamDone, StreamBreaks, LogTypeOK, TypeInv, Attached,
                 containerVars, loopVars, rowVars
    <2>4. TypeInv'
      BY <1>6, <2>1, <2>3 DEF StreamDone, StreamBreaks, TypeInv, loopVars, rowVars
    <2>5. \A x \in Items : OfStream(x) => OfStream(x)'
      BY <1>6, <2>2 DEF StreamDone, StreamBreaks, OfStream, Items, LogTypeOK, TypeInv,
         containerVars
    <2>6. \A x \in Items : x = it => OfStream(x)'
      BY <2>2 DEF OfStream, LogTypeOK, TypeInv
    <2>7. ASSUME NEW i \in DOMAIN queue' PROVE OfStream(queue[i])'
      <3>1. queue'[i] \in Items /\ (queue'[i] = it \/ (i \in DOMAIN queue /\ queue'[i] = queue[i]))
        BY <2>1 DEF TypeInv
      <3> QED BY <2>5, <2>6, <3>1 DEF InHandRead, OfStream
    <2>8. InHandRead' /\ OffUnread'
      BY <1>6, <2>2, <2>5, <2>7 DEF OffUnread, LogTypeOK, StreamDone, StreamBreaks,
         InHandRead, TypeInv, loopVars, OfStream
    <2> QED BY <2>4, <2>8
  <1>7. CASE Attach
    <2>1. /\ pos' \in [Streams -> 0..Len(log)]
          /\ \A s \in Streams : reader[s] # "off" => pos'[s] = pos[s]
          /\ \A s \in Streams : reader'[s] = "off" => pos'[s] = pos[s]
      BY <1>7 DEF Attach, LogTypeOK, TypeInv
    <2>2. /\ \A s \in Streams : reader[s] # "off" => reader'[s] = reader[s]
          /\ \A s \in Streams : reader'[s] = "off" => reader[s] = "off"
          /\ reader' \in [Streams -> {"off", "on", "done"}]
      BY <1>7 DEF Attach, LogTypeOK, TypeInv
    <2>3. UNCHANGED <<log, worker, sidecar, cut, done, deadline, item, since, queue, rows,
                      last, misled, restarts>>
      BY <1>7 DEF Attach, containerVars, rowVars
    <2>4. LogTypeOK'
      BY <1>7, <2>1, <2>2, <2>3 DEF Attach, LogTypeOK, TypeInv, Attached
    <2>5. TypeInv'
      BY <1>7, <2>3, <2>4 DEF Attach, TypeInv
    <2>6. ASSUME NEW x \in Items, OfStream(x) PROVE OfStream(x)'
      <3>1. CASE x.line = End
        BY <2>2, <2>6, <3>1 DEF OfStream, Items
      <3>2. CASE x.line # End
        <4>1. reader[x.stream] # "off"
          BY <2>6, <3>2 DEF OfStream, OffUnread, Items
        <4> QED BY <2>1, <2>3, <2>6, <3>2, <4>1 DEF OfStream, Items
      <3> QED BY <3>1, <3>2
    <2>7. InHandRead'
      BY <1>7, <2>3, <2>6 DEF Attach, InHandRead, TypeInv, OfStream
    <2>8. OffUnread'
      BY <2>1, <2>2 DEF OffUnread
    <2> QED BY <2>5, <2>7, <2>8
  <1>8. CASE GetItem
    <2>1. CASE queue = <<>>
      BY <1>8, <2>1 DEF GetItem, LogTypeOK, TypeInv, InHandRead, OffUnread, OfStream,
         Attached, containerVars, readerVars, rowVars
    <2>2. CASE queue # <<>>
      <3> DEFINE it == Head(queue)
      <3>1. it \in Items /\ OfStream(it) /\ queue' = Tail(queue)
        BY <1>8, <2>2 DEF GetItem, TypeInv, InHandRead
      <3>2. queue' \in Seq(Items) /\ \A i \in DOMAIN queue' : OfStream(queue'[i])
        BY <2>2, <3>1, HeadTailProperties DEF TypeInv, InHandRead
      <3>3. IF it.line = End
            THEN pc' = "check" /\ done' = done \cup {it.stream} /\ UNCHANGED item
            ELSE pc' = "store" /\ item' = it /\ UNCHANGED done
        BY <1>8, <2>2 DEF GetItem
      <3> HIDE DEF it
      <3>4. LogTypeOK'
        BY <1>8, <3>1, <3>3 DEF GetItem, LogTypeOK, TypeInv, OfStream, Attached, Items,
           containerVars, readerVars, rowVars
      <3>5. TypeInv'
        BY <1>8, <3>1, <3>2, <3>3, <3>4 DEF GetItem, TypeInv, rowVars
      <3>6. InHandRead' /\ OffUnread'
        BY <1>8, <3>1, <3>2, <3>3 DEF GetItem, InHandRead, OffUnread, OfStream,
           containerVars,
           readerVars
      <3> QED BY <3>5, <3>6
    <2> QED BY <2>1, <2>2
  <1>9. CASE StoreLine
    <2>1. /\ pc = "store" /\ pc' = "check" /\ item' = Nothing
          /\ UNCHANGED <<log, worker, sidecar, cut, reader, pos, done, sawWorker, deadline,
                         since, queue, restarts>>
      BY <1>9 DEF StoreLine, containerVars, readerVars
    <2>2. item \in Items /\ item.line \in DOMAIN log
      BY <2>1 DEF TypeInv, InHandRead, OfStream, LogTypeOK, Items
    <2>3. PICK at \in Nat : UNCHANGED <<rows, last, misled>> \/ Store(at)
      <3>1. ParsedAs(log[item.line]) \subseteq Nat
        <4>1. log[item.line] \in Pieces /\ MaxLines \in Nat
          BY <1>t, <2>2, LogAssumption
        <4> QED BY <4>1 DEF ParsedAs, Times, Pieces
      <3> QED BY <1>9, <3>1 DEF StoreLine, rowVars
    <2>4. /\ rows' \in Seq(StoredRows) /\ last' \in Nat /\ last <= last' /\ misled' = misled
          /\ \A k \in DOMAIN rows' : rows'[k].line \in DOMAIN log
      <3>1. CASE UNCHANGED <<rows, last, misled>>
        BY <3>1 DEF TypeInv, LogTypeOK
      <3>2. CASE Store(at)
        <4> DEFINE row == [line |-> item.line, run |-> restarts]
        <4>1. row \in StoredRows /\ row.line \in DOMAIN log
          BY <2>2 DEF StoredRows, Items, TypeInv
        <4>2. rows' = Append(rows, row) /\ last' \in {at, last} /\ last <= last'
          <5>1. last \in Nat
            BY DEF TypeInv, LogTypeOK
          <5>2. rows' = Append(rows, row) /\ last' = IF at > last THEN at ELSE last
            BY <3>2 DEF Store
          <5> HIDE DEF row
          <5> QED BY <5>1, <5>2
        <4> HIDE DEF row
        <4>3. /\ rows \in Seq(StoredRows) /\ last \in Nat
              /\ \A k \in DOMAIN rows : rows[k].line \in DOMAIN log
          BY DEF TypeInv, LogTypeOK
        <4>4. /\ rows' \in Seq(StoredRows) /\ DOMAIN rows' = 1..(Len(rows) + 1)
              /\ \A k \in 1..Len(rows) : rows'[k] = rows[k]
              /\ rows'[Len(rows) + 1] = row
          BY <4>1, <4>2, <4>3
        <4>5. \A k \in DOMAIN rows' : rows'[k].line \in DOMAIN log
          BY <4>1, <4>3, <4>4
        <4>6. misled' = misled
          BY <3>2 DEF Store
        <4> QED BY <4>2, <4>3, <4>4, <4>5, <4>6
      <3> QED BY <2>3, <3>1, <3>2
    <2>5. LogTypeOK'
      <3>1. since \in 0..last'
        BY <2>4 DEF TypeInv, LogTypeOK
      <3> QED BY <2>1, <2>4, <3>1 DEF LogTypeOK, TypeInv, Attached
    <2>6. TypeInv'
      BY <2>1, <2>4, <2>5 DEF TypeInv
    <2> QED BY <2>1, <2>6 DEF InHandRead, OfStream, OffUnread
  <1>10. CASE Check \/ TailFails
    <2>1. /\ pc' \in {"ended", "failed", "attach"} /\ deadline' \in BOOLEAN
          /\ item' = Nothing
          /\ UNCHANGED <<log, worker, sidecar, cut, reader, pos, done, sawWorker, since,
                         queue, rows, last, misled, restarts>>
      BY <1>10 DEF Check, TailFails, WorkerOver, containerVars, readerVars, rowVars,
         TypeInv, LogTypeOK
    <2>2. LogTypeOK'
      BY <2>1 DEF LogTypeOK, TypeInv, Attached
    <2>3. TypeInv'
      BY <2>1, <2>2 DEF TypeInv
    <2> QED BY <2>1, <2>3 DEF InHandRead, OfStream, OffUnread
  <1>11. CASE Crash
    <2>1. LogTypeOK'
      <3>1. {sawWorker', deadline', cut', misled'} \subseteq BOOLEAN
        BY <1>11 DEF Crash, containerVars, rowVars, LogTypeOK, TypeInv
      <3> QED BY <1>11, <3>1 DEF Crash, LogTypeOK, TypeInv, Attached, containerVars, rowVars
    <2>2. TypeInv'
      BY <1>11, <2>1 DEF Crash, LogTypeOK, TypeInv, InHandRead, OfStream, Items,
         containerVars, readerVars, loopVars, rowVars
    <2>3. InHandRead' /\ OffUnread'
      BY <1>11 DEF Crash, OffUnread, LogTypeOK, TypeInv, InHandRead, OfStream, Items,
         containerVars,
         readerVars, loopVars
    <2> QED BY <2>2, <2>3
  <1>12. CASE Recover
    <2>1. /\ pc' = "attach" /\ pc = "down" /\ since' \in 0..last /\ misled' \in BOOLEAN
          /\ UNCHANGED <<log, worker, sidecar, cut, reader, pos, done, sawWorker, deadline,
                         item, queue, rows, last, restarts>>
      <3>1. last \in Nat /\ misled \in BOOLEAN
        BY DEF TypeInv, LogTypeOK
      <3>2. LastTimestamps \subseteq 0..last
        BY <3>1 DEF LastTimestamps
      <3> QED BY <1>12, <3>1, <3>2 DEF Recover, containerVars, readerVars
    <2>2. LogTypeOK'
      BY <2>1 DEF LogTypeOK, TypeInv, Attached
    <2>3. TypeInv'
      BY <2>1, <2>2 DEF TypeInv
    <2> QED BY <2>1, <2>3 DEF InHandRead, OfStream, OffUnread
  <1>13. CASE UNCHANGED vars
    BY <1>13 DEF vars, LogTypeOK, TypeInv, InHandRead, OffUnread, OfStream, Attached,
       containerVars, readerVars, loopVars, rowVars
  <1> QED BY <1>1, <1>2, <1>3, <1>4, <1>5, <1>6, <1>7, <1>8, <1>9, <1>10, <1>11, <1>12,
             <1>13 DEF Next, Loop, Thread

-----------------------------------------------------------------------------
(* The items of a stream are in the order of its pieces, its mark last.    *)
Before(a, b) == a.stream = b.stream => a.line # End /\ (b.line # End => a.line < b.line)

InHandOrdered ==
    /\ \A i, j \in DOMAIN queue : i < j => Before(queue[i], queue[j])
    /\ pc = "store" => \A i \in DOMAIN queue : Before(item, queue[i])

StampsAscend == \A i, j \in DOMAIN log : i <= j => log[i].at <= log[j].at

(* A row's stamp is not later than the latest timestamp stored. *)
RowsKnown ==
    \A k \in DOMAIN rows :
        /\ rows[k].run <= restarts /\ (pc = "down" => rows[k].run < restarts)
        /\ log[rows[k].line].stamped => log[rows[k].line].at <= last

(* A row is an earlier tailer's, stamped no later than this one started    *)
(* from, or precedes all that is in hand of its stream.                    *)
RowBefore(r) ==
    \/ r.run < restarts /\ (log[r.line].stamped /\ ~misled => log[r.line].at <= since)
    \/ /\ r.run = restarts /\ r.line <= pos[log[r.line].stream]
       /\ \A i \in DOMAIN queue :
             queue[i].stream = log[r.line].stream /\ queue[i].line # End =>
                r.line < queue[i].line
       /\ pc = "store" /\ item.stream = log[r.line].stream => r.line < item.line

RowsBefore == pc # "down" => \A k \in DOMAIN rows : RowBefore(rows[k])

OrderInv ==
    /\ BaseInv /\ StampsAscend /\ RowsKnown
    /\ InHandOrdered /\ RowsBefore /\ LinesOnceInOrder

LEMMA OrderInit == Init => OrderInv
  <1> SUFFICES ASSUME Init PROVE OrderInv
    OBVIOUS
  <1>1. BaseInv
    BY BaseInit
  <1> QED BY <1>1 DEF Init, Fresh, OrderInv, StampsAscend, RowsKnown, InHandOrdered,
             RowsBefore, LinesOnceInOrder

(* What the invariants say about types, in the form the steps use it.      *)
LEMMA OrderTypes ==
    ASSUME BaseInv
    PROVE  /\ log \in Seq(Pieces) /\ Len(log) \in Nat /\ DOMAIN log = 1..Len(log)
           /\ pos \in [Streams -> 0..Len(log)] /\ \A s \in Streams : pos[s] \in Nat
           /\ \A i \in DOMAIN log :
                 /\ log[i].stream \in Streams /\ log[i].at \in Nat \ {Never}
                 /\ log[i].stamped \in BOOLEAN
           /\ queue \in Seq(Items) /\ Len(queue) \in Nat /\ DOMAIN queue = 1..Len(queue)
           /\ \A i \in DOMAIN queue : queue[i] \in Items /\ OfStream(queue[i])
           /\ rows \in Seq(StoredRows) /\ Len(rows) \in Nat /\ DOMAIN rows = 1..Len(rows)
           /\ \A k \in DOMAIN rows : rows[k] \in StoredRows /\ rows[k].line \in DOMAIN log
           /\ pc = "store" => item \in Items /\ OfStream(item) /\ item.line # End
           /\ restarts \in Nat /\ last \in Nat /\ since \in Nat
  <1>1. log \in Seq(Pieces)
    BY DEF BaseInv, TypeInv, LogTypeOK, Pieces
  <1>2. /\ Len(log) \in Nat /\ DOMAIN log = 1..Len(log)
        /\ \A i \in DOMAIN log : log[i] \in Pieces
    BY <1>1
  <1>3. \A i \in DOMAIN log :
           /\ log[i].stream \in Streams /\ log[i].at \in Nat \ {Never}
           /\ log[i].stamped \in BOOLEAN
    BY <1>2 DEF Pieces
  <1>4. /\ pos \in [Streams -> 0..Len(log)] /\ last \in Nat /\ since \in Nat
        /\ \A k \in DOMAIN rows : rows[k].line \in DOMAIN log
    BY DEF BaseInv, TypeInv, LogTypeOK
  <1>5. \A s \in Streams : pos[s] \in Nat
    BY <1>2, <1>4
  <1>6. /\ queue \in Seq(Items) /\ rows \in Seq(StoredRows) /\ restarts \in Nat
        /\ \A i \in DOMAIN queue : OfStream(queue[i])
        /\ pc = "store" => item \in Items /\ OfStream(item) /\ item.line # End
    BY DEF BaseInv, TypeInv, InHandRead
  <1>7. /\ Len(queue) \in Nat /\ DOMAIN queue = 1..Len(queue)
        /\ \A i \in DOMAIN queue : queue[i] \in Items
        /\ Len(rows) \in Nat /\ DOMAIN rows = 1..Len(rows)
        /\ \A k \in DOMAIN rows : rows[k] \in StoredRows
    BY <1>6
  <1> QED BY <1>1, <1>2, <1>3, <1>4, <1>5, <1>6, <1>7

(* A step that stores nothing and adds nothing to the queue keeps the      *)
(* order, whatever is written meanwhile and wherever new threads begin.    *)
LEMMA NothingMoved ==
    ASSUME OrderInv, BaseInv', UNCHANGED <<queue, rows, last, misled, since, restarts>>,
           DOMAIN log \subseteq DOMAIN log', \A i \in DOMAIN log : log'[i] = log[i],
           StampsAscend', \A s \in Streams : pos[s] # 0 => pos'[s] = pos[s],
           pc' = "store" => pc = "store" /\ item' = item,
           pc' = "down" <=> pc = "down"
    PROVE  OrderInv'
  <1>0. /\ \A k \in DOMAIN rows : rows[k] \in StoredRows /\ rows[k].line \in DOMAIN log
        /\ \A i \in DOMAIN log : log[i].stream \in Streams
        /\ \A s \in Streams : pos[s] \in Nat
        /\ DOMAIN log = 1..Len(log)
    BY OrderTypes DEF OrderInv
  <1>1. \A k \in DOMAIN rows : log'[rows[k].line] = log[rows[k].line]
    BY <1>0
  <1>2. InHandOrdered'
    BY DEF OrderInv, InHandOrdered, Before
  <1>3. ASSUME NEW r \in StoredRows, r.line \in DOMAIN log, RowBefore(r)
        PROVE  RowBefore(r)'
    <2>1. /\ log'[r.line] = log[r.line] /\ log[r.line].stream \in Streams
          /\ r.line \in Nat /\ r.line # 0
      BY <1>0, <1>3 DEF StoredRows
    <2>2. r.line <= pos[log[r.line].stream] =>
             pos'[log[r.line].stream] = pos[log[r.line].stream]
      BY <1>0, <2>1
    <2> QED BY <1>3, <2>1, <2>2 DEF RowBefore
  <1>4. RowsBefore'
    <2>1. ASSUME pc # "down", NEW k \in DOMAIN rows PROVE RowBefore(rows[k])'
      <3>1. PICK r \in StoredRows : r = rows[k]
        BY <1>0
      <3>2. RowBefore(r) /\ r.line \in DOMAIN log
        BY <1>0, <2>1, <3>1 DEF OrderInv, RowsBefore
      <3>3. RowBefore(r)'
        BY <1>3, <3>2
      <3> QED BY <3>1, <3>3 DEF RowBefore
    <2> QED BY <2>1 DEF RowsBefore, RowBefore
  <1>5. RowsKnown'
    BY <1>1 DEF OrderInv, RowsKnown
  <1>6. LinesOnceInOrder'
    BY <1>1 DEF OrderInv, LinesOnceInOrder
  <1> QED BY <1>2, <1>4, <1>5, <1>6 DEF OrderInv

(* A thread puts an item behind those of its stream, and reads on.         *)
LEMMA ItemAdded ==
    ASSUME OrderInv, BaseInv', NEW it \in Items, queue' = Append(queue, it),
           UNCHANGED <<log, rows, last, misled, since, restarts, item, pc>>,
           \A x \in Items : OfStream(x) => Before(x, it),
           it.line # End => pos[it.stream] < it.line,
           \A s \in Streams : pos[s] <= pos'[s]
    PROVE  OrderInv'
  <1>t. BaseInv
    BY DEF OrderInv
  <1>1. /\ Len(queue) \in Nat /\ DOMAIN queue = 1..Len(queue)
        /\ DOMAIN queue' = 1..(Len(queue) + 1)
        /\ \A i \in 1..Len(queue) : queue'[i] = queue[i]
        /\ queue'[Len(queue) + 1] = it
    BY <1>t, OrderTypes
  <1>2. InHandOrdered'
    <2>1. ASSUME NEW i \in DOMAIN queue', NEW j \in DOMAIN queue', i < j
          PROVE  Before(queue'[i], queue'[j])
      <3>1. i \in 1..Len(queue)
        BY <1>1, <2>1
      <3>2. CASE j = Len(queue) + 1
        BY <1>t, <1>1, <3>1, <3>2, OrderTypes
      <3>3. CASE j # Len(queue) + 1
        BY <1>1, <2>1, <3>3 DEF OrderInv, InHandOrdered
      <3> QED BY <3>2, <3>3
    <2>2. ASSUME pc = "store", NEW i \in DOMAIN queue' PROVE Before(item, queue'[i])
      <3>1. item \in Items /\ OfStream(item)
        BY <1>t, <2>2, OrderTypes
      <3>2. CASE i = Len(queue) + 1
        BY <1>1, <3>1, <3>2
      <3>3. CASE i # Len(queue) + 1
        BY <1>1, <2>2, <3>3 DEF OrderInv, InHandOrdered
      <3> QED BY <3>2, <3>3
    <2> QED BY <2>1, <2>2 DEF InHandOrdered, Before
  <1>3. ASSUME NEW r \in StoredRows, r.line \in DOMAIN log, RowBefore(r)
        PROVE  RowBefore(r)'
    <2>1. /\ log[r.line].stream \in Streams /\ r.line \in Nat
          /\ pos[log[r.line].stream] \in Nat /\ pos'[log[r.line].stream] \in Nat
      <3>1. pos' \in [Streams -> 0..Len(log')] /\ log' = log
        BY DEF BaseInv, TypeInv, LogTypeOK
      <3>2. /\ log[r.line].stream \in Streams /\ Len(log) \in Nat
            /\ \A s \in Streams : pos[s] \in Nat
        BY <1>t, <1>3, OrderTypes
      <3> QED BY <3>1, <3>2 DEF StoredRows
    <2>2. CASE r.run < restarts
      <3>1. restarts \in Nat /\ r.run \in Nat
        BY <1>t, OrderTypes DEF StoredRows
      <3> QED BY <1>3, <2>2, <3>1 DEF RowBefore
    <2>3. CASE ~(r.run < restarts)
      <3>1. /\ r.run = restarts /\ r.line <= pos[log[r.line].stream]
            /\ \A i \in DOMAIN queue :
                  queue[i].stream = log[r.line].stream /\ queue[i].line # End =>
                     r.line < queue[i].line
            /\ pc = "store" /\ item.stream = log[r.line].stream => r.line < item.line
        BY <1>3, <2>3 DEF RowBefore
      <3>2. r.line <= pos'[log[r.line].stream]
        BY <2>1, <3>1
      <3>3. ASSUME NEW i \in DOMAIN queue', queue'[i].stream = log[r.line].stream,
                   queue'[i].line # End
            PROVE  r.line < queue'[i].line
        <4>1. CASE i = Len(queue) + 1
          <5>1. it.line \in Nat /\ pos[it.stream] < it.line /\ it.stream = log[r.line].stream
            BY <1>1, <3>3, <4>1 DEF Items
          <5> QED BY <1>1, <2>1, <3>1, <4>1, <5>1
        <4>2. CASE i # Len(queue) + 1
          BY <1>1, <3>1, <3>3, <4>2
        <4> QED BY <4>1, <4>2
      <3> QED BY <3>1, <3>2, <3>3 DEF RowBefore
    <2> QED BY <2>2, <2>3
  <1>4. RowsBefore'
    <2>1. ASSUME pc # "down", NEW k \in DOMAIN rows PROVE RowBefore(rows[k])'
      <3>1. PICK r \in StoredRows : r = rows[k]
        BY <1>t, OrderTypes
      <3>2. RowBefore(r) /\ r.line \in DOMAIN log
        BY <1>t, <2>1, <3>1, OrderTypes DEF OrderInv, RowsBefore
      <3>3. RowBefore(r)'
        BY <1>3, <3>2
      <3> QED BY <3>1, <3>3 DEF RowBefore
    <2> QED BY <2>1 DEF RowsBefore, RowBefore
  <1>5. StampsAscend' /\ RowsKnown' /\ LinesOnceInOrder'
    BY DEF OrderInv, StampsAscend, RowsKnown, LinesOnceInOrder
  <1> QED BY <1>2, <1>4, <1>5 DEF OrderInv

(* A row that passes the filter comes after all rows of its stream that    *)
(* are this tailer's or, if it has a stamp, have one.                      *)
LEMMA StoredLast ==
    ASSUME OrderInv, BaseInv', pc = "store", pc' = "check", NEW at \in Nat,
           at \in ParsedAs(log[item.line]), since = Never \/ ~(at <= since), Store(at),
           UNCHANGED <<log, pos, since, queue, restarts>>
    PROVE  OrderInv'
  <1> DEFINE row == [line |-> item.line, run |-> restarts]
  <1>t. BaseInv
    BY DEF OrderInv
  <1>1. /\ item \in Items /\ item.line \in 1..pos[item.stream]
        /\ log[item.line].stream = item.stream
    BY <1>t, OrderTypes DEF OfStream
  <1>2. /\ item.line \in Nat /\ item.line <= pos[item.stream] /\ since \in Nat
        /\ item.line \in DOMAIN log /\ last \in Nat /\ restarts \in Nat
    BY <1>t, <1>1, OrderTypes DEF Items
  <1>3. row \in StoredRows /\ row.line = item.line /\ row.run = restarts
    BY <1>2 DEF StoredRows
  <1>4. /\ rows' = Append(rows, row) /\ misled' = misled
        /\ last' \in Nat /\ last <= last' /\ at <= last'
    BY <1>2 DEF Store
  <1> HIDE DEF row
  <1>5. /\ Len(rows) \in Nat /\ DOMAIN rows = 1..Len(rows)
        /\ DOMAIN rows' = 1..(Len(rows) + 1)
        /\ \A k \in 1..Len(rows) : rows'[k] = rows[k]
        /\ rows'[Len(rows) + 1] = row
    BY <1>t, <1>3, <1>4, OrderTypes
  <1>6. log[item.line].stamped => log[item.line].at = at
    BY DEF ParsedAs
  <1>7. ASSUME NEW r \in StoredRows, r.line = item.line, r.run = restarts
        PROVE  RowBefore(r)'
    BY <1>1, <1>2, <1>7 DEF RowBefore, OrderInv, InHandOrdered, Before
  <1>8. ASSUME NEW r \in StoredRows, RowBefore(r) PROVE RowBefore(r)'
    BY <1>4, <1>8 DEF RowBefore
  <1>9. RowsBefore'
    <2>1. ASSUME NEW k \in DOMAIN rows' PROVE RowBefore(rows[k])'
      <3>1. PICK r \in StoredRows : r = rows'[k]
        <4>1. \A j \in 1..Len(rows) : rows[j] \in StoredRows
          BY <1>t, <1>5, OrderTypes
        <4>2. k = Len(rows) + 1 \/ k \in 1..Len(rows)
          BY <1>5
        <4> QED BY <1>3, <1>5, <4>1, <4>2
      <3>2. r = row \/ RowBefore(r)
        BY <1>5, <3>1 DEF OrderInv, RowsBefore
      <3>3. RowBefore(r)'
        BY <1>3, <1>7, <1>8, <3>2
      <3> QED BY <3>1, <3>3 DEF RowBefore
    <2> QED BY <2>1 DEF RowsBefore, RowBefore
  <1>10. RowsKnown'
    <2>1. ASSUME NEW k \in DOMAIN rows'
          PROVE  /\ rows'[k].run <= restarts
                 /\ log[rows'[k].line].stamped => log[rows'[k].line].at <= last'
      <3>1. CASE k = Len(rows) + 1
        BY <1>2, <1>3, <1>4, <1>5, <1>6, <3>1
      <3>2. CASE k # Len(rows) + 1
        <4>1. k \in DOMAIN rows /\ rows'[k] = rows[k] /\ log[rows[k].line].at \in Nat
          BY <1>t, <1>5, <3>2, OrderTypes
        <4> QED BY <1>2, <1>4, <4>1 DEF OrderInv, RowsKnown
      <3> QED BY <3>1, <3>2
    <2> QED BY <2>1 DEF RowsKnown
  <1>11. ASSUME NEW k \in 1..Len(rows), log[rows[k].line].stream = item.stream,
                \/ rows[k].run = restarts
                \/ log[rows[k].line].stamped /\ log[item.line].stamped /\ ~misled
         PROVE  rows[k].line < item.line
    <2>1. /\ RowBefore(rows[k]) /\ rows[k].line \in Nat /\ rows[k].line \in DOMAIN log
          /\ rows[k].run \in Nat
      BY <1>t, <1>5, OrderTypes DEF OrderInv, RowsBefore, StoredRows
    <2>2. CASE rows[k].run = restarts
      BY <1>2, <1>11, <2>1, <2>2 DEF RowBefore
    <2>3. CASE rows[k].run # restarts
      <3>1. log[rows[k].line].at <= since /\ log[item.line].at = at
        BY <1>6, <1>11, <2>1, <2>3 DEF RowBefore
      <3>2. log[rows[k].line].at \in Nat \ {Never}
        BY <1>t, <2>1, OrderTypes
      <3>3. log[rows[k].line].at < log[item.line].at
        BY <1>2, <3>1, <3>2 DEF Never
      <3>4. ~(item.line <= rows[k].line)
        <4>1. item.line <= rows[k].line => log[item.line].at <= log[rows[k].line].at
          BY <1>2, <2>1 DEF OrderInv, StampsAscend
        <4> QED BY <3>1, <3>2, <3>3, <4>1
      <3> QED BY <1>2, <2>1, <3>4
    <2> QED BY <2>2, <2>3
  <1>12. LinesOnceInOrder'
    <2>1. ASSUME NEW i \in DOMAIN rows', NEW j \in DOMAIN rows', i < j,
                 log[rows'[i].line].stream = log[rows'[j].line].stream,
                 \/ rows'[i].run = rows'[j].run
                 \/ log[rows'[i].line].stamped /\ log[rows'[j].line].stamped /\ ~misled
          PROVE  rows'[i].line < rows'[j].line
      <3>1. i \in 1..Len(rows) /\ rows'[i] = rows[i]
        BY <1>5, <2>1
      <3>2. CASE j = Len(rows) + 1
        BY <1>1, <1>3, <1>5, <1>11, <2>1, <3>1, <3>2
      <3>3. CASE j # Len(rows) + 1
        <4>1. j \in 1..Len(rows) /\ rows'[j] = rows[j]
          BY <1>5, <3>3
        <4> QED BY <1>5, <2>1, <3>1, <4>1 DEF OrderInv, LinesOnceInOrder
      <3> QED BY <3>2, <3>3
    <2> QED BY <1>4, <2>1 DEF LinesOnceInOrder
  <1>13. InHandOrdered' /\ StampsAscend'
    BY DEF OrderInv, InHandOrdered, StampsAscend
  <1> QED BY <1>9, <1>10, <1>12, <1>13 DEF OrderInv

LEMMA OrderNext == OrderInv /\ [Next]_vars => OrderInv'
  <1> SUFFICES ASSUME OrderInv, [Next]_vars PROVE OrderInv'
    OBVIOUS
  <1>0. BaseInv /\ BaseInv'
    BY BaseNext DEF OrderInv
  <1>s. StampsAscend
    BY DEF OrderInv
  <1>1. ASSUME NEW s \in Streams, WriteLine(s) PROVE OrderInv'
    <2>1. PICK piece \in Pieces : log' = Append(log, piece) /\ piece.at \in Stamps
      <3>1. Stamps \subseteq Nat \ {Never}
        <4>1. log # <<>> => log[Len(log)].at \in Nat \ {Never}
          BY <1>0, OrderTypes
        <4> QED BY <4>1 DEF Stamps, Never
      <3> QED BY <1>1, <3>1 DEF WriteLine, Pieces
    <2>2. /\ Len(log) \in Nat /\ DOMAIN log = 1..Len(log)
          /\ DOMAIN log' = 1..(Len(log) + 1)
          /\ \A i \in 1..Len(log) : log'[i] = log[i]
          /\ log'[Len(log) + 1] = piece
      BY <1>0, <2>1, OrderTypes
    <2>3. /\ \A i \in 1..Len(log) : log[i].at \in Nat /\ log[i].at <= piece.at
          /\ piece.at \in Nat
      <3>1. piece.at \in Nat /\ \A i \in 1..Len(log) : log[i].at \in Nat
        BY <1>0, <2>2, OrderTypes DEF Pieces
      <3>2. ASSUME NEW i \in 1..Len(log) PROVE log[i].at <= piece.at
        <4>1. Len(log) \in 1..Len(log) /\ i <= Len(log) /\ log # <<>>
          BY <2>2, <3>2
        <4>2. log[i].at <= log[Len(log)].at
          BY <1>s, <2>2, <4>1 DEF StampsAscend
        <4>3. piece.at \in {log[Len(log)].at, log[Len(log)].at + 1}
          BY <2>1, <4>1 DEF Stamps
        <4> QED BY <3>1, <4>1, <4>2, <4>3
      <3> QED BY <3>1, <3>2
    <2>4. StampsAscend'
      <3>1. ASSUME NEW i \in DOMAIN log', NEW j \in DOMAIN log', i <= j
            PROVE  log'[i].at <= log'[j].at
        <4>1. CASE j = Len(log) + 1
          BY <2>2, <2>3, <4>1
        <4>2. CASE j # Len(log) + 1
          BY <1>s, <2>2, <3>1, <4>2 DEF StampsAscend
        <4> QED BY <4>1, <4>2
      <3> QED BY <3>1 DEF StampsAscend
    <2>5. DOMAIN log \subseteq DOMAIN log' /\ \A i \in DOMAIN log : log'[i] = log[i]
      BY <2>2
    <2>6. UNCHANGED <<queue, rows, last, misled, since, restarts, pos, pc, item>>
      BY <1>1 DEF WriteLine, readerVars, loopVars, rowVars
    <2> QED BY <1>0, <2>4, <2>5, <2>6, NothingMoved
  <1>2. CASE WorkerExits \/ DeleteWorker \/ DeleteSidecar
    <2>1. UNCHANGED <<queue, item, rows, last, misled, since, restarts, pos, log, pc>>
      BY <1>2 DEF WorkerExits, DeleteWorker, DeleteSidecar, readerVars, loopVars, rowVars
    <2>2. StampsAscend'
      BY <1>s, <2>1 DEF StampsAscend
    <2> QED BY <1>0, <2>1, <2>2, NothingMoved
  <1>3. ASSUME NEW s \in Streams, ReadLine(s) PROVE OrderInv'
    <2> DEFINE next == Min(Unread(s))
               it == [stream |-> s, line |-> next]
    <2>1. next \in Unread(s)
      <3>1. Unread(s) \in SUBSET Nat
        BY <1>0, OrderTypes DEF Unread
      <3> QED BY <1>3, <3>1, MinProperty DEF ReadLine
    <2>2. next \in Nat \ {End} /\ pos[s] \in Nat /\ pos[s] < next
      <3>1. pos[s] \in Nat /\ Len(log) \in Nat
        BY <1>0, OrderTypes
      <3> HIDE DEF next
      <3> QED BY <2>1, <3>1 DEF Unread, End
    <2>3. /\ pos' = [pos EXCEPT ![s] = next] /\ queue' = Append(queue, it)
          /\ reader[s] = "on"
          /\ UNCHANGED <<log, rows, last, misled, since, restarts, item, pc>>
      BY <1>3 DEF ReadLine, containerVars, loopVars, rowVars
    <2> HIDE DEF next
    <2>4. \A u \in Streams : pos[u] <= pos'[u]
      BY <1>0, <2>2, <2>3, OrderTypes
    <2>5. \A x \in Items : OfStream(x) => Before(x, it)
      BY <2>2, <2>3 DEF OfStream, Before, Items
    <2>6. it \in Items /\ (it.line # End => pos[it.stream] < it.line)
      BY <2>2 DEF Items
    <2> HIDE DEF it
    <2> QED BY <1>0, <2>3, <2>4, <2>5, <2>6, ItemAdded
  <1>4. ASSUME NEW s \in Streams, StreamDone(s) \/ StreamBreaks(s) PROVE OrderInv'
    <2> DEFINE it == [stream |-> s, line |-> End]
    <2>1. /\ it \in Items /\ queue' = Append(queue, it) /\ reader[s] = "on"
          /\ UNCHANGED <<log, item, since, pc, rows, last, misled, restarts, pos>>
      BY <1>4 DEF StreamDone, StreamBreaks, Items, End, containerVars, loopVars, rowVars
    <2>2. \A x \in Items : OfStream(x) => Before(x, it)
      BY <2>1 DEF OfStream, Before, Items
    <2>3. \A u \in Streams : pos[u] <= pos'[u]
      BY <1>0, <2>1, OrderTypes
    <2>4. it.line = End
      OBVIOUS
    <2> HIDE DEF it
    <2> QED BY <1>0, <2>1, <2>2, <2>3, <2>4, ItemAdded
  <1>5. CASE Attach \/ Check \/ TailFails
    <2>1. /\ UNCHANGED <<log, queue, rows, last, misled, since, restarts>> /\ pc # "down"
          /\ pc' \in {"get", "ended", "attach", "failed"}
      BY <1>5 DEF Attach, Check, TailFails, containerVars, readerVars, rowVars
    <2>2. \A s \in Streams : pos[s] # 0 => pos'[s] = pos[s]
      <3>1. ASSUME NEW s \in Streams, Attach, pos[s] # 0 PROVE pos'[s] = pos[s]
        <4>1. reader[s] # "off"
          BY <1>0, <3>1 DEF BaseInv, OffUnread
        <4> QED BY <3>1, <4>1 DEF Attach
      <3> QED BY <1>5, <3>1 DEF Check, TailFails, readerVars
    <2>3. StampsAscend'
      BY <1>s, <2>1 DEF StampsAscend
    <2> QED BY <1>0, <2>1, <2>2, <2>3, NothingMoved
  <1>6. CASE GetItem
    <2>1. /\ UNCHANGED <<log, pos, since, rows, last, misled, restarts>> /\ pc = "get"
          /\ pc' \in {"check", "store"}
      BY <1>6 DEF GetItem, containerVars, readerVars, rowVars
    <2>2. StampsAscend' /\ RowsKnown' /\ LinesOnceInOrder'
      BY <2>1 DEF OrderInv, StampsAscend, RowsKnown, LinesOnceInOrder
    <2>3. CASE queue = <<>>
      <3>1. queue' = queue /\ pc' = "check"
        BY <1>6, <2>3 DEF GetItem
      <3> QED BY <1>0, <2>1, <2>2, <3>1, NothingMoved
    <2>4. CASE queue # <<>>
      <3>1. /\ Len(queue) \in Nat /\ DOMAIN queue = 1..Len(queue)
            /\ DOMAIN queue' = 1..(Len(queue) - 1)
            /\ \A i \in DOMAIN queue' : queue'[i] = queue[i + 1]
            /\ 1 \in DOMAIN queue /\ Head(queue) = queue[1]
        BY <1>0, <1>6, <2>4, OrderTypes, HeadTailProperties DEF GetItem
      <3>2. pc' = "store" => item' = queue[1] /\ item'.line # End
        BY <1>6, <2>4, <3>1 DEF GetItem
      <3>3. InHandOrdered'
        BY <3>1, <3>2, SMTT(60) DEF OrderInv, InHandOrdered, Before
      <3>4. RowsBefore'
        <4>1. ASSUME NEW r \in StoredRows, RowBefore(r) PROVE RowBefore(r)'
          BY <2>1, <3>1, <3>2, <4>1 DEF RowBefore
        <4>2. ASSUME NEW k \in DOMAIN rows PROVE RowBefore(rows[k])'
          <5>1. PICK r \in StoredRows : r = rows[k]
            BY <1>0, OrderTypes
          <5>2. RowBefore(r)
            BY <2>1, <5>1 DEF OrderInv, RowsBefore
          <5>3. RowBefore(r)'
            BY <4>1, <5>2
          <5> QED BY <2>1, <5>1, <5>3 DEF RowBefore
        <4> QED BY <2>1, <4>2 DEF RowsBefore, RowBefore
      <3> QED BY <1>0, <2>2, <3>3, <3>4 DEF OrderInv
    <2> QED BY <2>3, <2>4
  <1>7. CASE StoreLine
    <2>1. /\ UNCHANGED <<log, pos, since, queue, restarts>> /\ pc = "store" /\ pc' = "check"
      BY <1>7 DEF StoreLine, containerVars, readerVars
    <2>2. PICK at \in ParsedAs(log[item.line]) :
             \/ UNCHANGED <<rows, last, misled>>
             \/ Store(at) /\ (since = Never \/ ~(at <= since))
      BY <1>7 DEF StoreLine, rowVars
    <2>3. at \in Nat
      <3>1. log[item.line].at \in Nat /\ log[item.line].stamped \in BOOLEAN
        BY <1>0, <2>1, OrderTypes DEF OfStream, Items
      <3> QED BY <3>1, LogAssumption DEF ParsedAs, Times
    <2>4. CASE UNCHANGED <<rows, last, misled>>
      <3>1. StampsAscend'
        BY <1>s, <2>1 DEF StampsAscend
      <3> QED BY <1>0, <2>1, <2>4, <3>1, NothingMoved
    <2>5. CASE Store(at) /\ (since = Never \/ ~(at <= since))
      BY <1>0, <2>1, <2>2, <2>3, <2>5, StoredLast
    <2> QED BY <2>2, <2>4, <2>5
  <1>8. CASE Crash
    <2>1. /\ UNCHANGED <<log, rows, last, misled>> /\ pc' = "down" /\ queue' = <<>>
          /\ restarts' = restarts + 1
      BY <1>8 DEF Crash, containerVars, rowVars
    <2>2. InHandOrdered' /\ StampsAscend' /\ RowsBefore' /\ LinesOnceInOrder'
      BY <2>1 DEF OrderInv, InHandOrdered, StampsAscend, RowsBefore, LinesOnceInOrder
    <2>3. RowsKnown'
      <3>1. \A k \in DOMAIN rows : rows[k].run \in Nat /\ restarts \in Nat
        BY <1>0, OrderTypes DEF StoredRows
      <3> QED BY <2>1, <3>1 DEF OrderInv, RowsKnown
    <2> QED BY <1>0, <2>2, <2>3 DEF OrderInv
  <1>9. CASE Recover
    <2>1. /\ UNCHANGED <<log, rows, last, queue, item, restarts, pos>> /\ pc = "down"
          /\ pc' = "attach" /\ (~misled' => ~misled /\ since' = last)
      BY <1>9 DEF Recover, containerVars, readerVars
    <2>2. InHandOrdered' /\ StampsAscend' /\ LinesOnceInOrder'
      BY <2>1 DEF OrderInv, InHandOrdered, StampsAscend, LinesOnceInOrder
    <2>3. RowsBefore' /\ RowsKnown'
      BY <2>1 DEF OrderInv, RowsKnown, RowsBefore, RowBefore
    <2> QED BY <1>0, <2>2, <2>3 DEF OrderInv
  <1>10. CASE UNCHANGED vars
    <2>1. UNCHANGED <<queue, item, rows, last, misled, since, restarts, pos, log, pc>>
      BY <1>10 DEF vars, containerVars, readerVars, loopVars, rowVars
    <2>2. StampsAscend'
      BY <1>s, <2>1 DEF StampsAscend
    <2> QED BY <1>0, <2>1, <2>2, NothingMoved
  <1> QED BY <1>1, <1>2, <1>3, <1>4, <1>5, <1>6, <1>7, <1>8, <1>9, <1>10
          DEF Next, Loop, Thread

(* The variables keep their types: what a thread has read was written,     *)
(* what is stored was written, a tailer starts from no later timestamp     *)
(* than is stored, and a stream counts as done only if a thread has        *)
(* followed it.                                                            *)
THEOREM LogTypeCorrect == Spec => []LogTypeOK
  <1>1. BaseInv => LogTypeOK
    BY DEF BaseInv, TypeInv
  <1> QED BY <1>1, BaseInit, BaseNext, PTL DEF Spec

(* For every number of streams, pieces and restarts: recover() may start   *)
(* from a second that is half stored, docker may repeat its lines, pieces  *)
(* without a stamp may be stored under any time, and still no piece is     *)
(* stored twice by one tailer, none with a stamp by two unless dates of    *)
(* several zones were compared, and none before an earlier one of its      *)
(* stream (_parse_docker_ts, _tail_task, get_last_log_timestamp).          *)
THEOREM LinesStoredOnce == Spec => []LinesOnceInOrder
  <1>1. OrderInv => LinesOnceInOrder
    BY DEF OrderInv
  <1> QED BY <1>1, OrderInit, OrderNext, PTL DEF Spec

-----------------------------------------------------------------------------
(* The end of the worker's streams.                                        *)

(* Nothing of a stream follows its mark, which the loop has taken when it  *)
(* counts the stream as done.                                              *)
MarksTaken ==
    /\ \A s \in done :
         /\ reader[s] = "done" /\ (pc = "store" => item.stream # s)
         /\ \A i \in DOMAIN queue : queue[i].stream # s

WorkerSeen ==
    /\ sawWorker => \A s \in WorkerStreams : reader[s] # "off"
    /\ deadline => sawWorker /\ worker # "running" /\ WorkerStreams \subseteq done
    /\ restarts = 0 /\ worker = "gone" /\ ~cut =>
         \A s \in WorkerStreams : reader[s] = "done"
    /\ worker = "gone" /\ ~cut => \A s \in WorkerStreams : reader[s] # "on"

DoneRead ==
    \A s \in WorkerStreams :
        reader[s] = "done" /\ ~cut =>
            /\ worker # "running"
            /\ \A i \in DOMAIN log : log[i].stream = s => i <= pos[s]

(* Without a restart no line that was read is dropped on its way.          *)
OnItsWay(i) ==
    \/ \E k \in DOMAIN rows : rows[k].line = i
    \/ \E k \in DOMAIN queue : queue[k] = [stream |-> log[i].stream, line |-> i]
    \/ pc = "store" /\ item = [stream |-> log[i].stream, line |-> i]

NoneDropped ==
    restarts = 0 /\ pc # "failed" =>
        \A i \in DOMAIN log : i <= pos[log[i].stream] => OnItsWay(i)

EndedDone ==
    pc = "ended" =>
        /\ worker # "running"
        /\ restarts = 0 /\ ~cut => WorkerStreams \subseteq done

KeptInv == OrderInv /\ MarksTaken /\ WorkerSeen /\ DoneRead /\ NoneDropped /\ EndedDone

LEMMA KeptInit == Init => KeptInv
  <1> SUFFICES ASSUME Init PROVE KeptInv
    OBVIOUS
  <1>1. OrderInv
    BY OrderInit
  <1>2. MarksTaken /\ WorkerSeen /\ DoneRead /\ EndedDone
    BY DEF Init, Fresh, MarksTaken, WorkerSeen, DoneRead, EndedDone, Streams
  <1>3. NoneDropped
    BY DEF Init, NoneDropped
  <1> QED BY <1>1, <1>2, <1>3 DEF KeptInv

(* What the invariants say about types, in the form the steps use it.      *)
LEMMA KeptTypes ==
    ASSUME KeptInv
    PROVE  /\ WorkerStreams \subseteq Streams
           /\ log \in Seq(Pieces) /\ Len(log) \in Nat /\ DOMAIN log = 1..Len(log)
           /\ \A i \in DOMAIN log : log[i].stream \in Streams
           /\ reader \in [Streams -> {"off", "on", "done"}]
           /\ pos \in [Streams -> 0..Len(log)] /\ \A s \in Streams : pos[s] \in Nat
           /\ queue \in Seq(Items) /\ Len(queue) \in Nat /\ DOMAIN queue = 1..Len(queue)
           /\ rows \in Seq(StoredRows) /\ Len(rows) \in Nat /\ DOMAIN rows = 1..Len(rows)
           /\ done \subseteq Streams /\ restarts \in Nat
           /\ worker \in {"running", "exited", "gone"}
           /\ \A i \in DOMAIN queue : queue[i] \in Items /\ OfStream(queue[i])
           /\ restarts = 0 => since = Never /\ pc # "down"
  <1>1. log \in Seq(Pieces)
    BY DEF KeptInv, OrderInv, BaseInv, TypeInv, LogTypeOK, Pieces
  <1>2. Len(log) \in Nat /\ DOMAIN log = 1..Len(log) /\ \A i \in DOMAIN log : log[i] \in Pieces
    BY <1>1
  <1>3. \A i \in DOMAIN log : log[i].stream \in Streams
    BY <1>2 DEF Pieces
  <1> QED BY <1>1, <1>2, <1>3
          DEF KeptInv, OrderInv, BaseInv, TypeInv, InHandRead, LogTypeOK, Streams, Attached

LEMMA KeptNext == KeptInv /\ [Next]_vars => KeptInv'
  <1> SUFFICES ASSUME KeptInv, [Next]_vars PROVE KeptInv'
    OBVIOUS
  <1>0. OrderInv'
    BY OrderNext DEF KeptInv
  <1> USE DEF KeptInv
  <1>1. ASSUME NEW s \in Streams, WriteLine(s) PROVE KeptInv'
    <2>1. /\ \A i \in DOMAIN log : log'[i] = log[i]
          /\ DOMAIN log' = 1..(Len(log) + 1) /\ log'[Len(log) + 1].stream = s
      <3>1. PICK at \in Stamps, stamped \in BOOLEAN :
              log' = Append(log, [stream |-> s, at |-> at, stamped |-> stamped])
        BY <1>1 DEF WriteLine
      <3> DEFINE piece == [stream |-> s, at |-> at, stamped |-> stamped]
      <3>2. piece.stream = s
        OBVIOUS
      <3> HIDE DEF piece
      <3> QED BY <3>1, <3>2, KeptTypes DEF piece
    <2>2. /\ UNCHANGED <<reader, pos, queue, done, item, rows, restarts, cut>>
          /\ UNCHANGED <<worker, pc, sawWorker, deadline>>
      BY <1>1 DEF WriteLine, readerVars, loopVars, rowVars
    <2>3. MarksTaken' /\ WorkerSeen' /\ EndedDone'
      BY <2>2 DEF MarksTaken, WorkerSeen, EndedDone
    <2>4. DoneRead'
      <3>1. s \in WorkerStreams => worker = "running"
        BY <1>1 DEF WriteLine, Of
      <3>2. ASSUME NEW u \in WorkerStreams, reader[u] = "done", ~cut
            PROVE  /\ worker # "running"
                   /\ \A i \in DOMAIN log' : log'[i].stream = u => i <= pos[u]
        <4>1. worker # "running" /\ u # s
          BY <3>1, <3>2 DEF DoneRead
        <4>2. ASSUME NEW i \in DOMAIN log', log'[i].stream = u PROVE i <= pos[u]
          <5>1. i \in DOMAIN log /\ log[i].stream = u
            BY <2>1, <4>1, <4>2, KeptTypes
          <5> QED BY <3>2, <5>1 DEF DoneRead
        <4> QED BY <4>1, <4>2
      <3> QED BY <2>2, <3>2 DEF DoneRead
    <2>5. NoneDropped'
      <3>1. ASSUME restarts = 0, pc # "failed", NEW i \in DOMAIN log', i <= pos[log'[i].stream]
            PROVE  OnItsWay(i)'
        <4>1. i \in DOMAIN log /\ log'[i] = log[i]
          BY <1>1, <2>1, <3>1, KeptTypes
        <4> QED BY <2>2, <3>1, <4>1 DEF NoneDropped, OnItsWay
      <3> QED BY <2>2, <3>1 DEF NoneDropped, OnItsWay
    <2> QED BY <1>0, <2>3, <2>4, <2>5
  <1>2. CASE WorkerExits
    BY <1>0, <1>2 DEF WorkerExits, readerVars, rowVars, loopVars, MarksTaken,
       WorkerSeen, DoneRead,
       NoneDropped, OnItsWay, EndedDone
  <1>3. CASE DeleteWorker
    BY <1>0, <1>3 DEF DeleteWorker, readerVars, rowVars, loopVars, MarksTaken,
       WorkerSeen, DoneRead,
       NoneDropped, OnItsWay, EndedDone
  <1>4. CASE DeleteSidecar
    BY <1>0, <1>4 DEF DeleteSidecar, readerVars, rowVars, loopVars, MarksTaken,
       WorkerSeen, DoneRead,
       NoneDropped, OnItsWay, EndedDone
  <1>5. ASSUME NEW s \in Streams, ReadLine(s) PROVE KeptInv'
    <2> DEFINE next == Min(Unread(s))
               it == [stream |-> s, line |-> next]
    <2>1. Unread(s) \in SUBSET Nat /\ Unread(s) # {}
      BY <1>5, KeptTypes DEF Unread, ReadLine
    <2>2. next \in Unread(s) /\ \A i \in Unread(s) : next <= i
      BY <2>1, MinProperty
    <2>3. next \in Nat /\ next \in DOMAIN log /\ pos[s] < next /\ log[next].stream = s
      <3>1. pos[s] \in Nat /\ Len(log) \in Nat /\ DOMAIN log = 1..Len(log)
        BY KeptTypes
      <3> HIDE DEF next
      <3> QED BY <2>2, <3>1 DEF Unread
    <2>4. /\ pos' = [pos EXCEPT ![s] = next]
          /\ queue' = Append(queue, it)
          /\ reader[s] = "on"
          /\ UNCHANGED <<log, worker, cut, reader, done, sawWorker, deadline, item, pc,
                         rows, restarts, since>>
      BY <1>5 DEF ReadLine, containerVars, loopVars, rowVars
    <2>5. ASSUME NEW i \in DOMAIN log, log[i].stream = s, i <= next PROVE i <= pos[s] \/ i = next
      <3>1. pos[s] \in Nat /\ Len(log) \in Nat /\ DOMAIN log = 1..Len(log)
        BY KeptTypes
      <3>2. i \in Unread(s) \/ i <= pos[s]
        BY <2>5, <3>1 DEF Unread
      <3> HIDE DEF next
      <3> QED BY <2>2, <2>3, <2>5, <3>1, <3>2
    <2> HIDE DEF next
    <2>6. it \in Items
      BY <2>3 DEF Items
    <2>7. MarksTaken'
      <3>1. s \notin done
        BY <2>4 DEF MarksTaken
      <3>2. \A i \in DOMAIN queue' :
              queue'[i].stream = s \/ (i \in DOMAIN queue /\ queue'[i] = queue[i])
        BY <2>4, <2>6, KeptTypes
      <3> QED BY <2>4, <3>1, <3>2 DEF MarksTaken
    <2>8. WorkerSeen' /\ EndedDone'
      BY <2>4 DEF WorkerSeen, EndedDone
    <2>9. DoneRead'
      BY <2>4, KeptTypes DEF DoneRead
    <2>10. NoneDropped'
      <3>1. ASSUME restarts = 0, pc # "failed", NEW i \in DOMAIN log,
                     i <= pos'[log[i].stream]
            PROVE  OnItsWay(i)'
        <4>2. /\ DOMAIN queue' = 1..(Len(queue) + 1)
              /\ \A k \in DOMAIN queue : queue'[k] = queue[k]
              /\ queue'[Len(queue) + 1] = it
          BY <2>4, <2>6, KeptTypes
        <4>3. i <= pos[log[i].stream] \/ i = next
          BY <2>3, <2>4, <2>5, <3>1, KeptTypes
        <4>4. CASE i <= pos[log[i].stream]
          <5>1. OnItsWay(i)
            BY <3>1, <4>4 DEF NoneDropped
          <5> QED BY <2>4, <4>2, <5>1, KeptTypes DEF OnItsWay
        <4>5. CASE i = next
          <5>1. Len(queue) + 1 \in DOMAIN queue' /\ log'[i].stream = s
            BY <2>3, <2>4, <4>2, <4>5, KeptTypes
          <5>2. queue'[Len(queue) + 1] = [stream |-> log'[i].stream, line |-> i]
            BY <4>2, <4>5, <5>1
          <5> QED BY <5>1, <5>2 DEF OnItsWay
        <4> QED BY <4>3, <4>4, <4>5
      <3> QED BY <2>4, <3>1 DEF NoneDropped, OnItsWay
    <2> QED BY <1>0, <2>7, <2>8, <2>9, <2>10
  <1>6. ASSUME NEW s \in Streams, StreamDone(s) PROVE KeptInv'
    <2> DEFINE it == [stream |-> s, line |-> End]
    <2>1. /\ it \in Items /\ queue' = Append(queue, it) /\ reader[s] = "on"
          /\ reader' = [reader EXCEPT ![s] = "done"]
          /\ Of(s) = "gone" \/ (Of(s) = "exited" /\ Unread(s) = {})
          /\ UNCHANGED <<log, worker, cut, pos, done, sawWorker, deadline, item, pc,
                         rows, restarts, since>>
      BY <1>6 DEF StreamDone, containerVars, loopVars, rowVars, Items, End
    <2>2. /\ DOMAIN queue' = 1..(Len(queue) + 1)
          /\ \A k \in DOMAIN queue : queue'[k] = queue[k]
          /\ queue'[Len(queue) + 1] = it
      BY <2>1, KeptTypes
    <2>3. MarksTaken'
      <3>1. s \notin done
        BY <2>1 DEF MarksTaken
      <3>2. \A i \in DOMAIN queue' :
              queue'[i].stream = s \/ (i \in DOMAIN queue /\ queue'[i] = queue[i])
        BY <2>2, KeptTypes
      <3> QED BY <2>1, <3>1, <3>2, KeptTypes DEF MarksTaken
    <2>4. WorkerSeen'
      BY <2>1, KeptTypes DEF WorkerSeen
    <2>5. EndedDone'
      BY <2>1 DEF EndedDone
    <2>6. DoneRead'
      <3>1. ASSUME s \in WorkerStreams, ~cut
            PROVE  /\ worker # "running"
                   /\ \A i \in DOMAIN log : log[i].stream = s => i <= pos[s]
        <4>1. Of(s) = worker
          BY <3>1 DEF Of
        <4>2. worker = "gone" => cut
          BY <2>1, <3>1 DEF WorkerSeen
        <4>3. ASSUME Unread(s) = {}, NEW i \in DOMAIN log, log[i].stream = s PROVE i <= pos[s]
          BY <4>3, KeptTypes DEF Unread
        <4> QED BY <2>1, <3>1, <4>1, <4>2, <4>3
      <3>2. ASSUME NEW u \in WorkerStreams, reader'[u] = "done", ~cut
            PROVE  /\ worker # "running"
                   /\ \A i \in DOMAIN log : log[i].stream = u => i <= pos[u]
        BY <2>1, <3>1, <3>2, KeptTypes DEF DoneRead
      <3> QED BY <2>1, <3>2 DEF DoneRead
    <2>7. NoneDropped'
      <3>1. ASSUME restarts = 0, pc # "failed", NEW i \in DOMAIN log, i <= pos[log[i].stream]
            PROVE  OnItsWay(i)'
        <4>1. OnItsWay(i)
          BY <2>1, <3>1 DEF NoneDropped
        <4>2. \A k \in DOMAIN queue : k \in DOMAIN queue'
          BY <2>2, KeptTypes
        <4> QED BY <2>1, <2>2, <4>1, <4>2 DEF OnItsWay
      <3> QED BY <2>1, <3>1 DEF NoneDropped, OnItsWay
    <2> QED BY <1>0, <2>3, <2>4, <2>5, <2>6, <2>7
  <1>14. ASSUME NEW s \in Streams, StreamBreaks(s) PROVE KeptInv'
    <2> DEFINE it == [stream |-> s, line |-> End]
    <2>1. /\ it \in Items /\ queue' = Append(queue, it) /\ reader[s] = "on"
          /\ reader' = [reader EXCEPT ![s] = "done"]
          /\ cut' = (cut \/ s \in WorkerStreams)
          /\ UNCHANGED <<log, worker, pos, done, sawWorker, deadline, item, pc,
                         rows, restarts, since>>
      BY <1>14 DEF StreamBreaks, loopVars, rowVars, Items, End
    <2>2. /\ DOMAIN queue' = 1..(Len(queue) + 1)
          /\ \A k \in DOMAIN queue : queue'[k] = queue[k]
          /\ queue'[Len(queue) + 1] = it
      BY <2>1, KeptTypes
    <2>3. MarksTaken'
      <3>1. s \notin done
        BY <2>1 DEF MarksTaken
      <3>2. \A i \in DOMAIN queue' :
              queue'[i].stream = s \/ (i \in DOMAIN queue /\ queue'[i] = queue[i])
        BY <2>2, KeptTypes
      <3> QED BY <2>1, <3>1, <3>2, KeptTypes DEF MarksTaken
    <2>4. WorkerSeen'
      BY <2>1, KeptTypes DEF WorkerSeen
    <2>5. DoneRead' /\ EndedDone'
      BY <2>1, KeptTypes DEF DoneRead, EndedDone
    <2>6. NoneDropped'
      <3>1. ASSUME restarts = 0, pc # "failed", NEW i \in DOMAIN log,
                   i <= pos[log[i].stream]
            PROVE  OnItsWay(i)'
        <4>1. OnItsWay(i)
          BY <2>1, <3>1 DEF NoneDropped
        <4>2. \A k \in DOMAIN queue : k \in DOMAIN queue'
          BY <2>2, KeptTypes
        <4> QED BY <2>1, <2>2, <4>1, <4>2 DEF OnItsWay
      <3> QED BY <2>1, <3>1 DEF NoneDropped, OnItsWay
    <2> QED BY <1>0, <2>3, <2>4, <2>5, <2>6
  <1>7. CASE Attach
    <2>1. /\ pc = "attach" /\ pc' = "get" /\ sawWorker' = (sawWorker \/ worker # "gone")
          /\ reader' = [s \in Streams |->
                 IF reader[s] = "off" /\ Of(s) # "gone" THEN "on" ELSE reader[s]]
          /\ UNCHANGED <<log, worker, cut, queue, done, deadline, item, rows, restarts>>
      BY <1>7 DEF Attach, containerVars, rowVars
    <2>8. \A s \in Streams : reader[s] # "off" \/ restarts = 0 => pos'[s] = pos[s]
      <3>1. ASSUME NEW s \in Streams, reader[s] # "off" PROVE pos'[s] = pos[s]
        BY <1>7, <3>1 DEF Attach
      <3>2. ASSUME NEW s \in Streams, reader[s] = "off", restarts = 0
            PROVE  pos'[s] = pos[s]
        <4>1. since = 0 /\ pos[s] = 0
          BY <3>2, KeptTypes DEF OrderInv, BaseInv, OffUnread, Never
        <4>2. \A i \in DOMAIN log : log[i].at \in Nat
          <5>1. \A i \in DOMAIN log : log[i] \in Pieces
            BY KeptTypes
          <5> QED BY <5>1 DEF Pieces
        <4>3. Start(s) = {0}
          BY <4>1, <4>2 DEF Start
        <4>4. pos'[s] \in Start(s) \cup {pos[s]}
          BY <1>7 DEF Attach
        <4> QED BY <4>1, <4>3, <4>4
      <3> QED BY <3>1, <3>2
    <2>2. \A s \in Streams : reader[s] # "off" => reader'[s] = reader[s]
      BY <2>1
    <2>3. \A s \in WorkerStreams :
            Of(s) = worker /\ (reader'[s] = "done" <=> reader[s] = "done")
      BY <2>1, KeptTypes DEF Of
    <2>4. MarksTaken'
      BY <2>1, <2>2, KeptTypes DEF MarksTaken
    <2>5. WorkerSeen'
      BY <2>1, <2>2, <2>3, KeptTypes DEF WorkerSeen
    <2>6. DoneRead' /\ EndedDone'
      <3>1. \A s \in WorkerStreams : reader'[s] = "done" => pos'[s] = pos[s]
        BY <2>3, <2>8, KeptTypes
      <3> QED BY <2>1, <2>3, <3>1 DEF DoneRead, EndedDone
    <2>7. NoneDropped'
      BY <2>1, <2>8, KeptTypes DEF NoneDropped, OnItsWay
    <2> QED BY <1>0, <2>4, <2>5, <2>6, <2>7
  <1>8. CASE GetItem
    <2>1. CASE queue = <<>>
      BY <1>0, <1>8, <2>1 DEF GetItem, containerVars, readerVars, rowVars, MarksTaken,
         WorkerSeen,
         DoneRead, NoneDropped, OnItsWay, EndedDone
    <2>2. CASE queue # <<>>
      <3>1. /\ DOMAIN queue' = 1..(Len(queue) - 1)
            /\ \A i \in DOMAIN queue' : i + 1 \in DOMAIN queue /\ queue'[i] = queue[i + 1]
            /\ 1 \in DOMAIN queue /\ Head(queue) = queue[1]
            /\ \A i \in DOMAIN queue : i = 1 \/ (i - 1 \in DOMAIN queue' /\ queue[i] = queue'[i - 1])
        <4>1. queue \in Seq(Items) /\ queue' = Tail(queue)
          BY <1>8, <2>2, KeptTypes DEF GetItem
        <4>2. /\ Len(queue) \in Nat /\ DOMAIN queue = 1..Len(queue) /\ 1 \in DOMAIN queue
              /\ Head(queue) = queue[1] /\ DOMAIN queue' = 1..(Len(queue) - 1)
              /\ \A i \in DOMAIN queue' : queue'[i] = queue[i + 1]
          BY <2>2, <4>1, HeadTailProperties
        <4> QED BY <4>2
      <3>2. IF queue[1].line = End
            THEN pc' = "check" /\ done' = done \cup {queue[1].stream} /\ UNCHANGED item
            ELSE pc' = "store" /\ item' = queue[1] /\ UNCHANGED done
        BY <1>8, <2>2, <3>1 DEF GetItem
      <3>3. /\ UNCHANGED <<log, worker, cut, pos, reader, sawWorker, deadline, since, rows,
                           restarts>>
            /\ pc = "get"
        BY <1>8 DEF GetItem, containerVars, readerVars, rowVars
      <3>4. MarksTaken'
        <4>1. ASSUME queue[1].line = End, NEW i \in DOMAIN queue'
              PROVE  queue'[i].stream # queue[1].stream
          <5>1. Before(queue[1], queue[i + 1])
            BY <3>1, KeptTypes DEF OrderInv, InHandOrdered
          <5> QED BY <3>1, <4>1, <5>1 DEF Before
        <4>2. queue[1].line = End => reader[queue[1].stream] = "done"
          BY <3>1, KeptTypes DEF OfStream
        <4> QED BY <3>1, <3>2, <3>3, <4>1, <4>2 DEF MarksTaken
      <3>5. WorkerSeen' /\ DoneRead'
        BY <3>2, <3>3 DEF WorkerSeen, DoneRead
      <3>6. NoneDropped'
        <4>1. ASSUME restarts = 0, pc # "failed", NEW i \in DOMAIN log, i <= pos[log[i].stream]
              PROVE  OnItsWay(i)'
          <5>1. OnItsWay(i) /\ i # End
            BY <4>1, KeptTypes DEF NoneDropped, End
          <5>2. CASE \E k \in DOMAIN rows : rows[k].line = i
            BY <3>3, <5>2 DEF OnItsWay
          <5>3. CASE \E k \in DOMAIN queue : queue[k] = [stream |-> log[i].stream, line |-> i]
            <6>1. PICK k \in DOMAIN queue : queue[k] = [stream |-> log[i].stream, line |-> i]
              BY <5>3
            <6>2. CASE k = 1
              BY <3>2, <3>3, <5>1, <6>1, <6>2 DEF OnItsWay
            <6>3. CASE k # 1
              <7>1. k - 1 \in DOMAIN queue' /\ queue'[k - 1] = [stream |-> log[i].stream, line |-> i]
                BY <3>1, <6>1, <6>3
              <7> QED BY <3>3, <7>1 DEF OnItsWay
            <6> QED BY <6>2, <6>3
          <5> QED BY <3>3, <5>1, <5>2, <5>3 DEF OnItsWay
        <4> QED BY <3>3, <4>1 DEF NoneDropped, OnItsWay
      <3>7. EndedDone'
        BY <3>2 DEF EndedDone
      <3> QED BY <1>0, <3>4, <3>5, <3>6, <3>7
    <2> QED BY <2>1, <2>2
  <1>9. CASE StoreLine
    <2> DEFINE row == [line |-> item.line, run |-> restarts]
    <2>1. /\ pc = "store" /\ pc' = "check"
          /\ rows' = Append(rows, row) \/ (since # Never /\ rows' = rows)
          /\ UNCHANGED <<log, worker, cut, pos, reader, queue, done, sawWorker, deadline,
                         since, restarts>>
      <3>1. PICK at \in ParsedAs(log[item.line]) :
              IF since # Never /\ at <= since THEN UNCHANGED rowVars ELSE Store(at)
        BY <1>9 DEF StoreLine
      <3>2. rows' = Append(rows, row) \/ (since # Never /\ rows' = rows)
        BY <3>1 DEF Store, rowVars
      <3> QED BY <1>9, <3>2 DEF StoreLine, containerVars, readerVars
    <2>2. MarksTaken' /\ WorkerSeen' /\ DoneRead' /\ EndedDone'
      BY <2>1 DEF MarksTaken, WorkerSeen, DoneRead, EndedDone
    <2>3. NoneDropped'
      <3>1. ASSUME restarts = 0, pc # "failed", NEW i \in DOMAIN log, i <= pos[log[i].stream]
            PROVE  OnItsWay(i)'
        <4>1. item.line \in Nat
          BY <2>1 DEF OrderInv, BaseInv, TypeInv, Items
        <4>2. row \in StoredRows /\ row.line = item.line
          BY <4>1, KeptTypes DEF StoredRows
        <4>3. rows' = Append(rows, row)
          BY <2>1, <3>1, KeptTypes
        <4> HIDE DEF row
        <4>4. /\ DOMAIN rows' = 1..(Len(rows) + 1)
              /\ \A k \in DOMAIN rows : rows'[k] = rows[k]
              /\ rows'[Len(rows) + 1] = row
          BY <4>2, <4>3, KeptTypes
        <4>5. OnItsWay(i)
          BY <2>1, <3>1 DEF NoneDropped
        <4>6. CASE \E k \in DOMAIN rows : rows[k].line = i
          BY <4>4, <4>6, KeptTypes DEF OnItsWay
        <4>7. CASE \E k \in DOMAIN queue : queue[k] = [stream |-> log[i].stream, line |-> i]
          BY <2>1, <4>7 DEF OnItsWay
        <4>8. CASE item = [stream |-> log[i].stream, line |-> i]
          <5>1. item.line = i /\ Len(rows) + 1 \in DOMAIN rows'
            BY <4>4, <4>8, KeptTypes
          <5>2. rows'[Len(rows) + 1].line = i
            BY <4>2, <4>4, <5>1
          <5> QED BY <5>1, <5>2 DEF OnItsWay
        <4> QED BY <4>5, <4>6, <4>7, <4>8 DEF OnItsWay
      <3> QED BY <2>1, <3>1 DEF NoneDropped, OnItsWay
    <2> QED BY <1>0, <2>2, <2>3
  <1>10. CASE Check
    <2>1. /\ pc = "check" /\ pc' \in {"ended", "attach"}
          /\ deadline' = (deadline \/ WorkerOver)
          /\ pc' = "ended" => deadline' \/ NothingLeft
          /\ UNCHANGED <<log, worker, cut, pos, reader, queue, done, sawWorker, item, rows,
                         since, restarts>>
      BY <1>10 DEF Check, containerVars, readerVars, rowVars
    <2>2. MarksTaken' /\ DoneRead'
      BY <2>1 DEF MarksTaken, DoneRead
    <2>3. WorkerSeen'
      <3>1. WorkerOver => sawWorker /\ worker # "running" /\ WorkerStreams \subseteq done
        BY KeptTypes DEF WorkerOver, Drained, WorkerSeen, Attached
      <3> QED BY <2>1, <3>1 DEF WorkerSeen
    <2>4. EndedDone'
      <3>1. NothingLeft /\ restarts = 0 /\ ~cut => WorkerStreams \subseteq done
        BY KeptTypes DEF NothingLeft, WorkerSeen, Attached
      <3> QED BY <2>1, <2>3, <3>1 DEF EndedDone, WorkerSeen, NothingLeft
    <2>5. NoneDropped'
      BY <2>1 DEF NoneDropped, OnItsWay
    <2> QED BY <1>0, <2>2, <2>3, <2>4, <2>5
  <1>11. CASE Crash
    <2>1. restarts' # 0
      BY <1>11, KeptTypes DEF Crash
    <2> QED BY <1>0, <1>11, <2>1, KeptTypes
               DEF Crash, containerVars, rowVars, MarksTaken, WorkerSeen, DoneRead,
               NoneDropped, EndedDone
  <1>12. CASE Recover
    <2>1. restarts # 0
      BY <1>12, KeptTypes DEF Recover
    <2> QED BY <1>0, <1>12, <2>1 DEF Recover, containerVars, readerVars, rowVars,
       MarksTaken,
               WorkerSeen,
               DoneRead, NoneDropped, EndedDone
  <1>15. CASE TailFails
    BY <1>0, <1>15 DEF TailFails, containerVars, readerVars, rowVars, MarksTaken,
       WorkerSeen, DoneRead, NoneDropped, EndedDone
  <1>13. CASE UNCHANGED vars
    BY <1>0, <1>13 DEF vars, containerVars, readerVars, rowVars, loopVars, MarksTaken,
       WorkerSeen,
       DoneRead, NoneDropped, OnItsWay, EndedDone
  <1> QED BY <1>1, <1>2, <1>3, <1>4, <1>5, <1>6, <1>7, <1>8, <1>9, <1>10, <1>11, <1>12,
             <1>13, <1>14, <1>15
          DEF Next, Loop, Thread

(* When the tailer ends by itself, the worker does not run any more, and   *)
(* without a restart, a stream that broke or a removal under its readers   *)
(* all output of the worker is stored, however its threads, queue and      *)
(* deadline interleaved.                                                   *)
THEOREM WorkerLinesComplete == Spec => []WorkerLinesKept
  <1>1. ASSUME KeptInv PROVE WorkerLinesKept
    <2>1. SUFFICES ASSUME pc = "ended", restarts = 0, ~cut, NEW i \in DOMAIN log,
                          log[i].stream \in WorkerStreams
                   PROVE  \E k \in DOMAIN rows : rows[k].line = i
      BY <1>1 DEF WorkerLinesKept, KeptInv, EndedDone
    <2>2. log[i].stream \in done
      BY <1>1, <2>1 DEF KeptInv, EndedDone
    <2>3. i <= pos[log[i].stream]
      BY <1>1, <2>1, <2>2 DEF KeptInv, MarksTaken, DoneRead
    <2>4. OnItsWay(i)
      BY <1>1, <2>1, <2>3 DEF KeptInv, NoneDropped
    <2> QED BY <1>1, <2>1, <2>2, <2>4 DEF KeptInv, MarksTaken, OnItsWay
  <1> QED BY <1>1, KeptInit, KeptNext, PTL DEF Spec
=============================================================================
