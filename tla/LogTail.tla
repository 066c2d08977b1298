-------------------------------- MODULE LogTail --------------------------------
(***************************************************************************)
(* The log tailer of one execution: DockerBackend.tail_logs, whose threads *)
(* follow the output streams of the worker and of the runtime sidecar, and *)
(* SessionManager._tail_task, which stores the lines; after a restart of   *)
(* the controller, recover() starts another one from the last stored       *)
(* timestamp.  The tailer is started when create_execution has returned.   *)
(*                                                                         *)
(* What is stored is a piece of output: the daemon stamps a line, but      *)
(* splitlines() also breaks it at a carriage return, U+2028 or NEL, and    *)
(* strip() takes the stamp off a blank one.  A piece without a stamp gets  *)
(* the time at which it is parsed, or the date its first word may be.      *)
(***************************************************************************)
EXTENDS Integers, Sequences, FiniteSets, FiniteSetsExt

CONSTANTS
    WorkerStreams,      \* output streams of the worker's container
    SidecarStreams,     \* and of the runtime sidecar's, {} without one
    MaxLines,           \* bound: lines written
    MaxRestarts         \* bound: restarts of the controller

ASSUME LogAssumption ==
    /\ WorkerStreams # {} /\ WorkerStreams \cap SidecarStreams = {}
    /\ {MaxLines, MaxRestarts} \subseteq Nat

Streams == WorkerStreams \cup SidecarStreams

Never == 0      \* no timestamp
End == 0        \* marks the end of a stream in the work queue

VARIABLES
    log,        \* the pieces of output written, of all streams: the stream,
                \* the daemon's stamp of the line, and whether the piece has it
    worker,     \* its container: running, exited, gone
    sidecar,    \* its container: running, gone
    reader,     \* the thread of each stream: off, on, done
    pos,        \* the last piece it has put into the work queue
    queue,      \* work_queue
    done,       \* done_streams
    sawWorker,  \* saw_worker
    deadline,   \* worker_finished_deadline is set
    pc,         \* where the tailer is
    item,       \* the item it has taken
    since,      \* from which timestamp on it follows
    rows,       \* execution_logs, by id: the piece and, as history, the restarts
                \* before
    last,       \* the latest logged_at of them
    misled,     \* history: recover() took another one for the latest
    restarts,   \* restarts so far
    cut         \* history: output of the worker was lost on its way to a reader

containerVars == <<log, worker, sidecar, cut>>
readerVars == <<reader, pos>>
rowVars == <<rows, last, misled>>
loopVars == <<done, sawWorker, deadline, item, since>>
vars == <<containerVars, readerVars, loopVars, queue, pc, rowVars, restarts>>

Nothing == [stream |-> "none", line |-> End]    \* no item
Times == 1..MaxLines    \* what the controller's clock may show

Of(s) == IF s \in WorkerStreams THEN worker ELSE sidecar
Attached == {s \in Streams : reader[s] # "off"}

Fresh ==
    /\ reader = [s \in Streams |-> "off"] /\ pos = [s \in Streams |-> 0]
    /\ queue = <<>> /\ done = {} /\ sawWorker = FALSE
    /\ deadline = FALSE /\ item = Nothing

Init ==
    /\ log = <<>> /\ worker = "running" /\ cut = FALSE
    /\ sidecar = (IF SidecarStreams = {} THEN "gone" ELSE "running")
    /\ Fresh /\ pc = "attach" /\ since = Never
    /\ rows = <<>> /\ last = Never /\ misled = FALSE /\ restarts = 0

-----------------------------------------------------------------------------
(* The containers. *)

(* Stamps ascend, and are equal within a microsecond. *)
Stamps == IF log = <<>> THEN {1} ELSE {log[Len(log)].at, log[Len(log)].at + 1}

WriteLine(s) ==
    /\ Len(log) < MaxLines /\ Of(s) = "running"
    /\ \E at \in Stamps, stamped \in BOOLEAN :
         log' = Append(log, [stream |-> s, at |-> at, stamped |-> stamped])
    /\ UNCHANGED <<worker, sidecar, cut, readerVars, loopVars, queue, pc, rowVars,
                   restarts>>

WorkerExits ==
    /\ worker = "running" /\ worker' = "exited"
    /\ UNCHANGED <<log, sidecar, cut, readerVars, loopVars, queue, pc, rowVars, restarts>>

(* What is left of a stream can be read until its container is removed.    *)
Unread(s) == {i \in (pos[s] + 1)..Len(log) : log[i].stream = s}

(* The first half of delete_execution, by stop_execution: it blocks the    *)
(* controller's loop, whose threads read on.                               *)
DeleteWorker ==
    /\ pc # "down" /\ worker' = "gone" /\ worker # "gone"
    /\ cut' = (cut \/ \E s \in WorkerStreams : reader[s] # "done")
    /\ UNCHANGED <<log, sidecar, readerVars, loopVars, queue, pc, rowVars, restarts>>

(* The second half; it may fail, or never come when the controller ends.   *)
DeleteSidecar ==
    /\ pc # "down" /\ worker = "gone" /\ sidecar = "running" /\ sidecar' = "gone"
    /\ UNCHANGED <<log, worker, cut, readerVars, loopVars, queue, pc, rowVars, restarts>>

-----------------------------------------------------------------------------
(* _stream: a thread's steps.                                              *)

ReadLine(s) ==
    /\ reader[s] = "on" /\ Of(s) # "gone" /\ Unread(s) # {}
    /\ LET next == Min(Unread(s))
       IN  /\ pos' = [pos EXCEPT ![s] = next]
           /\ queue' = Append(queue, [stream |-> s, line |-> next])
    /\ UNCHANGED <<containerVars, reader, loopVars, pc, rowVars, restarts>>

(* The stream ends, or breaks when its container is removed; the marker    *)
(* is put into the queue in any case.                                      *)
StreamDone(s) ==
    /\ reader[s] = "on"
    /\ Of(s) = "gone" \/ (Of(s) = "exited" /\ Unread(s) = {})
    /\ reader' = [reader EXCEPT ![s] = "done"]
    /\ queue' = Append(queue, [stream |-> s, line |-> End])
    /\ UNCHANGED <<containerVars, pos, loopVars, pc, rowVars, restarts>>

(* It breaks, although the container is there: the exception is passed     *)
(* over and the stream is not followed again.                              *)
StreamBreaks(s) ==
    /\ reader[s] = "on" /\ reader' = [reader EXCEPT ![s] = "done"]
    /\ queue' = Append(queue, [stream |-> s, line |-> End])
    /\ cut' = (cut \/ s \in WorkerStreams)
    /\ UNCHANGED <<log, worker, sidecar, pos, loopVars, pc, rowVars, restarts>>

-----------------------------------------------------------------------------
(* The loop of tail_logs and _tail_task.                                   *)

(* Docker takes since in whole seconds, so that older pieces come again:   *)
(* where a thread may begin.                                               *)
Start(s) == {0} \cup {i \in DOMAIN log : log[i].stream = s /\ log[i].at < since}

Attach ==
    /\ pc = "attach" /\ pc' = "get"
    /\ reader' = [s \in Streams |->
                    IF reader[s] = "off" /\ Of(s) # "gone" THEN "on" ELSE reader[s]]
    /\ pos' \in {p \in [Streams -> 0..Len(log)] :
                   \A s \in Streams :
                      p[s] \in IF reader[s] = "off" /\ Of(s) # "gone" THEN Start(s)
                              ELSE {pos[s]}}
    /\ sawWorker' = (sawWorker \/ worker # "gone")
    /\ UNCHANGED <<containerVars, done, deadline, item, since, queue, rowVars, restarts>>

(* One item, or none within a quarter of a second. *)
GetItem ==
    /\ pc = "get"
    /\ IF queue = <<>> THEN pc' = "check" /\ UNCHANGED <<queue, done, item>>
       ELSE LET it == Head(queue)
            IN  /\ queue' = Tail(queue)
                /\ IF it.line = End
                   THEN pc' = "check" /\ done' = done \cup {it.stream} /\ UNCHANGED item
                   ELSE pc' = "store" /\ item' = it /\ UNCHANGED done
    /\ UNCHANGED <<containerVars, readerVars, sawWorker, deadline, since,
                   rowVars, restarts>>

(* _parse_docker_ts, whose result only StoreLine looks at.  Without a stamp *)
(* it is datetime.now(), by a clock the daemon's has nothing to do with.   *)
ParsedAs(piece) == IF piece.stamped THEN {piece.at} ELSE Times

Store(at) ==
    /\ rows' = Append(rows, [line |-> item.line, run |-> restarts])
    /\ last' = (IF at > last THEN at ELSE last) /\ UNCHANGED misled

(* Mutant of StoreLine: a line at the last stored timestamp is kept.       *)
StoreLineAgain ==
    /\ pc = "store" /\ pc' = "check" /\ item' = Nothing
    /\ \E at \in ParsedAs(log[item.line]) :
         IF since # Never /\ at < since THEN UNCHANGED rowVars ELSE Store(at)
    /\ UNCHANGED <<containerVars, readerVars, done, sawWorker, deadline, since,
                   queue, restarts>>

(* What is at or before since is dropped. *)
StoreLine ==
    /\ pc = "store" /\ pc' = "check" /\ item' = Nothing
    /\ \E at \in ParsedAs(log[item.line]) :
         IF since # Never /\ at <= since THEN UNCHANGED rowVars ELSE Store(at)
    /\ UNCHANGED <<containerVars, readerVars, done, sawWorker, deadline, since,
                   queue, restarts>>

(* Mutant of Drained: the end of the worker's container is enough.         *)
DrainedNever == TRUE

Drained == Attached \cap WorkerStreams \subseteq done

WorkerOver == sawWorker /\ Drained /\ worker # "running"

(* No container is left and every stream has been read, which holds at     *)
(* once for a tailer that finds none.                                      *)
NothingLeft == worker = "gone" /\ sidecar = "gone" /\ Attached = done

(* Mutant of Check: the tailer waits for the sidecar's streams, too.       *)
CheckAll ==
    /\ pc = "check" /\ deadline' = (deadline \/ WorkerOver)
    /\ pc' = IF NothingLeft THEN "ended" ELSE "attach"
    /\ UNCHANGED <<containerVars, readerVars, done, sawWorker, item, since,
                   queue, rowVars, restarts>>

(* The end of the loop's body.  The deadline of half a second lies ahead   *)
(* or has passed.                                                          *)
Check ==
    /\ pc = "check" /\ deadline' = (deadline \/ WorkerOver)
    /\ \/ (deadline' \/ NothingLeft) /\ pc' = "ended"
       \/ ~(deadline' /\ Attached = done) /\ ~NothingLeft /\ pc' = "attach"
    /\ UNCHANGED <<containerVars, readerVars, done, sawWorker, item, since,
                   queue, rowVars, restarts>>

(* Docker or the database raises, or the date a piece begins with has no   *)
(* zone to compare: the tailer halts the execution as failed.              *)
TailFails ==
    /\ pc \in {"attach", "store", "check"} /\ pc' = "failed" /\ item' = Nothing
    /\ UNCHANGED <<containerVars, readerVars, done, sawWorker, deadline, since,
                   queue, rowVars, restarts>>

-----------------------------------------------------------------------------
(* The controller ends: threads, queue and tailer are gone.  Docker and    *)
(* the stored lines stay.                                                  *)
Crash ==
    /\ restarts < MaxRestarts /\ restarts' = restarts + 1
    /\ pc \in {"attach", "get", "store", "check"} /\ pc' = "down"
    /\ reader' = [s \in Streams |-> "off"] /\ pos' = [s \in Streams |-> 0]
    /\ queue' = <<>> /\ done' = {} /\ sawWorker' = FALSE
    /\ deadline' = FALSE /\ item' = Nothing
    /\ UNCHANGED <<containerVars, since, rowVars>>

(* Mutant of Recover: the tailer starts right after the last stored line.  *)
RecoverAfter ==
    /\ pc = "down" /\ pc' = "attach"
    /\ since' = (IF last = Never THEN Never ELSE last + 1)
    /\ UNCHANGED <<containerVars, readerVars, done, sawWorker, deadline, item,
                   queue, rowVars, restarts>>

(* get_last_log_timestamp: the latest of all streams, which are compared   *)
(* as text.  A date of another zone than the daemon's may be taken for it, *)
(* or take its place: only a piece without a stamp begins with one.        *)
LastTimestamps ==
    {last} \cup (IF \E k \in DOMAIN rows : ~log[rows[k].line].stamped
                THEN 1..last ELSE {})

(* recover() starts a tailer. *)
Recover ==
    /\ pc = "down" /\ pc' = "attach" /\ since' \in LastTimestamps
    /\ misled' = (misled \/ since' # last)
    /\ UNCHANGED <<containerVars, readerVars, done, sawWorker, deadline, item,
                   queue, rows, last, restarts>>

-----------------------------------------------------------------------------
Loop == Attach \/ GetItem \/ StoreLine \/ Check
Thread(s) == ReadLine(s) \/ StreamDone(s)

Next ==
    \/ \E s \in Streams : WriteLine(s) \/ Thread(s) \/ StreamBreaks(s)
    \/ WorkerExits \/ DeleteWorker \/ DeleteSidecar
    \/ Loop \/ TailFails \/ Crash \/ Recover

Spec == Init /\ [][Next]_vars

(* The tailer's loop runs on and its threads are scheduled; a deadline     *)
(* that is set passes.                                                     *)
FairSpec ==
    /\ Spec /\ WF_vars(Loop) /\ SF_vars(Check /\ pc' = "ended")
    /\ \A s \in Streams : WF_vars(Thread(s))

-----------------------------------------------------------------------------
LogTypeOK ==
    /\ log \in Seq([stream : Streams, at : Nat \ {Never}, stamped : BOOLEAN])
    /\ worker \in {"running", "exited", "gone"}
    /\ sidecar \in {"running", "gone"}
    /\ reader \in [Streams -> {"off", "on", "done"}]
    /\ pos \in [Streams -> 0..Len(log)] /\ done \subseteq Attached
    /\ pc \in {"attach", "get", "store", "check", "ended", "failed", "down"}
    /\ {sawWorker, deadline, cut, misled} \subseteq BOOLEAN
    /\ last \in Nat /\ since \in 0..last
    /\ \A i \in DOMAIN rows : rows[i].line \in DOMAIN log

(* The pieces of one stream are stored in the order they were written, and *)
(* none twice by one tailer.  Over restarts of the controller so are those *)
(* that have a stamp, although docker repeats the lines of the second it   *)
(* is asked to start from and other pieces are stored under times that may *)
(* lie ahead of the stamps or behind (_tail_task's filter), unless the     *)
(* date of another zone was compared with them (get_last_log_timestamp).   *)
(* A piece without a stamp may be stored again by the next tailer.         *)
LinesOnceInOrder ==
    \A i, j \in DOMAIN rows :
        LET a == log[rows[i].line]
            b == log[rows[j].line]
        IN  /\ i < j /\ a.stream = b.stream
            /\ rows[i].run = rows[j].run \/ (a.stamped /\ b.stamped /\ ~misled)
            => rows[i].line < rows[j].line

(* When the tailer ends by itself the worker does not run any more and,    *)
(* unless the controller restarted, a stream broke or the container was    *)
(* removed under its readers, all output of the worker is stored: none is  *)
(* left in the queue or in a thread.                                       *)
WorkerLinesKept ==
    pc = "ended" =>
        /\ worker # "running"
        /\ restarts = 0 /\ ~cut =>
             \A i \in DOMAIN log :
                log[i].stream \in WorkerStreams => \E k \in DOMAIN rows : rows[k].line = i

(* When the worker has ended, so does the tailer, and with it the          *)
(* execution is closed (_tail_task), except that a tailer which has never  *)
(* seen the worker goes on as long as there is a sidecar.                  *)
TailEnds ==
    worker # "running" ~>
        \/ pc \in {"ended", "failed", "down"}
        \/ worker = "gone" /\ ~sawWorker /\ sidecar = "running"
=============================================================================
