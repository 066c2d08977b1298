--------------------------- MODULE DockerLaunchProofs ---------------------------
(***************************************************************************)
(* Theorems about DockerLaunch, for every number of launches of a session. *)
(*                                                                         *)
(* The invariants tie the container that has a name to the thread of the   *)
(* launch that ran it, and a launch to the launches that may overlap it.   *)
(***************************************************************************)
EXTENDS DockerLaunch, TLAPS

Containers == [by : 0..Foreign, state : {"none", "created", "running", "exited"}]
PCs == {"idle", "run_sidecar", "probe", "run_worker", "inspect", "cleanup", "returned",
        "raised"}
ThreadStates == {"none", "run", "get", "remove", "rerun"} \cup Finished

TypeInv ==
    /\ LaunchTypeOK
    /\ thread \in [Launches -> [Roles -> ThreadStates]]
    /\ handle \in [Launches -> Launches \cup {NoOne}]

(* What the threads of a launch have done, by where it is. *)
ThreadsInStep ==
    \A l \in Launches :
        /\ pc[l] = "idle" => leftover[l] = {} /\ \A r \in Roles : thread[l][r] = "none"
        /\ pc[l] = "run_sidecar" => thread[l]["worker"] = "none"
        /\ pc[l] = "probe" => thread[l]["sidecar"] = "ok" /\ thread[l]["worker"] = "none"
        /\ pc[l] \in {"inspect", "returned"} => thread[l]["worker"] = "ok"
        /\ pc[l] = "run_worker" => thread[l]["worker"] # "none"

(* Only the thread that ran a container gives it a launch's name. *)
NamedByThread ==
    \A l \in Launches, r \in Roles : named[r].by = l => thread[l][r] \in Finished

HooksInStep ==
    \A l \in Launches :
        thread[l]["sidecar"] # "none" /\ thread[l]["worker"] # "none" => hooks[l] = "ok"

ThreadInv == TypeInv /\ ThreadsInStep /\ NamedByThread /\ HooksInStep

LEMMA ThreadInit == Init => ThreadInv
  <1> SUFFICES ASSUME Init PROVE ThreadInv
    OBVIOUS
  <1>1. TypeInv
    BY LaunchAssumption DEF Init, TypeInv, LaunchTypeOK, Launches, Roles, Free, Foreign,
       NoOne, ThreadStates, Finished
  <1>2. ThreadsInStep /\ NamedByThread /\ HooksInStep
    BY LaunchAssumption DEF Init, ThreadsInStep, NamedByThread, HooksInStep, Launches,
       Roles, Free, Foreign, NoOne
  <1> QED BY <1>1, <1>2 DEF ThreadInv

(* What the helpers that update one launch do, as facts about every launch. *)
LEMMA GotoFacts ==
    ASSUME TypeInv, NEW l \in Launches, NEW s \in PCs, Goto(l, s)
    PROVE  /\ pc' \in [Launches -> PCs] /\ pc'[l] = s
           /\ \A k \in Launches \ {l} : pc'[k] = pc[k]
  BY DEF TypeInv, LaunchTypeOK, PCs, Goto

LEMMA SetThreadFacts ==
    ASSUME TypeInv, NEW l \in Launches, NEW r \in Roles, NEW s \in ThreadStates,
           SetThread(l, r, s)
    PROVE  /\ thread' \in [Launches -> [Roles -> ThreadStates]] /\ thread'[l][r] = s
           /\ \A k \in Launches, q \in Roles :
                 k # l \/ q # r => thread'[k][q] = thread[k][q]
  BY DEF TypeInv, SetThread

LEMMA MayLeaveFacts ==
    ASSUME TypeInv, NEW l \in Launches, NEW R \in SUBSET Roles, MayLeave(l, R)
    PROVE  /\ leftover' \in [Launches -> SUBSET Roles]
           /\ R \subseteq leftover'[l] /\ leftover[l] \subseteq leftover'[l]
           /\ \A k \in Launches \ {l} : leftover'[k] = leftover[k]
  BY DEF TypeInv, LaunchTypeOK, MayLeave

(* A thread at work is that of a launch that has begun, and a sidecar's    *)
(* thread works before the worker's does.                                  *)
LEMMA ThreadStepFacts ==
    ASSUME ThreadInv, NEW l \in Launches, NEW r \in Roles,
           thread[l][r] \notin {"none"} \cup Finished,
           NEW s \in ThreadStates \ {"none"}, SetThread(l, r, s), UNCHANGED pc
    PROVE  /\ thread' \in [Launches -> [Roles -> ThreadStates]] /\ thread'[l][r] = s
           /\ \A k \in Launches, q \in Roles :
                 k # l \/ q # r => thread'[k][q] = thread[k][q]
           /\ \A k \in Launches :
                 thread'[k]["worker"] # "none" =>
                    pc[k] # "idle" /\ thread'[k]["sidecar"] \in {"none", "ok"}
           /\ r = "sidecar" => thread[l]["worker"] = "none"
  <1>1. /\ thread' \in [Launches -> [Roles -> ThreadStates]] /\ thread'[l][r] = s
        /\ \A k \in Launches, q \in Roles :
              k # l \/ q # r => thread'[k][q] = thread[k][q]
    BY SetThreadFacts DEF ThreadInv
  <1>2. \A k \in Launches : thread[k]["worker"] # "none" =>
           pc[k] # "idle" /\ thread[k]["sidecar"] \in {"none", "ok"}
    BY DEF ThreadInv, TypeInv, LaunchTypeOK
  <1>3. pc[l] # "idle" /\ (r = "sidecar" => thread[l]["worker"] = "none")
    BY <1>2 DEF ThreadInv, ThreadsInStep, Finished
  <1> QED BY <1>1, <1>2, <1>3 DEF Roles

(* containers.run: the name goes to the launch, and a container that was   *)
(* only created is held against it.                                        *)
LEMMA RunNamedFacts ==
    ASSUME TypeInv, NEW l \in Launches, NEW r \in Roles, RunNamed(l, r)
    PROVE  /\ named' \in [Roles -> Containers] /\ named'[r].by = l
           /\ \A q \in Roles \ {r} : named'[q] = named[q]
           /\ hooks' \in [Launches -> {"none", "running", "ok", "failed"}]
           /\ \A k \in Launches \ {l} : hooks'[k] = hooks[k]
           /\ r = "worker" => hooks' = hooks
           /\ leftover' \in [Launches -> SUBSET Roles]
           /\ \A k \in Launches \ {l} : leftover'[k] = leftover[k]
           /\ leftover[l] \subseteq leftover'[l]
           /\ \E s \in Finished :
                 SetThread(l, r, s) /\ (s = "error" => r \in leftover'[l])
  <1>1. l \in 0..Foreign /\ named \in [Roles -> Containers]
    BY LaunchAssumption DEF Launches, Foreign, TypeInv, LaunchTypeOK, Containers
  <1>2. CASE /\ named' = [named EXCEPT ![r] = [by |-> l, state |-> "running"]]
             /\ hooks' = (IF r = "sidecar" THEN [hooks EXCEPT ![l] = "running"] ELSE hooks)
             /\ SetThread(l, r, "ok") /\ UNCHANGED leftover
    BY <1>1, <1>2 DEF Containers, TypeInv, LaunchTypeOK, Finished, Roles
  <1>3. CASE /\ named' = [named EXCEPT ![r] = [by |-> l, state |-> "created"]]
             /\ SetThread(l, r, "error") /\ MayLeave(l, {r}) /\ UNCHANGED hooks
    <2>1. named' \in [Roles -> Containers] /\ named'[r].by = l
          /\ \A q \in Roles \ {r} : named'[q] = named[q]
      BY <1>1, <1>3 DEF Containers
    <2>2. /\ leftover' \in [Launches -> SUBSET Roles] /\ r \in leftover'[l]
          /\ leftover[l] \subseteq leftover'[l]
          /\ \A k \in Launches \ {l} : leftover'[k] = leftover[k]
      BY <1>3, MayLeaveFacts
    <2> QED BY <1>3, <2>1, <2>2 DEF TypeInv, LaunchTypeOK, Finished
  <1> QED BY <1>2, <1>3 DEF RunNamed

(* A step of a thread, whatever it does to names, hooks and leftovers.       *)
LEMMA ThreadStep ==
    ASSUME ThreadInv, NEW l \in Launches, NEW r \in Roles,
           thread[l][r] \notin {"none"} \cup Finished,
           NEW s \in ThreadStates \ {"none"}, SetThread(l, r, s),
           named' \in [Roles -> Containers],
           \A q \in Roles : named'[q].by \in {named[q].by, NoOne} \/ (q = r /\ named'[q].by = l),
           named'[r].by = l => s \in Finished,
           hooks' \in [Launches -> {"none", "running", "ok", "failed"}],
           r = "worker" => hooks' = hooks,
           \A k \in Launches \ {l} : hooks'[k] = hooks[k],
           leftover' \in [Launches -> SUBSET Roles],
           handle' \in [Launches -> Launches \cup {NoOne}],
           \A k \in Launches \ {l} : leftover'[k] = leftover[k],
           UNCHANGED <<pc, removing, deleting, deleted, disturbed>>
    PROVE  ThreadInv'
  <1>1. /\ thread' \in [Launches -> [Roles -> ThreadStates]] /\ thread'[l][r] = s
        /\ \A k \in Launches, q \in Roles :
              k # l \/ q # r => thread'[k][q] = thread[k][q]
        /\ \A k \in Launches :
              thread'[k]["worker"] # "none" =>
                 pc[k] # "idle" /\ thread'[k]["sidecar"] \in {"none", "ok"}
        /\ r = "sidecar" => thread[l]["worker"] = "none"
    BY ThreadStepFacts
  <1>2. TypeInv'
    BY <1>1 DEF ThreadInv, TypeInv, LaunchTypeOK, Containers
  <1>3. ThreadsInStep'
    BY <1>1 DEF ThreadInv, TypeInv, ThreadsInStep, Roles, Finished
  <1>4. NamedByThread'
    <2>1. ASSUME NEW k \in Launches, NEW q \in Roles, named'[q].by = k
          PROVE  thread'[k][q] \in Finished
      <3>1. k # NoOne
        BY DEF Launches, NoOne
      <3>2. CASE k = l /\ q = r
        BY <1>1, <2>1, <3>2
      <3>3. CASE ~(k = l /\ q = r)
        <4>1. named[q].by = k
          BY <2>1, <3>1, <3>3
        <4> QED BY <1>1, <3>3, <4>1 DEF ThreadInv, NamedByThread
      <3> QED BY <3>2, <3>3
    <2> QED BY <2>1 DEF NamedByThread
  <1>5. HooksInStep'
    BY <1>1 DEF ThreadInv, HooksInStep, Roles
  <1> QED BY <1>2, <1>3, <1>4, <1>5 DEF ThreadInv

LEMMA ThreadNext == ThreadInv /\ [Next]_vars => ThreadInv'
  <1> SUFFICES ASSUME ThreadInv, [Next]_vars PROVE ThreadInv'
    OBVIOUS
  <1> USE DEF ThreadInv
  <1>0. /\ named \in [Roles -> Containers] /\ NoOne \notin Launches
        /\ \A l \in Launches, r \in Roles : named[r].by = l => thread[l][r] \in Finished
    BY DEF TypeInv, LaunchTypeOK, Containers, NamedByThread, Launches, NoOne
  <1>1. ASSUME NEW l \in Launches, NEW r \in Roles, thread[l][r] \in {"run", "rerun"},
               RunNamed(l, r), UNCHANGED <<pc, handle, removing, deleting, deleted, disturbed>>
        PROVE  ThreadInv'
    <2>1. PICK s \in Finished : SetThread(l, r, s)
      BY <1>1, RunNamedFacts
    <2>2. thread[l][r] \notin {"none"} \cup Finished /\ s \in ThreadStates \ {"none"}
      BY <1>1 DEF Finished, ThreadStates
    <2> QED BY <1>1, <2>1, <2>2, RunNamedFacts, ThreadStep, SMTT(60) DEF TypeInv
  <1>2. ASSUME NEW l \in Launches, NEW r \in Roles, NEW s \in ThreadStates \ {"none"},
               thread[l][r] \notin {"none"} \cup Finished, SetThread(l, r, s),
               UNCHANGED <<named, hooks, leftover, pc, removing, deleting, deleted, disturbed>>,
               handle' \in [Launches -> Launches \cup {NoOne}]
        PROVE  ThreadInv'
    <2>1. named[r].by # l
      BY <1>0, <1>2
    <2> QED BY <1>0, <1>2, <2>1, ThreadStep DEF TypeInv, LaunchTypeOK
  <1>3. ASSUME NEW l \in Launches, NEW r \in Roles, Thread(l, r) PROVE ThreadInv'
    <2> USE DEF Finished, ThreadStates, TypeInv
    <2>1. CASE RunContainer(l, r)
      <3>1. CASE RunNamed(l, r)
        BY <1>1, <2>1, <3>1 DEF RunContainer
      <3>2. CASE (SetThread(l, r, "get") /\ UNCHANGED <<named, hooks, leftover>>) \/ RunFails(l, r)
        BY <1>2, <2>1, <3>2 DEF RunContainer, RunFails
      <3> QED BY <2>1, <3>1, <3>2 DEF RunContainer
    <2>2. CASE GetConflicting(l, r)
      <3>1. CASE named[r].by \in Launches
        <4>1. handle' \in [Launches -> Launches \cup {NoOne}]
          BY <2>2, <3>1 DEF GetConflicting
        <4> QED BY <1>2, <2>2, <3>1, <4>1 DEF GetConflicting
      <3>2. CASE named[r].by \notin Launches
        BY <1>2, <2>2, <3>2 DEF GetConflicting
      <3> QED BY <3>1, <3>2
    <2>3. CASE RemoveConflicting(l, r)
      <3>1. CASE named' = [named EXCEPT ![r] = Free] /\ SetThread(l, r, "rerun")
        <4>1. /\ named' \in [Roles -> Containers]
              /\ \A q \in Roles : named'[q].by \in {named[q].by, NoOne}
              /\ named'[r].by # l
          BY <1>0, <3>1, LaunchAssumption DEF Free, Containers, Foreign, NoOne, Launches
        <4> QED BY <2>3, <3>1, <4>1, ThreadStep DEF RemoveConflicting, LaunchTypeOK
      <3>2. CASE SetThread(l, r, "error") /\ UNCHANGED named
        BY <1>2, <2>3, <3>2 DEF RemoveConflicting
      <3> QED BY <2>3, <3>1, <3>2 DEF RemoveConflicting
    <2>4. CASE RerunContainer(l, r)
      BY <1>1, <1>2, <2>4 DEF RerunContainer, RunFails
    <2> QED BY <1>3, <2>1, <2>2, <2>3, <2>4 DEF Thread
  <1>5. ASSUME NEW l \in Launches, Begin(l) PROVE ThreadInv'
    <2>1. TypeInv'
      <3>1. PICK q \in Roles, c \in {"run_sidecar", "run_worker"} :
              Goto(l, c) /\ SetThread(l, q, "run")
        BY <1>5 DEF Begin, Roles
      <3>2. pc' \in [Launches -> PCs] /\ pc'[l] # "idle"
            /\ \A k \in Launches \ {l} : pc'[k] = pc[k]
        BY <3>1, GotoFacts DEF PCs
      <3>3. /\ thread' \in [Launches -> [Roles -> ThreadStates]]
            /\ \A k \in Launches \ {l}, w \in Roles : thread'[k][w] = thread[k][w]
            /\ thread'[l]["sidecar"] = "none" \/ thread'[l]["worker"] = "none"
        BY <1>5, <3>1, SetThreadFacts DEF Begin, Roles, ThreadStates, ThreadsInStep
      <3>4. disturbed' \subseteq Launches
        BY <1>5 DEF Begin, TypeInv, LaunchTypeOK
      <3> QED BY <1>5, <3>2, <3>3, <3>4, SMTT(60) DEF Begin, TypeInv, LaunchTypeOK, PCs, Roles
    <2>2. ThreadsInStep'
      BY <1>5 DEF Begin, RunNamed, RunFails, SetThread, Goto, MayLeave, threadVars, Free,
         Finished, ThreadStates, TypeInv, LaunchTypeOK, ThreadsInStep, Roles
    <2>3. NamedByThread'
      <3>1. \A q \in Roles : named[q].by # l
        BY <1>0, <1>5 DEF Begin, ThreadsInStep, Finished
      <3>2. \A k \in Launches \ {l}, q \in Roles : thread'[k][q] = thread[k][q]
        BY <1>5 DEF Begin, SetThread, TypeInv
      <3> QED BY <1>0, <1>5, <3>1, <3>2 DEF Begin, NamedByThread
    <2>4. HooksInStep'
      BY <1>5 DEF Begin, RunNamed, RunFails, SetThread, Goto, MayLeave, threadVars, Free,
         Finished, ThreadStates, TypeInv, LaunchTypeOK, ThreadsInStep, HooksInStep, Roles
    <2> QED BY <2>1, <2>2, <2>3, <2>4
  <1>6. ASSUME NEW l \in Launches, SidecarRun(l) PROVE ThreadInv'
    <2>1. TypeInv'
      <3>1. leftover' \in [Launches -> SUBSET Roles]
        BY <1>6, MayLeaveFacts DEF SidecarRun, TypeInv, LaunchTypeOK, Roles
      <3>2. pc' \in [Launches -> PCs]
        BY <1>6, GotoFacts DEF SidecarRun, PCs
      <3>3. \A k \in Launches : pc'[k] = "idle" <=> pc[k] = "idle"
        BY <1>6 DEF SidecarRun, Goto, TypeInv, LaunchTypeOK
      <3> QED BY <1>6, <3>1, <3>2, <3>3 DEF SidecarRun, threadVars, TypeInv, LaunchTypeOK,
                 PCs
    <2>2. ThreadsInStep'
      BY <1>6 DEF SidecarRun, RunNamed, RunFails, SetThread, Goto, MayLeave, threadVars, Free,
         Finished, ThreadStates, TypeInv, LaunchTypeOK, ThreadsInStep, Roles
    <2>3. NamedByThread'
      BY <1>6 DEF SidecarRun, RunNamed, RunFails, SetThread, Goto, MayLeave, threadVars, Free,
         Finished, ThreadStates, TypeInv, LaunchTypeOK, ThreadsInStep, NamedByThread,
         Roles, NoOne, Launches
    <2>4. HooksInStep'
      BY <1>6 DEF SidecarRun, RunNamed, RunFails, SetThread, Goto, MayLeave, threadVars, Free,
         Finished, ThreadStates, TypeInv, LaunchTypeOK, ThreadsInStep, HooksInStep, Roles
    <2> QED BY <2>1, <2>2, <2>3, <2>4
  <1>7. ASSUME NEW l \in Launches, ProbeReady(l) PROVE ThreadInv'
    <2>1. TypeInv'
      BY <1>7, LaunchAssumption DEF ProbeReady, RunNamed, RunFails, SetThread, Goto, MayLeave,
         threadVars, Free, Finished, ThreadStates, TypeInv, LaunchTypeOK, ThreadsInStep,
         Launches, Roles, Foreign, NoOne
    <2>2. ThreadsInStep'
      BY <1>7 DEF ProbeReady, RunNamed, RunFails, SetThread, Goto, MayLeave, threadVars, Free,
         Finished, ThreadStates, TypeInv, LaunchTypeOK, ThreadsInStep, Roles
    <2>3. NamedByThread'
      BY <1>7 DEF ProbeReady, RunNamed, RunFails, SetThread, Goto, MayLeave, threadVars, Free,
         Finished, ThreadStates, TypeInv, LaunchTypeOK, ThreadsInStep, NamedByThread,
         Roles, NoOne, Launches
    <2>4. HooksInStep'
      BY <1>7 DEF ProbeReady, RunNamed, RunFails, SetThread, Goto, MayLeave, threadVars, Free,
         Finished, ThreadStates, TypeInv, LaunchTypeOK, ThreadsInStep, HooksInStep, Roles
    <2> QED BY <2>1, <2>2, <2>3, <2>4
  <1>8. ASSUME NEW l \in Launches, ProbeFails(l) PROVE ThreadInv'
    <2>1. TypeInv'
      BY <1>8, LaunchAssumption DEF ProbeFails, RunNamed, RunFails, SetThread, Goto, MayLeave,
         threadVars, Free, Finished, ThreadStates, TypeInv, LaunchTypeOK, ThreadsInStep,
         Launches, Roles, Foreign, NoOne
    <2>2. ThreadsInStep'
      BY <1>8 DEF ProbeFails, RunNamed, RunFails, SetThread, Goto, MayLeave, threadVars, Free,
         Finished, ThreadStates, TypeInv, LaunchTypeOK, ThreadsInStep, Roles
    <2>3. NamedByThread'
      BY <1>8 DEF ProbeFails, RunNamed, RunFails, SetThread, Goto, MayLeave, threadVars, Free,
         Finished, ThreadStates, TypeInv, LaunchTypeOK, ThreadsInStep, NamedByThread,
         Roles, NoOne, Launches
    <2>4. HooksInStep'
      BY <1>8 DEF ProbeFails, RunNamed, RunFails, SetThread, Goto, MayLeave, threadVars, Free,
         Finished, ThreadStates, TypeInv, LaunchTypeOK, ThreadsInStep, HooksInStep, Roles
    <2> QED BY <2>1, <2>2, <2>3, <2>4
  <1>9. ASSUME NEW l \in Launches, WorkerRun(l) PROVE ThreadInv'
    <2>1. TypeInv'
      <3>1. leftover' \in [Launches -> SUBSET Roles]
        BY <1>9, MayLeaveFacts DEF WorkerRun, TypeInv, LaunchTypeOK, Roles
      <3>2. pc' \in [Launches -> PCs]
        BY <1>9, GotoFacts DEF WorkerRun, PCs
      <3>3. \A k \in Launches : pc'[k] = "idle" <=> pc[k] = "idle"
        BY <1>9 DEF WorkerRun, Goto, TypeInv, LaunchTypeOK
      <3> QED BY <1>9, <3>1, <3>2, <3>3 DEF WorkerRun, threadVars, TypeInv, LaunchTypeOK,
                 PCs
    <2>2. ThreadsInStep'
      BY <1>9 DEF WorkerRun, RunNamed, RunFails, SetThread, Goto, MayLeave, threadVars, Free,
         Finished, ThreadStates, TypeInv, LaunchTypeOK, ThreadsInStep, Roles
    <2>3. NamedByThread'
      BY <1>9 DEF WorkerRun, RunNamed, RunFails, SetThread, Goto, MayLeave, threadVars, Free,
         Finished, ThreadStates, TypeInv, LaunchTypeOK, ThreadsInStep, NamedByThread,
         Roles, NoOne, Launches
    <2>4. HooksInStep'
      BY <1>9 DEF WorkerRun, RunNamed, RunFails, SetThread, Goto, MayLeave, threadVars, Free,
         Finished, ThreadStates, TypeInv, LaunchTypeOK, ThreadsInStep, HooksInStep, Roles
    <2> QED BY <2>1, <2>2, <2>3, <2>4
  <1>10. ASSUME NEW l \in Launches, Inspect(l) PROVE ThreadInv'
    <2>1. TypeInv'
      <3>1. leftover' \in [Launches -> SUBSET Roles]
        BY <1>10, MayLeaveFacts DEF Inspect, TypeInv, LaunchTypeOK
      <3>2. pc' \in [Launches -> PCs]
        BY <1>10, GotoFacts DEF Inspect, PCs
      <3>3. \A k \in Launches : pc'[k] = "idle" <=> pc[k] = "idle"
        BY <1>10 DEF Inspect, Goto, TypeInv, LaunchTypeOK
      <3> QED BY <1>10, <3>1, <3>2, <3>3 DEF Inspect, threadVars, TypeInv, LaunchTypeOK, PCs
    <2>2. ThreadsInStep'
      BY <1>10 DEF Inspect, RunNamed, RunFails, SetThread, Goto, MayLeave, threadVars, Free,
         Finished, ThreadStates, TypeInv, LaunchTypeOK, ThreadsInStep, Roles
    <2>3. NamedByThread'
      BY <1>10 DEF Inspect, RunNamed, RunFails, SetThread, Goto, MayLeave, threadVars, Free,
         Finished, ThreadStates, TypeInv, LaunchTypeOK, ThreadsInStep, NamedByThread,
         Roles, NoOne, Launches
    <2>4. HooksInStep'
      BY <1>10 DEF Inspect, RunNamed, RunFails, SetThread, Goto, MayLeave, threadVars, Free,
         Finished, ThreadStates, TypeInv, LaunchTypeOK, ThreadsInStep, HooksInStep, Roles
    <2> QED BY <2>1, <2>2, <2>3, <2>4
  <1>11. ASSUME NEW l \in Launches, Cleanup(l) \/ Cancel(l) \/ LateRemoval(l)
         PROVE  ThreadInv'
    <2>1. /\ named' \in [Roles -> Containers]
          /\ \A q \in Roles : named'[q].by \in {named[q].by, NoOne}
      BY <1>0, <1>11, LaunchAssumption
         DEF Cleanup, Cancel, LateRemoval, RemoveSidecar, Free, Containers, Foreign, NoOne
    <2>2. /\ UNCHANGED <<thread, hooks, handle, deleting, deleted, disturbed>>
          /\ removing' \subseteq Launches
      BY <1>11 DEF Cleanup, Cancel, LateRemoval, TypeInv, LaunchTypeOK
    <2>3. leftover' \in [Launches -> SUBSET Roles]
      <3>1. CASE UNCHANGED leftover
        BY <3>1 DEF TypeInv, LaunchTypeOK
      <3>2. CASE \E R \in SUBSET Roles : MayLeave(l, R)
        BY <3>2, MayLeaveFacts
      <3> QED BY <1>11, <3>1, <3>2 DEF Cleanup, Cancel, LateRemoval, Roles
    <2>4. pc' = pc \/ (Goto(l, "raised") /\ Underway(l))
      BY <1>11 DEF Cleanup, Cancel, LateRemoval, Underway
    <2>5. /\ pc' \in [Launches -> PCs]
          /\ \A k \in Launches :
                pc'[k] = pc[k] \/ (pc'[k] = "raised" /\ pc[k] # "idle")
      BY <2>4, GotoFacts DEF PCs, TypeInv, LaunchTypeOK, Underway
    <2>6. TypeInv'
      BY <2>1, <2>2, <2>3, <2>5 DEF TypeInv, LaunchTypeOK, PCs, Containers
    <2>7. ThreadsInStep'
      <3>1. ASSUME NEW k \in Launches, pc'[k] = "idle" PROVE leftover'[k] = {}
        <4>1. pc[k] = "idle" /\ (k # l \/ leftover' = leftover)
          BY <1>11, <2>5, <3>1 DEF Cleanup, Cancel, LateRemoval, Underway
        <4>2. k # l => leftover'[k] = leftover[k]
          BY <1>11 DEF Cleanup, Cancel, LateRemoval, MayLeave, TypeInv, LaunchTypeOK
        <4> QED BY <2>5, <3>1, <4>1, <4>2 DEF ThreadsInStep
      <3> QED BY <2>2, <2>5, <3>1 DEF ThreadsInStep
    <2>8. NamedByThread' /\ HooksInStep'
      BY <1>0, <2>1, <2>2 DEF NamedByThread, HooksInStep
    <2> QED BY <2>6, <2>7, <2>8
  <1>12. ASSUME NEW l \in Launches, DeleteWorker(l) PROVE ThreadInv'
    <2>1. TypeInv'
      <3>1. named' \in [Roles -> Containers] /\ deleted' = deleted \cup {l}
            /\ deleting' \in {NoOne} \cup deleted'
        BY <1>0, <1>12, LaunchAssumption DEF DeleteWorker, Free, Containers, Foreign,
           NoOne, Roles,
           TypeInv, LaunchTypeOK
      <3>2. disturbed' \subseteq Launches
        BY <1>12 DEF DeleteWorker, TypeInv, LaunchTypeOK
      <3> QED BY <1>12, <3>1, <3>2 DEF DeleteWorker, threadVars, TypeInv, LaunchTypeOK,
                 Containers
    <2>2. ThreadsInStep'
      BY <1>12 DEF DeleteWorker, RunNamed, RunFails, SetThread, Goto, MayLeave, threadVars,
         Free, Finished, ThreadStates, TypeInv, LaunchTypeOK, ThreadsInStep, Roles
    <2>3. NamedByThread'
      BY <1>12 DEF DeleteWorker, RunNamed, RunFails, SetThread, Goto, MayLeave, threadVars,
         Free, Finished, ThreadStates, TypeInv, LaunchTypeOK, ThreadsInStep, NamedByThread,
         Roles, NoOne, Launches
    <2>4. HooksInStep'
      BY <1>12 DEF DeleteWorker, RunNamed, RunFails, SetThread, Goto, MayLeave, threadVars,
         Free, Finished, ThreadStates, TypeInv, LaunchTypeOK, ThreadsInStep, HooksInStep,
         Roles
    <2> QED BY <2>1, <2>2, <2>3, <2>4
  <1>13. ASSUME NEW l \in Launches, DeleteSidecar(l) PROVE ThreadInv'
    <2>1. TypeInv'
      BY <1>13, LaunchAssumption DEF DeleteSidecar, RunNamed, RunFails, SetThread, Goto,
         MayLeave, threadVars, Free, Finished, ThreadStates, TypeInv, LaunchTypeOK,
         ThreadsInStep, Launches, Roles, Foreign, NoOne
    <2>2. ThreadsInStep'
      BY <1>13 DEF DeleteSidecar, RunNamed, RunFails, SetThread, Goto, MayLeave, threadVars,
         Free, Finished, ThreadStates, TypeInv, LaunchTypeOK, ThreadsInStep, Roles
    <2>3. NamedByThread'
      BY <1>13 DEF DeleteSidecar, RunNamed, RunFails, SetThread, Goto, MayLeave, threadVars,
         Free, Finished, ThreadStates, TypeInv, LaunchTypeOK, ThreadsInStep, NamedByThread,
         Roles, NoOne, Launches
    <2>4. HooksInStep'
      BY <1>13 DEF DeleteSidecar, RunNamed, RunFails, SetThread, Goto, MayLeave, threadVars,
         Free, Finished, ThreadStates, TypeInv, LaunchTypeOK, ThreadsInStep, HooksInStep,
         Roles
    <2> QED BY <2>1, <2>2, <2>3, <2>4
  <1>14. ASSUME NEW l \in Launches, HooksEnd(l) PROVE ThreadInv'
    <2>1. TypeInv'
      BY <1>14, LaunchAssumption DEF HooksEnd, RunNamed, RunFails, SetThread, Goto, MayLeave,
         threadVars, Free, Finished, ThreadStates, TypeInv, LaunchTypeOK, ThreadsInStep,
         Launches, Roles, Foreign, NoOne
    <2>2. ThreadsInStep'
      BY <1>14 DEF HooksEnd, RunNamed, RunFails, SetThread, Goto, MayLeave, threadVars, Free,
         Finished, ThreadStates, TypeInv, LaunchTypeOK, ThreadsInStep, Roles
    <2>3. NamedByThread'
      BY <1>14 DEF HooksEnd, RunNamed, RunFails, SetThread, Goto, MayLeave, threadVars, Free,
         Finished, ThreadStates, TypeInv, LaunchTypeOK, ThreadsInStep, NamedByThread,
         Roles, NoOne, Launches
    <2>4. HooksInStep'
      BY <1>14 DEF HooksEnd, RunNamed, RunFails, SetThread, Goto, MayLeave, threadVars, Free,
         Finished, ThreadStates, TypeInv, LaunchTypeOK, ThreadsInStep, HooksInStep, Roles
    <2> QED BY <2>1, <2>2, <2>3, <2>4
  <1>15. ASSUME NEW r \in Roles, ContainerExits(r) PROVE ThreadInv'
    <2>1. TypeInv'
      <3>1. named' \in [Roles -> Containers]
        BY <1>0, <1>15 DEF ContainerExits, Containers
      <3> QED BY <1>15, <3>1 DEF ContainerExits, threadVars, TypeInv, LaunchTypeOK,
                 Containers
    <2>2. ThreadsInStep'
      BY <1>15 DEF ContainerExits, RunNamed, RunFails, SetThread, Goto, MayLeave, threadVars,
         Free, Finished, ThreadStates, TypeInv, LaunchTypeOK, ThreadsInStep, Roles
    <2>3. NamedByThread'
      BY <1>15 DEF ContainerExits, RunNamed, RunFails, SetThread, Goto, MayLeave, threadVars,
         Free, Finished, ThreadStates, TypeInv, LaunchTypeOK, ThreadsInStep, NamedByThread,
         Roles, NoOne, Launches
    <2>4. HooksInStep'
      BY <1>15 DEF ContainerExits, RunNamed, RunFails, SetThread, Goto, MayLeave, threadVars,
         Free, Finished, ThreadStates, TypeInv, LaunchTypeOK, ThreadsInStep, HooksInStep,
         Roles
    <2> QED BY <2>1, <2>2, <2>3, <2>4
  <1>16. CASE UNCHANGED vars
    BY <1>16 DEF vars, threadVars, TypeInv, LaunchTypeOK, ThreadsInStep, NamedByThread,
       HooksInStep
  <1> QED BY <1>3, <1>5, <1>6, <1>7, <1>8, <1>9, <1>10, <1>11, <1>12, <1>13, <1>14, <1>15,
             <1>16 DEF Next, Create

-----------------------------------------------------------------------------
(* A container a launch cannot have left was run to the end by its thread, *)
(* and the launch is on its way to free it.                                *)
CleanInv ==
    \A l \in Launches, r \in Roles :
        r \notin leftover[l] =>
            /\ named[r].by = l => thread[l][r] = "ok"
            /\ pc[l] \in {"cleanup", "raised"} =>
                  \/ thread[l][r] \in {"none", "error"}
                  \/ r = "sidecar" /\ thread[l][r] = "ok"
            /\ pc[l] = "raised" /\ r = "sidecar" => named[r].by # l

LEMMA CleanInit == Init => CleanInv
  BY ThreadInit DEF Init, ThreadInv, NamedByThread, ThreadsInStep, CleanInv, Finished

(* A step that keeps the names and the threads, and takes one launch       *)
(* somewhere it does not have to answer for what it may have left.         *)
LEMMA CleanGoto ==
    ASSUME ThreadInv, CleanInv, NEW l \in Launches,
           \A k \in Launches \ {l} : pc'[k] = pc[k] /\ leftover'[k] = leftover[k],
           leftover[l] \subseteq leftover'[l], UNCHANGED <<named, thread>>,
           \A r \in Roles : r \notin leftover'[l] =>
              \/ pc'[l] \notin {"cleanup", "raised"}
              \/ /\ \/ thread[l][r] \in {"none", "error"}
                    \/ r = "sidecar" /\ thread[l][r] = "ok"
                 /\ pc'[l] = "raised" /\ r = "sidecar" => named[r].by # l
    PROVE  CleanInv'
  <1>1. ASSUME NEW k \in Launches, NEW r \in Roles, r \notin leftover'[k]
        PROVE  /\ named[r].by = k => thread[k][r] = "ok"
               /\ pc'[k] \in {"cleanup", "raised"} =>
                     \/ thread[k][r] \in {"none", "error"}
                     \/ r = "sidecar" /\ thread[k][r] = "ok"
               /\ pc'[k] = "raised" /\ r = "sidecar" => named[r].by # k
    <2>1. r \notin leftover[k]
      BY <1>1
    <2>2. CASE k = l
      BY <1>1, <2>1, <2>2 DEF CleanInv
    <2>3. CASE k # l
      BY <2>1, <2>3 DEF CleanInv
    <2> QED BY <2>2, <2>3
  <1> QED BY <1>1 DEF CleanInv

(* A step that only frees names. *)
LEMMA CleanFree ==
    ASSUME CleanInv, \A q \in Roles : named'[q].by \in {named[q].by, NoOne},
           UNCHANGED <<pc, thread, leftover>>
    PROVE  CleanInv'
  <1>1. NoOne \notin Launches
    BY DEF Launches, NoOne
  <1> QED BY <1>1 DEF CleanInv

LEMMA CleanNext == ThreadInv /\ CleanInv /\ [Next]_vars => CleanInv'
  <1> SUFFICES ASSUME ThreadInv, CleanInv, [Next]_vars PROVE CleanInv'
    OBVIOUS
  <1>0. NoOne \notin Launches /\ TypeInv /\ named \in [Roles -> Containers]
    BY DEF Launches, NoOne, ThreadInv, TypeInv, LaunchTypeOK, Containers
  <1>t. pc \in [Launches -> PCs] /\ thread \in [Launches -> [Roles -> ThreadStates]]
    BY <1>0 DEF TypeInv, LaunchTypeOK, PCs
  <1>1. ASSUME NEW l \in Launches, NEW r \in Roles, Thread(l, r) PROVE CleanInv'
    <2>1. thread[l][r] \in {"run", "get", "remove", "rerun"} /\ UNCHANGED pc
      BY <1>1 DEF Thread, RunContainer, GetConflicting, RemoveConflicting, RerunContainer
    <2>2. named[r].by # l /\ (r \notin leftover[l] => pc[l] \notin {"cleanup", "raised"})
      BY <2>1 DEF ThreadInv, NamedByThread, CleanInv, Finished
    <2>3. /\ \E s \in ThreadStates :
                SetThread(l, r, s) /\ (named'[r].by = l => s = "ok" \/ r \in leftover'[l])
          /\ \A q \in Roles \ {r} : named'[q] = named[q]
          /\ named'[r].by \in {named[r].by, NoOne, l}
          /\ leftover[l] \subseteq leftover'[l]
          /\ \A k \in Launches \ {l} : leftover'[k] = leftover[k]
      <3>1. CASE RunNamed(l, r)
        BY <1>0, <3>1, RunNamedFacts DEF Finished, ThreadStates
      <3>2. CASE ~RunNamed(l, r)
        BY <1>0, <1>1, <2>2, <3>2 DEF Thread, RunContainer, GetConflicting,
           RemoveConflicting, RerunContainer, RunFails, ThreadStates, Finished, Free
      <3> QED BY <3>1, <3>2
    <2>4. /\ \A k \in Launches, q \in Roles : k # l \/ q # r => thread'[k][q] = thread[k][q]
          /\ named'[r].by = l => thread'[l][r] = "ok" \/ r \in leftover'[l]
      BY <1>0, <2>3, SetThreadFacts
    <2>5. ASSUME NEW k \in Launches, NEW q \in Roles, q \notin leftover'[k]
          PROVE  /\ named'[q].by = k => thread'[k][q] = "ok"
                 /\ pc[k] \in {"cleanup", "raised"} =>
                       \/ thread'[k][q] \in {"none", "error"}
                       \/ q = "sidecar" /\ thread'[k][q] = "ok"
                 /\ pc[k] = "raised" /\ q = "sidecar" => named'[q].by # k
      <3>1. q \notin leftover[k]
        BY <2>3, <2>5
      <3>2. CASE k = l /\ q = r
        BY <2>2, <2>4, <2>5, <3>1, <3>2
      <3>3. CASE ~(k = l /\ q = r)
        <4>1. thread'[k][q] = thread[k][q] /\ (named'[q].by = k => named[q].by = k)
          BY <1>0, <2>3, <2>4, <3>3
        <4> QED BY <3>1, <4>1 DEF CleanInv
      <3> QED BY <3>2, <3>3
    <2> QED BY <2>1, <2>5 DEF CleanInv
  <1>2. ASSUME NEW l \in Launches, Begin(l) PROVE CleanInv'
    <2>1. /\ pc[l] = "idle" /\ pc'[l] \in {"run_sidecar", "run_worker"}
          /\ \A k \in Launches \ {l} : pc'[k] = pc[k] /\ thread'[k] = thread[k]
          /\ UNCHANGED <<named, leftover>>
      BY <1>2, <1>t DEF Begin, Goto, SetThread
    <2>2. \A r \in Roles : named[r].by # l
      BY <2>1 DEF ThreadInv, ThreadsInStep, NamedByThread, Finished
    <2> QED BY <2>1, <2>2 DEF CleanInv
  <1>3. ASSUME NEW l \in Launches, SidecarRun(l) PROVE CleanInv'
    <2>1. /\ UNCHANGED <<named, thread>> /\ thread[l]["worker"] = "none"
          /\ \A k \in Launches \ {l} : pc'[k] = pc[k] /\ leftover'[k] = leftover[k]
      BY <1>3 DEF SidecarRun, Goto, MayLeave, threadVars, ThreadInv, TypeInv, LaunchTypeOK,
         ThreadsInStep
    <2>2. /\ leftover[l] \subseteq leftover'[l]
          /\ \/ pc'[l] = "probe"
             \/ pc'[l] = "raised" /\ thread[l]["sidecar"] = "error"
             \/ "sidecar" \in leftover'[l]
      BY <1>0, <1>3, MayLeaveFacts, GotoFacts DEF SidecarRun, PCs, Roles
    <2>3. "sidecar" \notin leftover'[l] /\ thread[l]["sidecar"] = "error" =>
             named["sidecar"].by # l
      BY <2>2 DEF CleanInv, Roles
    <2> QED BY <2>1, <2>2, <2>3, CleanGoto DEF Roles
  <1>4. ASSUME NEW l \in Launches, ProbeReady(l) PROVE CleanInv'
    <2>1. /\ pc'[l] = "run_worker" /\ thread'[l]["sidecar"] = thread[l]["sidecar"]
          /\ \A k \in Launches \ {l} : pc'[k] = pc[k] /\ thread'[k] = thread[k]
          /\ UNCHANGED <<named, leftover>> /\ thread[l]["worker"] = "none"
      BY <1>4, <1>t DEF ProbeReady, Goto, SetThread, ThreadInv, ThreadsInStep, Roles
    <2>2. named["worker"].by # l
      BY <2>1 DEF ThreadInv, NamedByThread, Finished, Roles
    <2> QED BY <2>1, <2>2 DEF CleanInv, Roles
  <1>5. ASSUME NEW l \in Launches, ProbeFails(l) PROVE CleanInv'
    <2>1. /\ UNCHANGED <<named, thread, leftover>> /\ pc'[l] = "cleanup"
          /\ \A k \in Launches \ {l} : pc'[k] = pc[k]
          /\ thread[l]["worker"] = "none" /\ thread[l]["sidecar"] = "ok"
      BY <1>5, <1>t DEF ProbeFails, Goto, threadVars, ThreadInv, ThreadsInStep
    <2> QED BY <2>1, CleanGoto DEF Roles
  <1>6. ASSUME NEW l \in Launches, WorkerRun(l) PROVE CleanInv'
    <2>1. /\ UNCHANGED <<named, thread>> /\ thread[l]["sidecar"] \in {"none", "ok"}
          /\ \A k \in Launches \ {l} : pc'[k] = pc[k] /\ leftover'[k] = leftover[k]
      BY <1>6 DEF WorkerRun, Goto, MayLeave, threadVars, ThreadInv, TypeInv, LaunchTypeOK,
         ThreadsInStep
    <2>2. /\ leftover[l] \subseteq leftover'[l] /\ pc'[l] \in {"inspect", "cleanup"}
          /\ \/ pc'[l] = "inspect" \/ thread[l]["worker"] = "error"
             \/ "worker" \in leftover'[l]
      BY <1>0, <1>6, MayLeaveFacts, GotoFacts DEF WorkerRun, PCs, Roles
    <2> QED BY <2>1, <2>2, CleanGoto DEF Roles
  <1>7. ASSUME NEW l \in Launches, Inspect(l) \/ Cancel(l) PROVE CleanInv'
    <2>1. /\ UNCHANGED <<named, thread>>
          /\ \A k \in Launches \ {l} : pc'[k] = pc[k] /\ leftover'[k] = leftover[k]
      BY <1>7 DEF Inspect, Cancel, Goto, MayLeave, threadVars, ThreadInv, TypeInv,
         LaunchTypeOK
    <2>2. /\ leftover[l] \subseteq leftover'[l]
          /\ pc'[l] = "returned" \/ Roles \subseteq leftover'[l]
      BY <1>0, <1>7, MayLeaveFacts, GotoFacts DEF Inspect, Cancel, PCs
    <2> QED BY <2>1, <2>2, CleanGoto
  <1>8. ASSUME NEW l \in Launches, Cleanup(l) PROVE CleanInv'
    <2>1. /\ UNCHANGED thread /\ pc[l] = "cleanup" /\ pc'[l] = "raised"
          /\ \A k \in Launches \ {l} : pc'[k] = pc[k] /\ leftover'[k] = leftover[k]
      BY <1>8, <1>t DEF Cleanup, Goto, MayLeave, TypeInv, LaunchTypeOK, ThreadInv
    <2>2. /\ leftover[l] \subseteq leftover'[l]
          /\ "sidecar" \in leftover'[l] \/ named'["sidecar"].by # l
      BY <1>0, <1>8, MayLeaveFacts DEF Cleanup, RemoveSidecar, Free, Roles
    <2>3. \A q \in Roles : named'[q].by \in {named[q].by, NoOne}
      BY <1>0, <1>8 DEF Cleanup, RemoveSidecar, Free
    <2>4. ASSUME NEW k \in Launches, NEW q \in Roles, q \notin leftover'[k]
          PROVE  /\ named'[q].by = k => thread'[k][q] = "ok"
                 /\ pc'[k] \in {"cleanup", "raised"} =>
                       \/ thread'[k][q] \in {"none", "error"}
                       \/ q = "sidecar" /\ thread'[k][q] = "ok"
                 /\ pc'[k] = "raised" /\ q = "sidecar" => named'[q].by # k
      <3>1. q \notin leftover[k] /\ (named'[q].by = k => named[q].by = k)
        BY <1>0, <2>1, <2>2, <2>3, <2>4
      <3> QED BY <2>1, <2>2, <2>4, <3>1 DEF CleanInv
    <2> QED BY <2>4 DEF CleanInv
  <1>9. ASSUME NEW l \in Launches, LateRemoval(l) \/ DeleteWorker(l) \/ DeleteSidecar(l)
        PROVE  CleanInv'
    <2>1. \A q \in Roles : named'[q].by \in {named[q].by, NoOne}
      BY <1>0, <1>9
         DEF LateRemoval, RemoveSidecar, DeleteWorker, DeleteSidecar, Free, Roles
    <2> QED BY <1>9, <2>1, CleanFree DEF LateRemoval, DeleteWorker, DeleteSidecar, threadVars
  <1>10. ASSUME NEW l \in Launches, HooksEnd(l) PROVE CleanInv'
    BY <1>10, CleanFree DEF HooksEnd, threadVars
  <1>11. ASSUME NEW r \in Roles, ContainerExits(r) PROVE CleanInv'
    <2>1. \A q \in Roles : named'[q].by = named[q].by
      BY <1>0, <1>11 DEF ContainerExits, Containers
    <2> QED BY <1>11, <2>1, CleanFree DEF ContainerExits, threadVars
  <1>12. CASE UNCHANGED vars
    BY <1>12, CleanFree DEF vars, threadVars
  <1> QED BY <1>1, <1>2, <1>3, <1>4, <1>5, <1>6, <1>7, <1>8, <1>9, <1>10, <1>11, <1>12
          DEF Next, Create

-----------------------------------------------------------------------------
(* Nothing keeps launches apart: what begins, or is deleted, disturbs      *)
(* every other launch, so that one which is not disturbed is alone.        *)
Undisturbed(l) == l \notin disturbed /\ pc[l] \notin {"idle", "raised"}

DeletedBegun ==
    /\ \A l \in deleted : pc[l] # "idle" /\ l \in disturbed
    /\ deleting # NoOne => \A l \in Launches : pc[l] # "idle" => l \in disturbed

(* The thread of a clean-up that was given up only removes the sidecar of  *)
(* a launch that has failed.                                               *)
RemovingFailed == \A l \in removing : pc[l] = "raised"

Alone ==
    \A l \in Launches :
        Undisturbed(l) =>
            /\ \A k \in Launches \ {l} : ~Underway(k) /\ ~Working(k)
            /\ \A r \in Roles : thread[l][r] = "ok" => named[r].by = l

OwnInv == ThreadInv /\ DeletedBegun /\ RemovingFailed /\ Alone

LEMMA OwnInit == Init => OwnInv
  <1> SUFFICES ASSUME Init PROVE OwnInv
    OBVIOUS
  <1>1. ThreadInv
    BY ThreadInit
  <1>2. DeletedBegun /\ RemovingFailed /\ Alone
    BY DEF Init, DeletedBegun, RemovingFailed, Alone, Undisturbed
  <1> QED BY <1>1, <1>2 DEF OwnInv

(* A step of a launch's coroutine neither begins nor revives a launch. *)
LEMMA CreateFacts ==
    ASSUME TypeInv, NEW l \in Launches, Create(l) \/ Cancel(l)
    PROVE  /\ pc[l] \notin {"idle", "returned", "raised"} /\ pc'[l] # "idle"
           /\ \A k \in Launches \ {l} : pc'[k] = pc[k]
           /\ UNCHANGED <<deleting, deleted, disturbed>>
           /\ \A r \in Roles : named'[r] = named[r] \/ (pc'[l] = "raised" /\ named[r].by = l)
           /\ \A k \in Launches \ {l} : thread'[k] = thread[k]
           /\ \A r \in Roles : thread'[l][r] = "ok" => thread[l][r] = "ok"
           /\ removing' = removing \/ (pc'[l] = "raised" /\ removing' = removing \cup {l})
  <1>1. CASE SidecarRun(l)
    BY <1>1 DEF SidecarRun, Goto, SetThread, threadVars, TypeInv, LaunchTypeOK, Roles
  <1>2. CASE ProbeReady(l)
    BY <1>2 DEF ProbeReady, Goto, SetThread, threadVars, TypeInv, LaunchTypeOK, Roles
  <1>3. CASE ProbeFails(l)
    BY <1>3 DEF ProbeFails, Goto, SetThread, threadVars, TypeInv, LaunchTypeOK, Roles
  <1>4. CASE WorkerRun(l)
    BY <1>4 DEF WorkerRun, Goto, SetThread, threadVars, TypeInv, LaunchTypeOK, Roles
  <1>5. CASE Inspect(l)
    BY <1>5 DEF Inspect, Goto, SetThread, threadVars, TypeInv, LaunchTypeOK, Roles
  <1>6. CASE Cleanup(l)
    BY <1>6 DEF Cleanup, RemoveSidecar, Goto, TypeInv, LaunchTypeOK, Roles
  <1>7. CASE Cancel(l)
    BY <1>7 DEF Cancel, Underway, Goto, TypeInv, LaunchTypeOK
  <1> QED BY <1>1, <1>2, <1>3, <1>4, <1>5, <1>6, <1>7 DEF Create

LEMMA OwnNext == OwnInv /\ [Next]_vars => OwnInv'
  <1> SUFFICES ASSUME OwnInv, [Next]_vars PROVE OwnInv'
    OBVIOUS
  <1> USE DEF OwnInv
  <1>0. ThreadInv' /\ TypeInv /\ NoOne \notin Launches
    BY ThreadNext DEF ThreadInv, Launches, NoOne
  <1>t. /\ pc \in [Launches -> PCs] /\ thread \in [Launches -> [Roles -> ThreadStates]]
        /\ {deleted, disturbed, removing} \subseteq SUBSET Launches
        /\ named \in [Roles -> Containers]
    BY <1>0 DEF TypeInv, LaunchTypeOK, PCs, Containers
  <1>1. ASSUME NEW l \in Launches, Begin(l) PROVE OwnInv'
    <2>1. /\ pc[l] = "idle" /\ deleting = NoOne
          /\ UNCHANGED <<named, removing, deleting, deleted>>
          /\ pc'[l] \in {"run_sidecar", "run_worker"}
          /\ \A k \in Launches \ {l} : pc'[k] = pc[k] /\ thread'[k] = thread[k]
          /\ disturbed \subseteq disturbed'
          /\ \A k \in Launches : Standing(k) => k \in disturbed'
          /\ (\E k \in Launches \ {l} : Underway(k) \/ Working(k)) => l \in disturbed'
      BY <1>1, <1>t DEF Begin, Goto, SetThread
    <2>2. \A r \in Roles : thread'[l][r] # "ok"
      BY <1>1, <1>t DEF Begin, SetThread, ThreadInv, ThreadsInStep
    <2>3. DeletedBegun' /\ RemovingFailed'
      BY <1>t, <2>1 DEF DeletedBegun, RemovingFailed
    <2>4. Alone'
      <3>1. ASSUME NEW k \in Launches, k # l PROVE ~Undisturbed(k)'
        BY <2>1, <3>1 DEF Undisturbed, Standing, Underway
      <3>2. ASSUME Undisturbed(l)', NEW k \in Launches \ {l}
            PROVE  ~Underway(k)' /\ ~Working(k)'
        BY <2>1, <3>2 DEF Undisturbed, Underway, Working
      <3> QED BY <2>2, <3>1, <3>2 DEF Alone
    <2> QED BY <1>0, <2>3, <2>4
  <1>2. ASSUME NEW l \in Launches, Create(l) \/ Cancel(l) PROVE OwnInv'
    <2>1. /\ pc[l] \notin {"idle", "returned", "raised"} /\ pc'[l] # "idle"
          /\ \A k \in Launches \ {l} : pc'[k] = pc[k]
          /\ UNCHANGED <<deleting, deleted, disturbed>>
          /\ \A r \in Roles : named'[r] = named[r] \/ (pc'[l] = "raised" /\ named[r].by = l)
          /\ \A k \in Launches \ {l} : thread'[k] = thread[k]
          /\ \A r \in Roles : thread'[l][r] = "ok" => thread[l][r] = "ok"
          /\ removing' = removing \/ (pc'[l] = "raised" /\ removing' = removing \cup {l})
      BY <1>0, <1>2, CreateFacts
    <2>2. DeletedBegun' /\ RemovingFailed'
      BY <1>t, <2>1 DEF DeletedBegun, RemovingFailed
    <2>3. Underway(l)
      BY <2>1 DEF Underway
    <2>4. Alone'
      <3>1. ASSUME NEW k \in Launches, k # l PROVE ~Undisturbed(k)'
        <4>1. ~Undisturbed(k)
          BY <2>3, <3>1 DEF Alone
        <4> QED BY <2>1, <3>1, <4>1 DEF Undisturbed
      <3>2. ASSUME Undisturbed(l)'
            PROVE  /\ \A k \in Launches \ {l} : ~Underway(k)' /\ ~Working(k)'
                   /\ \A r \in Roles : thread'[l][r] = "ok" => named'[r].by = l
        <4>1. Undisturbed(l)
          BY <2>1, <3>2 DEF Undisturbed
        <4> QED BY <2>1, <3>2, <4>1 DEF Alone, Undisturbed, Underway, Working
      <3> QED BY <3>1, <3>2 DEF Alone
    <2> QED BY <1>0, <2>2, <2>4
  <1>3. ASSUME NEW l \in Launches, NEW r \in Roles, Thread(l, r) PROVE OwnInv'
    <2>1. /\ thread[l][r] \in {"run", "get", "remove", "rerun"}
          /\ UNCHANGED <<pc, removing, deleting, deleted, disturbed>>
      BY <1>3 DEF Thread, RunContainer, GetConflicting, RemoveConflicting, RerunContainer
    <2>2. Working(l)
      BY <2>1 DEF Working, Finished
    <2>3. DeletedBegun' /\ RemovingFailed'
      BY <2>1 DEF DeletedBegun, RemovingFailed
    <2>4. \E s \in ThreadStates :
             /\ SetThread(l, r, s) /\ (s = "ok" => named'[r].by = l)
             /\ \A q \in Roles \ {r} : named'[q] = named[q]
      <3>1. CASE RunNamed(l, r)
        BY <1>0, <3>1, RunNamedFacts DEF Finished, ThreadStates
      <3>2. CASE ~RunNamed(l, r)
        BY <1>3, <1>t, <3>2 DEF Thread, RunContainer, GetConflicting, RemoveConflicting,
           RerunContainer, RunFails, ThreadStates, Finished
      <3> QED BY <3>1, <3>2
    <2>5. /\ \A k \in Launches \ {l} : thread'[k] = thread[k]
          /\ thread'[l][r] = "ok" => named'[r].by = l
          /\ \A q \in Roles \ {r} : thread'[l][q] = thread[l][q] /\ named'[q] = named[q]
      BY <1>t, <2>4 DEF SetThread
    <2>6. Alone'
      <3>1. ASSUME NEW k \in Launches, k # l PROVE ~Undisturbed(k)'
        BY <2>1, <2>2, <3>1 DEF Alone, Undisturbed
      <3>2. ASSUME Undisturbed(l)'
            PROVE  /\ \A k \in Launches \ {l} : ~Underway(k)' /\ ~Working(k)'
                   /\ \A q \in Roles : thread'[l][q] = "ok" => named'[q].by = l
        BY <2>1, <2>5, <3>2 DEF Alone, Undisturbed, Underway, Working
      <3> QED BY <3>1, <3>2 DEF Alone
    <2> QED BY <1>0, <2>3, <2>6
  <1>4. ASSUME NEW l \in Launches, DeleteWorker(l) PROVE OwnInv'
    <2>1. /\ pc[l] # "idle" /\ deleted' = deleted \cup {l} /\ UNCHANGED <<pc, thread, removing>>
          /\ disturbed' = disturbed \cup {k \in Launches : pc[k] # "idle"}
      BY <1>4 DEF DeleteWorker, threadVars
    <2>2. DeletedBegun' /\ RemovingFailed'
      BY <2>1 DEF DeletedBegun, RemovingFailed
    <2>3. Alone'
      BY <2>1 DEF Alone, Undisturbed
    <2> QED BY <1>0, <2>2, <2>3
  <1>5. ASSUME NEW l \in Launches, DeleteSidecar(l) PROVE OwnInv'
    <2>1. deleting # NoOne
      BY <1>0, <1>5 DEF DeleteSidecar
    <2>2. DeletedBegun' /\ RemovingFailed'
      BY <1>5 DEF DeleteSidecar, DeletedBegun, RemovingFailed, threadVars
    <2>3. Alone'
      BY <1>5, <2>1 DEF DeleteSidecar, DeletedBegun, Alone, Undisturbed
    <2> QED BY <1>0, <2>2, <2>3
  <1>6. ASSUME NEW l \in Launches, HooksEnd(l) PROVE OwnInv'
    BY <1>0, <1>6 DEF HooksEnd, threadVars, DeletedBegun, RemovingFailed, Alone, Undisturbed,
       Underway,
       Working
  <1>7. ASSUME NEW r \in Roles, ContainerExits(r) PROVE OwnInv'
    <2>1. \A q \in Roles : named'[q].by = named[q].by
      BY <1>7, <1>t DEF ContainerExits, Containers
    <2> QED BY <1>0, <1>7, <2>1 DEF ContainerExits, threadVars, DeletedBegun, RemovingFailed, Alone,
               Undisturbed, Underway, Working
  <1>8. ASSUME NEW l \in Launches, LateRemoval(l) PROVE OwnInv'
    <2>1. /\ pc[l] = "raised" /\ removing' \subseteq removing
          /\ UNCHANGED <<pc, thread, deleting, deleted, disturbed>>
          /\ \A r \in Roles : named'[r] = named[r] \/ named[r].by = l
      BY <1>8, <1>t DEF LateRemoval, RemoveSidecar, RemovingFailed
    <2>2. DeletedBegun' /\ RemovingFailed'
      BY <2>1 DEF DeletedBegun, RemovingFailed
    <2>3. \A k \in Launches, r \in Roles :
             Undisturbed(k) /\ named[r].by = k => named'[r].by = k
      BY <2>1 DEF Undisturbed
    <2>4. Alone'
      BY <2>1, <2>3 DEF Alone, Undisturbed, Underway, Working
    <2> QED BY <1>0, <2>2, <2>4
  <1>9. CASE UNCHANGED vars
    BY <1>0, <1>9 DEF vars, threadVars, DeletedBegun, RemovingFailed, Alone, Undisturbed, Underway,
       Working
  <1> QED BY <1>1, <1>2, <1>3, <1>4, <1>5, <1>6, <1>7, <1>8, <1>9 DEF Next

-----------------------------------------------------------------------------
(* The variables keep their types; a worker's thread is only started by a  *)
(* launch without a sidecar or with one that runs.                         *)
THEOREM LaunchTypeCorrect == Spec => []LaunchTypeOK
  <1>1. ThreadInv => LaunchTypeOK
    BY DEF ThreadInv, TypeInv
  <1> QED BY <1>1, ThreadInit, ThreadNext, PTL DEF Spec

(* No worker of a launch with a sidecar is run before the sidecar's start  *)
(* hooks have succeeded, whatever threads were given up and whatever other *)
(* launches do (create_execution, _wait_for_sidecar_ready).                *)
THEOREM HooksFirst == Spec => []HooksBeforeWorker
  <1>1. ThreadInv => HooksBeforeWorker
    BY DEF ThreadInv, NamedByThread, HooksInStep, HooksBeforeWorker, Roles, Finished
  <1> QED BY <1>1, ThreadInit, ThreadNext, PTL DEF Spec

(* A failed or cancelled launch leaves no container but one it may have    *)
(* left: its thread was given up, the container was created and not        *)
(* started, the sidecar could not be stopped, the worker could not be      *)
(* inspected, or CancelledError passed every handler (create_execution,    *)
(* _stop_sidecars_async).                                                  *)
THEOREM FailedLaunchCleans == Spec => []FailedLaunchIsClean
  <1>1. ThreadInv /\ CleanInv => FailedLaunchIsClean
    BY DEF CleanInv, FailedLaunchIsClean, Roles
  <1>2. Init => ThreadInv /\ CleanInv
    BY ThreadInit, CleanInit
  <1>3. ThreadInv /\ CleanInv /\ [Next]_vars => (ThreadInv /\ CleanInv)'
    BY ThreadNext, CleanNext
  <1> QED BY <1>1, <1>2, <1>3, PTL DEF Spec

(* A launch that has returned has its own containers under the session's   *)
(* names, whatever failed, cancelled or undeleted launches left there,     *)
(* unless it was disturbed: another one or its thread was at work when it  *)
(* began, began since, or an execution was deleted                         *)
(* (_run_container_with_conflict_retry).                                   *)
THEOREM LaunchOwnsContainers == Spec => []OwnContainers
  <1>1. ASSUME OwnInv PROVE OwnContainers
    <2>1. SUFFICES ASSUME NEW l \in Launches, pc[l] = "returned", l \notin disturbed
                   PROVE  /\ named["worker"].by = l
                          /\ thread[l]["sidecar"] # "none" => named["sidecar"].by = l
      BY DEF OwnContainers
    <2>2. Undisturbed(l)
      BY <2>1 DEF Undisturbed
    <2>3. thread[l]["worker"] = "ok" /\ thread[l]["sidecar"] \in {"none", "ok"}
      BY <1>1, <2>1 DEF OwnInv, ThreadInv, TypeInv, LaunchTypeOK, ThreadsInStep
    <2> QED BY <1>1, <2>2, <2>3 DEF OwnInv, Alone, Roles
  <1> QED BY <1>1, OwnInit, OwnNext, PTL DEF Spec

(* No launch removes a container of another session that has a name it     *)
(* wants (_remove_managed_container compares the labels).                  *)
THEOREM ForeignContainersSpared == Spec => ForeignSpared
  <1> DEFINE Spared ==
        \A r \in Roles :
          named[r].by = Foreign /\ named'[r].by # Foreign =>
             \E l \in Launches : l \notin deleted /\ l \in deleted'
  <1>1. ASSUME ThreadInv, Next PROVE Spared
    <2>1. /\ named \in [Roles -> Containers] /\ Foreign \notin Launches \cup {NoOne}
          /\ handle \in [Launches -> Launches \cup {NoOne}]
      BY <1>1, LaunchAssumption DEF ThreadInv, TypeInv, LaunchTypeOK, Containers, Foreign,
         Launches, NoOne
    <2>2. ASSUME NEW l \in Launches, NEW r \in Roles, Thread(l, r) PROVE Spared
      <3>1. CASE RunNamed(l, r) /\ named[r] = Free
        BY <1>1, <2>1, <3>1, RunNamedFacts DEF ThreadInv, Free
      <3>2. CASE UNCHANGED named
        BY <3>2
      <3>3. CASE RemoveConflicting(l, r)
        BY <2>1, <3>3 DEF RemoveConflicting
      <3> QED BY <2>2, <3>1, <3>2, <3>3 DEF Thread, RunContainer, GetConflicting,
                 RerunContainer,
                 RunFails
    <2>3. ASSUME NEW l \in Launches, Create(l) \/ Cancel(l) PROVE Spared
      BY <1>1, <2>1, <2>3, CreateFacts DEF ThreadInv
    <2>4. ASSUME NEW l \in Launches, DeleteWorker(l) PROVE Spared
      BY <2>4 DEF DeleteWorker
    <2>5. ASSUME NEW l \in Launches, DeleteSidecar(l) PROVE Spared
      BY <2>1, <2>5 DEF DeleteSidecar, Roles
    <2>6. ASSUME NEW r \in Roles, ContainerExits(r) PROVE Spared
      BY <2>1, <2>6 DEF ContainerExits, Containers
    <2>7. ASSUME NEW l \in Launches, Begin(l) \/ HooksEnd(l) PROVE Spared
      BY <2>7 DEF Begin, HooksEnd
    <2>8. ASSUME NEW l \in Launches, LateRemoval(l) PROVE Spared
      BY <2>1, <2>8 DEF LateRemoval, RemoveSidecar
    <2> QED BY <1>1, <2>2, <2>3, <2>4, <2>5, <2>6, <2>7, <2>8 DEF Next
  <1>2. ThreadInv /\ [Next]_vars => [Spared]_vars
    BY <1>1
  <1> QED BY <1>2, ThreadInit, ThreadNext, PTL DEF Spec, ForeignSpared
=============================================================================
