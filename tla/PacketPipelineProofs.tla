------------------------- MODULE PacketPipelineProofs -------------------------
(***************************************************************************)
(* Proofs about PacketPipeline, for every number of plugins, packets and   *)
(* sessions: its invariants, and that it implements OrderedDelivery.  The  *)
(* facts need each other: size stays a natural number because a worker     *)
(* that decrements it has seen it positive, and it has because it is the   *)
(* only worker.                                                            *)
(***************************************************************************)
EXTENDS PacketDelivery, TLAPS

(* The monitor of packetQueue is held by exactly the task inside run().    *)
LockInv ==
  \A p \in Plugins, k \in Packets : InRun(p, k) <=> queueLock[p] = k

(* A node that is being removed is a packet, never the sentinel.           *)
TakenInv ==
  \A p \in Plugins, k \in Packets :
    task[p][k] \in {"unlink", "readSize", "writeSize"} => first[p] \in Packets

(* A packet's task at a plugin is submitted only when the delivery gets    *)
(* there: execute never touches a task that already runs.                  *)
FreshInv ==
  /\ main \in Sending => \A p \in Plugins : p >= target => task[p][produced] = "none"
  /\ \A p \in Plugins, k \in Packets : k > produced => task[p][k] = "none"

(* While the service runs its pool is open, and so it is during a delivery.*)
PoolInv == (isRunning => pool = "open") /\ (main \in Sending => isRunning)

PipelineInv == TypeOK /\ LockInv /\ TakenInv /\ SizePositive /\ FreshInv /\ PoolInv

(* The holder of the monitor is the only task in run().                    *)
LEMMA LockImpliesOneWorker == LockInv => OneWorker
BY DEF LockInv, OneWorker

(* The initial state satisfies the inductive invariant.                    *)
LEMMA InitPipelineInv == Init => PipelineInv
<1> SUFFICES ASSUME Init PROVE PipelineInv
  OBVIOUS
<1> USE PipelineAssumption DEF Plugins, Packets, Nodes, Void, NoTask
<1>1. ServiceTypeOK
  <2>1. isRunning \in BOOLEAN
    BY Zenon DEF Init
  <2> QED BY <2>1 DEF Init, ServiceTypeOK
<1>2. SendTypeOK
  BY DEF Init, SendTypeOK, Sending
<1>3. ListTypeOK
  BY DEF Init, ListTypeOK
<1>4. TaskTypeOK
  BY DEF Init, TaskTypeOK, TaskStates
<1>5. HistoryTypeOK
  BY DEF Init, HistoryTypeOK
<1>6. LockInv /\ TakenInv
  BY DEF Init, LockInv, TakenInv, InRun
<1>7. SizePositive /\ FreshInv /\ PoolInv
  BY DEF Init, SizePositive, FreshInv, PoolInv, Sending
<1> QED
  BY <1>1, <1>2, <1>3, <1>4, <1>5, <1>6, <1>7 DEF PipelineInv, TypeOK

(* A step that leaves the tasks alone and lowers no size preserves what is *)
(* said of the tasks.                                                      *)
LEMMA TasksUntouched ==
  ASSUME PipelineInv, UNCHANGED taskVars,
         \A p \in Plugins : size[p] > 0 => size'[p] > 0
  PROVE  TaskTypeOK' /\ LockInv' /\ TakenInv' /\ SizePositive'
<1>1. TaskTypeOK'
  BY DEF PipelineInv, TypeOK, TaskTypeOK, taskVars
<1>2. LockInv' /\ TakenInv'
  BY DEF PipelineInv, LockInv, TakenInv, InRun, taskVars
<1>3. SizePositive'
  BY DEF PipelineInv, SizePositive, taskVars
<1> QED BY <1>1, <1>2, <1>3

(* Starting and stopping touch neither the lists nor the tasks.            *)
LEMMA ServicePipelineInv ==
  ASSUME PipelineInv, OnStart \/ OnDestroy \/ Awaited
  PROVE  PipelineInv'
<1> USE DEF PipelineInv, TypeOK, OnStart, OnDestroy, Awaited, MainAt
<1>1. isRunning' \in BOOLEAN
  BY Zenon DEF ServiceTypeOK, serviceVars
<1>2. ServiceTypeOK' /\ SendTypeOK'
  BY <1>1, PipelineAssumption DEF ServiceTypeOK, SendTypeOK, Sending, serviceVars, sendVars
<1>3. UNCHANGED <<produced, target, listVars, taskVars, history>>
  BY DEF sendVars
<1>4. FreshInv' /\ PoolInv' /\ ListTypeOK' /\ HistoryTypeOK'
  BY <1>3 DEF FreshInv, PoolInv, Sending, ListTypeOK, HistoryTypeOK, listVars, taskVars,
     history, serviceVars
<1> QED BY <1>2, <1>3, <1>4, TasksUntouched DEF listVars

(* InputPlugin.write: the new packet has no task.                          *)
LEMMA WritePipelineInv ==
  ASSUME PipelineInv, Write
  PROVE  PipelineInv'
<1> USE DEF PipelineInv, TypeOK, Write, MainAt
<1>1. produced \in Nat /\ produced' = produced + 1 /\ produced' \in Packets
  BY PipelineAssumption DEF SendTypeOK, Packets
<1>2. SendTypeOK' /\ ServiceTypeOK'
  BY <1>1, PipelineAssumption DEF SendTypeOK, ServiceTypeOK, serviceVars, Plugins,
     Packets, Sending
<1>3. FreshInv' /\ PoolInv'
  BY <1>1 DEF FreshInv, PoolInv, Sending, serviceVars, taskVars, Packets
<1>4. ListTypeOK' /\ HistoryTypeOK'
  BY DEF ListTypeOK, HistoryTypeOK, listVars, history
<1> QED BY <1>2, <1>3, <1>4, TasksUntouched DEF listVars

(* addLast changes the links, and its size++ leaves the size positive,     *)
(* whatever it overwrites.                                                 *)
LEMMA AddPipelineInv ==
  ASSUME PipelineInv, AddRead \/ AddEnter \/ AddLink \/ AddReadSize \/ AddWriteSize
  PROVE  PipelineInv'
<1> USE DEF PipelineInv, TypeOK, MainAt
<1>1. /\ UNCHANGED <<serviceVars, produced, target, taskVars>>
      /\ main \in Sending /\ main' \in Sending
  BY DEF AddRead, AddEnter, AddLink, AddReadSize, AddWriteSize, sendVars, Sending
<1>2. SendTypeOK' /\ ListTypeOK' /\ HistoryTypeOK'
  <2>0. produced \in Packets /\ target \in Plugins /\ SendTypeOK
    BY <1>1 DEF SendTypeOK
  <2>1. CASE AddRead
    BY <1>1, <2>0, <2>1 DEF AddRead, SendTypeOK, ListTypeOK, HistoryTypeOK, listVars, history
  <2>2. CASE AddEnter
    <3>1. SendTypeOK'
      BY <1>1, <2>0, <2>2 DEF AddEnter, SendTypeOK, sendVars
    <3>2. ListTypeOK'
      BY <2>0, <2>2 DEF AddEnter, ListTypeOK, Nodes
    <3>3. HistoryTypeOK'
      BY <2>0, <2>2 DEF AddEnter, HistoryTypeOK
    <3> QED BY <3>1, <3>2, <3>3
  <2>3. CASE AddLink
    BY <1>1, <2>0, <2>3 DEF AddLink, SendTypeOK, ListTypeOK, HistoryTypeOK, Nodes,
       Void, history
  <2>4. CASE AddReadSize
    BY <1>1, <2>0, <2>4 DEF AddReadSize, SendTypeOK, ListTypeOK, HistoryTypeOK,
       listVars, history
  <2>5. CASE AddWriteSize
    BY <1>1, <2>0, <2>5 DEF AddWriteSize, SendTypeOK, ListTypeOK, HistoryTypeOK,
       history
  <2> QED BY <2>1, <2>2, <2>3, <2>4, <2>5
<1>3. \A p \in Plugins : size[p] > 0 => size'[p] > 0
  BY DEF AddRead, AddEnter, AddLink, AddReadSize, AddWriteSize, SendTypeOK, ListTypeOK,
     listVars
<1>4. FreshInv' /\ PoolInv' /\ ServiceTypeOK'
  BY <1>1 DEF FreshInv, PoolInv, ServiceTypeOK, serviceVars, taskVars
<1> QED
  BY <1>1, <1>2, <1>3, <1>4, TasksUntouched

(* execute submits a task that did not exist before.                       *)
LEMMA ExecutePipelineInv ==
  ASSUME PipelineInv, Execute
  PROVE  PipelineInv'
<1> USE DEF PipelineInv, TypeOK, MainAt, Execute
<1>1. /\ target \in Plugins /\ produced \in Packets /\ main \in Sending
      /\ task[target][produced] = "none" /\ pool = "open" /\ target \in Nat
  BY DEF SendTypeOK, FreshInv, PoolInv, Sending, Plugins
<1>2. SendTypeOK'
  BY <1>1, PipelineAssumption DEF SendTypeOK, Plugins, Sending
<1>3. /\ task' = [task EXCEPT ![target][produced] = "submitted"]
      /\ taskPool' = [taskPool EXCEPT ![target][produced] = session]
      /\ UNCHANGED <<serviceVars, listVars, queueLock, first, after, taskSize, history>>
  BY <1>1
<1>4. TaskTypeOK'
  BY <1>1, <1>3 DEF TaskTypeOK, TaskStates, ServiceTypeOK
<1>5. \A q \in Plugins, j \in Packets :
        task'[q][j] = IF q = target /\ j = produced THEN "submitted" ELSE task[q][j]
  BY <1>1, <1>3 DEF TaskTypeOK
<1>6. LockInv' /\ TakenInv' /\ SizePositive'
  BY <1>1, <1>3, <1>5 DEF LockInv, TakenInv, SizePositive, InRun, listVars
<1>7. FreshInv'
  <2>1. main' \in Sending => target' = target + 1
    BY <1>1 DEF Sending
  <2>2. \A q \in Plugins, j \in Packets : j > produced => task'[q][j] = "none"
    <3>1. produced \in Nat /\ \A j \in Packets : j > produced => j # produced
      BY <1>1 DEF Packets
    <3> QED BY <1>5, <3>1 DEF FreshInv
  <2>3. ASSUME main' \in Sending, NEW q \in Plugins, q >= target'
        PROVE  task'[q][produced] = "none"
    <3>1. q >= target /\ q # target
      BY <1>1, <2>1, <2>3 DEF Plugins
    <3> QED BY <1>1, <1>5, <3>1 DEF FreshInv
  <2> QED BY <2>2, <2>3 DEF FreshInv
<1>8. PoolInv'
  BY <1>1, <1>3 DEF PoolInv, serviceVars
<1> QED
  BY <1>2, <1>3, <1>4, <1>6, <1>7, <1>8 DEF ServiceTypeOK, ListTypeOK, HistoryTypeOK,
     serviceVars, listVars, history

(* A task that moves on does so inside run(), or enters or leaves it with   *)
(* the monitor: what LockInv and FreshInv say of the tasks is kept.        *)
LEMMA TaskMoves ==
  ASSUME PipelineInv, NEW p \in Plugins, NEW k \in Packets,
         NEW from \in TaskStates \ {"none"}, NEW to \in TaskStates,
         TaskAt(p, k, from, to), UNCHANGED <<main, serviceVars, sendVars, taskPool>>,
         \/ /\ from = "submitted" /\ queueLock[p] = NoTask /\ to = "check"
            /\ queueLock' = [queueLock EXCEPT ![p] = k]
         \/ /\ from # "submitted" /\ from # "done" /\ to = "done" /\ Release(p)
         \/ /\ from # "submitted" /\ from # "done" /\ UNCHANGED queueLock
            /\ to \notin {"none", "submitted", "done"}
  PROVE  /\ task' \in [Plugins -> [Packets -> TaskStates]]
         /\ taskPool' \in [Plugins -> [Packets -> 0 .. MaxSessions]]
         /\ queueLock' \in [Plugins -> Packets \cup {NoTask}]
         /\ \A q \in Plugins, j \in Packets :
              task'[q][j] = IF q = p /\ j = k THEN to ELSE task[q][j]
         /\ LockInv' /\ FreshInv' /\ PoolInv'
<1> USE DEF PipelineInv, TypeOK, TaskTypeOK, TaskAt, Release
<1>1. /\ task' \in [Plugins -> [Packets -> TaskStates]]
      /\ taskPool' \in [Plugins -> [Packets -> 0 .. MaxSessions]]
      /\ queueLock' \in [Plugins -> Packets \cup {NoTask}]
  OBVIOUS
<1>2. \A q \in Plugins, j \in Packets :
        task'[q][j] = IF q = p /\ j = k THEN to ELSE task[q][j]
  OBVIOUS
<1>3. LockInv'
  <2>1. NoTask \notin Packets
    BY DEF NoTask, Packets
  <2>2. ASSUME NEW q \in Plugins, NEW j \in Packets
        PROVE  InRun(q, j)' <=> queueLock'[q] = j
    <3>1. InRun(q, j) <=> queueLock[q] = j
      BY DEF LockInv
    <3>2. InRun(p, k) <=> queueLock[p] = k
      BY DEF LockInv
    <3>3. InRun(q, j)' <=> IF q = p /\ j = k
                           THEN to \notin {"none", "submitted", "done"}
                           ELSE InRun(q, j)
      BY <1>2 DEF InRun
    <3>4. CASE q # p
      BY <3>1, <3>3, <3>4
    <3>5. CASE q = p
      BY <2>1, <3>1, <3>2, <3>3, <3>5 DEF InRun
    <3> QED BY <3>4, <3>5
  <2> QED BY <2>2 DEF LockInv
<1>4. FreshInv' /\ PoolInv'
  BY <1>2 DEF FreshInv, PoolInv, sendVars, serviceVars, SendTypeOK
<1> QED BY <1>1, <1>2, <1>3, <1>4

(* Inside run() the size is positive from isEmpty() to the end of          *)
(* removeFirst, because only this one worker lowers it.                    *)
LEMMA TaskStepPipelineInv ==
  ASSUME PipelineInv, NEW p \in Plugins, NEW k \in Packets, TaskStep(p, k)
  PROVE  PipelineInv'
<1> USE DEF PipelineInv, TypeOK
<1>0. OneWorker
  BY LockImpliesOneWorker
<1>1. ASSUME RunEnter(p, k) \/ RunHandle(p, k) \/ RunCheck(p, k) \/ RunNoSuchElement(p, k)
      PROVE  PipelineInv'
  <2>1. UNCHANGED <<main, serviceVars, sendVars, listVars, taskPool, first, after, taskSize,
                    history>>
    BY <1>1 DEF RunEnter, RunHandle, RunCheck, RunNoSuchElement
  <2>2. PICK from \in TaskStates \ {"none"}, to \in TaskStates :
          /\ TaskAt(p, k, from, to)
          /\ to \in {"unlink", "readSize", "writeSize"} => from = to
          /\ to = "take" => size[p] # 0
          /\ \/ /\ from = "submitted" /\ queueLock[p] = NoTask /\ to = "check"
                /\ queueLock' = [queueLock EXCEPT ![p] = k]
             \/ /\ from # "submitted" /\ from # "done" /\ to = "done" /\ Release(p)
             \/ /\ from # "submitted" /\ from # "done" /\ UNCHANGED queueLock
                /\ to \notin {"none", "submitted", "done"}
    BY <1>1 DEF RunEnter, RunHandle, RunCheck, RunNoSuchElement, TaskStates
  <2>3. /\ task' \in [Plugins -> [Packets -> TaskStates]]
        /\ taskPool' \in [Plugins -> [Packets -> 0 .. MaxSessions]]
        /\ queueLock' \in [Plugins -> Packets \cup {NoTask}]
        /\ \A q \in Plugins, j \in Packets :
             task'[q][j] = IF q = p /\ j = k THEN to ELSE task[q][j]
        /\ LockInv' /\ FreshInv' /\ PoolInv'
    BY <2>1, <2>2, TaskMoves
  <2>4. TaskTypeOK'
    BY <2>1, <2>3 DEF TaskTypeOK
  <2>5. TakenInv'
    BY <2>1, <2>2, <2>3 DEF TakenInv, TaskAt
  <2>6. SizePositive'
    BY <2>1, <2>2, <2>3 DEF SizePositive, TaskAt, ListTypeOK, listVars
  <2> QED
    BY <2>1, <2>3, <2>4, <2>5, <2>6 DEF ServiceTypeOK, SendTypeOK, ListTypeOK,
       HistoryTypeOK, serviceVars, sendVars, listVars, history
<1>2. ASSUME RunTake(p, k) PROVE PipelineInv'
  <2>1. UNCHANGED <<main, serviceVars, sendVars, listVars, taskPool, queueLock, taskSize,
                    history>>
    BY <1>2 DEF RunTake
  <2>2. /\ task' \in [Plugins -> [Packets -> TaskStates]]
        /\ taskPool' \in [Plugins -> [Packets -> 0 .. MaxSessions]]
        /\ queueLock' \in [Plugins -> Packets \cup {NoTask}]
        /\ \A q \in Plugins, j \in Packets :
             task'[q][j] = IF q = p /\ j = k THEN "unlink" ELSE task[q][j]
        /\ LockInv' /\ FreshInv' /\ PoolInv'
    <3>1. TaskAt(p, k, "take", "unlink")
      BY <1>2 DEF RunTake
    <3> QED BY <2>1, <3>1, TaskMoves DEF TaskStates
  <2>3. TaskTypeOK' /\ first'[p] \in Packets
        /\ \A q \in Plugins : q # p => first'[q] = first[q]
    <3>1. next[p] \in [Nodes -> Nodes] /\ Void \in Nodes
      BY DEF ListTypeOK, Nodes
    <3>2. next[p][Void] \in Packets /\ next[p][next[p][Void]] \in Nodes
      BY <1>2, <3>1 DEF RunTake, Nodes
    <3>3. first' \in [Plugins -> Nodes] /\ after' \in [Plugins -> Nodes]
      BY <1>2, <3>1, <3>2 DEF RunTake, TaskTypeOK
    <3> QED
      BY <1>2, <2>1, <2>2, <3>2, <3>3 DEF RunTake, TaskTypeOK
  <2>4. TakenInv'
    BY <1>0, <2>2, <2>3 DEF TakenInv
  <2>5. SizePositive'
    BY <1>2, <2>1, <2>2 DEF RunTake, TaskAt, SizePositive, listVars
  <2> QED
    BY <2>1, <2>2, <2>3, <2>4, <2>5 DEF ServiceTypeOK, SendTypeOK, ListTypeOK,
       HistoryTypeOK, serviceVars, sendVars, listVars, history
<1>3. ASSUME RunClear(p, k) PROVE PipelineInv'
  <2>1. UNCHANGED <<main, serviceVars, sendVars, taskPool, first, after, taskSize, history>>
    BY <1>3 DEF RunClear
  <2>2. /\ task' \in [Plugins -> [Packets -> TaskStates]]
        /\ taskPool' \in [Plugins -> [Packets -> 0 .. MaxSessions]]
        /\ queueLock' \in [Plugins -> Packets \cup {NoTask}]
        /\ \A q \in Plugins, j \in Packets :
             task'[q][j] = IF q = p /\ j = k THEN "done" ELSE task[q][j]
        /\ LockInv' /\ FreshInv' /\ PoolInv'
    <3>1. TaskAt(p, k, "clear", "done") /\ Release(p)
      BY <1>3 DEF RunClear
    <3> QED BY <2>1, <3>1, TaskMoves DEF TaskStates
  <2>3. ListTypeOK' /\ \A q \in Plugins : q # p => size'[q] = size[q]
    BY <1>3 DEF RunClear, ListTypeOK, Nodes, Void
  <2>4. TaskTypeOK' /\ TakenInv'
    BY <2>1, <2>2 DEF TaskTypeOK, TakenInv
  <2>5. SizePositive'
    BY <1>0, <1>3, <2>1, <2>2, <2>3 DEF RunClear, TaskAt, SizePositive,
       OneWorker, InRun
  <2> QED
    BY <2>1, <2>2, <2>3, <2>4, <2>5 DEF ServiceTypeOK, SendTypeOK, HistoryTypeOK,
       serviceVars, sendVars, history
<1>4. ASSUME RunUnlink(p, k) PROVE PipelineInv'
  <2>1. UNCHANGED <<main, serviceVars, sendVars, size, taskPool, queueLock, first, taskSize,
                    history>>
    BY <1>4 DEF RunUnlink
  <2>2. /\ task' \in [Plugins -> [Packets -> TaskStates]]
        /\ taskPool' \in [Plugins -> [Packets -> 0 .. MaxSessions]]
        /\ queueLock' \in [Plugins -> Packets \cup {NoTask}]
        /\ \A q \in Plugins, j \in Packets :
             task'[q][j] = IF q = p /\ j = k THEN "readSize" ELSE task[q][j]
        /\ LockInv' /\ FreshInv' /\ PoolInv'
    <3>1. TaskAt(p, k, "unlink", "readSize")
      BY <1>4 DEF RunUnlink
    <3> QED BY <2>1, <3>1, TaskMoves DEF TaskStates
  <2>3. ListTypeOK'
    BY <1>4 DEF RunUnlink, ListTypeOK, TaskTypeOK, Nodes
  <2>4. TaskTypeOK' /\ TakenInv' /\ SizePositive'
    BY <1>4, <2>1, <2>2 DEF RunUnlink, TaskAt, TaskTypeOK, TakenInv, SizePositive, Nodes
  <2> QED
    BY <2>1, <2>2, <2>3, <2>4 DEF ServiceTypeOK, SendTypeOK, HistoryTypeOK,
       serviceVars, sendVars, history
<1>5. ASSUME RunReadSize(p, k) PROVE PipelineInv'
  <2>1. UNCHANGED <<main, serviceVars, sendVars, listVars, taskPool, queueLock, first, after,
                    history>>
    BY <1>5 DEF RunReadSize
  <2>2. /\ task' \in [Plugins -> [Packets -> TaskStates]]
        /\ taskPool' \in [Plugins -> [Packets -> 0 .. MaxSessions]]
        /\ queueLock' \in [Plugins -> Packets \cup {NoTask}]
        /\ \A q \in Plugins, j \in Packets :
             task'[q][j] = IF q = p /\ j = k THEN "writeSize" ELSE task[q][j]
        /\ LockInv' /\ FreshInv' /\ PoolInv'
    <3>1. TaskAt(p, k, "readSize", "writeSize")
      BY <1>5 DEF RunReadSize
    <3> QED BY <2>1, <3>1, TaskMoves DEF TaskStates
  <2>3. TaskTypeOK'
    BY <1>5, <2>1, <2>2 DEF RunReadSize, TaskTypeOK, ListTypeOK
  <2>4. TakenInv'
    BY <1>5, <2>1, <2>2 DEF RunReadSize, TaskAt, TakenInv
  <2>5. SizePositive'
    <3>1. size' = size /\ taskSize'[p] = size[p] /\ size[p] > 0
      BY <1>5, <2>1 DEF RunReadSize, TaskAt, SizePositive, TaskTypeOK, listVars
    <3>2. \A q \in Plugins : q # p => taskSize'[q] = taskSize[q]
      BY <1>5 DEF RunReadSize, TaskTypeOK
    <3> QED BY <2>2, <3>1, <3>2 DEF SizePositive
  <2> QED
    BY <2>1, <2>2, <2>3, <2>4, <2>5 DEF ServiceTypeOK, SendTypeOK, ListTypeOK,
       HistoryTypeOK, serviceVars, sendVars, listVars, history
<1>6. ASSUME RunWriteSize(p, k) PROVE PipelineInv'
  <2>1. UNCHANGED <<main, serviceVars, sendVars, next, last, taskPool, queueLock, after,
                    arrived>>
    BY <1>6 DEF RunWriteSize
  <2>2. /\ task' \in [Plugins -> [Packets -> TaskStates]]
        /\ taskPool' \in [Plugins -> [Packets -> 0 .. MaxSessions]]
        /\ queueLock' \in [Plugins -> Packets \cup {NoTask}]
        /\ \A q \in Plugins, j \in Packets :
             task'[q][j] = IF q = p /\ j = k THEN "handle" ELSE task[q][j]
        /\ LockInv' /\ FreshInv' /\ PoolInv'
    <3>1. TaskAt(p, k, "writeSize", "handle")
      BY <1>6 DEF RunWriteSize
    <3> QED BY <2>1, <3>1, TaskMoves DEF TaskStates
  <2>3. taskSize[p] > 0 /\ first[p] \in Packets
    BY <1>6 DEF RunWriteSize, TaskAt, SizePositive, TakenInv
  <2>4. ListTypeOK' /\ \A q \in Plugins : q # p => size'[q] = size[q]
    BY <1>6, <2>3 DEF RunWriteSize, ListTypeOK, TaskTypeOK
  <2>5. HistoryTypeOK'
    BY <1>6, <2>3 DEF RunWriteSize, HistoryTypeOK
  <2>6. TaskTypeOK' /\ TakenInv'
    <3>1. \A q \in Plugins : q # p => first'[q] = first[q] /\ taskSize'[q] = taskSize[q]
      BY <1>6 DEF RunWriteSize, TaskTypeOK
    <3>2. TaskTypeOK'
      BY <1>6, <2>1, <2>2 DEF RunWriteSize, TaskTypeOK, Nodes
    <3>3. \A j \in Packets : InRun(p, j) => j = k
      BY <1>0, <1>6 DEF RunWriteSize, TaskAt, OneWorker, InRun
    <3> QED BY <2>2, <3>1, <3>2, <3>3 DEF TakenInv, InRun
  <2>7. SizePositive'
    <3>1. \A q \in Plugins : q # p => taskSize'[q] = taskSize[q]
      BY <1>6 DEF RunWriteSize, TaskTypeOK
    <3>2. \A j \in Packets : InRun(p, j) => j = k
      BY <1>0, <1>6 DEF RunWriteSize, TaskAt, OneWorker, InRun
    <3> QED BY <2>2, <2>4, <3>1, <3>2 DEF SizePositive, InRun
  <2> QED
    BY <2>1, <2>2, <2>4, <2>5, <2>6, <2>7 DEF ServiceTypeOK, SendTypeOK,
       serviceVars, sendVars
<1> QED
  BY <1>1, <1>2, <1>3, <1>4, <1>5, <1>6 DEF TaskStep

(* The inductive invariant holds in every reachable state.                 *)
THEOREM PipelineInvariant == Spec => []PipelineInv
<1>1. Init => PipelineInv
  BY InitPipelineInv
<1>2. PipelineInv /\ [Next]_vars => PipelineInv'
  <2> SUFFICES ASSUME PipelineInv, [Next]_vars PROVE PipelineInv'
    OBVIOUS
  <2>1. CASE OnStart \/ OnDestroy \/ Awaited
    BY <2>1, ServicePipelineInv
  <2>2. CASE Write \/ Send
    BY <2>2, WritePipelineInv, AddPipelineInv, ExecutePipelineInv DEF Send
  <2>3. ASSUME NEW p \in Plugins, NEW k \in Packets, TaskStep(p, k)
        PROVE  PipelineInv'
    BY <2>3, TaskStepPipelineInv
  <2>4. CASE UNCHANGED vars
    BY <2>4 DEF vars, serviceVars, sendVars, listVars, taskVars, history, PipelineInv,
       PoolInv, TypeOK, ServiceTypeOK, SendTypeOK, ListTypeOK, TaskTypeOK, HistoryTypeOK,
       LockInv, TakenInv, SizePositive, FreshInv, InRun
  <2> QED BY <2>1, <2>2, <2>3, <2>4 DEF Next
<1> QED BY <1>1, <1>2, PTL DEF Spec

(* Type correctness, and with it: the queue's size is never negative.      *)
THEOREM TypeCorrect == Spec => []TypeOK
BY PipelineInvariant, PTL DEF PipelineInv

(* run() is never executed by two pool threads for one plugin, whatever    *)
(* the number of tasks, and also when the tasks belong to different pools. *)
THEOREM MutualExclusion == Spec => []OneWorker
<1>1. PipelineInv => OneWorker
  BY LockImpliesOneWorker DEF PipelineInv
<1> QED BY <1>1, PipelineInvariant, PTL

(* A running service has an open pool: no packet is rejected.              *)
THEOREM NoRejection == Spec => []NeverRejected
<1>1. PipelineInv => NeverRejected
  BY DEF PipelineInv, PoolInv, NeverRejected, Sending
<1> QED BY <1>1, PipelineInvariant, PTL

(* A worker that has passed isEmpty() decrements a positive size.          *)
THEOREM NoNegativeSize == Spec => []SizePositive
BY PipelineInvariant, PTL DEF PipelineInv

-------------------------------------------------------------------------------
(* PacketPipeline implements OrderedDelivery.  The packets of a queue are  *)
(* numbered in the order in which they arrive, and the argument is about   *)
(* these numbers: links lead from smaller to larger ones, and the race can *)
(* only cut some out.                                                      *)


(* Packets arrive in the order of their numbers, and the one that is being *)
(* delivered has not arrived where it is still to be added.                *)
ArrivedInv(p) ==
  /\ \A i, j \in DOMAIN arrived[p] : i < j => arrived[p][i] < arrived[p][j]
  /\ \A i \in DOMAIN arrived[p] :
       /\ arrived[p][i] <= produced
       /\ main \in Sending /\ p > target => arrived[p][i] < produced
       /\ main \in {"add", "enter"} /\ p = target => arrived[p][i] < produced

(* Packet k has arrived, and is more than the end of the list.             *)
Linked(p, k) == k \in Packets /\ Got(p, k) /\ (main = "link" /\ p = target => k < produced)

Unhandled(p, k) == \A n \in DOMAIN handled[p] : handled[p][n] < k

LinkInv(p) ==
  /\ \A n, m \in Nodes : next[p][n] = m /\ m # Void => n < m /\ Linked(p, m)
  /\ last[p] # Void => Got(p, last[p])
  /\ main \in {"enter", "link"} /\ p = target => oldLast < produced
  /\ main = "link" /\ p = target => Got(p, produced)

TakeInv(p) ==
  \A k \in Packets :
    /\ task[p][k] \in {"unlink", "readSize", "writeSize"} =>
         Linked(p, first[p]) /\ Unhandled(p, first[p])
    /\ task[p][k] = "unlink" /\ after[p] # Void => first[p] < after[p] /\ Linked(p, after[p])
    /\ task[p][k] \in {"readSize", "writeSize"} /\ next[p][Void] # Void =>
         first[p] < next[p][Void]

HandledInv(p) ==
  /\ \A n \in DOMAIN handled[p], h \in Packets : handled[p][n] = h => Linked(p, h)
  /\ next[p][Void] # Void => Unhandled(p, next[p][Void])

OrderInv == \A p \in Plugins : ArrivedInv(p) /\ LinkInv(p) /\ TakeInv(p) /\ HandledInv(p)

LEMMA OrderStarts == Init => OrderInv
BY DEF Init, OrderInv, ArrivedInv, LinkInv, TakeInv, HandledInv, Sending, Nodes, Void

LEMMA ArrivedNumbers ==
  ASSUME NEW s \in Seq(Packets), NEW i \in DOMAIN s
  PROVE  s[i] \in Packets /\ s[i] \in Nat
<1>1. s[i] \in Packets
  OBVIOUS
<1>. QED  BY <1>1 DEF Packets

(* Whatever does not touch the links keeps what is said of them.           *)
LEMMA LinksUntouched ==
  ASSUME PipelineInv, OrderInv, NEW p \in Plugins,
         UNCHANGED <<next[p], last[p], first[p], after[p], arrived[p], handled[p]>>,
         \A k \in Packets : task'[p][k] \in {"unlink", "readSize", "writeSize"}
           => task'[p][k] = task[p][k],
         \/ main' \notin {"enter", "link"}
         \/ UNCHANGED <<main, target, produced, oldLast>>
  PROVE  LinkInv(p)' /\ TakeInv(p)' /\ HandledInv(p)'
<1>1. \A k : Linked(p, k) => Linked(p, k)'
  BY DEF Linked, Got
<1>2. LinkInv(p)'
  BY <1>1 DEF OrderInv, LinkInv, Got
<1>3. TakeInv(p)' /\ HandledInv(p)'
  BY <1>1 DEF OrderInv, TakeInv, HandledInv, Unhandled
<1>. QED  BY <1>2, <1>3

LEMMA ServiceOrder ==
  ASSUME PipelineInv, OrderInv,
         OnStart \/ OnDestroy \/ Awaited \/ Write \/ AddReadSize \/ AddWriteSize \/ Execute
  PROVE  OrderInv'
<1>1. /\ UNCHANGED <<next, last, first, after, arrived, handled>> /\ main' \notin {"enter", "link"}
      /\ \A p \in Plugins, k \in Packets :
           task'[p][k] \in {"unlink", "readSize", "writeSize"} => task'[p][k] = task[p][k]
  <2>1. CASE ~Execute
    BY <2>1 DEF OnStart, OnDestroy, Awaited, Write, AddReadSize, AddWriteSize, MainAt,
                listVars, taskVars, history
  <2>2. CASE Execute
    BY <2>2 DEF Execute, MainAt, listVars, history, PipelineInv, TypeOK, TaskTypeOK
  <2>. QED  BY <2>1, <2>2
<1>2. ASSUME NEW p \in Plugins PROVE ArrivedInv(p)'
  <2>1. produced \in Nat /\ target \in Nat /\ p \in Nat /\ arrived[p] \in Seq(Packets)
    BY DEF PipelineInv, TypeOK, SendTypeOK, HistoryTypeOK, Plugins
  <2>2. \A i \in DOMAIN arrived[p] : arrived[p][i] \in Nat
    BY <2>1, ArrivedNumbers
  <2>3. CASE OnStart \/ OnDestroy \/ Awaited
    BY <1>1, <2>3 DEF OnStart, OnDestroy, Awaited, MainAt, Sending, sendVars, OrderInv,
                      ArrivedInv
  <2>4. CASE Write
    BY <1>1, <2>1, <2>2, <2>4 DEF Write, MainAt, OrderInv, ArrivedInv
  <2>5. CASE AddReadSize \/ AddWriteSize
    BY <1>1, <2>5 DEF AddReadSize, AddWriteSize, MainAt, Sending, sendVars, OrderInv, ArrivedInv
  <2>6. CASE Execute
    BY <1>1, <2>1, <2>2, <2>6 DEF Execute, MainAt, Sending, OrderInv, ArrivedInv
  <2>. QED  BY <2>3, <2>4, <2>5, <2>6
<1>3. ASSUME NEW p \in Plugins PROVE LinkInv(p)' /\ TakeInv(p)' /\ HandledInv(p)'
  BY <1>1, LinksUntouched
<1>. QED  BY <1>2, <1>3 DEF OrderInv

(* addLast reads a previous link that is Void or a packet that arrived.    *)
LEMMA AddReadOrder ==
  ASSUME PipelineInv, OrderInv, AddRead
  PROVE  OrderInv'
<1>1. /\ main = "add" /\ main' = "enter" /\ target \in Plugins /\ produced \in Packets
      /\ UNCHANGED <<produced, target, next, last, first, after, arrived, handled, task>>
      /\ oldLast' = last[target]
  BY DEF AddRead, MainAt, listVars, taskVars, history, PipelineInv, TypeOK, SendTypeOK, Sending
<1>2. ASSUME NEW p \in Plugins PROVE ArrivedInv(p)'
  BY <1>1 DEF OrderInv, ArrivedInv, Sending
<1>3. ASSUME NEW p \in Plugins PROVE TakeInv(p)' /\ HandledInv(p)'
  <2>1. \A k : Linked(p, k) => Linked(p, k)'
    BY <1>1 DEF Linked, Got
  <2>. QED  BY <1>1, <2>1 DEF OrderInv, TakeInv, HandledInv, Unhandled
<1>4. ASSUME NEW p \in Plugins PROVE LinkInv(p)'
  <2>1. \A k : Linked(p, k) => Linked(p, k)'
    BY <1>1 DEF Linked, Got
  <2>2. p = target => oldLast' < produced
    <3>1. CASE last[target] = Void
      BY <1>1, <3>1 DEF Void, Packets
    <3>2. CASE last[target] # Void
      <4>1. PICK i \in DOMAIN arrived[target] : arrived[target][i] = last[target]
        BY <1>1, <3>2 DEF OrderInv, LinkInv, Got
      <4>. QED  BY <1>1, <4>1 DEF OrderInv, ArrivedInv
    <3>. QED  BY <3>1, <3>2
  <2>. QED  BY <1>1, <2>1, <2>2 DEF OrderInv, LinkInv, Got
<1>. QED  BY <1>2, <1>3, <1>4 DEF OrderInv

LEMMA AddEnterOrder ==
  ASSUME PipelineInv, OrderInv, AddEnter
  PROVE  OrderInv'
<1>1. /\ main = "enter" /\ main' = "link" /\ target \in Plugins /\ produced \in Packets
      /\ UNCHANGED <<produced, target, oldLast, first, after, handled, task>>
      /\ last' = [last EXCEPT ![target] = produced]
      /\ next' = [next EXCEPT ![target][produced] = Void]
      /\ arrived' = [arrived EXCEPT ![target] = Append(@, produced)]
  BY DEF AddEnter, MainAt, sendVars, taskVars, PipelineInv, TypeOK, SendTypeOK, Sending
<1>2. ASSUME NEW p \in Plugins, p # target
      PROVE  ArrivedInv(p)' /\ LinkInv(p)' /\ TakeInv(p)' /\ HandledInv(p)'
  <2>1. UNCHANGED <<next[p], last[p], arrived[p]>>
    BY <1>1, <1>2 DEF PipelineInv, TypeOK, ListTypeOK, HistoryTypeOK
  <2>2. \A k : Linked(p, k) => Linked(p, k)'
    BY <1>1, <1>2, <2>1 DEF Linked, Got
  <2>3. ArrivedInv(p)'
    BY <1>1, <1>2, <2>1 DEF OrderInv, ArrivedInv, Sending
  <2>4. LinkInv(p)'
    BY <1>1, <1>2, <2>1, <2>2 DEF OrderInv, LinkInv, Got
  <2>5. TakeInv(p)' /\ HandledInv(p)'
    BY <1>1, <1>2, <2>1, <2>2 DEF OrderInv, TakeInv, HandledInv, Unhandled
  <2>. QED  BY <2>3, <2>4, <2>5
<1>3. ASSUME NEW p, p = target
      PROVE  ArrivedInv(p)' /\ LinkInv(p)' /\ TakeInv(p)' /\ HandledInv(p)'
  <2>1. /\ p \in Plugins /\ next \in [Plugins -> [Nodes -> Nodes]] /\ last \in [Plugins -> Nodes]
        /\ arrived \in [Plugins -> Seq(Packets)] /\ handled[p] \in Seq(Packets)
    BY <1>1, <1>3 DEF PipelineInv, TypeOK, ListTypeOK, HistoryTypeOK
  <2>2. /\ arrived'[p] = Append(arrived[p], produced) /\ last'[p] = produced
        /\ next'[p] = [next[p] EXCEPT ![produced] = Void]
    BY <1>1, <1>3, <2>1
  <2>3. \A i \in DOMAIN arrived[p] : arrived[p][i] < produced /\ arrived[p][i] \in Nat
    BY <1>1, <1>3, <2>1, ArrivedNumbers DEF OrderInv, ArrivedInv
  <2>4. /\ DOMAIN arrived'[p] = DOMAIN arrived[p] \cup {Len(arrived[p]) + 1}
        /\ \A i \in DOMAIN arrived[p] : arrived'[p][i] = arrived[p][i]
        /\ arrived'[p][Len(arrived[p]) + 1] = produced
        /\ \A i \in DOMAIN arrived[p] : i \in Nat /\ i <= Len(arrived[p])
        /\ Len(arrived[p]) \in Nat
    BY <1>1, <2>1, <2>2
  <2>5. ArrivedInv(p)'
    <3>1. produced \in Nat
      BY <1>1 DEF Packets
    <3>2. \A i, j \in DOMAIN arrived'[p] : i < j => arrived'[p][i] < arrived'[p][j]
      BY <2>1, <2>3, <2>4 DEF OrderInv, ArrivedInv
    <3>3. \A i \in DOMAIN arrived'[p] : arrived'[p][i] <= produced
      BY <2>3, <2>4, <3>1
    <3>. QED  BY <1>1, <1>3, <3>2, <3>3 DEF ArrivedInv, Plugins
  <2>6. \A k : Got(p, k) => Got(p, k)'
    BY <2>4 DEF Got
  <2>7. \A k : Linked(p, k) => Linked(p, k)'
    BY <1>1, <2>3, <2>6 DEF Linked, Got
  <2>8. Got(p, produced)'
    BY <1>1, <2>4 DEF Got
  <2>9. LinkInv(p)'
    <3>1. ASSUME NEW n \in Nodes, NEW m \in Nodes, next'[p][n] = m, m # Void
          PROVE  n < m /\ Linked(p, m)'
      <4>1. next[p][n] = m
        BY <1>1, <2>1, <2>2, <3>1 DEF Nodes
      <4>2. n < m /\ Linked(p, m)
        BY <2>1, <3>1, <4>1 DEF OrderInv, LinkInv
      <4>. QED  BY <2>7, <4>2
    <3>2. oldLast' < produced
      BY <1>1, <1>3, <2>1 DEF OrderInv, LinkInv
    <3>. QED  BY <1>1, <1>3, <2>2, <2>8, <3>1, <3>2, Zenon DEF LinkInv
  <2>10. TakeInv(p)' /\ HandledInv(p)'
    <3>1. \/ next'[p][Void] = next[p][Void]
      BY <1>1, <2>1, <2>2 DEF Nodes, Void, Packets
    <3>. QED
      BY <1>1, <2>1, <2>7, <3>1 DEF OrderInv, TakeInv, HandledInv, Unhandled
  <2>. QED  BY <2>5, <2>9, <2>10
<1>. QED  BY <1>1, <1>2, <1>3 DEF OrderInv

LEMMA AddLinkOrder ==
  ASSUME PipelineInv, OrderInv, AddLink
  PROVE  OrderInv'
<1>1. /\ main = "link" /\ main' = "readSize" /\ target \in Plugins /\ produced \in Packets
      /\ UNCHANGED <<produced, target, last, first, after, handled, task, arrived>>
      /\ next' = [next EXCEPT ![target][oldLast] = produced] /\ oldLast \in Nodes
  BY DEF AddLink, MainAt, taskVars, history, PipelineInv, TypeOK, SendTypeOK, Sending
<1>2. ASSUME NEW p \in Plugins PROVE ArrivedInv(p)'
  BY <1>1 DEF OrderInv, ArrivedInv, Sending
<1>3. ASSUME NEW p \in Plugins, p # target
      PROVE  LinkInv(p)' /\ TakeInv(p)' /\ HandledInv(p)'
  <2>1. UNCHANGED next[p]
    BY <1>1, <1>3 DEF PipelineInv, TypeOK, ListTypeOK
  <2>. QED  BY <1>1, <2>1, LinksUntouched
<1>4. ASSUME NEW p, p = target
      PROVE  LinkInv(p)' /\ TakeInv(p)' /\ HandledInv(p)'
  <2>1. /\ p \in Plugins /\ next \in [Plugins -> [Nodes -> Nodes]]
        /\ handled[p] \in Seq(Packets)
    BY <1>1, <1>4 DEF PipelineInv, TypeOK, ListTypeOK, HistoryTypeOK
  <2>2. next'[p] = [next[p] EXCEPT ![oldLast] = produced]
    BY <1>1, <1>4, <2>1
  <2>3. \A k : Linked(p, k) => Linked(p, k)' /\ k < produced
    BY <1>1, <1>4 DEF Linked, Got
  <2>4. Linked(p, produced)' /\ oldLast < produced
    BY <1>1, <1>4, <2>1 DEF OrderInv, LinkInv, Linked, Got
  <2>5. LinkInv(p)'
    <3>1. ASSUME NEW n \in Nodes, NEW m \in Nodes, next'[p][n] = m, m # Void
          PROVE  n < m /\ Linked(p, m)'
      <4>1. CASE n = oldLast
        <5>1. m = produced
          BY <1>1, <2>1, <2>2, <3>1, <4>1
        <5>. QED  BY <1>1, <2>4, <4>1, <5>1 DEF Linked
      <4>2. CASE n # oldLast
        <5>1. next[p][n] = m
          BY <2>1, <2>2, <3>1, <4>2
        <5>2. n < m /\ Linked(p, m)
          BY <2>1, <3>1, <5>1 DEF OrderInv, LinkInv
        <5>. QED  BY <2>3, <5>2
      <4>. QED  BY <4>1, <4>2
    <3>2. last'[p] # Void => Got(p, last[p])'
      BY <1>1, <2>1 DEF OrderInv, LinkInv, Got
    <3>. QED  BY <1>1, <3>1, <3>2 DEF LinkInv
  <2>6. next'[p][Void] \in {next[p][Void], produced}
    BY <1>1, <2>1, <2>2 DEF Nodes
  <2>7. Unhandled(p, produced)
    BY <2>1, <2>3 DEF OrderInv, HandledInv, Unhandled
  <2>8. TakeInv(p)'
    <3>1. ASSUME NEW k \in Packets, task[p][k] \in {"unlink", "readSize", "writeSize"}
          PROVE  Linked(p, first[p])' /\ Unhandled(p, first[p])' /\ first[p] < produced
      <4>1. Linked(p, first[p]) /\ Unhandled(p, first[p])
        BY <2>1, <3>1 DEF OrderInv, TakeInv
      <4>. QED  BY <1>1, <2>3, <4>1 DEF Unhandled
    <3>2. ASSUME NEW k \in Packets, task[p][k] = "unlink", after[p] # Void
          PROVE  first[p] < after[p] /\ Linked(p, after[p])'
      BY <1>1, <2>1, <2>3, <3>2 DEF OrderInv, TakeInv
    <3>3. ASSUME NEW k \in Packets, task[p][k] \in {"readSize", "writeSize"},
                 next'[p][Void] # Void
          PROVE  first[p] < next'[p][Void]
      BY <2>1, <2>6, <3>1, <3>3 DEF OrderInv, TakeInv
    <3>. QED  BY <1>1, <3>1, <3>2, <3>3 DEF TakeInv
  <2>9. HandledInv(p)'
    BY <1>1, <2>1, <2>3, <2>6, <2>7 DEF OrderInv, HandledInv, Unhandled
  <2>. QED  BY <2>5, <2>8, <2>9
<1>. QED  BY <1>2, <1>3, <1>4 DEF OrderInv

(* removeFirst takes the first packet of the list, which is linked and has *)
(* not been handled; the links behind it lead to larger numbers.           *)
LEMMA TakeOrder ==
  ASSUME PipelineInv, OrderInv, NEW p \in Plugins, NEW k \in Packets, RunTake(p, k)
  PROVE  TakeInv(p)'
<1>1. /\ UNCHANGED <<main, produced, target, next, arrived, handled>>
      /\ first' = [first EXCEPT ![p] = next[p][Void]]
      /\ after' = [after EXCEPT ![p] = next[p][next[p][Void]]]
      /\ task' = [task EXCEPT ![p][k] = "unlink"] /\ InRun(p, k)
      /\ next \in [Plugins -> [Nodes -> Nodes]] /\ next[p][Void] # Void
  BY DEF RunTake, TaskAt, sendVars, listVars, history, InRun, PipelineInv, TypeOK, ListTypeOK
<1>2. PICK m \in Nodes : m = next[p][Void] /\ first'[p] = m
  BY <1>1 DEF PipelineInv, TypeOK, TaskTypeOK, Nodes
<1>3. PICK a \in Nodes : a = next[p][m] /\ after'[p] = a
  BY <1>1, <1>2 DEF PipelineInv, TypeOK, TaskTypeOK
<1>4. Linked(p, m) /\ Unhandled(p, m) /\ (a # Void => m < a /\ Linked(p, a))
  <2>1. m # Void /\ Void \in Nodes /\ LinkInv(p) /\ HandledInv(p)
    BY <1>1, <1>2 DEF OrderInv, Nodes
  <2>2. Linked(p, m) /\ Unhandled(p, m)
    BY <1>2, <2>1 DEF LinkInv, HandledInv
  <2>3. a # Void => m < a /\ Linked(p, a)
    BY <1>3, <2>1 DEF LinkInv
  <2>. QED  BY <2>2, <2>3
<1>5. Linked(p, m)' /\ Unhandled(p, m)' /\ (a # Void => m < a /\ Linked(p, a)')
  BY <1>1, <1>4 DEF Linked, Unhandled, Got
<1>6. ASSUME NEW j \in Packets, task'[p][j] \in {"unlink", "readSize", "writeSize"}
      PROVE  task'[p][j] = "unlink"
  <2>1. j = k
    <3>1. j # k => task'[p][j] = task[p][j]
      BY <1>1 DEF PipelineInv, TypeOK, TaskTypeOK
    <3>. QED  BY <1>1, <1>6, <3>1, LockImpliesOneWorker DEF PipelineInv, OneWorker, InRun
  <2>. QED  BY <1>1, <2>1 DEF PipelineInv, TypeOK, TaskTypeOK
<1>. QED  BY <1>2, <1>3, <1>5, <1>6 DEF TakeInv

(* removeFirst's write of the list's first link cuts the taken packet, and *)
(* whatever was linked before it, out.                                     *)
LEMMA UnlinkOrder ==
  ASSUME PipelineInv, OrderInv, NEW p \in Plugins, NEW k \in Packets, RunUnlink(p, k)
  PROVE  LinkInv(p)' /\ TakeInv(p)' /\ HandledInv(p)'
<1>1. /\ UNCHANGED <<main, produced, target, oldLast, first, arrived, handled>>
      /\ next' = [next EXCEPT ![p][Void] = after[p]]
      /\ last' = [last EXCEPT ![p] = IF after[p] = Void THEN Void ELSE @]
      /\ task[p][k] = "unlink" /\ task' = [task EXCEPT ![p][k] = "readSize"]
      /\ next \in [Plugins -> [Nodes -> Nodes]] /\ last \in [Plugins -> Nodes]
      /\ first[p] \in Packets /\ after[p] \in Nodes /\ Void \in Nodes
  BY DEF RunUnlink, TaskAt, sendVars, history, PipelineInv, TypeOK, ListTypeOK, TaskTypeOK,
         TakenInv, Nodes
<1>2. PICK a \in Nodes, f \in Packets : a = after[p] /\ f = first[p]
  BY <1>1
<1>3. next'[p] = [next[p] EXCEPT ![Void] = a] /\ last'[p] \in {Void, last[p]}
  BY <1>1, <1>2
<1>4. Linked(p, f) /\ Unhandled(p, f) /\ (a # Void => f < a /\ Linked(p, a))
  BY <1>1, <1>2 DEF OrderInv, TakeInv
<1>5. \A n : Linked(p, n) => Linked(p, n)'
  BY <1>1 DEF Linked, Got
<1>6. LinkInv(p)'
  <2>1. ASSUME NEW n \in Nodes, NEW m \in Nodes, next'[p][n] = m, m # Void
        PROVE  n < m /\ Linked(p, m)'
    <3>1. CASE n = Void
      <4>1. m = a
        BY <1>1, <1>3, <2>1, <3>1
      <4>2. n < m
        BY <2>1, <3>1 DEF Nodes, Packets, Void
      <4>. QED  BY <1>4, <1>5, <2>1, <4>1, <4>2
    <3>2. CASE n # Void
      <4>1. next[p][n] = m
        BY <1>1, <1>3, <2>1, <3>2
      <4>2. n < m /\ Linked(p, m)
        BY <2>1, <4>1 DEF OrderInv, LinkInv
      <4>. QED  BY <1>5, <4>2
    <3>. QED  BY <3>1, <3>2
  <2>2. /\ last'[p] # Void => Got(p, last[p])'
        /\ main' \in {"enter", "link"} /\ p = target' => oldLast' < produced'
        /\ main' = "link" /\ p = target' => Got(p, produced)'
    BY <1>1, <1>3 DEF OrderInv, LinkInv, Got
  <2>. QED  BY <2>1, <2>2 DEF LinkInv
<1>7. TakeInv(p)'
  <2>1. ASSUME NEW j \in Packets, task'[p][j] \in {"unlink", "readSize", "writeSize"}
        PROVE  task'[p][j] # "unlink"
    <3>1. j # k => task'[p][j] = task[p][j]
      BY <1>1 DEF PipelineInv, TypeOK, TaskTypeOK
    <3>2. j = k
      BY <1>1, <2>1, <3>1, LockImpliesOneWorker DEF PipelineInv, OneWorker, InRun
    <3>. QED  BY <1>1, <3>2 DEF PipelineInv, TypeOK, TaskTypeOK
  <2>2. next'[p][Void] = a /\ first'[p] = f
    BY <1>1, <1>2, <1>3
  <2>3. Linked(p, f)' /\ Unhandled(p, f)'
    BY <1>1, <1>4, <1>5 DEF Unhandled
  <2>. QED  BY <1>4, <2>1, <2>2, <2>3 DEF TakeInv
<1>8. HandledInv(p)'
  <2>1. next'[p][Void] = a /\ (a # Void => Unhandled(p, a))
    <3>1. \A n \in DOMAIN handled[p] : handled[p][n] \in Nat
      BY ArrivedNumbers DEF PipelineInv, TypeOK, HistoryTypeOK
    <3>. QED  BY <1>1, <1>3, <1>4, <3>1 DEF Unhandled, Nodes, Packets, Void
  <2>. QED  BY <1>1, <1>5, <2>1 DEF OrderInv, HandledInv, Unhandled
<1>. QED  BY <1>6, <1>7, <1>8

(* The packet that is handed over is larger than those handled before, and *)
(* smaller than what is left in the list.                                  *)
LEMMA HandOverOrder ==
  ASSUME PipelineInv, OrderInv, NEW p \in Plugins, NEW k \in Packets, RunWriteSize(p, k)
  PROVE  LinkInv(p)' /\ TakeInv(p)' /\ HandledInv(p)'
<1>1. /\ UNCHANGED <<main, produced, target, oldLast, next, last, after, arrived>>
      /\ handled' = [handled EXCEPT ![p] = Append(@, first[p])]
      /\ task[p][k] = "writeSize" /\ task' = [task EXCEPT ![p][k] = "handle"]
      /\ handled \in [Plugins -> Seq(Packets)] /\ first[p] \in Packets
  BY DEF RunWriteSize, TaskAt, sendVars, PipelineInv, TypeOK, HistoryTypeOK, TakenInv
<1>2. PICK f \in Packets : f = first[p]
  BY <1>1
<1>3. handled'[p] = Append(handled[p], f) /\ handled[p] \in Seq(Packets)
  BY <1>1, <1>2
<1>4. Linked(p, f) /\ Unhandled(p, f) /\ (next[p][Void] # Void => f < next[p][Void])
  BY <1>1, <1>2 DEF OrderInv, TakeInv
<1>5. \A n : Linked(p, n) => Linked(p, n)'
  BY <1>1 DEF Linked, Got
<1>6. LinkInv(p)'
  BY <1>1, <1>5 DEF OrderInv, LinkInv, Got
<1>7. TakeInv(p)'
  <2>1. ASSUME NEW j \in Packets, task'[p][j] \in {"unlink", "readSize", "writeSize"}
        PROVE  FALSE
    <3>1. j # k => task'[p][j] = task[p][j]
      BY <1>1 DEF PipelineInv, TypeOK, TaskTypeOK
    <3>2. j = k
      BY <1>1, <2>1, <3>1, LockImpliesOneWorker DEF PipelineInv, OneWorker, InRun
    <3>. QED  BY <1>1, <2>1, <3>2 DEF PipelineInv, TypeOK, TaskTypeOK
  <2>. QED  BY <2>1 DEF TakeInv
<1>8. HandledInv(p)'
  <2>1. ASSUME NEW n \in DOMAIN handled'[p], NEW h \in Packets, handled'[p][n] = h
        PROVE  Linked(p, h)' /\ (next[p][Void] # Void => h < next[p][Void])
    <3>1. CASE n \in DOMAIN handled[p]
      <4>1. h = handled[p][n]
        BY <1>3, <2>1, <3>1
      <4>2. Linked(p, h) /\ (next[p][Void] # Void => h < next[p][Void])
        BY <3>1, <4>1 DEF OrderInv, HandledInv, Unhandled
      <4>. QED  BY <1>5, <4>2
    <3>2. CASE n \notin DOMAIN handled[p]
      <4>1. h = f
        BY <1>3, <2>1, <3>2
      <4>. QED  BY <1>4, <1>5, <4>1
    <3>. QED  BY <3>1, <3>2
  <2>2. \A n \in DOMAIN handled'[p] : handled'[p][n] \in Packets
    BY <1>3
  <2>. QED  BY <1>1, <2>1, <2>2 DEF HandledInv, Unhandled
<1>. QED  BY <1>6, <1>7, <1>8

(* A step of a task concerns its own queue, and adds to none.              *)
LEMMA TaskStepOrder ==
  ASSUME PipelineInv, OrderInv, NEW p \in Plugins, NEW k \in Packets, TaskStep(p, k)
  PROVE  OrderInv'
<1>1. UNCHANGED <<main, produced, target, oldLast, arrived>>
  BY DEF TaskStep, RunEnter, RunCheck, RunTake, RunNoSuchElement, RunClear, RunUnlink,
         RunReadSize, RunWriteSize, RunHandle, sendVars, history
<1>2. ASSUME NEW q \in Plugins PROVE ArrivedInv(q)'
  BY <1>1 DEF OrderInv, ArrivedInv
<1>3. /\ next \in [Plugins -> [Nodes -> Nodes]] /\ last \in [Plugins -> Nodes]
      /\ task \in [Plugins -> [Packets -> TaskStates]] /\ handled \in [Plugins -> Seq(Packets)]
      /\ first \in [Plugins -> Nodes] /\ after \in [Plugins -> Nodes]
  BY DEF PipelineInv, TypeOK, ListTypeOK, TaskTypeOK, HistoryTypeOK
<1>4. ASSUME NEW q \in Plugins, q # p
      PROVE  LinkInv(q)' /\ TakeInv(q)' /\ HandledInv(q)'
  <2>1. UNCHANGED <<next[q], last[q], first[q], after[q], handled[q], task[q]>>
    <3>1. CASE RunEnter(p, k) \/ RunCheck(p, k) \/ RunReadSize(p, k) \/ RunHandle(p, k)
               \/ RunNoSuchElement(p, k)
      BY <1>3, <1>4, <3>1 DEF RunEnter, RunCheck, RunReadSize, RunHandle, RunNoSuchElement,
                              TaskAt, listVars, history
    <3>2. CASE RunTake(p, k) \/ RunClear(p, k)
      BY <1>3, <1>4, <3>2 DEF RunTake, RunClear, TaskAt, listVars, history
    <3>3. CASE RunUnlink(p, k) \/ RunWriteSize(p, k)
      BY <1>3, <1>4, <3>3 DEF RunUnlink, RunWriteSize, TaskAt, history
    <3>. QED  BY <3>1, <3>2, <3>3 DEF TaskStep
  <2>. QED  BY <1>1, <2>1, LinksUntouched
<1>5. LinkInv(p)' /\ TakeInv(p)' /\ HandledInv(p)'
  <2>1. CASE RunEnter(p, k) \/ RunCheck(p, k) \/ RunHandle(p, k) \/ RunNoSuchElement(p, k)
    <3>1. UNCHANGED <<next, last, first, after, handled>>
      BY <2>1 DEF RunEnter, RunCheck, RunHandle, RunNoSuchElement, listVars, history
    <3>2. PICK to \in {"check", "take", "clear", "done"} : task' = [task EXCEPT ![p][k] = to]
      BY <2>1 DEF RunEnter, RunCheck, RunHandle, RunNoSuchElement, TaskAt
    <3>3. \A j \in Packets : task'[p][j] \in {"unlink", "readSize", "writeSize"}
            => task'[p][j] = task[p][j]
      BY <1>3, <3>2
    <3>. QED  BY <1>1, <3>1, <3>3, LinksUntouched
  <2>2. CASE RunReadSize(p, k)
    <3>1. /\ UNCHANGED <<next, last, first, after, handled>>
          /\ task[p][k] = "readSize" /\ task' = [task EXCEPT ![p][k] = "writeSize"]
      BY <2>2 DEF RunReadSize, TaskAt, listVars, history
    <3>2. \A n : Linked(p, n) => Linked(p, n)'
      BY <1>1 DEF Linked, Got
    <3>3. LinkInv(p)' /\ HandledInv(p)'
      BY <1>1, <3>1, <3>2 DEF OrderInv, LinkInv, HandledInv, Unhandled, Got
    <3>4. \A j \in Packets : task'[p][j] = IF j = k THEN "writeSize" ELSE task[p][j]
      BY <1>3, <3>1
    <3>5. TakeInv(p)'
      BY <1>1, <3>1, <3>2, <3>4 DEF OrderInv, TakeInv, Unhandled
    <3>. QED  BY <3>3, <3>5
  <2>3. CASE RunClear(p, k)
    <3>1. /\ UNCHANGED <<first, after, handled>> /\ last'[p] = Void
          /\ next'[p] = [next[p] EXCEPT ![Void] = Void]
          /\ task' = [task EXCEPT ![p][k] = "done"]
      BY <1>3, <2>3 DEF RunClear, TaskAt, history
    <3>2. \A n : Linked(p, n) => Linked(p, n)'
      BY <1>1 DEF Linked, Got
    <3>3. \A j \in Packets : task'[p][j] \in {"unlink", "readSize", "writeSize"}
            => task'[p][j] = task[p][j]
      BY <1>3, <3>1
    <3>0. /\ next[p] \in [Nodes -> Nodes] /\ next'[p][Void] = Void
          /\ \A n \in Nodes : next'[p][n] = next[p][n] \/ next'[p][n] = Void
      <4>1. next[p] \in [Nodes -> Nodes] /\ Void \in Nodes
        BY <1>3 DEF Nodes
      <4>. QED  BY <3>1, <4>1
    <3>4. LinkInv(p)'
      BY <1>1, <3>0, <3>1, <3>2 DEF OrderInv, LinkInv, Got
    <3>5. TakeInv(p)' /\ HandledInv(p)'
      BY <1>1, <3>0, <3>1, <3>2, <3>3 DEF OrderInv, TakeInv, HandledInv, Unhandled
    <3>. QED  BY <3>4, <3>5
  <2>4. CASE RunTake(p, k)
    <3>1. UNCHANGED <<next, last, handled>>
      BY <2>4 DEF RunTake, listVars, history
    <3>2. \A n : Linked(p, n) => Linked(p, n)'
      BY <1>1 DEF Linked, Got
    <3>3. LinkInv(p)' /\ HandledInv(p)'
      BY <1>1, <3>1, <3>2 DEF OrderInv, LinkInv, HandledInv, Unhandled, Got
    <3>. QED  BY <2>4, <3>3, TakeOrder
  <2>. QED  BY <2>1, <2>2, <2>3, <2>4, UnlinkOrder, HandOverOrder DEF TaskStep
<1>. QED  BY <1>2, <1>4, <1>5 DEF OrderInv

(* In every reachable state the links lead from smaller to larger packets. *)
THEOREM OrderInvariant == Spec => [](PipelineInv /\ OrderInv)
<1>1. Init => OrderInv
  BY OrderStarts
<1>2. PipelineInv /\ OrderInv /\ [Next]_vars => OrderInv'
  <2> SUFFICES ASSUME PipelineInv, OrderInv, [Next]_vars PROVE OrderInv'
    OBVIOUS
  <2>1. CASE OnStart \/ OnDestroy \/ Awaited \/ Write \/ Send
    BY <2>1, ServiceOrder, AddReadOrder, AddEnterOrder, AddLinkOrder DEF Send
  <2>2. ASSUME NEW p \in Plugins, NEW k \in Packets, TaskStep(p, k)
        PROVE  OrderInv'
    BY <2>2, TaskStepOrder
  <2>3. CASE UNCHANGED vars
    BY <2>3 DEF vars, sendVars, listVars, taskVars, history, OrderInv, ArrivedInv, LinkInv,
                TakeInv, HandledInv, Linked, Unhandled, Got
  <2>. QED  BY <2>1, <2>2, <2>3 DEF Next
<1>. QED  BY <1>1, <1>2, PipelineInvariant, PTL DEF Spec

(* A pipeline that has not started has offered and delivered nothing.      *)
LEMMA InitMaps == Init => Delivery!Init
BY DEF Init, Delivery!Init, Handling

(* Steps of a task before onDataReceived is called are no steps of the     *)
(* delivery, and neither are those of the main thread that add nothing.    *)
LEMMA QuietStep ==
  ASSUME PipelineInv,
         \/ OnStart \/ OnDestroy \/ Awaited \/ Write
         \/ AddRead \/ AddLink \/ AddReadSize \/ AddWriteSize \/ Execute
         \/ \E p \in Plugins, k \in Packets :
              \/ RunEnter(p, k) \/ RunCheck(p, k) \/ RunTake(p, k)
              \/ RunNoSuchElement(p, k) \/ RunClear(p, k) \/ RunUnlink(p, k) \/ RunReadSize(p, k)
  PROVE  UNCHANGED Delivery!odVars
<1>1. UNCHANGED history
  BY DEF OnStart, OnDestroy, Awaited, Write, AddRead, AddLink, AddReadSize, AddWriteSize,
         Execute, RunEnter, RunCheck, RunTake, RunNoSuchElement, RunClear, RunUnlink,
         RunReadSize
<1>2. task \in [Plugins -> [Packets -> TaskStates]]
  BY DEF PipelineInv, TypeOK, TaskTypeOK
<1>3. \A q \in Plugins, j \in Packets : task'[q][j] = "handle" <=> task[q][j] = "handle"
  <2>1. CASE \/ OnStart \/ OnDestroy \/ Awaited \/ Write
             \/ AddRead \/ AddLink \/ AddReadSize \/ AddWriteSize
    BY <2>1 DEF OnStart, OnDestroy, Awaited, Write, AddRead, AddLink, AddReadSize,
                AddWriteSize, taskVars
  <2>2. CASE Execute
    <3>1. /\ target \in Plugins /\ produced \in Packets /\ task[target][produced] = "none"
          /\ \/ task' = [task EXCEPT ![target][produced] = "submitted"]
             \/ task' = task
      BY <2>2 DEF Execute, MainAt, PipelineInv, TypeOK, SendTypeOK, Sending, FreshInv, Plugins
    <3>. QED  BY <1>2, <3>1
  <2>3. ASSUME NEW p \in Plugins, NEW k \in Packets,
               \/ RunEnter(p, k) \/ RunCheck(p, k) \/ RunTake(p, k)
               \/ RunNoSuchElement(p, k) \/ RunClear(p, k) \/ RunUnlink(p, k) \/ RunReadSize(p, k)
        PROVE  \A q \in Plugins, j \in Packets : task'[q][j] = "handle" <=> task[q][j] = "handle"
    <3>1. PICK to \in TaskStates \ {"handle"} :
            task[p][k] # "handle" /\ task' = [task EXCEPT ![p][k] = to]
      BY <2>3 DEF RunEnter, RunCheck, RunTake, RunNoSuchElement, RunClear, RunUnlink,
                  RunReadSize, TaskAt, TaskStates
    <3>. QED  BY <1>2, <3>1
  <2>. QED  BY <2>1, <2>2, <2>3
<1>4. UNCHANGED Handling
  BY <1>3 DEF Handling
<1>. QED  BY <1>1, <1>4 DEF Delivery!odVars, history

(* addLast offers the packet, which is not in the queue's history yet.     *)
LEMMA AddEnterOffers ==
  ASSUME PipelineInv, OrderInv, AddEnter
  PROVE  Delivery!Offer(target)
<1>1. /\ main = "enter" /\ target \in Plugins /\ produced \in Packets
      /\ UNCHANGED <<task, handled>>
      /\ arrived' = [arrived EXCEPT ![target] = Append(@, produced)]
  BY DEF AddEnter, MainAt, taskVars, PipelineInv, TypeOK, SendTypeOK, Sending
<1>2. \A i \in DOMAIN arrived[target] : arrived[target][i] < produced
  BY <1>1 DEF OrderInv, ArrivedInv
<1>3. produced \in Packets \ Delivery!ToSet(arrived[target])
  BY <1>1, <1>2 DEF Delivery!ToSet, Packets
<1>4. UNCHANGED Handling
  BY <1>1 DEF Handling
<1>. QED  BY <1>1, <1>3, <1>4 DEF Delivery!Offer

(* The end of removeFirst delivers a packet behind the last one delivered. *)
LEMMA HandOverDelivers ==
  ASSUME PipelineInv, OrderInv, NEW p \in Plugins, NEW k \in Packets, RunWriteSize(p, k)
  PROVE  Delivery!Deliver(p)
<1>1. /\ UNCHANGED arrived /\ first[p] \in Packets
      /\ handled' = [handled EXCEPT ![p] = Append(@, first[p])]
      /\ task[p][k] = "writeSize" /\ task' = [task EXCEPT ![p][k] = "handle"]
      /\ task \in [Plugins -> [Packets -> TaskStates]]
      /\ handled[p] \in Seq(Packets) /\ arrived[p] \in Seq(Packets)
  BY DEF RunWriteSize, TaskAt, PipelineInv, TypeOK, TaskTypeOK, HistoryTypeOK, TakenInv
<1>2. ~Handling[p] /\ Handling' = [Handling EXCEPT ![p] = TRUE]
  <2>1. \A j \in Packets : task[p][j] # "handle"
    BY <1>1, LockImpliesOneWorker DEF PipelineInv, OneWorker, InRun
  <2>2. \A q \in Plugins, j \in Packets :
          task'[q][j] = IF q = p /\ j = k THEN "handle" ELSE task[q][j]
    BY <1>1
  <2>3. \A q \in Plugins :
          (\E j \in Packets : task'[q][j] = "handle")
            <=> IF q = p THEN TRUE ELSE \E j \in Packets : task[q][j] = "handle"
    BY <2>2
  <2>. QED  BY <2>1, <2>3 DEF Handling
<1>3. PICK n \in DOMAIN arrived[p] : arrived[p][n] = first[p]
  BY <1>1 DEF OrderInv, TakeInv, Linked, Got
<1>4. Delivery!LastPlace(p) \in Nat /\ Delivery!LastPlace(p) < n
  <2>1. CASE handled[p] = <<>>
    BY <1>1, <1>3, <2>1 DEF Delivery!LastPlace
  <2>2. CASE handled[p] # <<>>
    <3>1. PICK h \in Packets : h = Delivery!Last(handled[p]) /\ h < first[p] /\ Got(p, h)
      <4>1. Len(handled[p]) \in DOMAIN handled[p]
        BY <1>1, <2>2
      <4>. QED  BY <1>1, <4>1, ArrivedNumbers
                DEF OrderInv, TakeInv, HandledInv, Unhandled, Linked, Delivery!Last
    <3>2. /\ Delivery!LastPlace(p) \in DOMAIN arrived[p]
          /\ arrived[p][Delivery!LastPlace(p)] = h
      BY <2>2, <3>1 DEF Delivery!LastPlace, Got
    <3>3. \A i, j \in DOMAIN arrived[p] : i < j => arrived[p][i] < arrived[p][j]
      BY DEF OrderInv, ArrivedInv
    <3>4. h \in Nat /\ first[p] \in Nat /\ n \in Nat /\ Delivery!LastPlace(p) \in Nat
      BY <1>1, <1>3, <3>1, <3>2 DEF Packets
    <3>. QED  BY <1>3, <3>1, <3>2, <3>3, <3>4
  <2>. QED  BY <2>1, <2>2
<1>5. n \in Delivery!LastPlace(p) + 1 .. Len(arrived[p])
  BY <1>1, <1>3, <1>4
<1>. QED  BY <1>1, <1>2, <1>3, <1>5 DEF Delivery!Deliver

(* When onDataReceived returns, the receiver is no longer busy.            *)
LEMMA HandledReturns ==
  ASSUME PipelineInv, NEW p \in Plugins, NEW k \in Packets, RunHandle(p, k)
  PROVE  Delivery!Return(p)
<1>1. /\ UNCHANGED history /\ task[p][k] = "handle" /\ task' = [task EXCEPT ![p][k] = "check"]
      /\ task \in [Plugins -> [Packets -> TaskStates]]
  BY DEF RunHandle, TaskAt, PipelineInv, TypeOK, TaskTypeOK
<1>2. \A j \in Packets : task[p][j] = "handle" => j = k
  BY <1>1, LockImpliesOneWorker DEF PipelineInv, OneWorker, InRun
<1>3. \A q \in Plugins, j \in Packets :
        task'[q][j] = IF q = p /\ j = k THEN "check" ELSE task[q][j]
  BY <1>1
<1>4. \A q \in Plugins :
        (\E j \in Packets : task'[q][j] = "handle")
          <=> IF q = p THEN FALSE ELSE \E j \in Packets : task[q][j] = "handle"
  BY <1>2, <1>3
<1>5. Handling[p] /\ Handling' = [Handling EXCEPT ![p] = FALSE]
  BY <1>1, <1>4 DEF Handling
<1>. QED  BY <1>1, <1>5 DEF Delivery!Return, history

(* The pipeline delivers in order: every behaviour of the detailed         *)
(* specification is one of OrderedDelivery.                                *)
THEOREM PipelineImplementsDelivery == Spec => DeliversInOrder
<1>1. Init => Delivery!Init
  BY InitMaps
<1>2. PipelineInv /\ OrderInv /\ [Next]_vars => [Delivery!Next]_(Delivery!odVars)
  <2> SUFFICES ASSUME PipelineInv, OrderInv, [Next]_vars
               PROVE  Delivery!Next \/ UNCHANGED Delivery!odVars
    OBVIOUS
  <2>1. CASE OnStart \/ OnDestroy \/ Awaited \/ Write
    BY <2>1, QuietStep
  <2>2. CASE Send
    <3>1. target \in Plugins
      BY DEF PipelineInv, TypeOK, SendTypeOK
    <3>. QED  BY <2>2, <3>1, QuietStep, AddEnterOffers DEF Send, Delivery!Next
  <2>3. ASSUME NEW p \in Plugins, NEW k \in Packets, TaskStep(p, k)
        PROVE  Delivery!Next \/ UNCHANGED Delivery!odVars
    <3>1. CASE RunWriteSize(p, k) \/ RunHandle(p, k)
      BY <3>1, HandOverDelivers, HandledReturns DEF Delivery!Next
    <3>2. CASE ~RunWriteSize(p, k) /\ ~RunHandle(p, k)
      BY <2>3, <3>2, QuietStep DEF TaskStep
    <3>. QED  BY <3>1, <3>2
  <2>4. CASE UNCHANGED vars
    BY <2>4 DEF vars, taskVars, history, Delivery!odVars, Handling
  <2>. QED  BY <2>1, <2>2, <2>3, <2>4 DEF Next
<1>. QED  BY <1>1, <1>2, OrderInvariant, PTL DEF Spec, DeliversInOrder, Delivery!Spec

===============================================================================
