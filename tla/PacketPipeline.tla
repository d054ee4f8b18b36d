---------------------------- MODULE PacketPipeline ----------------------------
(***************************************************************************)
(* The path of a data packet from an input plugin to the output plugins:   *)
(* HSService.onDataReady fans a packet out to the queue of every output    *)
(* plugin and hands the plugin to the cached thread pool, whose threads    *)
(* run OutputPlugin.run and empty the queue.                               *)
(*                                                                         *)
(* Every input plugin calls write from a listener or receiver that runs on *)
(* the main thread, which also starts and stops the service.               *)
(*                                                                         *)
(* The queue is a java.util.LinkedList that its two users protect with two *)
(* DIFFERENT monitors: onDataReady is synchronized on the plugin, run on   *)
(* the list.  One add and one remove can therefore overlap, so the list is *)
(* modelled by the fields that they share (the next links, voidLink's      *)
(* previous link, called last here, and size), one access per step.  A     *)
(* local is forgotten at its last use.                                     *)
(*                                                                         *)
(* An exception that leaves run() or onDataReady ends the process, and     *)
(* with it the pipeline; a new process starts from Init.                   *)
(***************************************************************************)
EXTENDS Integers, Sequences

CONSTANTS
  NumPlugins,   (* The length of HSService.outputPluginList.               *)
  MaxPackets,   (* Bound: packets produced over all sessions.              *)
  MaxSessions   (* Bound: times the service is started.                    *)

ASSUME PipelineAssumption ==
  /\ NumPlugins \in Nat \ {0}
  /\ MaxPackets \in Nat \ {0}
  /\ MaxSessions \in Nat \ {0}

Plugins == 1 .. NumPlugins
Packets == 1 .. MaxPackets

(* LinkedList's sentinel, and "nobody" as the holder of run's monitor.     *)
Void == 0
Nodes == Packets \cup {Void}
NoTask == 0

VARIABLES
  main,       (* Where the main thread is in onDataReady or onDestroy.     *)
  session,    (* How often the service has been started.                   *)
  isRunning,  (* HSService.isRunning.                                      *)
  pool,       (* The state of the pool HSService.tpe refers to.            *)
  produced,   (* The number of packets; the last one is being delivered.   *)
  target,     (* The output plugin it is being delivered to.               *)
  oldLast,    (* addLast's local copy of voidLink.previous.                *)
  mainSize,   (* size as addLast read it for size++.                       *)
  next,       (* next[p][n]: node n's next link in p's packetQueue.        *)
  last,       (* last[p]: voidLink.previous of p's packetQueue.            *)
  size,       (* size[p]: the size field of p's packetQueue.               *)
  task,       (* task[p][k]: the run() submitted with packet k.            *)
  taskPool,   (* taskPool[p][k]: the session whose pool runs that task.    *)
  queueLock,  (* queueLock[p]: the task in synchronized(packetQueue).      *)
  first,      (* first[p], after[p], taskSize[p]: the locals of the one    *)
  after,      (*   removeFirst in progress: the node, its successor, and   *)
  taskSize,   (*   size as read for size--.                                *)
  arrived,    (* History: the packets added to p's queue, in order.        *)
  handled     (* History: the packets p's onDataReceived got, in order.    *)

serviceVars == <<session, isRunning, pool>>
sendVars == <<produced, target, oldLast, mainSize>>
listVars == <<next, last, size>>
taskVars == <<task, taskPool, queueLock, first, after, taskSize>>
history  == <<arrived, handled>>
vars == <<main, serviceVars, sendVars, listVars, taskVars, history>>

-------------------------------------------------------------------------------

Init ==
  /\ main = "idle" /\ session = 0 /\ isRunning = FALSE /\ pool = "none"
  /\ produced = 0 /\ target = 1 /\ oldLast = Void /\ mainSize = 0
  /\ next = [p \in Plugins |-> [n \in Nodes |-> Void]]
  /\ last = [p \in Plugins |-> Void]
  /\ size = [p \in Plugins |-> 0]
  /\ task = [p \in Plugins |-> [k \in Packets |-> "none"]]
  /\ taskPool = [p \in Plugins |-> [k \in Packets |-> 0]]
  /\ queueLock = [p \in Plugins |-> NoTask]
  /\ first = [p \in Plugins |-> Void]
  /\ after = [p \in Plugins |-> Void]
  /\ taskSize = [p \in Plugins |-> 0]
  /\ arrived = [p \in Plugins |-> <<>>]
  /\ handled = [p \in Plugins |-> <<>>]

-------------------------------------------------------------------------------
(* The main thread: HSService.onStart and HSService.onDestroy.             *)

Live(p, k) == task[p][k] \notin {"none", "done"}

MainAt(from, to) == main = from /\ main' = to

(* onStart: a new pool; isRunning is set when the plugins have started.    *)
OnStart ==
  /\ main = "idle" /\ ~isRunning /\ session < MaxSessions
  /\ session' = session + 1 /\ pool' = "open" /\ isRunning' = TRUE
  /\ UNCHANGED <<main, sendVars, listVars, taskVars, history>>

(* Mutant: isRunning is not cleared.                                       *)
OnDestroyKeepsRunning ==
  /\ isRunning /\ MainAt("idle", "awaiting")
  /\ pool' = "shutdown"
  /\ UNCHANGED <<isRunning, session, sendVars, listVars, taskVars, history>>

(* onDestroy: isRunning is cleared, the plugins stop, the pool shuts down. *)
OnDestroy ==
  /\ isRunning /\ MainAt("idle", "awaiting")
  /\ isRunning' = FALSE /\ pool' = "shutdown"
  /\ UNCHANGED <<session, sendVars, listVars, taskVars, history>>

(* awaitTermination returns: every task of this pool has ended, or both    *)
(* waits of 60 seconds have elapsed (a cached pool has no queue and run()  *)
(* does not wait, so that shutdownNow discards and ends nothing).          *)
Awaited ==
  /\ MainAt("awaiting", "idle")
  /\ UNCHANGED <<serviceVars, sendVars, listVars, taskVars, history>>

-------------------------------------------------------------------------------
(* The main thread: InputPlugin.write, HSService.onDataReady.              *)

(* onDataReady, past the test of isRunning.                                *)
Write ==
  /\ isRunning /\ produced < MaxPackets
  /\ MainAt("idle", "add")
  /\ produced' = produced + 1 /\ target' = 1
  /\ UNCHANGED <<serviceVars, oldLast, mainSize, listVars, taskVars, history>>

(* OutputPlugin.onDataReady: addLast reads voidLink.previous.              *)
AddRead ==
  /\ MainAt("add", "enter")
  /\ oldLast' = last[target]
  /\ UNCHANGED <<serviceVars, produced, target, mainSize, listVars, taskVars, history>>

(* addLast: voidLink.previous = newLink.                                   *)
AddEnter ==
  LET p == target IN
  /\ MainAt("enter", "link")
  /\ last' = [last EXCEPT ![p] = produced]
  /\ next' = [next EXCEPT ![p][produced] = Void]
  /\ arrived' = [arrived EXCEPT ![p] = Append(@, produced)]
  /\ UNCHANGED <<serviceVars, sendVars, size, taskVars, handled>>

(* addLast: oldLast.next = newLink.                                        *)
AddLink ==
  /\ MainAt("link", "readSize")
  /\ next' = [next EXCEPT ![target][oldLast] = produced]
  /\ oldLast' = Void
  /\ UNCHANGED <<serviceVars, produced, target, mainSize, last, size, taskVars, history>>

(* addLast: the read and the write of size++.                              *)
AddReadSize ==
  /\ MainAt("readSize", "writeSize")
  /\ mainSize' = size[target]
  /\ UNCHANGED <<serviceVars, produced, target, oldLast, listVars, taskVars, history>>

AddWriteSize ==
  /\ MainAt("writeSize", "execute")
  /\ size' = [size EXCEPT ![target] = mainSize + 1]
  /\ mainSize' = 0
  /\ UNCHANGED <<serviceVars, produced, target, oldLast, next, last, taskVars, history>>

(* Mutant: the fan-out stops one plugin early.                             *)
ExecuteAllButLast ==
  LET more == pool = "open" /\ target < NumPlugins - 1 IN
  /\ MainAt("execute", IF more THEN "add" ELSE "idle")
  /\ target' = IF more THEN target + 1 ELSE target
  /\ IF pool = "open"
     THEN /\ task' = [task EXCEPT ![target][produced] = "submitted"]
          /\ taskPool' = [taskPool EXCEPT ![target][produced] = session]
     ELSE UNCHANGED <<task, taskPool>>
  /\ UNCHANGED <<serviceVars, produced, oldLast, mainSize, listVars, queueLock, first,
                 after, taskSize, history>>

(* tpe.execute(plugin), then the next plugin of the list.  A pool that has *)
(* been shut down throws RejectedExecutionException, which ends the loop.  *)
Execute ==
  LET more == pool = "open" /\ target < NumPlugins IN
  /\ MainAt("execute", IF more THEN "add" ELSE "idle")
  /\ target' = IF more THEN target + 1 ELSE target
  /\ IF pool = "open"
     THEN /\ task' = [task EXCEPT ![target][produced] = "submitted"]
          /\ taskPool' = [taskPool EXCEPT ![target][produced] = session]
     ELSE UNCHANGED <<task, taskPool>>
  /\ UNCHANGED <<serviceVars, produced, oldLast, mainSize, listVars, queueLock, first,
                 after, taskSize, history>>

Send == AddRead \/ AddEnter \/ AddLink \/ AddReadSize \/ AddWriteSize \/ Execute

-------------------------------------------------------------------------------
(* The pool thread that runs OutputPlugin.run of plugin p for packet k.    *)

TaskAt(p, k, from, to) ==
  /\ task[p][k] = from
  /\ task' = [task EXCEPT ![p][k] = to]

Release(p) == queueLock' = [queueLock EXCEPT ![p] = NoTask]

(* Mutant: run is not synchronized.                                        *)
RunEnterUnlocked(p, k) ==
  /\ TaskAt(p, k, "submitted", "check")
  /\ queueLock' = [queueLock EXCEPT ![p] = k]
  /\ UNCHANGED <<main, serviceVars, sendVars, listVars, taskPool, first, after, taskSize,
                 history>>

(* synchronized (packetQueue)                                              *)
RunEnter(p, k) ==
  /\ queueLock[p] = NoTask
  /\ TaskAt(p, k, "submitted", "check")
  /\ queueLock' = [queueLock EXCEPT ![p] = k]
  /\ UNCHANGED <<main, serviceVars, sendVars, listVars, taskPool, first, after, taskSize,
                 history>>

(* while (!packetQueue.isEmpty()): isEmpty tests the size field.           *)
RunCheck(p, k) ==
  /\ \/ size[p] # 0 /\ TaskAt(p, k, "check", "take") /\ UNCHANGED queueLock
     \/ size[p] = 0 /\ TaskAt(p, k, "check", "done") /\ Release(p)
  /\ UNCHANGED <<main, serviceVars, sendVars, listVars, taskPool, first, after, taskSize,
                 history>>

(* removeFirst reads voidLink.next and that node's next link.              *)
RunTake(p, k) ==
  /\ next[p][Void] # Void
  /\ TaskAt(p, k, "take", "unlink")
  /\ first' = [first EXCEPT ![p] = next[p][Void]]
  /\ after' = [after EXCEPT ![p] = next[p][next[p][Void]]]
  /\ UNCHANGED <<main, serviceVars, sendVars, listVars, taskPool, queueLock, taskSize,
                 history>>

(* Mutant: the exception is caught and the loop goes on.                   *)
RunNoSuchElementLoops(p, k) ==
  /\ next[p][Void] = Void
  /\ TaskAt(p, k, "take", "check")
  /\ UNCHANGED <<main, serviceVars, sendVars, listVars, taskPool, queueLock, first, after,
                 taskSize, history>>

(* removeFirst finds no node and throws NoSuchElementException.            *)
RunNoSuchElement(p, k) ==
  /\ next[p][Void] = Void
  /\ TaskAt(p, k, "take", "clear")
  /\ UNCHANGED <<main, serviceVars, sendVars, listVars, taskPool, queueLock, first, after,
                 taskSize, history>>

(* The handler logs the exception and clears the queue, of a packet added  *)
(* since the exception too; run leaves the loop.                           *)
RunClear(p, k) ==
  /\ TaskAt(p, k, "clear", "done")
  /\ Release(p)
  /\ next' = [next EXCEPT ![p][Void] = Void]
  /\ last' = [last EXCEPT ![p] = Void]
  /\ size' = [size EXCEPT ![p] = 0]
  /\ UNCHANGED <<main, serviceVars, sendVars, taskPool, first, after, taskSize, history>>

(* Mutant: the packet is read and stays in the queue.                      *)
RunPeek(p, k) ==
  /\ TaskAt(p, k, "unlink", "readSize")
  /\ UNCHANGED <<main, serviceVars, sendVars, listVars, taskPool, queueLock, first, after,
                 taskSize, history>>

(* removeFirst: voidLink.next = next; next.previous = voidLink.            *)
RunUnlink(p, k) ==
  /\ TaskAt(p, k, "unlink", "readSize")
  /\ next' = [next EXCEPT ![p][Void] = after[p]]
  /\ last' = [last EXCEPT ![p] = IF after[p] = Void THEN Void ELSE @]
  /\ after' = [after EXCEPT ![p] = Void]
  /\ UNCHANGED <<main, serviceVars, sendVars, size, taskPool, queueLock, first, taskSize,
                 history>>

(* removeFirst: the read of size--.                                        *)
RunReadSize(p, k) ==
  /\ TaskAt(p, k, "readSize", "writeSize")
  /\ taskSize' = [taskSize EXCEPT ![p] = size[p]]
  /\ UNCHANGED <<main, serviceVars, sendVars, listVars, taskPool, queueLock, first, after,
                 history>>

(* removeFirst: the write of size--; onDataReceived is called.             *)
RunWriteSize(p, k) ==
  /\ TaskAt(p, k, "writeSize", "handle")
  /\ size' = [size EXCEPT ![p] = taskSize[p] - 1]
  /\ handled' = [handled EXCEPT ![p] = Append(@, first[p])]
  /\ first' = [first EXCEPT ![p] = Void]
  /\ taskSize' = [taskSize EXCEPT ![p] = 0]
  /\ UNCHANGED <<main, serviceVars, sendVars, next, last, taskPool, queueLock, after,
                 arrived>>

(* onDataReceived returns.                                                 *)
RunHandle(p, k) ==
  /\ TaskAt(p, k, "handle", "check")
  /\ UNCHANGED <<main, serviceVars, sendVars, listVars, taskPool, queueLock, first,
                 after, taskSize, history>>

TaskStep(p, k) ==
  \/ RunEnter(p, k) \/ RunCheck(p, k) \/ RunTake(p, k)
  \/ RunNoSuchElement(p, k) \/ RunClear(p, k) \/ RunUnlink(p, k)
  \/ RunReadSize(p, k) \/ RunWriteSize(p, k) \/ RunHandle(p, k)

-------------------------------------------------------------------------------

Next ==
  \/ OnStart \/ OnDestroy \/ Awaited \/ Write \/ Send
  \/ \E p \in Plugins, k \in Packets : TaskStep(p, k)

Spec == Init /\ [][Next]_vars

(* Threads that have work run.  Nobody has to produce, start or stop.      *)
FairSpec ==
  /\ Spec /\ WF_vars(Send)
  /\ \A p \in Plugins, k \in Packets : WF_vars(TaskStep(p, k))

-------------------------------------------------------------------------------

Sending == {"add", "enter", "link", "readSize", "writeSize", "execute"}
TaskStates == {"none", "submitted", "check", "take", "clear", "unlink",
               "readSize", "writeSize", "handle", "done"}

ServiceTypeOK ==
  /\ session \in 0 .. MaxSessions /\ isRunning \in BOOLEAN
  /\ pool \in {"none", "open", "shutdown"}

SendTypeOK ==
  /\ main \in Sending \cup {"idle", "awaiting"}
  /\ produced \in 0 .. MaxPackets /\ (main \in Sending => produced \in Packets)
  /\ target \in Plugins /\ oldLast \in Nodes /\ mainSize \in Nat

ListTypeOK ==
  /\ next \in [Plugins -> [Nodes -> Nodes]]
  /\ last \in [Plugins -> Nodes]
  /\ size \in [Plugins -> Nat]

TaskTypeOK ==
  /\ task \in [Plugins -> [Packets -> TaskStates]]
  /\ taskPool \in [Plugins -> [Packets -> 0 .. MaxSessions]]
  /\ queueLock \in [Plugins -> Packets \cup {NoTask}]
  /\ first \in [Plugins -> Nodes]
  /\ after \in [Plugins -> Nodes]
  /\ taskSize \in [Plugins -> Nat]

HistoryTypeOK ==
  /\ arrived \in [Plugins -> Seq(Packets)]
  /\ handled \in [Plugins -> Seq(Packets)]

(* The types of the variables; size in particular is never negative.       *)
TypeOK ==
  ServiceTypeOK /\ SendTypeOK /\ ListTypeOK /\ TaskTypeOK /\ HistoryTypeOK

InRun(p, k) == task[p][k] \notin {"none", "submitted", "done"}

(* Two pool threads are never inside run() of the same output plugin, even *)
(* when a pool that was given up on still runs beside the new one: no      *)
(* onDataReceived is written to be reentrant.                              *)
OneWorker ==
  \A p \in Plugins, j, k \in Packets : InRun(p, j) /\ InRun(p, k) => j = k

(* No packet is offered to a pool that is shut down, over any sequence of  *)
(* starts, stops and packets: RejectedExecutionException would leave       *)
(* onDataReady for the input plugin's listener and end the process.        *)
NeverRejected == main = "execute" => pool = "open"

(* A worker past isEmpty() still sees a positive size when it decrements   *)
(* it, however the input threads' size++ interleave: size never becomes    *)
(* negative, which isEmpty() (size == 0) could not recover from.           *)
SizePositive ==
  \A p \in Plugins, k \in Packets :
    /\ task[p][k] \in {"take", "unlink", "readSize"} => size[p] > 0
    /\ task[p][k] = "writeSize" => taskSize[p] > 0

(* Every task that the pool accepted ends: run()'s loop terminates and the *)
(* two monitors of a plugin never block each other for good.               *)
TasksEnd ==
  \A p \in Plugins, k \in Packets :
    task[p][k] = "submitted" ~> task[p][k] = "done"

Got(p, k) == \E n \in DOMAIN arrived[p] : arrived[p][n] = k

(* A packet that gets past the test of isRunning reaches the queues of all *)
(* the output plugins: neither a stop nor the workers cut its way short.   *)
FanOutCompletes ==
  \A k \in Packets :
    (main = "add" /\ produced = k) ~> \A p \in Plugins : Got(p, k)

Reachable(p) ==
  LET Follow[n \in 0 .. MaxPackets] ==
        IF n = 0 THEN {next[p][Void]}
        ELSE Follow[n - 1] \cup {next[p][m] : m \in Follow[n - 1] \ {Void}}
  IN Follow[MaxPackets] \ {Void}

BeingAdded(p) == IF main = "link" /\ target = p THEN {produced} ELSE {}

BeingTaken(p) ==
  IF \E k \in Packets : task[p][k] \in {"readSize", "writeSize"}
  THEN {first[p]} ELSE {}

HandledSet(p) == {handled[p][n] : n \in DOMAIN handled[p]}

(* OutputPlugin.packetQueue is a "Queue for incoming DataPackets kept in   *)
(* case more than one arrives before the previous one can be handled":     *)
(* a packet that was added is handled, in the list, or between the two.    *)
PacketsKept ==
  \A p \in Plugins : \A n \in DOMAIN arrived[p] :
    arrived[p][n] \in HandledSet(p) \cup Reachable(p) \cup BeingAdded(p)
                        \cup BeingTaken(p)

===============================================================================
