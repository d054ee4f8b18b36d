------------------------------- MODULE FileOutput -------------------------------
(***************************************************************************)
(* The FileOutput plugin: the worker thread that writes packets to log     *)
(* files (onDataReceived, getFileForPacketType, closeAll), the main thread *)
(* that starts, stops and reconfigures the plugin, and the log files on    *)
(* the storage card.  OutputPlugin.run lets one worker in at a time        *)
(* (PacketPipeline, OneWorker), so there is one worker here.               *)
(*                                                                         *)
(* A file is its name: the packet type and the second it was created in.   *)
(* A record is one packet as written; where[r] tells where it is.          *)
(***************************************************************************)
EXTENDS Integers, Sequences

CONSTANTS
  Types,          (* Packet types, each with its own file.                 *)
  Intervals,      (* Rollover intervals that can be chosen, in seconds.    *)
  StorageFails,   (* Whether the storage card may fail or be unmounted.    *)
  FirstClock,     (* The time of the first step, past the epoch by more    *)
                  (* than any interval.                                    *)
  MaxClock,       (* Bound: the last second.                               *)
  MaxRecords,     (* Bound: packets that arrive.                           *)
  MaxCrashes      (* Bound: times the process is killed.                   *)

(* The preference value -1, "Never" on the preference screen.              *)
Never == -1

ASSUME FileOutputAssumption ==
  /\ Types # {}
  /\ Intervals \subseteq (Nat \ {0}) \cup {Never} /\ Intervals # {}
  /\ StorageFails \in BOOLEAN
  /\ FirstClock \in Nat /\ \A i \in Intervals : FirstClock >= i
  /\ MaxClock \in Nat /\ MaxClock >= FirstClock
  /\ MaxRecords \in Nat /\ MaxCrashes \in Nat

Seconds == FirstClock .. MaxClock
Records == 1 .. MaxRecords
Names == Types \X Seconds
NoStamp == -1
Nobody == "nobody"

Place(dir, n) == <<dir, n>>
InDir(dir) == {Place(dir, n) : n \in Names}
Nowhere == Place("none", "none")       (* not written yet                  *)
Lost == Place("lost", "none")          (* written, and in no file          *)
Taken == Place("taken", "none")        (* uploaded, or deleted by the user *)

VARIABLES
  clock,               (* System.currentTimeMillis, in seconds.            *)
  serving,             (* HSService.isRunning: packets arrive.             *)
  queue,               (* The plugin's packetQueue, as packet types.       *)
  arrivals,            (* The number of packets that have arrived.         *)
  prefEnabled,         (* The fileOutputEnabled preference.                *)
  prefInterval,        (* The fileOutputRolloverInterval preference.       *)
  pluginEnabled, pluginStopping, numThreadsWriting, hasRunOnce,
  initialTimestamp, rolloverTimestamp, rolloverInterval, currentTimeMillis,
  fileHandles,         (* fileHandles[t]: creation time of t's open file.  *)
  monitor,             (* Who is in a synchronized method of the plugin.   *)
  toMove,              (* The files closeAll has listed and not yet moved. *)
  worker,              (* Where the worker is in onDataReceived.           *)
  packet,              (* The type of the packet it handles.               *)
  outputStream,        (* Its local variable: creation time of the file.   *)
  writes,              (* The number of records it has written.            *)
  mainAt,              (* Where the main thread is in onPluginStop.        *)
  disabling,           (* Whether stopPlugin was called to disable.        *)
  live, recent,        (* The files in the two directories.                *)
  where,               (* where[r]: the place of record r.                 *)
  crashes

world   == <<clock, serving, queue, arrivals, prefEnabled, prefInterval, crashes>>
roll    == <<hasRunOnce, initialTimestamp, rolloverTimestamp, currentTimeMillis>>
handler == <<worker, packet, outputStream, numThreadsWriting>>
mainV   == <<mainAt, disabling, pluginEnabled, pluginStopping, rolloverInterval>>
closing == <<fileHandles, monitor, toMove>>
disk    == <<live, recent, where, writes>>
vars == <<world, roll, handler, mainV, closing, disk>>

-------------------------------------------------------------------------------

(* The state of a new process: FileOutput's field initialisers.            *)
NewProcess ==
  /\ serving' = FALSE /\ queue' = <<>>
  /\ pluginEnabled' = FALSE /\ pluginStopping' = FALSE
  /\ numThreadsWriting' = 0 /\ hasRunOnce' = FALSE
  /\ initialTimestamp' = -1 /\ rolloverTimestamp' = -1
  /\ rolloverInterval' = 0 /\ currentTimeMillis' = FirstClock
  /\ fileHandles' = [t \in Types |-> NoStamp] /\ monitor' = Nobody
  /\ toMove' = {}
  /\ worker' = "idle" /\ packet' = packet /\ outputStream' = NoStamp
  /\ mainAt' = "idle" /\ disabling' = FALSE

Init ==
  /\ clock = FirstClock /\ serving = FALSE /\ queue = <<>> /\ arrivals = 0
  /\ prefEnabled \in {"unset", "on", "off"} /\ prefInterval \in Intervals
  /\ pluginEnabled = FALSE /\ pluginStopping = FALSE
  /\ numThreadsWriting = 0 /\ hasRunOnce = FALSE
  /\ initialTimestamp = -1 /\ rolloverTimestamp = -1
  /\ rolloverInterval = 0 /\ currentTimeMillis = FirstClock
  /\ fileHandles = [t \in Types |-> NoStamp] /\ monitor = Nobody
  /\ toMove = {}
  /\ worker = "idle" /\ packet \in Types /\ outputStream = NoStamp
  /\ writes = 0
  /\ mainAt = "idle" /\ disabling = FALSE
  /\ live = {} /\ recent = {} /\ where = [r \in Records |-> Nowhere]
  /\ crashes = 0

-------------------------------------------------------------------------------
(* The world around the plugin.                                            *)

Tick ==
  /\ clock < MaxClock /\ clock' = clock + 1
  /\ UNCHANGED <<serving, queue, arrivals, prefEnabled, prefInterval, crashes,
                 roll, handler, mainV, closing, disk>>

(* HSService.onDataReady queues a packet while the service runs.           *)
Arrive(t) ==
  /\ serving /\ arrivals < MaxRecords
  /\ arrivals' = arrivals + 1 /\ queue' = Append(queue, t)
  /\ UNCHANGED <<clock, serving, prefEnabled, prefInterval, crashes, roll,
                 handler, mainV, closing, disk>>

(* The uploader moves a recent file away, or the user deletes it.          *)
TakeRecent(n) ==
  /\ n \in recent /\ recent' = recent \ {n}
  /\ where' = [r \in Records |->
                 IF where[r] = Place("recent", n) THEN Taken ELSE where[r]]
  /\ UNCHANGED <<world, roll, handler, mainV, closing, live, writes>>

(* The process ends with the records at the given places: those that open  *)
(* files still buffer may be lost.                                         *)
EndProcess(places) ==
  /\ crashes < MaxCrashes /\ crashes' = crashes + 1
  /\ NewProcess
  /\ LET open == {Place("live", <<t, fileHandles[t]>>) : t \in Types} IN
     \E buffered \in SUBSET {r \in Records : where[r] \in open} :
       where' = [r \in Records |-> IF r \in buffered THEN Lost ELSE places[r]]
  /\ UNCHANGED <<clock, arrivals, prefEnabled, prefInterval, recent, writes>>

(* It is killed, by the system or by an exception in a thread.             *)
Crash == EndProcess(where) /\ UNCHANGED live

-------------------------------------------------------------------------------
(* closeAll, by the worker (a rollover) or by the main thread (a stop).    *)

(* Mutant: the closed streams stay in fileHandles.                         *)
CloseKeepsHandles(who) ==
  /\ monitor = Nobody /\ monitor' = who
  /\ toMove' = live /\ UNCHANGED fileHandles

(* Takes the monitor, closes the open files and clears fileHandles, lists  *)
(* the live directory.                                                     *)
CloseHandles(who) ==
  /\ monitor = Nobody /\ monitor' = who
  /\ fileHandles' = [t \in Types |-> NoStamp]
  /\ toMove' = live

(* renameTo replaces a file of the same name in the recent directory.      *)
MoveFile(n) ==
  /\ live' = live \ {n} /\ recent' = recent \cup {n} /\ toMove' = toMove \ {n}
  /\ where' = [r \in Records |->
                 CASE where[r] = Place("recent", n) -> Lost
                   [] where[r] = Place("live", n)   -> Place("recent", n)
                   [] OTHER                         -> where[r]]

(* A rename or mkdirs that fails ends the loop over the files.             *)
MoveFails ==
  /\ StorageFails /\ toMove' = {}
  /\ UNCHANGED <<live, recent, where>>

CloseMove(who) ==
  /\ monitor = who
  /\ (\E n \in toMove : MoveFile(n)) \/ (toMove # {} /\ MoveFails)
  /\ UNCHANGED <<world, roll, handler, mainV, fileHandles, monitor, writes>>

CloseEnd(who) == monitor = who /\ toMove = {} /\ monitor' = Nobody

-------------------------------------------------------------------------------
(* The worker: onDataReceived for the packet at the head of the queue.     *)

At(from, to) == worker = from /\ worker' = to

(* The plugin is disabled or stopping: the packet is dropped.              *)
Ignore ==
  /\ worker = "idle" /\ queue # <<>>
  /\ ~pluginEnabled \/ pluginStopping
  /\ queue' = Tail(queue)
  /\ UNCHANGED <<clock, serving, arrivals, prefEnabled, prefInterval, crashes, roll,
                 handler, mainV, closing, disk>>

(* It is neither: the worker goes on, numThreadsWriting not yet raised.    *)
Accept ==
  /\ queue # <<>> /\ pluginEnabled /\ ~pluginStopping
  /\ At("idle", "accepted")
  /\ queue' = Tail(queue) /\ packet' = Head(queue)
  /\ UNCHANGED <<clock, serving, arrivals, prefEnabled, prefInterval, crashes, roll,
                 outputStream, numThreadsWriting, mainV, closing, disk>>

BeginWriting ==
  /\ At("accepted", "rollover")
  /\ numThreadsWriting' = numThreadsWriting + 1
  /\ currentTimeMillis' = clock
  /\ UNCHANGED <<world, hasRunOnce, initialTimestamp, rolloverTimestamp, packet,
                 outputStream, mainV, closing, disk>>

RolloverDue == currentTimeMillis >= rolloverTimestamp /\ rolloverInterval # Never

(* Not due; or due for the first time, when nothing is closed.             *)
NoRollover ==
  /\ ~RolloverDue /\ At("rollover", "get")
  /\ UNCHANGED <<world, roll, packet, outputStream, numThreadsWriting, mainV,
                 closing, disk>>

FirstRollover ==
  /\ RolloverDue /\ ~hasRunOnce
  /\ At("rollover", "stamp")
  /\ hasRunOnce' = TRUE /\ initialTimestamp' = currentTimeMillis
  /\ UNCHANGED <<world, rolloverTimestamp, currentTimeMillis, packet, outputStream,
                 numThreadsWriting, mainV, closing, disk>>

(* Mutant: a rollover that closes nothing.                                 *)
RolloverKeepsOpen ==
  /\ RolloverDue /\ hasRunOnce
  /\ At("rollover", "stamp")
  /\ initialTimestamp' = currentTimeMillis
  /\ UNCHANGED <<world, hasRunOnce, rolloverTimestamp, currentTimeMillis, packet,
                 outputStream, numThreadsWriting, mainV, closing, disk>>

Rollover ==
  /\ RolloverDue /\ hasRunOnce
  /\ At("rollover", "close")
  /\ initialTimestamp' = currentTimeMillis
  /\ UNCHANGED <<world, hasRunOnce, rolloverTimestamp, currentTimeMillis, packet,
                 outputStream, numThreadsWriting, mainV, closing, disk>>

WorkerClose ==
  /\ At("close", "closing") /\ CloseHandles("worker")
  /\ UNCHANGED <<world, roll, packet, outputStream, numThreadsWriting, mainV, disk>>

WorkerCloseEnd ==
  /\ At("closing", "stamp") /\ CloseEnd("worker")
  /\ UNCHANGED <<world, roll, packet, outputStream, numThreadsWriting, mainV,
                 fileHandles, toMove, disk>>

StampRollover ==
  /\ At("stamp", "get")
  /\ rolloverTimestamp' = currentTimeMillis + rolloverInterval
  /\ UNCHANGED <<world, hasRunOnce, initialTimestamp, currentTimeMillis, packet,
                 outputStream, numThreadsWriting, mainV, closing, disk>>

(* fileHandles.get(id), which takes no monitor.                            *)
GetStream ==
  /\ At("get", IF fileHandles[packet] = NoStamp THEN "open" ELSE "write")
  /\ outputStream' = fileHandles[packet]
  /\ UNCHANGED <<world, roll, packet, numThreadsWriting, mainV, closing, disk>>

(* The places of the records when live file n is opened for output.        *)
Emptied(n) ==
  [r \in Records |-> IF where[r] = Place("live", n) THEN Lost ELSE where[r]]

(* Mutant: getFileForPacketType is not synchronized.                       *)
OpenFileUnlocked ==
  LET n == <<packet, currentTimeMillis>> IN
  /\ At("open", "write")
  /\ fileHandles' = [fileHandles EXCEPT ![packet] = currentTimeMillis]
  /\ outputStream' = currentTimeMillis
  /\ live' = live \cup {n}
  /\ where' = Emptied(n)
  /\ UNCHANGED <<world, roll, packet, numThreadsWriting, mainV, monitor, toMove,
                 recent, writes>>

(* getFileForPacketType: a new file, named by currentTimeMillis.  Opening  *)
(* an existing live file for output empties it.                            *)
OpenFile ==
  LET n == <<packet, currentTimeMillis>> IN
  /\ monitor = Nobody /\ At("open", "write")
  /\ fileHandles' = [fileHandles EXCEPT ![packet] = currentTimeMillis]
  /\ outputStream' = currentTimeMillis
  /\ live' = live \cup {n}
  /\ where' = Emptied(n)
  /\ UNCHANGED <<world, roll, packet, numThreadsWriting, mainV, monitor, toMove,
                 recent, writes>>

(* It fails and returns null, before or after it has made or emptied the   *)
(* file: dataParse's NullPointerException ends the process.                *)
OpenFails ==
  LET n == <<packet, currentTimeMillis>> IN
  /\ StorageFails /\ monitor = Nobody /\ worker = "open"
  /\ Crash \/ (EndProcess(Emptied(n)) /\ live' = live \cup {n})

(* A sensor packet that is not written needs no stream: it is dropped and  *)
(* the worker goes on.                                                     *)
OpenFailsUnused ==
  LET n == <<packet, currentTimeMillis>> IN
  /\ StorageFails /\ monitor = Nobody /\ At("open", "end")
  /\ UNCHANGED <<live, where>> \/ (live' = live \cup {n} /\ where' = Emptied(n))
  /\ UNCHANGED <<world, roll, packet, outputStream, numThreadsWriting, mainV,
                 closing, recent, writes>>

(* dataParse, which takes no monitor: an open stream writes to its file,   *)
(* wherever that has been moved; a closed one throws an IOException that   *)
(* is logged.                                                              *)
WriteRecord ==
  LET n == <<packet, outputStream>>
      file == Place(IF n \in live THEN "live" ELSE "recent", n)
      open == fileHandles[packet] = outputStream IN
  /\ At("write", "writing")
  /\ writes' = writes + 1
  /\ where' = [where EXCEPT ![writes + 1] = IF open THEN file ELSE Lost]
  /\ UNCHANGED <<world, roll, packet, outputStream, numThreadsWriting, mainV,
                 closing, live, recent>>

(* Its last fields: a record whose stream has been closed since the first  *)
(* is cut short, and so is what can be read of its file.                   *)
WriteRest ==
  /\ At("writing", "end")
  /\ where' = [where EXCEPT ![writes] =
                 IF fileHandles[packet] = outputStream THEN @ ELSE Lost]
  /\ UNCHANGED <<world, roll, packet, outputStream, numThreadsWriting, mainV,
                 closing, live, recent, writes>>

(* logSensorData is off: the packet had a file opened, but is not written. *)
SkipRecord ==
  /\ At("write", "end")
  /\ UNCHANGED <<world, roll, packet, outputStream, numThreadsWriting, mainV,
                 closing, disk>>

(* Mutants: numThreadsWriting is not lowered; it is lowered twice.         *)
EndWritingCounted ==
  /\ At("end", "idle")
  /\ UNCHANGED <<world, roll, packet, outputStream, numThreadsWriting, mainV, closing,
                 disk>>

EndWritingTwice ==
  /\ At("end", "idle")
  /\ numThreadsWriting' = numThreadsWriting - 2
  /\ UNCHANGED <<world, roll, packet, outputStream, mainV, closing, disk>>

EndWriting ==
  /\ At("end", "idle")
  /\ numThreadsWriting' = numThreadsWriting - 1
  /\ outputStream' = NoStamp
  /\ UNCHANGED <<world, roll, packet, mainV, closing, disk>>

Worker ==
  \/ Accept \/ BeginWriting \/ NoRollover \/ FirstRollover \/ Rollover
  \/ WorkerClose \/ CloseMove("worker") \/ WorkerCloseEnd \/ StampRollover
  \/ GetStream \/ OpenFile \/ OpenFails \/ OpenFailsUnused \/ WriteRecord
  \/ WriteRest \/ SkipRecord \/ EndWriting \/ Ignore

-------------------------------------------------------------------------------
(* The main thread: starting, stopping and changing preferences.           *)

(* HSService.onStart: onPluginStart; an unset preference reads as false.   *)
ServiceStart ==
  /\ mainAt = "idle" /\ ~serving
  /\ serving' = TRUE
  /\ pluginEnabled' = (prefEnabled = "on")
  /\ rolloverInterval' = prefInterval
  /\ UNCHANGED <<clock, queue, arrivals, prefEnabled, prefInterval, crashes, roll,
                 handler, mainAt, disabling, pluginStopping, closing, disk>>

(* HSService.onDestroy: isRunning = false, then onPluginStop.              *)
ServiceStop ==
  /\ mainAt = "idle" /\ serving
  /\ serving' = FALSE
  /\ mainAt' = "waiting" /\ pluginStopping' = TRUE /\ disabling' = FALSE
  /\ UNCHANGED <<clock, queue, arrivals, prefEnabled, prefInterval, crashes, roll,
                 handler, pluginEnabled, rolloverInterval, closing, disk>>

MainAt(from, to) == mainAt = from /\ mainAt' = to

(* The user edits the preferences.  Only a running service listens: its    *)
(* onPreferenceChanged begins with the interval.                           *)
PreferenceChanged(e, i) ==
  /\ mainAt = "idle"
  /\ prefEnabled' = e /\ prefInterval' = i
  /\ \/ serving /\ rolloverInterval' = i /\ mainAt' = "restamp"
     \/ ~serving /\ UNCHANGED <<rolloverInterval, mainAt>>
  /\ UNCHANGED <<clock, serving, queue, arrivals, crashes, roll, handler, disabling,
                 pluginEnabled, pluginStopping, closing, disk>>

(* It goes on with rolloverTimestamp and changePluginEnabledStatus; here   *)
(* an unset preference reads as true, and onPluginStart reads it as false. *)
Restamp ==
  /\ rolloverTimestamp' = initialTimestamp + rolloverInterval
  /\ \/ /\ pluginEnabled /\ prefEnabled = "off" /\ MainAt("restamp", "waiting")
        /\ pluginStopping' = TRUE /\ disabling' = TRUE
        /\ UNCHANGED pluginEnabled
     \/ /\ ~pluginEnabled /\ prefEnabled # "off" /\ MainAt("restamp", "idle")
        /\ pluginEnabled' = (prefEnabled = "on")
        /\ UNCHANGED <<pluginStopping, disabling>>
     \/ /\ pluginEnabled <=> prefEnabled # "off"
        /\ MainAt("restamp", "idle")
        /\ UNCHANGED <<pluginStopping, disabling, pluginEnabled>>
  /\ UNCHANGED <<world, hasRunOnce, initialTimestamp, currentTimeMillis, handler,
                 rolloverInterval, closing, disk>>

(* onPluginStop: the busy wait ends and closeAll begins.                   *)
StopWaited ==
  /\ MainAt("waiting", "closing") /\ numThreadsWriting = 0
  /\ UNCHANGED <<world, roll, handler, disabling, pluginEnabled, pluginStopping,
                 rolloverInterval, closing, disk>>

MainClose ==
  /\ MainAt("closing", "moving") /\ CloseHandles("main")
  /\ UNCHANGED <<world, roll, handler, disabling, pluginEnabled, pluginStopping,
                 rolloverInterval, disk>>

MainCloseEnd ==
  /\ MainAt("moving", "resume") /\ CloseEnd("main")
  /\ UNCHANGED <<world, roll, handler, disabling, pluginEnabled, pluginStopping,
                 rolloverInterval, fileHandles, toMove, disk>>

(* pluginStopping = false; changePluginEnabledStatus has one more write.   *)
StopEnd ==
  /\ MainAt("resume", IF disabling THEN "disable" ELSE "idle")
  /\ pluginStopping' = FALSE
  /\ UNCHANGED <<world, roll, handler, disabling, pluginEnabled, rolloverInterval,
                 closing, disk>>

Disable ==
  /\ MainAt("disable", "idle")
  /\ pluginEnabled' = FALSE /\ disabling' = FALSE
  /\ UNCHANGED <<world, roll, handler, pluginStopping, rolloverInterval, closing,
                 disk>>

MainStop ==
  \/ Restamp \/ StopWaited \/ MainClose \/ CloseMove("main") \/ MainCloseEnd
  \/ StopEnd \/ Disable

-------------------------------------------------------------------------------

Next ==
  \/ Tick \/ Crash
  \/ \E t \in Types : Arrive(t)
  \/ \E n \in Names : TakeRecent(n)
  \/ Worker \/ MainStop
  \/ ServiceStart \/ ServiceStop
  \/ \E e \in {"on", "off", prefEnabled}, i \in Intervals : PreferenceChanged(e, i)

Spec == Init /\ [][Next]_vars

(* The worker and a stop in progress keep running; the rest need not.      *)
FairSpec == Spec /\ WF_vars(Worker) /\ WF_vars(MainStop)

-------------------------------------------------------------------------------

Counted == {"rollover", "close", "closing", "stamp", "get", "open", "write",
            "writing", "end"}

TypeOK ==
  /\ clock \in Seconds /\ serving \in BOOLEAN /\ queue \in Seq(Types)
  /\ arrivals \in 0 .. MaxRecords /\ crashes \in 0 .. MaxCrashes
  /\ prefEnabled \in {"unset", "on", "off"} /\ prefInterval \in Intervals
  /\ pluginEnabled \in BOOLEAN /\ pluginStopping \in BOOLEAN
  /\ numThreadsWriting \in Nat /\ hasRunOnce \in BOOLEAN
  /\ initialTimestamp \in Int /\ rolloverTimestamp \in Int
  /\ rolloverInterval \in Int /\ currentTimeMillis \in Seconds
  /\ fileHandles \in [Types -> Seconds \cup {NoStamp}]
  /\ monitor \in {Nobody, "worker", "main"} /\ toMove \subseteq Names
  /\ worker \in Counted \cup {"idle", "accepted"}
  /\ packet \in Types /\ outputStream \in Seconds \cup {NoStamp}
  /\ writes \in 0 .. MaxRecords
  /\ mainAt \in {"idle", "restamp", "waiting", "closing", "moving", "resume", "disable"}
  /\ disabling \in BOOLEAN
  /\ live \subseteq Names /\ recent \subseteq Names
  /\ where \in [Records -> InDir("live") \cup InDir("recent")
                             \cup {Nowhere, Lost, Taken}]

(* An open handle's file is in the live directory, and while closeAll      *)
(* moves files, whoever calls it, no file is open.                         *)
HandlesLive ==
  /\ \A t \in Types : fileHandles[t] # NoStamp => <<t, fileHandles[t]>> \in live
  /\ monitor # Nobody => \A t \in Types : fileHandles[t] = NoStamp

(* The list that closeAll works from stays true until its last file or its *)
(* first failure: while it has files to move, they are exactly the files of *)
(* the live directory.  Nobody else moves one of them, and the worker does *)
(* not open a file that this closeAll, and so this stop, would miss.       *)
MovesExist == toMove # {} => live = toMove

(* A file in the recent directory is closed: a record gets there only with *)
(* its file, never by a write to a file that was already moved.  So the    *)
(* uploader never sends a file that is still being written.                *)
RecentClosed ==
  [][\A r \in Records, n \in Names :
       where'[r] = Place("recent", n) =>
         where[r] \in {Place("recent", n), Place("live", n)}]_vars

(* The files that are open were created in the current rollover window, so *)
(* that a rollover closes every file that is older than the interval.  It  *)
(* holds if the user never chooses "Never": files opened before the first  *)
(* window are not closed when it begins (hasRunOnce is still false).       *)
OpenFilesInWindow ==
  worker \notin {"close", "closing", "rollover"} =>
    \A t \in Types : fileHandles[t] # NoStamp => fileHandles[t] >= initialTimestamp

(* "Close all open files.": once the plugin has been stopped or disabled   *)
(* and the worker is idle, no log file is left open.                       *)
StopClosesFiles ==
  mainAt = "idle" /\ worker = "idle" /\ queue = <<>> /\ (~serving \/ ~pluginEnabled)
    => \A t \in Types : fileHandles[t] = NoStamp

(* onPluginStop returns: its busy wait sees numThreadsWriting reach 0.     *)
StopEnds == mainAt = "waiting" ~> mainAt = "idle"

===============================================================================
