--------------------------- MODULE FileOutputProofs ---------------------------
(***************************************************************************)
(* Proofs about FileOutput, for every set of packet types and rollover     *)
(* intervals, with and without storage failures and crashes: a file in the *)
(* recent directory is closed.  The argument: the plugin's monitor makes *)
(* closeAll and getFileForPacketType exclude each other, closeAll closes   *)
(* every handle before it moves the first file, so a handle that is open   *)
(* belongs to a file that has not been moved.                              *)
(***************************************************************************)
EXTENDS FileOutput, TLAPS

(* Who holds the monitor, and that the worker has a stream to write to.    *)
MonitorInv ==
  /\ monitor = "worker" <=> worker = "closing"
  /\ monitor = "main" <=> mainAt = "moving"
  /\ worker = "write" => outputStream \in Seconds

(* The types of the variables that the argument is about.                  *)
FilesTypeOK ==
  /\ clock \in Seconds /\ currentTimeMillis \in Seconds
  /\ fileHandles \in [Types -> Seconds \cup {NoStamp}]
  /\ monitor \in {Nobody, "worker", "main"} /\ toMove \subseteq Names
  /\ packet \in Types /\ queue \in Seq(Types)
  /\ live \subseteq Names /\ recent \subseteq Names

FilesInv == FilesTypeOK /\ MonitorInv /\ HandlesLive

(* NoStamp is no time.                                                     *)
LEMMA NoStampNotSeconds == NoStamp \notin Seconds /\ FirstClock \in Seconds
BY FileOutputAssumption DEF NoStamp, Seconds

(* Initially no file is open and nobody is in closeAll.                    *)
LEMMA InitFilesInv == Init => FilesInv
BY NoStampNotSeconds
   DEF Init, FilesInv, FilesTypeOK, MonitorInv, HandlesLive, Nobody

(* The variables of FilesInv.                                              *)
fileVars == <<clock, currentTimeMillis, fileHandles, monitor, toMove, packet, queue,
              live, recent, worker, mainAt, outputStream>>

(* A step that leaves the files, the monitor and the handles alone and     *)
(* neither enters nor leaves the states that MonitorInv speaks of.         *)
LEMMA FilesUntouched ==
  ASSUME FilesInv,
         UNCHANGED <<fileHandles, monitor, toMove, live>>,
         clock' \in Seconds, currentTimeMillis' \in Seconds,
         packet' \in Types, queue' \in Seq(Types), recent' \subseteq Names,
         worker' = "closing" <=> worker = "closing",
         mainAt' = "moving" <=> mainAt = "moving",
         worker' = "write" => outputStream' \in Seconds
  PROVE  FilesInv'
BY DEF FilesInv, FilesTypeOK, MonitorInv, HandlesLive

(* The world's steps, except a crash, open, close and move no live file.   *)
LEMMA WorldFilesInv ==
  ASSUME FilesInv,
         \/ Tick
         \/ \E t \in Types : Arrive(t)
         \/ \E n \in Names : TakeRecent(n)
  PROVE  FilesInv'
<1> USE DEF handler, mainV, closing, roll, disk, world
<1>1. CASE Tick
  <2>1. clock' \in Seconds
    BY <1>1, FileOutputAssumption DEF Tick, FilesInv, FilesTypeOK, Seconds
  <2> QED BY <1>1, <2>1, FilesUntouched DEF Tick, FilesInv, FilesTypeOK, MonitorInv
<1>2. ASSUME NEW t \in Types, Arrive(t) PROVE FilesInv'
  BY <1>2, FilesUntouched DEF Arrive, FilesInv, FilesTypeOK, MonitorInv
<1>3. ASSUME NEW n \in Names, TakeRecent(n) PROVE FilesInv'
  BY <1>3, FilesUntouched DEF TakeRecent, FilesInv, FilesTypeOK, MonitorInv
<1> QED BY <1>1, <1>2, <1>3

(* The end of the process leaves no handle open and nobody in the monitor. *)
LEMMA CrashFilesInv ==
  ASSUME FilesInv, NEW places, EndProcess(places), live' \subseteq Names
  PROVE  FilesInv'
BY NoStampNotSeconds DEF EndProcess, NewProcess, FilesInv, FilesTypeOK, MonitorInv,
   HandlesLive, Nobody

(* closeAll clears the handles as it takes the monitor, and nobody opens a *)
(* file before it gives the monitor back.                                  *)
LEMMA CloseFilesInv ==
  ASSUME FilesInv,
         \/ WorkerClose \/ WorkerCloseEnd \/ CloseMove("worker")
         \/ MainClose \/ MainCloseEnd \/ CloseMove("main")
  PROVE  FilesInv'
<1> USE DEF FilesInv, FilesTypeOK, MonitorInv, HandlesLive, Nobody
<1>1. CASE WorkerClose
  BY <1>1 DEF WorkerClose, CloseHandles, At, world, roll, mainV, disk
<1>2. CASE MainClose
  BY <1>2 DEF MainClose, CloseHandles, MainAt, world, roll, handler, disk
<1>3. CASE WorkerCloseEnd
  BY <1>3 DEF WorkerCloseEnd, CloseEnd, At, world, roll, mainV, disk
<1>4. CASE MainCloseEnd
  BY <1>4 DEF MainCloseEnd, CloseEnd, MainAt, world, roll, handler, disk
<1>5. ASSUME NEW who \in {"worker", "main"}, CloseMove(who) PROVE FilesInv'
  <2>1. /\ UNCHANGED <<world, roll, handler, mainV, fileHandles, monitor>>
        /\ monitor # Nobody
    BY <1>5 DEF CloseMove
  <2>2. toMove' \subseteq Names /\ live' \subseteq Names /\ recent' \subseteq Names
    BY <1>5 DEF CloseMove, MoveFile, MoveFails
  <2>3. \A t \in Types : fileHandles'[t] = NoStamp
    BY <2>1
  <2> QED BY <2>1, <2>2, <2>3 DEF world, roll, handler, mainV
<1> QED BY <1>1, <1>2, <1>3, <1>4, <1>5

(* The worker's other steps: only getFileForPacketType opens a file, and   *)
(* it creates the file in the live directory, with the monitor free.       *)
LEMMA WorkerFilesInv ==
  ASSUME FilesInv,
         \/ Ignore \/ Accept \/ BeginWriting \/ NoRollover \/ FirstRollover
         \/ Rollover \/ StampRollover \/ GetStream \/ OpenFile \/ OpenFails
         \/ OpenFailsUnused \/ WriteRecord \/ WriteRest \/ SkipRecord \/ EndWriting
  PROVE  FilesInv'
<1> USE DEF At, world, roll, handler, mainV, closing, disk
<1>1. CASE Ignore
  BY <1>1, FilesUntouched DEF Ignore, FilesInv, FilesTypeOK, MonitorInv
<1>2. CASE Accept
  <2>1. queue' \in Seq(Types) /\ packet' \in Types
    BY <1>2 DEF Accept, FilesInv, FilesTypeOK
  <2> QED
    BY <1>2, <2>1, FilesUntouched DEF Accept, FilesInv, FilesTypeOK, MonitorInv
<1>3. CASE BeginWriting
  BY <1>3, FilesUntouched DEF BeginWriting, FilesInv, FilesTypeOK, MonitorInv
<1>4. CASE NoRollover \/ FirstRollover \/ Rollover \/ StampRollover
  BY <1>4, FilesUntouched DEF NoRollover, FirstRollover, Rollover, StampRollover,
     FilesInv, FilesTypeOK, MonitorInv
<1>5. CASE GetStream
  <2>1. worker' = "write" => outputStream' \in Seconds
    BY <1>5 DEF GetStream, FilesInv, FilesTypeOK
  <2> QED
    BY <1>5, <2>1, FilesUntouched DEF GetStream, FilesInv, FilesTypeOK, MonitorInv
<1>6. CASE OpenFile
  <2> DEFINE n == <<packet, currentTimeMillis>>
  <2>1. n \in Names /\ live' = live \cup {n} /\ monitor = Nobody /\ monitor' = monitor
    BY <1>6 DEF OpenFile, FilesInv, FilesTypeOK, Names
  <2>2. /\ fileHandles' \in [Types -> Seconds \cup {NoStamp}]
        /\ \A t \in Types : fileHandles'[t] =
             IF t = packet THEN currentTimeMillis ELSE fileHandles[t]
    BY <1>6 DEF OpenFile, FilesInv, FilesTypeOK
  <2>3. HandlesLive'
    BY <2>1, <2>2 DEF HandlesLive, FilesInv
  <2>4. FilesTypeOK'
    BY <1>6, <2>1, <2>2 DEF OpenFile, FilesInv, FilesTypeOK
  <2>5. MonitorInv'
    BY <1>6 DEF OpenFile, FilesInv, MonitorInv, FilesTypeOK
  <2> QED BY <2>3, <2>4, <2>5 DEF FilesInv
<1>7. CASE WriteRecord \/ WriteRest \/ SkipRecord \/ EndWriting
  BY <1>7, FilesUntouched DEF WriteRecord, WriteRest, SkipRecord, EndWriting,
     FilesInv, FilesTypeOK, MonitorInv
<1>9. CASE OpenFailsUnused
  <2>1. live \subseteq live' /\ live' \subseteq Names
    BY <1>9 DEF OpenFailsUnused, FilesInv, FilesTypeOK, Names
  <2> QED
    BY <1>9, <2>1 DEF OpenFailsUnused, FilesInv, FilesTypeOK, MonitorInv, HandlesLive
<1>8. CASE OpenFails
  <2>1. <<packet, currentTimeMillis>> \in Names
    BY DEF FilesInv, FilesTypeOK, Names
  <2>2. PICK places : EndProcess(places) /\ live' \subseteq live \cup Names
    BY <1>8, <2>1 DEF OpenFails, Crash
  <2> QED BY <2>2, CrashFilesInv DEF FilesInv, FilesTypeOK
<1> QED BY <1>1, <1>2, <1>3, <1>4, <1>5, <1>6, <1>7, <1>8, <1>9

(* The main thread's steps outside closeAll touch no file.                 *)
LEMMA MainFilesInv ==
  ASSUME FilesInv,
         \/ ServiceStart \/ ServiceStop \/ Restamp \/ StopWaited \/ StopEnd \/ Disable
         \/ \E e \in {"on", "off", prefEnabled}, i \in Intervals : PreferenceChanged(e, i)
  PROVE  FilesInv'
<1> USE DEF MainAt, world, roll, handler, mainV, closing, disk
<1>1. CASE ServiceStart \/ ServiceStop
  BY <1>1, FilesUntouched DEF ServiceStart, ServiceStop, FilesInv, FilesTypeOK,
     MonitorInv
<1>2. CASE Restamp \/ StopWaited \/ StopEnd \/ Disable
  BY <1>2, FilesUntouched DEF Restamp, StopWaited, StopEnd, Disable, FilesInv, FilesTypeOK,
     MonitorInv
<1>3. ASSUME NEW e \in {"on", "off", prefEnabled}, NEW i \in Intervals, PreferenceChanged(e, i)
      PROVE  FilesInv'
  BY <1>3, FilesUntouched DEF PreferenceChanged, FilesInv, FilesTypeOK, MonitorInv
<1> QED BY <1>1, <1>2, <1>3

(* One step of the specification keeps the invariant.                      *)
LEMMA StepFilesInv == FilesInv /\ [Next]_vars => FilesInv'
<1> SUFFICES ASSUME FilesInv, [Next]_vars PROVE FilesInv'
  OBVIOUS
<1>1. CASE Worker
  BY <1>1, WorkerFilesInv, CloseFilesInv DEF Worker
<1>2. CASE MainStop
  BY <1>2, MainFilesInv, CloseFilesInv DEF MainStop
<1>3. CASE UNCHANGED vars
  BY <1>3 DEF vars, world, roll, handler, mainV, closing, disk, FilesInv,
     FilesTypeOK, MonitorInv, HandlesLive
<1> QED
  BY <1>1, <1>2, <1>3, WorldFilesInv, CrashFilesInv, MainFilesInv
     DEF Next, Crash, FilesInv, FilesTypeOK

LEMMA FilesInvariant == Spec => []FilesInv
BY InitFilesInv, StepFilesInv, PTL DEF Spec

(* Every open handle's file is in the live directory, and no file is open  *)
(* while closeAll moves files: whoever calls it, whatever fails.           *)
THEOREM OpenFilesAreLive == Spec => []HandlesLive
BY FilesInvariant, PTL DEF FilesInv

(* where is a function of the records.                                     *)
WhereInv == where = [r \in Records |-> where[r]]

LEMMA WhereInvariant == Spec => []WhereInv
<1>1. Init => WhereInv
  BY DEF Init, WhereInv
<1>2. WhereInv /\ [Next]_vars => WhereInv'
  <2> SUFFICES ASSUME WhereInv, [Next]_vars PROVE WhereInv'
    OBVIOUS
  <2>1. CASE UNCHANGED where
    BY <2>1 DEF WhereInv
  <2>2. CASE \E n \in Names : MoveFile(n) \/ TakeRecent(n)
    BY <2>2 DEF MoveFile, TakeRecent, WhereInv
  <2>3. CASE Crash \/ OpenFails
    BY <2>3 DEF Crash, OpenFails, EndProcess, WhereInv
  <2>4. CASE OpenFile \/ OpenFailsUnused
    BY <2>4 DEF OpenFile, OpenFailsUnused, Emptied, WhereInv
  <2>5. CASE WriteRecord \/ WriteRest
    BY <2>5 DEF WriteRecord, WriteRest, WhereInv
  <2>6. \/ UNCHANGED where
        \/ \E n \in Names : TakeRecent(n)
        \/ Crash \/ OpenFails \/ OpenFile \/ OpenFailsUnused \/ WriteRecord \/ WriteRest
        \/ CloseMove("worker") \/ CloseMove("main")
    BY DEF Next, Worker, MainStop, vars, disk, Tick, Arrive, Accept, BeginWriting,
       NoRollover, FirstRollover, Rollover, WorkerClose, WorkerCloseEnd,
       StampRollover, GetStream, SkipRecord, EndWriting, Ignore,
       ServiceStart, ServiceStop, PreferenceChanged, Restamp, StopWaited, MainClose,
       MainCloseEnd, StopEnd, Disable
  <2>7. ASSUME NEW who \in {"worker", "main"}, CloseMove(who) PROVE WhereInv'
    <3>1. CASE \E n \in toMove : MoveFile(n)
      BY <3>1 DEF MoveFile, WhereInv
    <3>2. CASE MoveFails
      BY <3>2 DEF MoveFails, WhereInv
    <3> QED BY <2>7, <3>1, <3>2 DEF CloseMove
  <2> QED BY <2>1, <2>2, <2>3, <2>4, <2>5, <2>6, <2>7
<1> QED BY <1>1, <1>2, PTL DEF Spec

(* A record reaches the recent directory only by the move of its file.     *)
ReachesByMove ==
  \A r \in Records, n \in Names :
    where'[r] = Place("recent", n) =>
      where[r] \in {Place("recent", n), Place("live", n)}

(* The places that are no file of the recent directory.                    *)
LEMMA PlacesDiffer ==
  ASSUME NEW m, NEW n
  PROVE  /\ Lost # Place("recent", n) /\ Taken # Place("recent", n)
         /\ Place("live", m) # Place("recent", n)
         /\ Place("recent", m) = Place("recent", n) => m = n
BY DEF Lost, Taken, Place

(* A write goes to a live file: its stream is open, and open files are     *)
(* live.  Every other step that sets where but the move sets it elsewhere. *)
LEMMA StepReachesByMove ==
  ASSUME FilesInv, WhereInv, [Next]_vars PROVE ReachesByMove
<1>1. CASE UNCHANGED where
  BY <1>1 DEF ReachesByMove
<1>2. ASSUME NEW m \in Names, TakeRecent(m) PROVE ReachesByMove
  BY <1>2, PlacesDiffer DEF TakeRecent, ReachesByMove
<1>3. CASE Crash \/ OpenFails
  <2>1. PICK places \in {where, Emptied(<<packet, currentTimeMillis>>)} : EndProcess(places)
    BY <1>3 DEF Crash, OpenFails
  <2> QED BY <2>1, PlacesDiffer DEF EndProcess, Emptied, ReachesByMove
<1>4. CASE OpenFile \/ OpenFailsUnused
  BY <1>4, PlacesDiffer DEF OpenFile, OpenFailsUnused, Emptied, ReachesByMove
<1>5. CASE WriteRecord
  <2> DEFINE n == <<packet, outputStream>>
             open == fileHandles[packet] = outputStream
  <2>1. open => n \in live
    BY <1>5, NoStampNotSeconds DEF WriteRecord, At, FilesInv, FilesTypeOK,
       MonitorInv, HandlesLive
  <2>2. where' = [where EXCEPT ![writes + 1] = IF open THEN Place("live", n) ELSE Lost]
    BY <1>5, <2>1 DEF WriteRecord
  <2> HIDE DEF n, open
  <2>3. \A r \in Records :
          where'[r] \in {where[r], Place("live", n), Lost}
    BY <2>2 DEF WhereInv
  <2> QED BY <2>3, PlacesDiffer DEF ReachesByMove
<1>6. CASE WriteRest
  <2>1. \A r \in Records : where'[r] \in {where[r], Lost}
    BY <1>6 DEF WriteRest, WhereInv
  <2> QED BY <2>1, PlacesDiffer DEF ReachesByMove
<1>7. ASSUME NEW m \in Names, MoveFile(m) PROVE ReachesByMove
  BY <1>7, PlacesDiffer DEF MoveFile, ReachesByMove
<1>8. \/ UNCHANGED where
      \/ \E n \in Names : TakeRecent(n) \/ MoveFile(n)
      \/ Crash \/ OpenFails \/ OpenFile \/ OpenFailsUnused \/ WriteRecord \/ WriteRest
  BY DEF FilesInv, FilesTypeOK, Next, Worker, MainStop, CloseMove, MoveFails, vars,
     disk, Tick, Arrive, Accept, BeginWriting, NoRollover, FirstRollover, Rollover,
     WorkerClose, WorkerCloseEnd, StampRollover, GetStream, SkipRecord,
     EndWriting, Ignore, ServiceStart, ServiceStop, PreferenceChanged, Restamp, StopWaited,
     MainClose, MainCloseEnd, StopEnd, Disable
<1> QED BY <1>1, <1>2, <1>3, <1>4, <1>5, <1>6, <1>7, <1>8

(* No record is ever written to a file that has been moved to the recent   *)
(* directory, from which the uploader takes files.                         *)
THEOREM RecentFilesClosed == Spec => RecentClosed
<1>1. FilesInv /\ WhereInv /\ [Next]_vars => [ReachesByMove]_vars
  BY StepReachesByMove
<1> QED
  BY <1>1, FilesInvariant, WhereInvariant, PTL DEF Spec, RecentClosed, ReachesByMove

-------------------------------------------------------------------------------
(* closeAll's list of files.                                               *)

MoveInv == MovesExist /\ (monitor = Nobody => toMove = {})

(* The list is read with the monitor held, and until it is empty only      *)
(* closeAll itself opens, moves or forgets a live file.                    *)
LEMMA StepMoveInv == FilesInv /\ MoveInv /\ [Next]_vars => MoveInv'
<1> SUFFICES ASSUME FilesInv, MoveInv, [Next]_vars PROVE MoveInv'
  OBVIOUS
<1> USE DEF MoveInv, MovesExist
<1>1. CASE UNCHANGED <<live, toMove, monitor>>
  BY <1>1
<1>2. CASE Crash \/ OpenFails
  BY <1>2 DEF Crash, OpenFails, EndProcess, NewProcess
<1>3. CASE OpenFile \/ OpenFailsUnused
  BY <1>3 DEF OpenFile, OpenFailsUnused, closing
<1>4. ASSUME NEW who \in {"worker", "main"}, CloseHandles(who), UNCHANGED live
      PROVE  MoveInv'
  BY <1>4 DEF CloseHandles, Nobody
<1>5. ASSUME NEW who \in {"worker", "main"}, CloseMove(who) PROVE MoveInv'
  BY <1>5 DEF CloseMove, MoveFile, MoveFails, Nobody
<1>6. ASSUME NEW who \in {"worker", "main"}, CloseEnd(who), UNCHANGED <<live, toMove>>
      PROVE  MoveInv'
  BY <1>6 DEF CloseEnd
<1>7. CASE Worker
  BY <1>1, <1>2, <1>3, <1>4, <1>5, <1>6, <1>7
     DEF Worker, Accept, BeginWriting, NoRollover, FirstRollover, Rollover, WorkerClose,
         WorkerCloseEnd, StampRollover, GetStream, WriteRecord, WriteRest,
         SkipRecord, EndWriting, Ignore, disk, closing
<1>8. CASE MainStop
  BY <1>1, <1>4, <1>5, <1>6, <1>8
     DEF MainStop, Restamp, StopWaited, MainClose, MainCloseEnd, StopEnd, Disable, disk, closing
<1>. QED
  BY <1>1, <1>2, <1>7, <1>8
     DEF Next, Tick, Arrive, TakeRecent, ServiceStart, ServiceStop, PreferenceChanged, vars,
         disk, closing

(* While closeAll has files to move, they are the files of the live        *)
(* directory, for every set of packet types and any failure.               *)
THEOREM MovedFilesExist == Spec => []MovesExist
<1>1. Init => MoveInv
  BY DEF Init, MoveInv, MovesExist
<1>2. MoveInv => MovesExist
  BY DEF MoveInv
<1>. QED  BY <1>1, <1>2, StepMoveInv, FilesInvariant, PTL DEF Spec

-------------------------------------------------------------------------------
(* The rollover window.                                                    *)

(* If every interval is a number of seconds, the first packet starts the   *)
(* first window, before any file is open; after that files are opened in   *)
(* the window, and the next one begins with closeAll.                      *)
WindowInv ==
  /\ initialTimestamp \in Int /\ initialTimestamp <= currentTimeMillis
  /\ currentTimeMillis <= clock
  /\ rolloverInterval \in (Intervals \cup {0}) \ {Never} /\ prefInterval \in Intervals
  /\ ~hasRunOnce =>
       /\ initialTimestamp = -1 /\ rolloverTimestamp < FirstClock /\ rolloverTimestamp \in Int
       /\ worker \in {"idle", "accepted", "rollover"}
       /\ \A t \in Types : fileHandles[t] = NoStamp
  /\ worker # "close" =>
       \A t \in Types : fileHandles[t] # NoStamp => fileHandles[t] >= initialTimestamp

LEMMA InitWindowInv == Init => WindowInv
BY FileOutputAssumption DEF Init, WindowInv, Never, NoStamp

(* The variables that the window does not depend on may change.            *)
LEMMA WindowUntouched ==
  ASSUME WindowInv,
         UNCHANGED <<clock, prefInterval, roll, rolloverInterval, fileHandles>>,
         \/ UNCHANGED worker
         \/ hasRunOnce /\ worker # "close" /\ worker' # "close"
         \/ worker = "idle" /\ worker' = "accepted"
  PROVE  WindowInv'
BY DEF WindowInv, roll

LEMMA WorkerWindowInv ==
  ASSUME FilesInv, WindowInv,
         \/ Ignore \/ Accept \/ BeginWriting \/ NoRollover \/ FirstRollover
         \/ Rollover \/ StampRollover \/ GetStream \/ OpenFile
         \/ OpenFailsUnused \/ WriteRecord \/ WriteRest \/ SkipRecord \/ EndWriting
  PROVE  WindowInv'
<1> USE DEF At, world, roll, mainV, closing
<1>1. clock \in Nat /\ currentTimeMillis \in Nat /\ currentTimeMillis >= FirstClock
      /\ FirstClock \in Nat /\ fileHandles \in [Types -> Seconds \cup {NoStamp}]
      /\ Seconds \subseteq Nat
  BY FileOutputAssumption DEF FilesInv, FilesTypeOK, Seconds
<1>2. CASE Ignore \/ Accept \/ OpenFailsUnused \/ WriteRecord \/ WriteRest \/ SkipRecord
             \/ EndWriting \/ GetStream
  <2>1. CASE Ignore \/ Accept
    BY <2>1, WindowUntouched DEF Ignore, Accept, handler
  <2>2. CASE OpenFailsUnused \/ WriteRecord \/ WriteRest \/ SkipRecord \/ EndWriting
               \/ GetStream
    <3>1. UNCHANGED <<clock, prefInterval, roll, rolloverInterval, fileHandles>>
      BY <2>2 DEF OpenFailsUnused, WriteRecord, WriteRest, SkipRecord, EndWriting, GetStream
    <3>2. /\ worker \in {"open", "write", "writing", "end", "get"}
          /\ worker' \in {"writing", "end", "idle", "open", "write"}
      BY <2>2 DEF OpenFailsUnused, WriteRecord, WriteRest, SkipRecord, EndWriting, GetStream
    <3>. QED  BY <3>1, <3>2, WindowUntouched DEF WindowInv
  <2>. QED  BY <1>2, <2>1, <2>2
<1>3. CASE BeginWriting
  BY <1>1, <1>3 DEF BeginWriting, WindowInv
<1>4. CASE NoRollover
  BY <1>1, <1>4 DEF NoRollover, RolloverDue, WindowInv
<1>5. CASE FirstRollover
  BY <1>1, <1>5 DEF FirstRollover, WindowInv
<1>6. CASE Rollover
  BY <1>1, <1>6 DEF Rollover, WindowInv
<1>7. CASE StampRollover
  BY <1>1, <1>7 DEF StampRollover, WindowInv
<1>8. CASE OpenFile
  <2>1. \A t \in Types : fileHandles'[t] \in {fileHandles[t], currentTimeMillis}
    BY <1>1, <1>8 DEF OpenFile
  <2>. QED  BY <1>1, <1>8, <2>1 DEF OpenFile, WindowInv
<1>. QED  BY <1>2, <1>3, <1>4, <1>5, <1>6, <1>7, <1>8

(* closeAll leaves no handle to be too old.                                *)
LEMMA CloseWindowInv ==
  ASSUME FilesInv, WindowInv,
         \/ WorkerClose \/ WorkerCloseEnd \/ CloseMove("worker")
         \/ MainClose \/ MainCloseEnd \/ CloseMove("main")
  PROVE  WindowInv'
<1>1. CASE WorkerClose \/ MainClose
  BY <1>1 DEF WorkerClose, MainClose, CloseHandles, At, MainAt, world, roll, mainV, handler,
              WindowInv
<1>2. CASE WorkerCloseEnd \/ MainCloseEnd
  BY <1>2, WindowUntouched
     DEF WorkerCloseEnd, MainCloseEnd, At, MainAt, world, mainV, handler, WindowInv
<1>3. ASSUME NEW who \in {"worker", "main"}, CloseMove(who) PROVE WindowInv'
  BY <1>3, WindowUntouched DEF CloseMove, world, mainV, handler
<1>. QED  BY <1>1, <1>2, <1>3

LEMMA OutsideWindowInv ==
  ASSUME FilesInv, WindowInv, Never \notin Intervals,
         \/ Tick \/ Crash \/ OpenFails
         \/ \E t \in Types : Arrive(t)
         \/ \E n \in Names : TakeRecent(n)
         \/ ServiceStart \/ ServiceStop \/ Restamp \/ StopWaited \/ StopEnd \/ Disable
         \/ \E e \in {"on", "off", prefEnabled}, i \in Intervals : PreferenceChanged(e, i)
         \/ UNCHANGED vars
  PROVE  WindowInv'
<1> USE DEF MainAt, world, roll, handler, mainV, closing, disk
<1>1. CASE Tick
  BY <1>1 DEF Tick, WindowInv, FilesInv, FilesTypeOK, Seconds
<1>2. CASE Crash \/ OpenFails
  <2>1. clock >= FirstClock /\ FirstClock \in Nat
    BY FileOutputAssumption DEF FilesInv, FilesTypeOK, Seconds
  <2>. QED  BY <1>2, <2>1 DEF Crash, OpenFails, EndProcess, NewProcess, WindowInv, Never, NoStamp
<1>3. CASE (\E t \in Types : Arrive(t)) \/ (\E n \in Names : TakeRecent(n)) \/ UNCHANGED vars
  <2>1. UNCHANGED <<clock, prefInterval, roll, rolloverInterval, fileHandles, worker>>
    BY <1>3 DEF Arrive, TakeRecent, vars
  <2>. QED  BY <2>1, WindowUntouched
<1>4. CASE ServiceStop \/ StopWaited \/ StopEnd \/ Disable
  BY <1>4, WindowUntouched DEF ServiceStop, StopWaited, StopEnd, Disable
<1>5. CASE ServiceStart
  BY <1>5 DEF ServiceStart, WindowInv
<1>6. ASSUME NEW e \in {"on", "off", prefEnabled}, NEW i \in Intervals, PreferenceChanged(e, i)
      PROVE  WindowInv'
  BY <1>6 DEF PreferenceChanged, WindowInv
<1>7. CASE Restamp
  <2>1. FirstClock \in Nat /\ \A i \in Intervals \cup {0} : i \in Nat /\ i <= FirstClock
    BY FileOutputAssumption, Never \notin Intervals
  <2>. QED  BY <1>7, <2>1 DEF Restamp, WindowInv
<1>. QED  BY <1>1, <1>2, <1>3, <1>4, <1>5, <1>6, <1>7

(* A rollover leaves no file open that is older than its window, if the    *)
(* user never chooses "Never": files opened while nothing rolls over are   *)
(* not closed when the first window begins.                                *)
THEOREM FilesStayInWindow ==
  ASSUME Never \notin Intervals
  PROVE  Spec => []OpenFilesInWindow
<1>1. FilesInv /\ WindowInv /\ [Next]_vars => WindowInv'
  BY WorkerWindowInv, CloseWindowInv, OutsideWindowInv DEF Next, Worker, MainStop
<1>2. WindowInv => OpenFilesInWindow
  BY DEF WindowInv, OpenFilesInWindow
<1>. QED  BY <1>1, <1>2, InitWindowInv, FilesInvariant, PTL DEF Spec

-------------------------------------------------------------------------------
(* Type correctness.                                                       *)

(* Every record comes from a packet that has arrived, and the worker is    *)
(* counted from the first write of numThreadsWriting to the second.        *)
Handled == IF worker \in {"accepted"} \cup (Counted \ {"writing", "end"}) THEN 1 ELSE 0

CountInv ==
  /\ worker \in Counted \cup {"idle", "accepted"}
  /\ numThreadsWriting = IF worker \in Counted THEN 1 ELSE 0
  /\ writes \in Nat /\ arrivals \in 0 .. MaxRecords
  /\ writes + Len(queue) + Handled <= arrivals

LEMMA WorkerCountInv == FilesInv /\ CountInv /\ Worker => CountInv'
<1> SUFFICES ASSUME FilesInv, CountInv, Worker PROVE CountInv'
  OBVIOUS
<1> USE DEF CountInv, Handled, Counted, At, world, handler, disk
<1>1. queue \in Seq(Types) /\ MaxRecords \in Nat
  BY FileOutputAssumption DEF FilesInv, FilesTypeOK
<1>2. queue # <<>> => Len(Tail(queue)) = Len(queue) - 1 /\ Len(queue) \in Nat
  BY <1>1
<1>3. CASE Ignore
  BY <1>1, <1>2, <1>3 DEF Ignore
<1>4. CASE Accept
  BY <1>1, <1>2, <1>4 DEF Accept
<1>5. CASE BeginWriting \/ NoRollover \/ FirstRollover \/ Rollover
  BY <1>1, <1>5 DEF BeginWriting, NoRollover, FirstRollover, Rollover
<1>6. CASE WorkerClose \/ WorkerCloseEnd \/ StampRollover
  BY <1>1, <1>6 DEF WorkerClose, WorkerCloseEnd, StampRollover
<1>7. CASE CloseMove("worker")
  BY <1>1, <1>7 DEF CloseMove
<1>8. CASE GetStream \/ OpenFile \/ OpenFailsUnused
  BY <1>1, <1>8 DEF GetStream, OpenFile, OpenFailsUnused
<1>9. CASE WriteRecord \/ WriteRest \/ SkipRecord
  BY <1>1, <1>9 DEF WriteRecord, WriteRest, SkipRecord
<1>10. CASE EndWriting
  BY <1>1, <1>10 DEF EndWriting
<1>11. CASE OpenFails
  BY <1>1, <1>11 DEF OpenFails, Crash, EndProcess, NewProcess
<1>. QED
  BY <1>3, <1>4, <1>5, <1>6, <1>7, <1>8, <1>9, <1>10, <1>11 DEF Worker

LEMMA StepCountInv == FilesInv /\ CountInv /\ [Next]_vars => CountInv'
<1> SUFFICES ASSUME FilesInv, CountInv, [Next]_vars PROVE CountInv'
  OBVIOUS
<1>1. queue \in Seq(Types) /\ MaxRecords \in Nat
  BY FileOutputAssumption DEF FilesInv, FilesTypeOK
<1>2. CASE UNCHANGED <<arrivals, queue, handler, writes>>
  BY <1>2 DEF CountInv, Handled, handler
<1>3. ASSUME NEW t \in Types, Arrive(t) PROVE CountInv'
  <2>1. Len(queue') = Len(queue) + 1 /\ Len(queue) \in Nat
    BY <1>1, <1>3 DEF Arrive
  <2>. QED  BY <1>1, <1>3, <2>1 DEF Arrive, CountInv, Handled, handler, disk
<1>4. CASE Crash
  BY <1>1, <1>4 DEF Crash, EndProcess, NewProcess, CountInv, Handled, Counted
<1>5. CASE MainStop
  BY <1>2, <1>5 DEF MainStop, Restamp, StopWaited, MainClose, CloseMove, MainCloseEnd, StopEnd, Disable,
                    world, disk
<1>6. CASE Tick \/ ServiceStart \/ ServiceStop \/ UNCHANGED vars
  BY <1>2, <1>6 DEF Tick, ServiceStart, ServiceStop, vars, world, disk
<1>7. CASE \/ \E n \in Names : TakeRecent(n)
           \/ \E e \in {"on", "off", prefEnabled}, i \in Intervals : PreferenceChanged(e, i)
  BY <1>2, <1>7 DEF TakeRecent, PreferenceChanged, world, disk
<1>. QED  BY <1>3, <1>4, <1>5, <1>6, <1>7, WorkerCountInv DEF Next

WorldTypes ==
  /\ serving \in BOOLEAN /\ crashes \in 0 .. MaxCrashes
  /\ prefEnabled \in {"unset", "on", "off"} /\ prefInterval \in Intervals

MainTypes ==
  /\ pluginEnabled \in BOOLEAN /\ pluginStopping \in BOOLEAN /\ disabling \in BOOLEAN
  /\ mainAt \in {"idle", "restamp", "waiting", "closing", "moving", "resume", "disable"}

RollTypes ==
  /\ hasRunOnce \in BOOLEAN /\ initialTimestamp \in Int /\ rolloverTimestamp \in Int
  /\ rolloverInterval \in Int /\ prefInterval \in Intervals

LEMMA StepWorldTypes == WorldTypes /\ [Next]_vars => WorldTypes'
<1> SUFFICES ASSUME WorldTypes, [Next]_vars PROVE WorldTypes'
  OBVIOUS
<1> USE DEF WorldTypes
<1>1. CASE UNCHANGED <<serving, crashes, prefEnabled, prefInterval>>
  BY <1>1
<1>2. CASE Crash \/ OpenFails
  <2>1. serving' = FALSE /\ UNCHANGED <<prefEnabled, prefInterval>> /\ crashes' \in 0 .. MaxCrashes
    BY <1>2, FileOutputAssumption DEF Crash, OpenFails, EndProcess, NewProcess
  <2>. QED  BY <2>1
<1>3. CASE ServiceStart \/ ServiceStop
  <2>1. serving' \in BOOLEAN
    BY <1>3, Zenon DEF ServiceStart, ServiceStop
  <2>2. UNCHANGED <<crashes, prefEnabled, prefInterval>>
    BY <1>3 DEF ServiceStart, ServiceStop
  <2>. QED  BY <2>1, <2>2
<1>4. ASSUME NEW e \in {"on", "off", prefEnabled}, NEW i \in Intervals, PreferenceChanged(e, i)
      PROVE  WorldTypes'
  BY <1>4 DEF PreferenceChanged
<1>5. CASE Worker
  BY <1>1, <1>2, <1>5
     DEF Worker, Accept, BeginWriting, NoRollover, FirstRollover, Rollover, WorkerClose,
         WorkerCloseEnd, CloseMove, StampRollover, GetStream, OpenFile, OpenFailsUnused,
         WriteRecord, WriteRest, SkipRecord, EndWriting, Ignore, world
<1>6. CASE MainStop
  BY <1>1, <1>6 DEF MainStop, Restamp, StopWaited, MainClose, CloseMove, MainCloseEnd, StopEnd, Disable,
                    world
<1>. QED
  BY <1>1, <1>2, <1>3, <1>4, <1>5, <1>6 DEF Next, Tick, Arrive, TakeRecent, vars, world

LEMMA StepMainTypes == MainTypes /\ [Next]_vars => MainTypes'
<1> SUFFICES ASSUME MainTypes, [Next]_vars PROVE MainTypes'
  OBVIOUS
<1> USE DEF MainTypes
<1>1. CASE UNCHANGED <<pluginEnabled, pluginStopping, disabling, mainAt>>
  BY <1>1
<1>2. CASE Crash \/ OpenFails
  BY <1>2, Zenon DEF Crash, OpenFails, EndProcess, NewProcess
<1>3. CASE ServiceStart \/ ServiceStop
  BY <1>3, Zenon DEF ServiceStart, ServiceStop
<1>4. ASSUME NEW e \in {"on", "off", prefEnabled}, NEW i \in Intervals, PreferenceChanged(e, i)
      PROVE  MainTypes'
  BY <1>4, Zenon DEF PreferenceChanged
<1>5. CASE Worker
  BY <1>1, <1>2, <1>5
     DEF Worker, Accept, BeginWriting, NoRollover, FirstRollover, Rollover, WorkerClose,
         WorkerCloseEnd, CloseMove, StampRollover, GetStream, OpenFile, OpenFailsUnused,
         WriteRecord, WriteRest, SkipRecord, EndWriting, Ignore, mainV
<1>6. CASE CloseMove("main")
  BY <1>1, <1>6 DEF CloseMove, mainV
<1>7. CASE StopWaited \/ MainClose \/ MainCloseEnd
  BY <1>7, Zenon DEF StopWaited, MainClose, MainCloseEnd, MainAt
<1>9. CASE Restamp
  BY <1>9, Zenon DEF Restamp, MainAt
<1>8. CASE StopEnd \/ Disable
  <2>1. mainAt' \in {"idle", "disable"}
    BY <1>8 DEF StopEnd, Disable, MainAt
  <2>. QED  BY <1>8, <2>1, Zenon DEF StopEnd, Disable
<1>. QED
  BY <1>1, <1>2, <1>3, <1>4, <1>5, <1>6, <1>7, <1>8, <1>9
     DEF Next, MainStop, Tick, Arrive, TakeRecent, vars, mainV

LEMMA StepRollTypes == FilesInv /\ RollTypes /\ [Next]_vars => RollTypes'
<1> SUFFICES ASSUME FilesInv, RollTypes, [Next]_vars PROVE RollTypes'
  OBVIOUS
<1> USE DEF RollTypes
<1>1. Intervals \subseteq Int /\ currentTimeMillis \in Int
  BY FileOutputAssumption DEF FilesInv, FilesTypeOK, Seconds, Never
<1>2. CASE UNCHANGED <<hasRunOnce, initialTimestamp, rolloverTimestamp, rolloverInterval,
                       prefInterval>>
  BY <1>2
<1>3. CASE Crash \/ OpenFails
  <2>1. hasRunOnce' \in BOOLEAN
    BY <1>3, Zenon DEF Crash, OpenFails, EndProcess, NewProcess
  <2>. QED  BY <1>3, <2>1 DEF Crash, OpenFails, EndProcess, NewProcess
<1>4. CASE ServiceStart \/ Restamp
  BY <1>1, <1>4 DEF ServiceStart, Restamp, roll, world
<1>5. ASSUME NEW e \in {"on", "off", prefEnabled}, NEW i \in Intervals, PreferenceChanged(e, i)
      PROVE  RollTypes'
  BY <1>1, <1>5 DEF PreferenceChanged, roll
<1>6. CASE FirstRollover \/ Rollover
  <2>1. hasRunOnce' \in BOOLEAN
    BY <1>6, Zenon DEF FirstRollover, Rollover
  <2>. QED  BY <1>1, <1>6, <2>1 DEF FirstRollover, Rollover, mainV, world
<1>7. CASE StampRollover
  BY <1>1, <1>7 DEF StampRollover, mainV, world
<1>8. CASE Worker /\ ~FirstRollover /\ ~Rollover /\ ~StampRollover
  BY <1>2, <1>3, <1>8
     DEF Worker, Accept, BeginWriting, NoRollover, WorkerClose, WorkerCloseEnd, CloseMove,
         GetStream, OpenFile, OpenFailsUnused, WriteRecord, WriteRest, SkipRecord, EndWriting,
         Ignore, mainV, roll, world
<1>9. CASE (MainStop /\ ~Restamp) \/ ServiceStop
  BY <1>2, <1>9 DEF MainStop, StopWaited, MainClose, CloseMove, MainCloseEnd, StopEnd, Disable,
                    ServiceStop, mainV, roll, world
<1>. QED
  BY <1>2, <1>3, <1>4, <1>5, <1>6, <1>7, <1>8, <1>9
     DEF Next, Tick, Arrive, TakeRecent, vars, mainV, roll, world

Wheres == InDir("live") \cup InDir("recent") \cup {Nowhere, Lost, Taken}

RecordTypes ==
  /\ outputStream \in Seconds \cup {NoStamp}
  /\ where \in [Records -> Wheres]

LEMMA StepRecordTypes == FilesInv /\ CountInv /\ RecordTypes /\ [Next]_vars => RecordTypes'
<1> SUFFICES ASSUME FilesInv, CountInv, RecordTypes, [Next]_vars PROVE RecordTypes'
  OBVIOUS
<1>1. outputStream' \in Seconds \cup {NoStamp}
  <2>1. CASE UNCHANGED outputStream
    BY <2>1 DEF RecordTypes
  <2>2. CASE Crash \/ OpenFails
    BY <2>2 DEF Crash, OpenFails, EndProcess, NewProcess
  <2>3. CASE GetStream \/ OpenFile \/ EndWriting
    BY <2>3 DEF GetStream, OpenFile, EndWriting, FilesInv, FilesTypeOK
  <2>. QED
    BY <2>1, <2>2, <2>3
       DEF Next, Worker, MainStop, vars, handler, Tick, Arrive, TakeRecent, Accept, BeginWriting,
           NoRollover, FirstRollover, Rollover, WorkerClose, WorkerCloseEnd, CloseMove,
           StampRollover, OpenFailsUnused, WriteRecord, WriteRest, SkipRecord, EndWriting, Ignore,
           ServiceStart, ServiceStop, PreferenceChanged, Restamp, StopWaited, MainClose, MainCloseEnd,
           StopEnd, Disable
<1>2. where' \in [Records -> Wheres]
  <2>1. Nowhere \in Wheres /\ Lost \in Wheres /\ Taken \in Wheres /\ where \in [Records -> Wheres]
    BY DEF Wheres, RecordTypes
  <2>2. \A n \in Names : Place("live", n) \in Wheres /\ Place("recent", n) \in Wheres
    BY DEF Wheres, InDir
  <2> HIDE DEF Wheres
  <2>3. CASE UNCHANGED where
    BY <2>1, <2>3
  <2>4. ASSUME NEW n \in Names, TakeRecent(n) PROVE where' \in [Records -> Wheres]
    BY <2>1, <2>4 DEF TakeRecent
  <2>5. CASE Crash \/ OpenFails
    BY <2>1, <2>5 DEF Crash, OpenFails, EndProcess, Emptied
  <2>6. CASE OpenFile \/ OpenFailsUnused
    BY <2>1, <2>6 DEF OpenFile, OpenFailsUnused, Emptied
  <2>7. ASSUME NEW n \in Names, MoveFile(n) PROVE where' \in [Records -> Wheres]
    <3>1. \A r \in Records :
            (CASE where[r] = Place("recent", n) -> Lost
               [] where[r] = Place("live", n)   -> Place("recent", n)
               [] OTHER                         -> where[r]) \in Wheres
      BY <2>1, <2>2
    <3>. QED  BY <2>7, <3>1 DEF MoveFile
  <2>8. CASE WriteRecord
    <3>1. <<packet, outputStream>> \in Names
      BY <2>8 DEF WriteRecord, At, FilesInv, FilesTypeOK, MonitorInv, Names
    <3>2. \E w \in Wheres : where' = [where EXCEPT ![writes + 1] = w]
      BY <2>1, <2>2, <2>8, <3>1 DEF WriteRecord
    <3>. QED  BY <2>1, <3>2
  <2>9. CASE WriteRest
    BY <2>1, <2>9 DEF WriteRest
  <2>10. \/ UNCHANGED where
         \/ \E n \in Names : TakeRecent(n) \/ MoveFile(n)
         \/ Crash \/ OpenFails \/ OpenFile \/ OpenFailsUnused \/ WriteRecord \/ WriteRest
    BY SMTT(60) DEF FilesInv, FilesTypeOK, Next, Worker, MainStop, CloseMove, MoveFails, vars,
       disk, Tick, Arrive, Accept, BeginWriting, NoRollover, FirstRollover, Rollover,
       WorkerClose, WorkerCloseEnd, StampRollover, GetStream, SkipRecord,
       EndWriting, Ignore, ServiceStart, ServiceStop, PreferenceChanged, Restamp, StopWaited,
       MainClose, MainCloseEnd, StopEnd, Disable
  <2>. QED  BY <2>3, <2>4, <2>5, <2>6, <2>7, <2>8, <2>9, <2>10
<1>. QED  BY <1>1, <1>2 DEF RecordTypes

TypesInv == CountInv /\ WorldTypes /\ MainTypes /\ RollTypes /\ RecordTypes

LEMMA InitTypesInv == Init => TypesInv
<1> SUFFICES ASSUME Init PROVE TypesInv
  OBVIOUS
<1>1. CountInv
  BY FileOutputAssumption DEF Init, CountInv, Handled, Counted
<1>2. WorldTypes /\ MainTypes
  <2>1. serving \in BOOLEAN /\ MainTypes
    BY Zenon DEF Init, MainTypes
  <2>. QED  BY <2>1, FileOutputAssumption DEF Init, WorldTypes
<1>3. RollTypes
  <2>1. hasRunOnce \in BOOLEAN
    BY Zenon DEF Init
  <2>. QED  BY <2>1 DEF Init, RollTypes
<1>4. RecordTypes
  BY DEF Init, RecordTypes, Wheres
<1>. QED  BY <1>1, <1>2, <1>3, <1>4 DEF TypesInv

(* Type correctness: numThreadsWriting, which onPluginStop waits for, is   *)
(* never negative, and no record is written that did not arrive.           *)
THEOREM TypeCorrect == Spec => []TypeOK
<1>1. FilesInv /\ TypesInv /\ [Next]_vars => TypesInv'
  BY StepCountInv, StepWorldTypes, StepMainTypes, StepRollTypes, StepRecordTypes DEF TypesInv
<1>2. FilesInv /\ TypesInv => TypeOK
  <2> SUFFICES ASSUME FilesInv, TypesInv PROVE TypeOK
    OBVIOUS
  <2>1. numThreadsWriting \in Nat /\ writes \in 0 .. MaxRecords /\ arrivals \in 0 .. MaxRecords
    <3>1. Len(queue) \in Nat /\ MaxRecords \in Nat
      BY FileOutputAssumption DEF FilesInv, FilesTypeOK
    <3>. QED  BY <3>1 DEF TypesInv, CountInv, Handled
  <2>. QED
    BY <2>1 DEF TypeOK, FilesInv, FilesTypeOK, TypesInv, CountInv, WorldTypes, MainTypes,
                RollTypes, RecordTypes, Wheres
<1>. QED  BY <1>1, <1>2, InitTypesInv, FilesInvariant, PTL DEF Spec

===============================================================================
