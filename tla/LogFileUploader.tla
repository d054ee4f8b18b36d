---------------------------- MODULE LogFileUploader ----------------------------
(***************************************************************************)
(* LogFileUploaderService: the service that sends the files of the recent  *)
(* directory to the server.  The main thread handles messages one by one   *)
(* (start requests, destruction, broadcasts); uploadFiles starts a NEW     *)
(* thread at every call, and those threads share fileList and fileMap with *)
(* each other and with the main thread.                                    *)
(*                                                                         *)
(* fileList, fileMap and started are static and outlive the service; the   *)
(* other fields belong to an instance of it.  A call on fileList or on     *)
(* fileMap is one step here (PacketPipeline has the steps inside           *)
(* LinkedList's calls), save that two overlapping remove() may both return *)
(* the head.  httppost is a field of the instance too: upload threads that *)
(* overlap fill in and send each other's requests.                         *)
(***************************************************************************)
EXTENDS Integers, Sequences, SequencesExt, FiniteSets

CONSTANTS
  Files,          (* The log files.                                        *)
  NoFile,         (* Not a file: null.                                     *)
  Answers,        (* Answers[f]: the possible outcomes of sending f, and   *)
                  (* Answers[NoFile]: those of a request without a file.   *)
  Networks,       (* The networks the phone may get.                       *)
  Autos, Wifis,   (* The values the user may give the two preferences.     *)
  StorageFails,   (* Whether renameTo or mkdirs may fail.                  *)
  MaxThreads,     (* Bound: upload threads at one time.                    *)
  MaxQueue,       (* Bound: files put back; overlapping threads can put    *)
                  (* one file back many times.                             *)
  MaxStarts,      (* Bound: calls of startService.                         *)
  MaxChanges      (* Bound: changes of network, preferences and files.     *)

(* The server takes the file; it answers "FAILURE" (or its host is unknown *)
(* or the client was shut down: all are put back); the exchange fails with *)
(* an IOException; or it does so after the server took the file.  Any page *)
(* without "FAILURE", such as an error page or the login page of a network,*)
(* counts as success too.  httpclient, the other field that threads share, *)
(* adds no outcome: a client that another thread uses or shuts down fails  *)
(* with an IOException or an IllegalStateException, which is put back.     *)
Outcomes == {"accept", "refuse", "ioError", "answerLost", "otherPage"}

ASSUME UploaderAssumption ==
  /\ IsFiniteSet(Files) /\ NoFile \notin Files
  /\ Answers \in [Files \cup {NoFile} -> SUBSET Outcomes]
  /\ Answers[NoFile] \cap {"accept", "answerLost"} = {}
  /\ Networks \subseteq {"none", "mobile", "wifi"} /\ Networks # {}
  /\ Autos \subseteq BOOLEAN /\ Autos # {} /\ Wifis \subseteq BOOLEAN /\ Wifis # {}
  /\ StorageFails \in BOOLEAN
  /\ MaxThreads \in Nat \ {0} /\ MaxQueue \in Nat \ {0} /\ MaxStarts \in Nat
  /\ MaxChanges \in Nat

MainThread == 0
Threads == 1 .. MaxThreads               (* The upload threads.            *)
Callers == Threads \cup {MainThread}     (* Who calls updateFileList.      *)
Instances == 1 .. MaxStarts
NoInstance == 0

VARIABLES
  net, autoPref, wifiPref,       (* The active network; the preferences.   *)
  starts, changes,               (* The counters that are bounded.         *)
  recent, uploaded,              (* The files in the two directories.      *)
  accepted,                      (* History: files the server has taken,   *)
  crossed,                       (* and those updateFileList was adding    *)
                                 (* while map and list were cleared.       *)
  started, fileList, fileMap,    (* The static fields; fileMap's keys.     *)
  up,                            (* Whether Android has the service up.    *)
  inbox,                         (* The main thread's messages.            *)
  current, instances,            (* The instance in use; number created.   *)
  waiting, automatic, wifiOnly,  (* Fields, by instance.                   *)
  connectionReceiverRegistered,
  timer,                         (* timer[s]: tasks scheduled, Cancelled.  *)
  listening,                     (* listening[s]: connectReceiver is truly *)
                                 (* registered with Android.               *)
  httppost,                      (* httppost[s]: the file in the request.  *)
  pc, file, rest,                (* The callers: place, f (or s, in        *)
                                 (* updateFileList), the files after s.    *)
  owner, sent, ff                (* The threads: instance, file sent, ff.  *)

environment == <<net, autoPref, wifiPref, starts, changes>>
disk        == <<recent, uploaded, accepted>>
statics     == <<started, fileList, fileMap, crossed>>
android     == <<up, inbox, current, instances>>
fields      == <<waiting, automatic, wifiOnly, connectionReceiverRegistered, timer,
                 listening, httppost>>
threads     == <<pc, file, rest, owner, sent, ff>>
vars == <<environment, disk, statics, android, fields, threads>>

Cancelled == -1

Init ==
  /\ net \in Networks /\ autoPref \in Autos /\ wifiPref \in Wifis
  /\ starts = 0 /\ changes = 0
  /\ recent \in SUBSET Files /\ uploaded = {} /\ accepted = {} /\ crossed = {}
  /\ started = FALSE /\ fileList = <<>> /\ fileMap = {}
  /\ up = FALSE /\ inbox = <<>> /\ current = NoInstance /\ instances = 0
  /\ waiting = [s \in Instances |-> FALSE]
  /\ automatic = [s \in Instances |-> FALSE]
  /\ wifiOnly = [s \in Instances |-> FALSE]
  /\ connectionReceiverRegistered = [s \in Instances |-> FALSE]
  /\ timer = [s \in Instances |-> 0]
  /\ listening = [s \in Instances |-> FALSE]
  /\ httppost = [s \in Instances |-> NoFile]
  /\ pc = [c \in Callers |-> "none"] /\ file = [c \in Callers |-> NoFile]
  /\ rest = [c \in Callers |-> {}] /\ owner = [t \in Threads |-> NoInstance]
  /\ sent = [t \in Threads |-> NoFile] /\ ff = [t \in Threads |-> NoFile]

-------------------------------------------------------------------------------
(* Android: start requests, broadcasts, the network, the user.             *)

Running(t) == pc[t] # "none"

(* The main thread is not inside a handler.                                *)
MainIdle == ~Running(MainThread)

(* An uncaught exception ends the process: all its memory is gone.         *)
Die ==
  /\ started' = FALSE /\ fileList' = <<>> /\ fileMap' = {} /\ crossed' = {}
  /\ up' = FALSE /\ inbox' = <<>> /\ current' = NoInstance
  /\ pc' = [c \in Callers |-> "none"] /\ file' = [c \in Callers |-> NoFile]
  /\ rest' = [c \in Callers |-> {}] /\ owner' = [t \in Threads |-> NoInstance]
  /\ sent' = [t \in Threads |-> NoFile] /\ ff' = [t \in Threads |-> NoFile]
  /\ timer' = [s \in Instances |-> Cancelled]
  /\ listening' = [s \in Instances |-> FALSE]
  /\ UNCHANGED <<environment, disk, instances, waiting, automatic, wifiOnly,
                 connectionReceiverRegistered, httppost>>

(* startService, called by the user's button or by FileOutput.closeAll.    *)
StartService ==
  /\ starts < MaxStarts /\ starts' = starts + 1
  /\ up' = TRUE /\ inbox' = Append(inbox, <<"start">>)
  /\ UNCHANGED <<net, autoPref, wifiPref, changes, disk, statics, current, instances,
                 fields, threads>>

Change == changes < MaxChanges /\ changes' = changes + 1

(* Connectivity is broadcast to the receivers that are registered.         *)
NetMessages(S, n) ==
  SetToSeq({<<"net", s, n # "none">> : s \in {r \in S : listening[r]}})

NetChange(n) ==
  /\ Change /\ n # net /\ net' = n
  /\ inbox' = inbox \o NetMessages(Instances, n)
  /\ UNCHANGED <<autoPref, wifiPref, starts, disk, statics, up, current, instances,
                 fields, threads>>

(* HSAndroidPreferences, on the main thread: the new value is stored and   *)
(* then broadcast.                                                         *)
SetWifiOnly(b) ==
  /\ MainIdle /\ Change /\ b # wifiPref /\ wifiPref' = b
  /\ inbox' = Append(inbox, <<"wifiOnlyChanged">>)
  /\ UNCHANGED <<net, autoPref, starts, disk, statics, up, current, instances, fields,
                 threads>>

(* Turning automatic uploads on also starts the service.                   *)
SetAutomatic(b) ==
  /\ MainIdle /\ Change /\ b # autoPref /\ autoPref' = b
  /\ b => starts < MaxStarts
  /\ starts' = IF b THEN starts + 1 ELSE starts
  /\ up' = (up \/ b)
  /\ inbox' = inbox \o (IF b THEN <<<<"start">>>> ELSE <<>>) \o <<<<"autoChanged">>>>
  /\ UNCHANGED <<net, wifiPref, disk, statics, current, instances, fields, threads>>

(* FileOutput.closeAll adds a file; the user deletes one.                  *)
AddFile(f) ==
  /\ Change /\ f \notin recent \cup uploaded
  /\ recent' = recent \cup {f}
  /\ UNCHANGED <<net, autoPref, wifiPref, starts, uploaded, accepted, statics, android,
                 fields, threads>>

DeleteFile(f) ==
  /\ MainIdle /\ Change /\ f \in recent /\ recent' = recent \ {f}
  /\ UNCHANGED <<net, autoPref, wifiPref, starts, uploaded, accepted, statics, android,
                 fields, threads>>

-------------------------------------------------------------------------------
(* Helpers of the handlers.                                                *)

At(c, from, to) == pc[c] = from /\ pc' = [pc EXCEPT ![c] = to]

(* Whose updateFileList c calls; the monitor of instance s, which that and *)
(* onStart hold.                                                           *)
InstanceOf(c) == IF c = MainThread THEN current ELSE owner[c]
Holds(c, s) ==
  /\ InstanceOf(c) = s
  /\ pc[c] \in {"test", "put", "add"} \/ (c = MainThread /\ pc[c] \in {"update", "decide"})
Enters(c, s) == \A d \in Callers \ {c} : ~Holds(d, s)

(* updateFileList by c: path.list().                                       *)
ListFiles(c) ==
  /\ At(c, "update", "test") /\ Enters(c, InstanceOf(c))
  /\ rest' = [rest EXCEPT ![c] = recent]
  /\ UNCHANGED <<environment, disk, statics, android, fields, file, owner, sent, ff>>

(* fileMap.containsKey(s), for the files in any order.                     *)
NeverKnown(f) == FALSE             (* Mutant: fileMap is not looked at.     *)
Known(f) == f \in fileMap
TestFile(c) ==
  /\ \E f \in rest[c] :
       /\ At(c, "test", IF Known(f) THEN "test" ELSE "put")
       /\ rest' = [rest EXCEPT ![c] = @ \ {f}]
       /\ file' = [file EXCEPT ![c] = IF Known(f) THEN NoFile ELSE f]
  /\ UNCHANGED <<environment, disk, statics, android, fields, owner, sent, ff>>

PutFile(c) ==
  /\ At(c, "put", "add") /\ fileMap' = fileMap \cup {file[c]}
  /\ UNCHANGED <<environment, disk, started, fileList, crossed, android, fields, file, rest,
                 owner, sent, ff>>

AddToList(c) ==
  /\ At(c, "add", "test") /\ fileList' = Append(fileList, file[c])
  /\ file' = [file EXCEPT ![c] = NoFile]
  /\ UNCHANGED <<environment, disk, started, fileMap, crossed, android, fields, rest, owner,
                 sent, ff>>

FilesListed(c) ==
  /\ rest[c] = {} /\ At(c, "test", IF c = MainThread THEN "decide" ELSE "check")
  /\ UNCHANGED <<environment, disk, statics, android, fields, file, rest, owner, sent, ff>>

updateFileList(c) ==
  ListFiles(c) \/ TestFile(c) \/ PutFile(c) \/ AddToList(c) \/ FilesListed(c)

(* uploadFiles by instance s: a new thread.  The main thread goes on at m. *)
uploadFiles(s, m) ==
  LET t == CHOOSE u \in Threads : ~Running(u) IN
  /\ \E u \in Threads : ~Running(u)
  /\ pc' = [pc EXCEPT ![t] = "update", ![MainThread] = m]
  /\ owner' = [owner EXCEPT ![t] = s]
  /\ UNCHANGED <<file, rest, sent, ff>>

unregisterConnectReceiver(s) ==
  /\ connectionReceiverRegistered' = [connectionReceiverRegistered EXCEPT ![s] = FALSE]
  /\ listening' = [listening EXCEPT ![s] = @ /\ ~connectionReceiverRegistered[s]]

(* Mutant: the upload is not resumed.                                      *)
networkChangedQuietly(s) == unregisterConnectReceiver(s) /\ UNCHANGED threads

networkChanged(s) == unregisterConnectReceiver(s) /\ uploadFiles(s, "none")

-------------------------------------------------------------------------------
(* The main thread handles the message at the head of its inbox.           *)

Message(kind) == MainIdle /\ inbox # <<>> /\ Head(inbox)[1] = kind
Done == inbox' = Tail(inbox) /\ UNCHANGED up

(* stopService: Android will destroy the service if it is up.  messages    *)
(* are those ahead of the destruction.                                     *)
stopService(messages) ==
  /\ up' = FALSE
  /\ inbox' = messages \o (IF up THEN <<<<"destroy">>>> ELSE <<>>)

(* onCreate, if there is no instance, and onStart, which is synchronized,  *)
(* up to its call of updateFileList.                                       *)
OnStart ==
  LET s == IF current = NoInstance THEN instances + 1 ELSE current IN
  /\ Message("start") /\ Enters(MainThread, s) /\ Done
  /\ current' = s /\ instances' = IF current = NoInstance THEN s ELSE instances
  /\ At(MainThread, "none", "update")
  /\ UNCHANGED <<environment, disk, statics, fields, file, rest, owner, sent, ff>>

(* onStart returns early: it has been started, or there is nothing to do.  *)
NoNewFiles == fileList = <<>>    (* Mutant: a second start is not noticed.  *)
ReturnsEarly == started \/ fileList = <<>>

Decide ==
  /\ pc[MainThread] = "decide"
  /\ IF ReturnsEarly
     THEN /\ At(MainThread, "decide", "none")
          /\ UNCHANGED <<started, automatic, wifiOnly, file, rest, owner, sent, ff>>
     ELSE /\ started' = TRUE
          /\ wifiOnly' = [wifiOnly EXCEPT ![current] = wifiPref]
          /\ automatic' = [automatic EXCEPT ![current] = autoPref]
          /\ uploadFiles(current, "none")
  /\ UNCHANGED <<environment, disk, fileList, fileMap, crossed, android, waiting,
                 connectionReceiverRegistered, timer, listening, httppost>>

(* onDestroy unregisters receivers that only onStart past its early        *)
(* returns registers: otherwise it throws IllegalArgumentException.        *)
OnDestroy ==
  /\ Message("destroy") /\ started /\ Done
  /\ current' = NoInstance /\ UNCHANGED instances
  /\ started' = FALSE /\ waiting' = [waiting EXCEPT ![current] = FALSE]
  /\ timer' = [timer EXCEPT ![current] = Cancelled]
  /\ connectionReceiverRegistered' =
       [connectionReceiverRegistered EXCEPT ![current] = FALSE]
  /\ listening' = [listening EXCEPT ![current] = FALSE]
  /\ UNCHANGED <<environment, disk, fileList, fileMap, crossed, automatic, wifiOnly,
                 httppost, threads>>

OnDestroyThrows == Message("destroy") /\ ~started /\ Die

(* completionReceiver: UPLOAD_COMPLETE_INTENT stops the service.           *)
OnComplete ==
  /\ Message("complete")
  /\ IF started THEN stopService(Tail(inbox)) ELSE Done
  /\ UNCHANGED <<environment, disk, statics, current, instances, fields, threads>>

(* connectReceiver, if it is still registered.                             *)
OnNetwork ==
  LET s == Head(inbox)[2]
      connected == Head(inbox)[3] IN
  /\ Message("net") /\ Done
  /\ IF listening[s] /\ connected
     THEN networkChanged(s)
     ELSE UNCHANGED <<connectionReceiverRegistered, listening, threads>>
  /\ UNCHANGED <<environment, disk, statics, current, instances, waiting, automatic,
                 wifiOnly, timer, httppost>>

wifiPrefChanged ==
  LET s == current IN
  /\ Message("wifiOnlyChanged") /\ started /\ Done
  /\ wifiOnly' = [wifiOnly EXCEPT ![s] = wifiPref]
  /\ IF automatic[s] /\ ~wifiPref /\ waiting[s]
     THEN networkChanged(s)
     ELSE UNCHANGED <<connectionReceiverRegistered, listening, threads>>
  /\ UNCHANGED <<environment, disk, statics, current, instances, waiting, automatic,
                 timer, httppost>>

autoPrefChanged ==
  /\ Message("autoChanged") /\ started /\ Done
  /\ automatic' = [automatic EXCEPT ![current] = autoPref]
  /\ At(MainThread, "none", IF autoPref THEN "none" ELSE "ifWaiting")
  /\ UNCHANGED <<environment, disk, statics, current, instances, waiting, wifiOnly,
                 connectionReceiverRegistered, timer, listening, httppost, file, rest, owner,
                 sent, ff>>

(* if (waiting) timerKill(): timer.cancel().                               *)
KillTimer ==
  /\ At(MainThread, "ifWaiting", IF waiting[current] THEN "newTimer" ELSE "none")
  /\ timer' = [timer EXCEPT ![current] = IF waiting[current] THEN Cancelled ELSE @]
  /\ UNCHANGED <<environment, disk, statics, android, waiting, automatic, wifiOnly,
                 connectionReceiverRegistered, listening, httppost, file, rest, owner, sent,
                 ff>>

(* timer = new Timer(), and stopService.                                   *)
NewTimer ==
  /\ At(MainThread, "newTimer", "none")
  /\ timer' = [timer EXCEPT ![current] = 0] /\ stopService(inbox)
  /\ UNCHANGED <<environment, disk, statics, current, instances, waiting, automatic, wifiOnly,
                 connectionReceiverRegistered, listening, httppost, file, rest, owner, sent,
                 ff>>

(* The preference receivers are not registered.                            *)
Unheard ==
  /\ Message("wifiOnlyChanged") \/ Message("autoChanged")
  /\ ~started /\ Done
  /\ UNCHANGED <<environment, disk, statics, current, instances, fields, threads>>

Main ==
  \/ OnStart \/ updateFileList(MainThread) \/ Decide \/ OnDestroy \/ OnDestroyThrows
  \/ OnComplete \/ OnNetwork \/ wifiPrefChanged \/ autoPrefChanged \/ KillTimer \/ NewTimer
  \/ Unheard

(* The timer's task, on the timer's thread: the retry after DELAY.         *)
TimerFires(s) ==
  /\ timer[s] > 0 /\ timer' = [timer EXCEPT ![s] = @ - 1]
  /\ uploadFiles(s, pc[MainThread])
  /\ UNCHANGED <<environment, disk, statics, android, waiting, automatic, wifiOnly,
                 connectionReceiverRegistered, listening, httppost>>

-------------------------------------------------------------------------------
(* An upload thread: the run method in uploadFiles, and uploadFile.        *)

Ends(t, from) ==
  /\ At(t, from, "none")
  /\ file' = [file EXCEPT ![t] = NoFile] /\ owner' = [owner EXCEPT ![t] = NoInstance]
  /\ sent' = [sent EXCEPT ![t] = NoFile] /\ ff' = [ff EXCEPT ![t] = NoFile]
  /\ UNCHANGED rest

(* while (!fileList.isEmpty())                                             *)
Check(t) ==
  /\ At(t, "check", IF fileList = <<>> THEN "clearMap" ELSE "active")
  /\ UNCHANGED <<environment, disk, statics, android, fields, file, rest, owner, sent, ff>>

(* canUpload asks for the active network once or twice more: "none" is     *)
(* null, which throws a NullPointerException there, or not connected.      *)
canUpload(t) ==
  LET lost == net = "none"
      strict == wifiOnly[owner[t]] IN
  /\ \/ At(t, "active", IF lost THEN "offline" ELSE "state")
     \/ At(t, "state", IF lost THEN "offline" ELSE IF strict THEN "type" ELSE "remove")
     \/ At(t, "type", IF net = "wifi" THEN "remove" ELSE "offline")
  /\ UNCHANGED <<environment, disk, statics, android, fields, file, rest, owner, sent, ff>>

NetworkThrows(t) == pc[t] \in {"state", "type"} /\ net = "none" /\ Die

(* fileList.remove(); overlapping calls may return the same head.          *)
RemoveHead(t) ==
  /\ fileList # <<>>
  /\ At(t, "remove", "upload")
  /\ file' = [file EXCEPT ![t] = Head(fileList)]
  /\ \/ fileList' = Tail(fileList)
     \/ UNCHANGED fileList /\ \E u \in Threads \ {t} : pc[u] = "remove"
  /\ UNCHANGED <<environment, disk, started, fileMap, crossed, android, fields, rest, owner,
                 sent, ff>>

(* NoSuchElementException: another thread took the last file.              *)
RemoveThrows(t) == pc[t] = "remove" /\ fileList = <<>> /\ Die

(* uploadFile: httppost = new HttpPost(UPLOAD_URL).                        *)
NewPost(t) ==
  /\ At(t, "upload", "exists") /\ httppost' = [httppost EXCEPT ![owner[t]] = NoFile]
  /\ UNCHANGED <<environment, disk, statics, android, waiting, automatic, wifiOnly,
                 connectionReceiverRegistered, timer, listening, file, rest, owner, sent, ff>>

(* A file that is missing is skipped.                                      *)
FileExists(t) ==
  /\ At(t, "exists", IF file[t] \in recent THEN "entity" ELSE "check")
  /\ UNCHANGED <<environment, disk, statics, android, fields, file, rest, owner, sent, ff>>

SetEntity(t) ==
  /\ At(t, "entity", "execute") /\ httppost' = [httppost EXCEPT ![owner[t]] = file[t]]
  /\ UNCHANGED <<environment, disk, statics, android, waiting, automatic, wifiOnly,
                 connectionReceiverRegistered, timer, listening, file, rest, owner, sent, ff>>

(* What is in httppost is sent; if the file is gone, with an IOException.  *)
Execute(t) ==
  LET f == httppost[owner[t]] IN
  /\ At(t, "execute", IF f \in recent \cup {NoFile} THEN "answer" ELSE "check")
  /\ sent' = [sent EXCEPT ![t] = f]
  /\ UNCHANGED <<environment, disk, statics, android, fields, file, rest, owner, ff>>

(* Mutant: the answer "FAILURE" is not looked for.                         *)
AnswerUnchecked(t) ==
  /\ pc[t] = "answer"
  /\ LET may == Answers[sent[t]]
         took == accepted \cup ({sent[t]} \ {NoFile}) IN
     \/ "accept" \in may /\ At(t, "answer", "rename") /\ accepted' = took
     \/ "refuse" \in may /\ At(t, "answer", "rename") /\ UNCHANGED accepted
  /\ UNCHANGED <<environment, recent, uploaded, statics, android, fields, file, rest, owner,
                 sent, ff>>

(* The answer; an IOException skips the file.                              *)
Answer(t) ==
  /\ pc[t] = "answer"
  /\ LET may == Answers[sent[t]]
         took == accepted \cup ({sent[t]} \ {NoFile}) IN
     \/ "accept" \in may /\ At(t, "answer", "rename") /\ accepted' = took
     \/ "otherPage" \in may /\ At(t, "answer", "rename") /\ UNCHANGED accepted
     \/ "refuse" \in may /\ At(t, "answer", "requeue") /\ UNCHANGED accepted
     \/ "ioError" \in may /\ At(t, "answer", "check") /\ UNCHANGED accepted
     \/ "answerLost" \in may /\ At(t, "answer", "check") /\ accepted' = took
  /\ UNCHANGED <<environment, recent, uploaded, statics, android, fields, file, rest, owner,
                 sent, ff>>

(* renameTo the uploaded directory; a failure is an IOException.           *)
Rename(t) ==
  /\ At(t, "rename", "check")
  /\ \/ /\ file[t] \in recent
        /\ recent' = recent \ {file[t]} /\ uploaded' = uploaded \cup {file[t]}
     \/ /\ file[t] \notin recent \/ StorageFails
        /\ UNCHANGED <<recent, uploaded>>
  /\ UNCHANGED <<environment, accepted, statics, android, fields, file, rest, owner, sent, ff>>

(* The first file that failed has failed again.                            *)
NeverAgain(t) == FALSE             (* Mutant: it is not recognised.         *)
FailedAgain(t) == ff[t] = file[t]

(* The file failed: it goes to the end of the queue.  If it is the first   *)
(* one that failed and has now failed again, the thread stops trying.      *)
Requeue(t) ==
  /\ At(t, "requeue", IF FailedAgain(t) THEN "failing" ELSE "check")
  /\ Len(fileList) < MaxQueue /\ fileList' = Append(fileList, file[t])
  /\ ff' = [ff EXCEPT ![t] = IF @ = NoFile THEN file[t] ELSE @]
  /\ UNCHANGED <<environment, disk, started, fileMap, crossed, android, fields, file, rest,
                 owner, sent>>

(* if (automatic): wait for the timer or for a connection, or give up.     *)
GiveUp(t) ==
  LET auto == automatic[owner[t]] IN
  /\ \/ At(t, "failing", IF auto THEN "waitTimer" ELSE "clearMap")
     \/ At(t, "offline", IF auto THEN "waitNet" ELSE "clearMap")
  /\ UNCHANGED <<environment, disk, statics, android, fields, file, rest, owner, sent, ff>>

(* waiting = true, once automatic has been read.  Only onDestroy resets it. *)
Wait(t) ==
  /\ At(t, "waitTimer", "schedule") \/ At(t, "waitNet", "register")
  /\ waiting' = [waiting EXCEPT ![owner[t]] = TRUE]
  /\ UNCHANGED <<environment, disk, statics, android, automatic, wifiOnly,
                 connectionReceiverRegistered, timer, listening, httppost, file, rest, owner,
                 sent, ff>>

(* timerStart; a timer that has been cancelled throws.                     *)
TimerStart(t) ==
  LET s == owner[t] IN
  /\ Ends(t, "schedule") /\ timer[s] # Cancelled
  /\ timer' = [timer EXCEPT ![s] = @ + 1]
  /\ UNCHANGED <<environment, disk, statics, android, waiting, automatic, wifiOnly,
                 connectionReceiverRegistered, listening, httppost>>

TimerThrows(t) == pc[t] = "schedule" /\ timer[owner[t]] = Cancelled /\ Die

(* registerReceiver: CONNECTIVITY_ACTION is sticky, so that the receiver   *)
(* at once gets the last broadcast.                                        *)
Register(t) ==
  LET s == owner[t] IN
  /\ At(t, "register", "registered")
  /\ listening' = [listening EXCEPT ![s] = TRUE]
  /\ inbox' = Append(inbox, <<"net", s, net # "none">>)
  /\ UNCHANGED <<environment, disk, statics, up, current, instances, waiting, automatic,
                 wifiOnly, connectionReceiverRegistered, timer, httppost, file, rest, owner,
                 sent, ff>>

Registered(t) ==
  LET s == owner[t] IN
  /\ Ends(t, "registered")
  /\ connectionReceiverRegistered' = [connectionReceiverRegistered EXCEPT ![s] = TRUE]
  /\ UNCHANGED <<environment, disk, statics, android, waiting, automatic, wifiOnly,
                 timer, listening, httppost>>

(* Mutant: the map is not cleared.                                         *)
KeepMap(t) ==
  /\ At(t, "clearMap", "clearList")
  /\ UNCHANGED <<environment, disk, statics, android, fields, file, rest, owner, sent, ff>>

(* A file that is in the map and not yet in the list is crossed by this.   *)
ClearMap(t) ==
  /\ At(t, "clearMap", "clearList") /\ fileMap' = {}
  /\ crossed' = crossed \cup {file[c] : c \in {d \in Callers : pc[d] = "add"}}
  /\ UNCHANGED <<environment, disk, started, fileList, android, fields, file, rest, owner,
                 sent, ff>>

(* And by this, one that has got into both since the map was cleared.      *)
ClearList(t) ==
  /\ At(t, "clearList", "broadcast") /\ fileList' = <<>>
  /\ crossed' = crossed \cup (fileMap \cap ToSet(fileList))
  /\ UNCHANGED <<environment, disk, started, fileMap, android, fields, file, rest, owner, sent,
                 ff>>

(* Mutant: the completion is broadcast twice.                              *)
BroadcastTwice(t) ==
  /\ Ends(t, "broadcast") /\ inbox' = inbox \o <<<<"complete">>, <<"complete">>>>
  /\ UNCHANGED <<environment, disk, statics, up, current, instances, fields>>

Broadcast(t) ==
  /\ Ends(t, "broadcast") /\ inbox' = Append(inbox, <<"complete">>)
  /\ UNCHANGED <<environment, disk, statics, up, current, instances, fields>>

Upload(t) ==
  \/ updateFileList(t) \/ Check(t) \/ canUpload(t) \/ NetworkThrows(t) \/ RemoveHead(t)
  \/ RemoveThrows(t) \/ NewPost(t) \/ FileExists(t) \/ SetEntity(t) \/ Execute(t)
  \/ Answer(t) \/ Rename(t) \/ Requeue(t) \/ GiveUp(t) \/ Wait(t) \/ TimerStart(t)
  \/ TimerThrows(t) \/ Register(t) \/ Registered(t) \/ ClearMap(t) \/ ClearList(t)
  \/ Broadcast(t)

-------------------------------------------------------------------------------

World ==
  \/ StartService
  \/ \E n \in Networks : NetChange(n)
  \/ \E b \in Wifis : SetWifiOnly(b)
  \/ \E b \in Autos : SetAutomatic(b)
  \/ \E f \in Files : AddFile(f) \/ DeleteFile(f)

Next ==
  \/ World \/ Main
  \/ \E s \in Instances : TimerFires(s)
  \/ \E t \in Threads : Upload(t)

Spec == Init /\ [][Next]_vars

(* Messages are handled, threads run and timers fire.                      *)
FairSpec ==
  /\ Spec /\ WF_vars(Main)
  /\ \A s \in Instances : WF_vars(TimerFires(s))
  /\ \A t \in Threads : WF_vars(Upload(t))

-------------------------------------------------------------------------------

Listing == {"update", "test", "put", "add"}
InFile == {"upload", "exists", "entity", "execute", "answer", "rename", "requeue"}
InLoop == InFile \cup {"check", "active", "state", "type", "remove", "offline", "failing"}
Places ==
  {"none", "waitTimer", "schedule", "waitNet", "register", "registered", "clearMap",
   "clearList", "broadcast"} \cup Listing \cup InLoop
MainPlaces == {"none", "decide", "ifWaiting", "newTimer"} \cup Listing

TypeOK ==
  /\ net \in Networks /\ autoPref \in Autos /\ wifiPref \in Wifis
  /\ starts \in 0 .. MaxStarts /\ changes \in 0 .. MaxChanges
  /\ recent \subseteq Files /\ uploaded \subseteq Files /\ accepted \subseteq Files
  /\ started \in BOOLEAN /\ fileList \in Seq(Files) /\ fileMap \subseteq Files
  /\ crossed \subseteq Files
  /\ up \in BOOLEAN /\ current \in Instances \cup {NoInstance}
  /\ instances \in 0 .. MaxStarts
  /\ waiting \in [Instances -> BOOLEAN] /\ automatic \in [Instances -> BOOLEAN]
  /\ wifiOnly \in [Instances -> BOOLEAN] /\ listening \in [Instances -> BOOLEAN]
  /\ connectionReceiverRegistered \in [Instances -> BOOLEAN]
  /\ timer \in [Instances -> {Cancelled} \cup Nat]
  /\ httppost \in [Instances -> Files \cup {NoFile}]
  /\ pc \in [Callers -> Places \cup MainPlaces] /\ pc[MainThread] \in MainPlaces
  /\ file \in [Callers -> Files \cup {NoFile}] /\ rest \in [Callers -> SUBSET Files]
  /\ owner \in [Threads -> Instances \cup {NoInstance}]
  /\ sent \in [Threads -> Files \cup {NoFile}] /\ ff \in [Threads -> Files \cup {NoFile}]

(* With manual uploads, and if every page comes from the server's own      *)
(* script, a file is in the uploaded directory (which the user may clear   *)
(* at any time) only if the server has taken it.  Automatic uploads do not *)
(* promise it: threads that overlap send each other's request.             *)
UploadedAccepted == uploaded \subseteq accepted

(* The instance that gets onDestroy is one that onStart has fully started, *)
(* so that its receivers are there to be unregistered.                     *)
DestroysStarted == Message("destroy") => started /\ current # NoInstance

(* With manual uploads there is at most one upload thread, and none that   *)
(* outlives the service it belongs to.                                     *)
OneUploader ==
  \A t \in Threads : Running(t) =>
    /\ started /\ owner[t] = current
    /\ \A u \in Threads : Running(u) => u = t

(* With manual uploads, while an upload thread is in its loop no file is   *)
(* queued twice, or both queued and being sent (which would send it        *)
(* twice), and every queued file is in fileMap; except the files that a    *)
(* start request was adding while a thread cleared map and list.           *)
QueuedOnce ==
  \A t \in Threads : pc[t] \in InLoop =>
    /\ \A i, j \in DOMAIN fileList :
         fileList[i] = fileList[j] /\ fileList[i] \notin crossed => i = j
    /\ ToSet(fileList) \ crossed \subseteq fileMap
    /\ pc[t] \in InFile => file[t] \notin ToSet(fileList) \ crossed

(* With manual uploads, a start request that finds the service at rest     *)
(* overlooks no file: what fileMap holds back is in fileList, except those *)
(* same files.  (A file in the map and not in the list is never uploaded.) *)
NoneOverlooked ==
  pc[MainThread] = "decide" /\ ~started => fileMap \ crossed \subseteq ToSet(fileList)

(* A started service that is not uploading will be woken: a timer is set,  *)
(* the connectivity receiver is registered, or a message is on its way.    *)
NeverStranded ==
  started /\ inbox = <<>> /\ (\A c \in Callers : ~Running(c)) =>
    timer[current] > 0 \/ listening[current]

(* The first file that failed has left the queue: it was deleted, accepted *)
(* or skipped after an IOException.                                        *)
MarkerGone ==
  \E t \in Threads : ff[t] # NoFile /\ ff[t] \notin ToSet(fileList) \cup {file[t]}

(* An upload run with manual uploads ends and takes the service with it,   *)
(* unless the first file that failed leaves the queue without the others:  *)
(* then nothing stops the run from trying files that fail, for ever.       *)
RunEnds == started ~> (~started \/ MarkerGone)

===============================================================================
