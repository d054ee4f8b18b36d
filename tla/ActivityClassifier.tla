--------------------------- MODULE ActivityClassifier ---------------------------
(***************************************************************************)
(* TDEClassifierPlugin, the classifier of activities.  Two buttons start   *)
(* and stop building a model and classifying; both happen on the main      *)
(* thread.  Starting to classify spawns a starter thread that loads the    *)
(* native models and makes the buffers, and a classifier thread whose      *)
(* looper takes messages.  The worker of the output plugin adds each       *)
(* sample to the circular buffer of TimeDelayEmbeddingClassifier and now   *)
(* and then sends the classifier thread the index at which it is; when     *)
(* that thread comes to read the window that ends there, the buffer may    *)
(* have moved on.                                                          *)
(*                                                                         *)
(* A sample is its number since the buffer was made.  What is computed     *)
(* from samples, the filter that decides when to classify and the remote   *)
(* logging are left out: whether a sample leads to a message is free.      *)
(***************************************************************************)
EXTENDS Integers, Sequences

CONSTANTS
  ModelSets,    (* What models.ini may list: how many models, and the      *)
                (* samples that the native classifier needs for them.      *)
  MaxStarts,    (* Bound: clicks that start classifying.                   *)
  MaxPackets    (* Bound: sensor packets.                                  *)

NoModels == [models |-> 0, window |-> 0]    (* No native classifier yet.   *)

ASSUME ModelSetsAssumption ==
  /\ ModelSets \subseteq [models : Nat, window : Nat]
  /\ \A s \in ModelSets : s.window = 0 => s = NoModels
ASSUME BoundsAssumption == MaxStarts \in Nat /\ MaxPackets \in Nat

Starts == 1 .. MaxStarts
QUIT == -1                  (* QUIT_MESSAGE; other messages are indices.   *)

VARIABLES
  serving, preferred,       (* Whether the service runs; the preference.   *)
  pluginEnabled,
  stopping,                 (* Who waits for onPluginStop to return.       *)
  buttonRow,                (* Whether the buttons are shown, and which    *)
  buildButton, classifyButton,          (* listener each has now.          *)
  building, classifying,
  modelFileWriter, classOutputFile,     (* "null", "open" or "closed".     *)
  graph,                    (* Whether the graph of a new model is open.   *)
  starts, starter,          (* The starter thread of each start.           *)
  calm,                     (* History: whether every start was a calm one.*)
  thread, queue, mHandler,  (* The classifier threads, their messages, and *)
                            (* the thread whose handler is known (or 0).   *)
  handled, window,          (* The index and the window a thread works on. *)
  native,                   (* The native classifier's models.             *)
  windowLength, bufferMidPoint, buffer, bufferIndex, samples,
  classProbs, cumulativeClassProbs,     (* Their lengths.                  *)
  worker, added, packets,   (* Where the worker is; the index to be sent.  *)
  died                      (* What ended the process, or "no".            *)

plugin  == <<serving, preferred, pluginEnabled, stopping, buttonRow, buildButton,
             classifyButton>>
model   == <<modelFileWriter, graph>>
flags   == <<building, classifying>>
loading == <<starts, starter, calm>>
looping == <<thread, queue, mHandler, handled, window>>
circle  == <<windowLength, bufferMidPoint, buffer, bufferIndex, samples>>
scores  == <<classProbs, cumulativeClassProbs, classOutputFile>>
working == <<worker, added, packets>>
vars == <<plugin, model, flags, loading, looping, native, circle, scores, working, died>>

Init ==
  /\ serving = FALSE /\ preferred \in BOOLEAN /\ pluginEnabled = FALSE
  /\ stopping = "no" /\ buttonRow = FALSE /\ buildButton = "start" /\ classifyButton = "start"
  /\ building = FALSE /\ classifying = FALSE
  /\ modelFileWriter = "null" /\ classOutputFile = "null" /\ graph = FALSE
  /\ starts = 0 /\ starter = [k \in Starts |-> "new"] /\ calm = TRUE
  /\ thread = [k \in Starts |-> "new"] /\ queue = [k \in Starts |-> <<>>]
  /\ mHandler = 0
  /\ handled = [k \in Starts |-> 0] /\ window = [k \in Starts |-> <<>>]
  /\ native = NoModels
  /\ windowLength = 0 /\ bufferMidPoint = 0 /\ buffer = <<>> /\ bufferIndex = 0
  /\ samples = 0 /\ classProbs = 0 /\ cumulativeClassProbs = 0
  /\ worker = "idle" /\ added = 0 /\ packets = 0
  /\ died = "no"

-------------------------------------------------------------------------------
(* What is still at work of earlier starts.                                *)

Loading == \E k \in Starts : starter[k] \notin {"new", "done"}

(* A classifier thread that has looped to the end of its messages.         *)
Rests(k) ==
  \/ thread[k] \in {"new", "ended"}
  \/ thread[k] = "waiting" /\ queue[k] = <<>>

(* Nothing of an earlier start is at work.  The code waits for none of     *)
(* this before a start; it is recorded, for what only calm starts keep.    *)
Quiet == ~Loading /\ ~classifying /\ worker = "idle" /\ \A k \in Starts : Rests(k)

-------------------------------------------------------------------------------
(* The main thread: the buttons.                                           *)

Dies(cause) == died' = cause

(* finishBuilding: the graph is shown unless the file was closed before.   *)
FinishBuilding ==
  /\ building' = FALSE /\ modelFileWriter' = "closed"
  /\ graph' = (graph \/ modelFileWriter = "open")

(* The button is turned into "stop" even when no file could be made.       *)
StartBuildingModel ==
  /\ stopping = "no" /\ buttonRow /\ buildButton = "start"
  /\ IF classifying
     THEN UNCHANGED <<building, modelFileWriter, buildButton>>
     ELSE /\ buildButton' = "stop"
          /\ \/ ~building /\ building' = TRUE /\ modelFileWriter' = "open"
             \/ UNCHANGED <<building, modelFileWriter>>
  /\ UNCHANGED <<serving, preferred, pluginEnabled, stopping, buttonRow, classifyButton,
                 graph, classifying, loading, looping, native, circle, scores, working, died>>

StopBuildingModel ==
  /\ stopping = "no" /\ buttonRow /\ buildButton = "stop"
  /\ IF modelFileWriter = "null" THEN Dies("nullWriter") /\ UNCHANGED <<building, model>>
     ELSE FinishBuilding /\ UNCHANGED died
  /\ buildButton' = "start"
  /\ UNCHANGED <<serving, preferred, pluginEnabled, stopping, buttonRow, classifyButton,
                 classifying, loading, looping, native, circle, scores, working>>

(* buildModel writes the tree of the chosen data next to its file, and     *)
(* closes the nearest neighbour library for every model.                   *)
GraphClosed ==
  /\ stopping = "no" /\ graph /\ graph' = FALSE
  /\ UNCHANGED <<plugin, modelFileWriter, flags, loading, looping, native, circle, scores,
                 working, died>>

StartClassifying ==
  /\ stopping = "no" /\ buttonRow /\ classifyButton = "start"
  /\ starts < MaxStarts
  /\ ~building
  /\ starts' = starts + 1 /\ starter' = [starter EXCEPT ![starts + 1] = "canRead"]
  /\ calm' = (calm /\ Quiet)
  /\ classifyButton' = "stop"
  /\ UNCHANGED <<serving, preferred, pluginEnabled, stopping, buttonRow, buildButton, model,
                 flags, looping, native, circle, scores, working, died>>

(* No thread is told to quit: the next start makes another one.            *)
StopClassifying ==
  /\ stopping = "no" /\ buttonRow /\ classifyButton = "stop"
  /\ classOutputFile' = IF classOutputFile = "open" THEN "closed" ELSE classOutputFile
  /\ classifying' = FALSE /\ classifyButton' = "start"
  /\ UNCHANGED <<serving, preferred, pluginEnabled, stopping, buttonRow, buildButton, model,
                 building, loading, looping, native, circle, classProbs,
                 cumulativeClassProbs, working, died>>

-------------------------------------------------------------------------------
(* The main thread: the plugin starts and stops.                           *)

(* onPluginStart with the preference on or off.                            *)
Starting(on) ==
  /\ pluginEnabled' = on
  /\ IF on THEN buttonRow' = TRUE /\ buildButton' = "start" /\ classifyButton' = "start"
     ELSE UNCHANGED <<buttonRow, buildButton, classifyButton>>

Sent(k, message) ==
  IF thread[k] = "ended" THEN queue ELSE [queue EXCEPT ![k] = Append(@, message)]

(* onPluginStop, up to the message that tells the last handler's thread to *)
(* quit.  Only if there is one do other threads see the rest later.        *)
Stopping(from) ==
  /\ buttonRow' = FALSE
  /\ IF building THEN FinishBuilding ELSE UNCHANGED <<building, model>>
  /\ stopping' = IF classifying THEN from ELSE "no"
  /\ IF classifying /\ mHandler = 0 THEN Dies("nullHandler") ELSE UNCHANGED died
  /\ queue' = IF classifying /\ mHandler # 0 THEN Sent(mHandler, QUIT) ELSE queue
  /\ UNCHANGED <<classifying, buildButton, classifyButton, thread, mHandler, handled, window>>

(* The rest, and what onPreferenceChanged does then.  The close of the     *)
(* native library frees only its own trivial leaf, which no tree has.      *)
Stopped ==
  /\ stopping # "no" /\ stopping' = "no" /\ classifying' = FALSE
  /\ pluginEnabled' = (pluginEnabled /\ stopping # "preference")
  /\ UNCHANGED <<serving, preferred, buttonRow, buildButton, classifyButton, model, building,
                 loading, looping, native, circle, scores, working, died>>

ServiceStarts ==
  /\ stopping = "no"
  /\ ~serving /\ serving' = TRUE /\ Starting(preferred)
  /\ UNCHANGED <<preferred, stopping, model, flags, loading, looping, native, circle, scores,
                 working, died>>

ServiceStops ==
  /\ stopping = "no"
  /\ serving /\ serving' = FALSE /\ Stopping("service")
  /\ UNCHANGED <<preferred, pluginEnabled, loading, native, circle, scores, working>>

(* onPreferenceChanged, if the service runs.                               *)
PreferenceChanged ==
  /\ stopping = "no"
  /\ preferred' = ~preferred
  /\ IF serving /\ pluginEnabled /\ preferred
     THEN Stopping("preference") /\ pluginEnabled' = classifying
     ELSE /\ IF serving /\ ~pluginEnabled /\ ~preferred THEN Starting(TRUE)
             ELSE UNCHANGED <<pluginEnabled, buttonRow, buildButton, classifyButton>>
          /\ UNCHANGED <<stopping, model, flags, looping, died>>
  /\ UNCHANGED <<serving, loading, native, circle, scores, working>>

-------------------------------------------------------------------------------
(* The starter thread of start k.                                          *)

Starter(k, from, to) == starter[k] = from /\ starter' = [starter EXCEPT ![k] = to]

CanRead(k) ==
  /\ \/ Starter(k, "canRead", "thread") /\ UNCHANGED classifying
     \/ Starter(k, "canRead", "done") /\ classifying' = FALSE
  /\ UNCHANGED <<plugin, model, building, starts, calm, looping, native, circle, scores, working,
                 died>>

StartThread(k) ==
  /\ Starter(k, "thread", "load") /\ thread' = [thread EXCEPT ![k] = "started"]
  /\ UNCHANGED <<plugin, model, flags, starts, calm, queue, mHandler, handled, window, native,
                 circle, scores, working, died>>

(* The native loadModels: a model that cannot be opened leaves the models  *)
(* of the last load as they were.                                          *)
LoadModels(k) ==
  /\ Starter(k, "load", "size")
  /\ native' \in ModelSets \cup {native}
  /\ UNCHANGED <<plugin, model, flags, starts, calm, looping, circle, scores, working, died>>

(* Mutant: the window is one sample short.                                 *)
SizeWindowShort(k) ==
  /\ Starter(k, "size", "buffer")
  /\ windowLength' = native.window - 1 /\ bufferMidPoint' = native.window - 2
  /\ UNCHANGED <<plugin, model, flags, starts, calm, looping, native, buffer, bufferIndex,
                 samples, scores, working, died>>

SizeWindow(k) ==
  /\ Starter(k, "size", "buffer")
  /\ windowLength' = native.window /\ bufferMidPoint' = native.window - 1
  /\ UNCHANGED <<plugin, model, flags, starts, calm, looping, native, buffer, bufferIndex,
                 samples, scores, working, died>>

(* Java refuses an array of length -1.                                     *)
NewBuffer(k) ==
  /\ Starter(k, "buffer", "index")
  /\ IF windowLength = 0 THEN Dies("negativeSize") /\ UNCHANGED buffer
     ELSE buffer' = [p \in 0 .. 2 * windowLength - 2 |-> 0] /\ UNCHANGED died
  /\ UNCHANGED <<plugin, model, flags, starts, calm, looping, native, windowLength,
                 bufferMidPoint, bufferIndex, samples, scores, working>>

ResetIndex(k) ==
  /\ Starter(k, "index", "scores")
  /\ bufferIndex' = 0 /\ samples' = 0
  /\ UNCHANGED <<plugin, model, flags, starts, calm, looping, native, windowLength,
                 bufferMidPoint, buffer, scores, working, died>>

(* Mutant: the array of scores is made by the first load only.             *)
NewScoresOnce(k) ==
  /\ Starter(k, "scores", "sums")
  /\ classProbs' = IF classProbs = 0 THEN native.models ELSE classProbs
  /\ UNCHANGED <<plugin, model, flags, starts, calm, looping, native, circle,
                 cumulativeClassProbs, classOutputFile, working, died>>

NewScores(k) ==
  /\ Starter(k, "scores", "sums") /\ classProbs' = native.models
  /\ UNCHANGED <<plugin, model, flags, starts, calm, looping, native, circle,
                 cumulativeClassProbs, classOutputFile, working, died>>

NewSums(k) ==
  /\ Starter(k, "sums", "file") /\ cumulativeClassProbs' = native.models
  /\ UNCHANGED <<plugin, model, flags, starts, calm, looping, native, circle, classProbs,
                 classOutputFile, working, died>>

OpenClassFile(k) ==
  /\ Starter(k, "file", "flag") /\ classOutputFile' \in {"open", classOutputFile}
  /\ UNCHANGED <<plugin, model, flags, starts, calm, looping, native, circle, classProbs,
                 cumulativeClassProbs, working, died>>

SetClassifying(k) ==
  /\ Starter(k, "flag", "done") /\ classifying' = TRUE
  /\ UNCHANGED <<plugin, model, building, starts, calm, looping, native, circle, scores, working,
                 died>>

-------------------------------------------------------------------------------
(* The classifier thread of start k.                                       *)

Thread(k, from, to) == thread[k] = from /\ thread' = [thread EXCEPT ![k] = to]

RunThread(k) ==
  /\ Thread(k, "started", "waiting") /\ mHandler' = k
  /\ UNCHANGED <<plugin, model, flags, loading, queue, handled, window, native, circle,
                 scores, working, died>>

(* A looper that quits drops what is queued behind the message.            *)
HandleMessage(k) ==
  /\ queue[k] # <<>>
  /\ \/ /\ Head(queue[k]) = QUIT /\ Thread(k, "waiting", "ended")
        /\ queue' = [queue EXCEPT ![k] = <<>>] /\ UNCHANGED handled
     \/ /\ Head(queue[k]) # QUIT /\ Thread(k, "waiting", "read")
        /\ queue' = [queue EXCEPT ![k] = Tail(@)]
        /\ handled' = [handled EXCEPT ![k] = Head(queue[k])]
  /\ UNCHANGED <<plugin, model, flags, loading, mHandler, window, native, circle, scores,
                 working, died>>

(* classify reads the window that ends at the index under the monitor of   *)
(* the buffer; there is none before the first windowLength samples.        *)
ReadWindow(k) ==
  LET first == handled[k] - windowLength + 1
      where == {first + j - 1 : j \in 1 .. windowLength}
  IN
  /\ \/ /\ handled[k] < bufferMidPoint /\ Thread(k, "read", "waiting")
        /\ UNCHANGED <<window, died>>
     \/ /\ handled[k] >= bufferMidPoint /\ Thread(k, "read", "native")
        /\ IF where \subseteq DOMAIN buffer
           THEN /\ window' = [window EXCEPT ![k] =
                                [j \in 1 .. windowLength |-> buffer[first + j - 1]]]
                /\ UNCHANGED died
           ELSE Dies("bufferIndex") /\ UNCHANGED window
  /\ handled' = [handled EXCEPT ![k] = 0]
  /\ UNCHANGED <<plugin, model, flags, loading, queue, mHandler, native, circle, scores,
                 working>>

(* classifySample reads as many samples, and writes as many scores, as     *)
(* the native models ask for, whatever the lengths of the Java arrays.     *)
ClassifySample(k) ==
  /\ Thread(k, "native", "record")
  /\ IF Len(window[k]) >= native.window /\ classProbs >= native.models
     THEN UNCHANGED died ELSE Dies("native")
  /\ window' = [window EXCEPT ![k] = <<>>]
  /\ UNCHANGED <<plugin, model, flags, loading, queue, mHandler, handled, native, circle,
                 scores, working>>

RecordScores(k) ==
  /\ Thread(k, "record", "waiting")
  /\ died' = IF classProbs > 0 /\ classOutputFile = "null" THEN "nullFile"
             ELSE IF classProbs > cumulativeClassProbs THEN "scores" ELSE died
  /\ UNCHANGED <<plugin, model, flags, loading, queue, mHandler, handled, window, native,
                 circle, scores, working>>

-------------------------------------------------------------------------------
(* The worker: onDataReceived, with a sensor packet.                       *)

Worker(from, to) == worker = from /\ worker' = to

Receive ==
  /\ packets < MaxPackets /\ packets' = packets + 1
  /\ Worker("idle", IF pluginEnabled THEN "building" ELSE "idle")
  /\ UNCHANGED <<plugin, model, flags, loading, looping, native, circle, scores, added, died>>

(* A sample of a model goes to its file, and nowhere if that was closed.   *)
TestBuilding ==
  /\ Worker("building", IF building THEN "idle" ELSE "classifying")
  /\ UNCHANGED <<plugin, model, flags, loading, looping, native, circle, scores, added,
                 packets, died>>

TestClassifying ==
  /\ Worker("classifying", IF classifying THEN "add" ELSE "idle")
  /\ UNCHANGED <<plugin, model, flags, loading, looping, native, circle, scores, added,
                 packets, died>>

(* Mutant: the second half is not repeated.                                *)
AddSampleOnce ==
  LET mirror == {}
      next == bufferIndex + 1
  IN
  /\ Worker("add", "send") /\ added' = bufferIndex
  /\ IF {bufferIndex} \cup mirror \subseteq DOMAIN buffer
     THEN /\ buffer' = [p \in DOMAIN buffer |->
                          IF p \in {bufferIndex} \cup mirror THEN samples + 1 ELSE buffer[p]]
          /\ samples' = samples + 1
          /\ bufferIndex' = IF next >= 2 * windowLength - 1 THEN bufferMidPoint ELSE next
          /\ UNCHANGED died
     ELSE Dies("bufferIndex") /\ UNCHANGED <<buffer, samples, bufferIndex>>
  /\ UNCHANGED <<plugin, model, flags, loading, looping, native, windowLength,
                 bufferMidPoint, scores, packets>>

(* addSample: the first half of the buffer repeats the second, so that any *)
(* window in it can be read as one piece.                                  *)
AddSample ==
  LET mirror == IF bufferIndex > bufferMidPoint THEN {bufferIndex - windowLength} ELSE {}
      next == bufferIndex + 1
  IN
  /\ Worker("add", "send") /\ added' = bufferIndex
  /\ IF {bufferIndex} \cup mirror \subseteq DOMAIN buffer
     THEN /\ buffer' = [p \in DOMAIN buffer |->
                          IF p \in {bufferIndex} \cup mirror THEN samples + 1 ELSE buffer[p]]
          /\ samples' = samples + 1
          /\ bufferIndex' = IF next >= 2 * windowLength - 1 THEN bufferMidPoint ELSE next
          /\ UNCHANGED died
     ELSE Dies("bufferIndex") /\ UNCHANGED <<buffer, samples, bufferIndex>>
  /\ UNCHANGED <<plugin, model, flags, loading, looping, native, windowLength,
                 bufferMidPoint, scores, packets>>

(* Every fifth sample of a consistent movement is sent to be classified.   *)
SendIndex ==
  /\ Worker("send", "idle") /\ added' = 0
  /\ \/ UNCHANGED <<queue, died>>
     \/ IF mHandler = 0 THEN Dies("nullHandler") /\ UNCHANGED queue
        ELSE queue' = Sent(mHandler, added) /\ UNCHANGED died
  /\ UNCHANGED <<plugin, model, flags, loading, thread, mHandler, handled, window, native,
                 circle, scores, packets>>

-------------------------------------------------------------------------------

Buttons ==
  \/ StartBuildingModel \/ StopBuildingModel \/ GraphClosed
  \/ StartClassifying \/ StopClassifying

Lifecycle == ServiceStarts \/ ServiceStops \/ PreferenceChanged \/ Stopped

StarterStep(k) ==
  \/ CanRead(k) \/ StartThread(k) \/ LoadModels(k) \/ SizeWindow(k) \/ NewBuffer(k)
  \/ ResetIndex(k) \/ NewScores(k) \/ NewSums(k) \/ OpenClassFile(k) \/ SetClassifying(k)

ThreadStep(k) ==
  \/ RunThread(k) \/ HandleMessage(k) \/ ReadWindow(k) \/ ClassifySample(k)
  \/ RecordScores(k)

WorkerStep ==
  \/ Receive \/ TestBuilding \/ TestClassifying \/ AddSample \/ SendIndex

Next ==
  /\ died = "no"
  /\ \/ Buttons \/ Lifecycle \/ WorkerStep
     \/ \E k \in Starts : StarterStep(k) \/ ThreadStep(k)

Spec == Init /\ [][Next]_vars

-------------------------------------------------------------------------------

Steps == {"new", "canRead", "thread", "load", "size", "buffer", "index", "scores", "sums",
          "file", "flag", "done"}
Places == {"new", "started", "waiting", "read", "native", "record", "ended"}
Causes == {"no", "nullWriter", "nullHandler", "nullFile", "negativeSize", "bufferIndex",
           "native", "scores"}

PluginTypes ==
  /\ serving \in BOOLEAN /\ preferred \in BOOLEAN /\ pluginEnabled \in BOOLEAN
  /\ stopping \in {"no", "service", "preference"} /\ buttonRow \in BOOLEAN
  /\ buildButton \in {"start", "stop"} /\ classifyButton \in {"start", "stop"}
  /\ building \in BOOLEAN /\ classifying \in BOOLEAN /\ graph \in BOOLEAN
  /\ modelFileWriter \in {"null", "open", "closed"}
  /\ classOutputFile \in {"null", "open", "closed"}

ThreadTypes ==
  /\ starts \in 0 .. MaxStarts /\ starter \in [Starts -> Steps] /\ calm \in BOOLEAN
  /\ thread \in [Starts -> Places] /\ queue \in [Starts -> Seq(Int)]
  /\ mHandler \in 0 .. MaxStarts
  /\ handled \in [Starts -> Int] /\ window \in [Starts -> Seq(Nat)]
  /\ worker \in {"idle", "building", "classifying", "add", "send"}
  /\ added \in Int /\ packets \in Nat /\ died \in Causes

CircleTypes ==
  /\ native \in ModelSets \cup {NoModels}
  /\ windowLength \in Nat /\ bufferMidPoint \in Int
  /\ buffer \in [DOMAIN buffer -> Nat] /\ bufferIndex \in Int /\ samples \in Nat
  /\ classProbs \in Nat /\ cumulativeClassProbs \in Nat

TypeOK == PluginTypes /\ ThreadTypes /\ CircleTypes

(* "Cannot classify while a model is being built", and "Cannot build a new *)
(* model while classifying".                                               *)
Exclusive == ~(building /\ classifying)

(* No index leaves the circular buffer, no window and no array of scores   *)
(* is shorter than what the native code takes for granted: over any        *)
(* reloads of other models, failing ones too, and stops at any time, the   *)
(* sizes of the Java side agree with those of the native side whenever     *)
(* both are used.  Not so once the classifier was started while threads of *)
(* an earlier start were at work, which nothing in the code prevents.      *)
SafeIndices == calm => died \notin {"bufferIndex", "native", "scores"}

(* The indices that are on their way to be classified.                     *)
Pending ==
  {i \in UNION {{queue[k][m] : m \in DOMAIN queue[k]} : k \in Starts} : i # QUIT}
  \cup {handled[k] : k \in {l \in Starts : thread[l] = "read"}}
  \cup (IF worker = "send" THEN {added} ELSE {})

Window(i) == (i - windowLength + 1) .. i

(* However long a message waits, and however often the buffer is wrapped   *)
(* around meanwhile: the window that it names holds the latest samples,    *)
(* each of them once, and in their order if no sample has come since.      *)
(* Again unless a start met threads of an earlier one at work.             *)
WindowIsLatest ==
  calm => \A i \in Pending : i >= bufferMidPoint =>
    /\ {buffer[p] : p \in Window(i)} = (samples - windowLength + 1) .. samples
    /\ buffer[i] = samples => \A p \in Window(i) : buffer[p] = samples - (i - p)

===============================================================================
