------------------------ MODULE ActivityClassifierProofs ------------------------
(***************************************************************************)
(* As long as no start of the classifier met threads of an earlier one at *)
(* work (calm), whatever the models that are loaded and whenever the user  *)
(* or the service stops: no index leaves the circular buffer, no array is  *)
(* shorter than the native code needs, and a window that is classified     *)
(* holds the latest samples, however late it is read.                      *)
(***************************************************************************)
EXTENDS ActivityClassifier, TLAPS

-------------------------------------------------------------------------------
(* The circular buffer alone: window length W, contents buf, next index b, *)
(* n samples so far.  Left of b are the last W samples in their order;     *)
(* right of it, once the buffer is full, those of the round before; and    *)
(* what is further left repeats the second half.                           *)

Full(W, b, n) == b >= W - 1 /\ n >= 2 * W - 1

Circle(W, buf, b, n) ==
  /\ W \in Nat \ {0} /\ n \in Nat /\ b \in 0 .. (2 * W - 2)
  /\ DOMAIN buf = 0 .. (2 * W - 2)
  /\ n = b \/ Full(W, b, n)
  /\ \A p \in 0 .. (2 * W - 2) :
       /\ p < b /\ p >= b - W => buf[p] = n - b + 1 + p
       /\ p < b - W => buf[p] = n - b + 1 + p + W
       /\ p >= b /\ Full(W, b, n) => buf[p] = n - b + 1 + p - W

(* Index i has been written.                                               *)
Reached(W, b, n, i) == i \in 0 .. (2 * W - 2) /\ (i < b \/ Full(W, b, n))

LEMMA EmptyCircle ==
  ASSUME NEW W \in Nat \ {0}, NEW buf, DOMAIN buf = 0 .. (2 * W - 2)
  PROVE  Circle(W, buf, 0, 0)
BY DEF Circle, Full

(* addSample keeps the circle, and what was reached stays so.              *)
LEMMA AddToCircle ==
  ASSUME NEW W, NEW buf, NEW b, NEW n, Circle(W, buf, b, n), NEW next, NEW new,
         DOMAIN new = DOMAIN buf,
         \A p \in DOMAIN buf :
           new[p] = IF p = b \/ (b > W - 1 /\ p = b - W) THEN n + 1 ELSE buf[p],
         next = IF b + 1 >= 2 * W - 1 THEN W - 1 ELSE b + 1
  PROVE  /\ Circle(W, new, next, n + 1)
         /\ Reached(W, next, n + 1, b)
         /\ \A i \in Int : Reached(W, b, n, i) => Reached(W, next, n + 1, i)
<1>1. W \in Nat \ {0} /\ n \in Nat /\ b \in 0 .. (2 * W - 2)
      /\ DOMAIN buf = 0 .. (2 * W - 2) /\ (n = b \/ Full(W, b, n))
  BY DEF Circle
<1>2. next \in 0 .. (2 * W - 2) /\ DOMAIN new = 0 .. (2 * W - 2) /\ n + 1 \in Nat
  BY <1>1
<1>3. next = n + 1 \/ Full(W, next, n + 1)
  BY <1>1 DEF Full
<1>4. ASSUME NEW p \in 0 .. (2 * W - 2)
      PROVE  /\ p < next /\ p >= next - W => new[p] = (n + 1) - next + 1 + p
             /\ p < next - W => new[p] = (n + 1) - next + 1 + p + W
             /\ p >= next /\ Full(W, next, n + 1) => new[p] = (n + 1) - next + 1 + p - W
  <2>1. new[p] = IF p = b \/ (b > W - 1 /\ p = b - W) THEN n + 1 ELSE buf[p]
    BY <1>1
  <2>2. /\ p < b /\ p >= b - W => buf[p] = n - b + 1 + p
        /\ p < b - W => buf[p] = n - b + 1 + p + W
        /\ p >= b /\ Full(W, b, n) => buf[p] = n - b + 1 + p - W
    BY DEF Circle
  <2>3. CASE b + 1 >= 2 * W - 1
    <3>1. next = W - 1 /\ b = 2 * W - 2
      BY <1>1, <2>3
    <3>. QED  BY <1>1, <2>1, <2>2, <3>1 DEF Full
  <2>4. CASE ~(b + 1 >= 2 * W - 1)
    <3>1. next = b + 1
      BY <2>4
    <3>. QED  BY <1>1, <2>1, <2>2, <2>4, <3>1 DEF Full
  <2>. QED  BY <2>3, <2>4
<1>5. Circle(W, new, next, n + 1)
  BY <1>1, <1>2, <1>3, <1>4 DEF Circle
<1>6. Reached(W, next, n + 1, b)
  BY <1>1 DEF Reached, Full
<1>7. \A i \in Int : Reached(W, b, n, i) => Reached(W, next, n + 1, i)
  BY <1>1 DEF Reached, Full
<1>. QED  BY <1>5, <1>6, <1>7

(* Any window of the circle holds the last W samples.                      *)
LEMMA CircleWindow ==
  ASSUME NEW W, NEW buf, NEW b, NEW n, Circle(W, buf, b, n),
         NEW i, Reached(W, b, n, i), i >= W - 1
  PROVE  /\ (i - W + 1) .. i \subseteq DOMAIN buf
         /\ {buf[p] : p \in (i - W + 1) .. i} = (n - W + 1) .. n
<1>1. /\ W \in Nat \ {0} /\ n \in Nat /\ b \in 0 .. (2 * W - 2)
      /\ DOMAIN buf = 0 .. (2 * W - 2)
      /\ i \in 0 .. (2 * W - 2) /\ (i < b \/ Full(W, b, n))
  BY DEF Circle, Reached
<1>2. (i - W + 1) .. i \subseteq DOMAIN buf
  BY <1>1
<1>3. ASSUME NEW p \in 0 .. (2 * W - 2)
      PROVE  /\ p < b /\ p >= b - W => buf[p] = n - b + 1 + p
             /\ p < b - W => buf[p] = n - b + 1 + p + W
             /\ p >= b /\ Full(W, b, n) => buf[p] = n - b + 1 + p - W
  BY DEF Circle
<1>4. ASSUME NEW p \in (i - W + 1) .. i
      PROVE  buf[p] \in (n - W + 1) .. n
  <2>1. p \in 0 .. (2 * W - 2)
    BY <1>1
  <2>. QED  BY <1>1, <1>3, <2>1 DEF Full
<1>5. ASSUME NEW v \in (n - W + 1) .. n
      PROVE  \E p \in (i - W + 1) .. i : buf[p] = v
  <2> DEFINE q == v - n + b - 1
  <2>1. CASE i - W + 1 <= q /\ q <= i
    <3>1. q \in 0 .. (2 * W - 2) /\ q < b /\ q >= b - W
      BY <1>1, <2>1
    <3>2. buf[q] = v
      BY <1>1, <1>3, <3>1
    <3>. QED  BY <2>1, <3>1, <3>2, <1>1
  <2>2. CASE q > i
    <3>1. (q - W) \in 0 .. (2 * W - 2) /\ q - W < b - W /\ (q - W) \in (i - W + 1) .. i
      BY <1>1, <2>2
    <3>2. buf[q - W] = v
      BY <1>1, <1>3, <3>1
    <3>. QED  BY <3>1, <3>2
  <2>3. CASE q < i - W + 1
    <3>1. q + W >= b /\ q + W <= i
      BY <1>1, <2>3
    <3>2. Full(W, b, n)
      BY <1>1, <3>1
    <3>3. (q + W) \in 0 .. (2 * W - 2) /\ (q + W) \in (i - W + 1) .. i
      BY <1>1, <2>3, <3>1, <3>2 DEF Full
    <3>4. buf[q + W] = v
      BY <1>1, <1>3, <3>1, <3>2, <3>3
    <3>. QED  BY <3>3, <3>4
  <2>. QED  BY <1>1, <2>1, <2>2, <2>3
<1>. QED  BY <1>2, <1>4, <1>5

(* The window that ends with the latest sample is in order.                *)
LEMMA CircleOrder ==
  ASSUME NEW W, NEW buf, NEW b, NEW n, Circle(W, buf, b, n),
         NEW i, Reached(W, b, n, i), i >= W - 1, buf[i] = n
  PROVE  \A p \in (i - W + 1) .. i : buf[p] = n - (i - p)
<1>1. /\ W \in Nat \ {0} /\ n \in Nat /\ b \in 0 .. (2 * W - 2)
      /\ i \in 0 .. (2 * W - 2) /\ (i < b \/ Full(W, b, n))
  BY DEF Circle, Reached
<1>2. ASSUME NEW p \in 0 .. (2 * W - 2)
      PROVE  /\ p < b /\ p >= b - W => buf[p] = n - b + 1 + p
             /\ p < b - W => buf[p] = n - b + 1 + p + W
             /\ p >= b /\ Full(W, b, n) => buf[p] = n - b + 1 + p - W
  BY DEF Circle
<1>3. i = b - 1 \/ (i = b - 1 + W /\ Full(W, b, n))
  BY <1>1, <1>2
<1>4. ASSUME NEW p \in (i - W + 1) .. i
      PROVE  buf[p] = n - (i - p)
  <2>1. p \in 0 .. (2 * W - 2)
    BY <1>1
  <2>. QED  BY <1>1, <1>2, <1>3, <2>1
<1>. QED  BY <1>4

-------------------------------------------------------------------------------
(* Types.                                                                  *)

LEMMA PluginTypesKept == TypeOK /\ [Next]_vars => PluginTypes'
<1> SUFFICES ASSUME PluginTypes, [Next]_vars PROVE PluginTypes'
  BY DEF TypeOK
<1> USE DEF PluginTypes
<1>1. CASE StartBuildingModel \/ StopBuildingModel \/ GraphClosed
  BY <1>1 DEF StartBuildingModel, StopBuildingModel, FinishBuilding, GraphClosed, plugin,
              model, flags, scores
<1>2. CASE StartClassifying \/ StopClassifying
  BY <1>2 DEF StartClassifying, StopClassifying, model, flags, scores
<1>3. CASE ServiceStarts \/ Stopped
  BY <1>3 DEF ServiceStarts, Starting, Stopped, model, flags, scores
<1>4. CASE ServiceStops
  BY <1>4 DEF ServiceStops, Stopping, FinishBuilding, model, scores
<1>5. CASE PreferenceChanged
  BY <1>5 DEF PreferenceChanged, Starting, Stopping, FinishBuilding, model, flags, scores
<1>6. CASE WorkerStep
  BY <1>6 DEF WorkerStep, Receive, TestBuilding, TestClassifying, AddSample, SendIndex,
              plugin, model, flags, scores
<1>7. ASSUME NEW k \in Starts, StarterStep(k)
      PROVE  PluginTypes'
  <2>1. CASE CanRead(k) \/ SetClassifying(k)
    BY <2>1 DEF CanRead, SetClassifying, plugin, model, scores
  <2>2. CASE OpenClassFile(k)
    BY <2>2 DEF OpenClassFile, plugin, model, flags
  <2>3. CASE StartThread(k) \/ LoadModels(k) \/ SizeWindow(k) \/ NewBuffer(k)
             \/ ResetIndex(k)
    BY <2>3 DEF StartThread, LoadModels, SizeWindow, NewBuffer, ResetIndex, plugin, model,
                flags, scores
  <2>4. CASE NewScores(k) \/ NewSums(k)
    BY <2>4 DEF NewScores, NewSums, plugin, model, flags
  <2>. QED  BY <1>7, <2>1, <2>2, <2>3, <2>4 DEF StarterStep
<1>8. ASSUME NEW k \in Starts, ThreadStep(k)
      PROVE  PluginTypes'
  BY <1>8 DEF ThreadStep, RunThread, HandleMessage, ReadWindow, ClassifySample,
              RecordScores, plugin, model, flags, scores
<1>9. CASE UNCHANGED vars
  BY <1>9 DEF vars, plugin, model, flags, scores
<1>. QED
  BY <1>1, <1>2, <1>3, <1>4, <1>5, <1>6, <1>7, <1>8, <1>9 DEF Next, Buttons, Lifecycle

LEMMA SentType ==
  ASSUME ThreadTypes, NEW k \in Starts, NEW i \in Int
  PROVE  Sent(k, i) \in [Starts -> Seq(Int)]
BY DEF ThreadTypes, Sent

LEMMA StoppingType ==
  ASSUME ThreadTypes, NEW from, Stopping(from)
  PROVE  /\ queue' \in [Starts -> Seq(Int)]
         /\ died' \in Causes
         /\ UNCHANGED <<thread, mHandler, handled, window>>
<1>1. mHandler # 0 => mHandler \in Starts
  BY DEF ThreadTypes, Starts
<1>2. QUIT \in Int
  BY DEF QUIT
<1>3. queue' \in [Starts -> Seq(Int)]
  BY <1>1, <1>2, SentType DEF Stopping, ThreadTypes
<1>. QED  BY <1>3 DEF Stopping, ThreadTypes, Causes, Dies

LEMMA ThreadTypesKept == TypeOK /\ [Next]_vars => ThreadTypes'
<1> SUFFICES ASSUME ThreadTypes, CircleTypes, [Next]_vars PROVE ThreadTypes'
  BY DEF TypeOK
<1>1. CASE StartBuildingModel \/ StopBuildingModel \/ GraphClosed
  BY <1>1 DEF ThreadTypes, StartBuildingModel, StopBuildingModel, GraphClosed, loading,
              looping, working, Dies, Causes
<1>2. CASE StartClassifying \/ StopClassifying
  <2>1. CASE StartClassifying
    <3>1. starts + 1 \in 0 .. MaxStarts
      BY <2>1, BoundsAssumption DEF ThreadTypes, StartClassifying
    <3>2. starter' \in [Starts -> Steps]
      BY <2>1 DEF ThreadTypes, StartClassifying, Steps
    <3>3. calm' \in BOOLEAN
      BY <2>1 DEF ThreadTypes, StartClassifying
    <3>. QED  BY <2>1, <3>1, <3>2, <3>3 DEF ThreadTypes, StartClassifying, looping, working
  <2>2. CASE StopClassifying
    BY <2>2 DEF ThreadTypes, StopClassifying, loading, looping, working
  <2>. QED  BY <1>2, <2>1, <2>2
<1>3. CASE ServiceStarts \/ Stopped
  BY <1>3 DEF ThreadTypes, ServiceStarts, Stopped, loading, looping, working
<1>4. CASE ServiceStops
  BY <1>4, StoppingType DEF ThreadTypes, ServiceStops, loading, working
<1>5. CASE PreferenceChanged
  BY <1>5, StoppingType DEF ThreadTypes, PreferenceChanged, loading, looping, working
<1>6. CASE WorkerStep
  <2>1. CASE Receive \/ TestBuilding \/ TestClassifying
    BY <2>1 DEF ThreadTypes, Receive, TestBuilding, TestClassifying, Worker, loading,
                looping
  <2>2. CASE AddSample
    BY <2>2 DEF ThreadTypes, CircleTypes, AddSample, Worker, loading, looping, Dies, Causes
  <2>3. CASE SendIndex
    <3>1. mHandler # 0 => mHandler \in Starts
      BY DEF ThreadTypes, Starts
    <3>2. added \in Int
      BY DEF ThreadTypes
    <3>3. queue' \in [Starts -> Seq(Int)] /\ died' \in Causes
      BY <2>3, <3>1, <3>2, SentType DEF SendIndex, ThreadTypes, Causes, Dies
    <3>. QED  BY <2>3, <3>3 DEF ThreadTypes, SendIndex, Worker, loading
  <2>. QED  BY <1>6, <2>1, <2>2, <2>3 DEF WorkerStep
<1>7. ASSUME NEW k \in Starts, StarterStep(k)
      PROVE  ThreadTypes'
  BY <1>7 DEF ThreadTypes, StarterStep, CanRead, StartThread, LoadModels, SizeWindow,
              NewBuffer, ResetIndex, NewScores, NewSums, OpenClassFile, SetClassifying,
              Starter, Steps, Places, Causes, Dies, looping, working
<1>8. ASSUME NEW k \in Starts, ThreadStep(k)
      PROVE  ThreadTypes'
  <2>1. CASE RunThread(k)
    BY <2>1, BoundsAssumption DEF ThreadTypes, RunThread, Thread, Places, Starts, loading,
                working
  <2>2. CASE HandleMessage(k)
    <3>1. queue[k] \in Seq(Int) /\ queue[k] # <<>>
      BY <2>2 DEF ThreadTypes, HandleMessage
    <3>2. Tail(queue[k]) \in Seq(Int) /\ Head(queue[k]) \in Int
      BY <3>1
    <3>3. handled' \in [Starts -> Int]
      BY <2>2, <3>2 DEF ThreadTypes, HandleMessage
    <3>4. queue' \in [Starts -> Seq(Int)]
      <4>1. <<>> \in Seq(Int)
        OBVIOUS
      <4>2. ASSUME NEW q \in Seq(Int), queue' = [queue EXCEPT ![k] = q]
            PROVE  queue' \in [Starts -> Seq(Int)]
        BY <4>2 DEF ThreadTypes
      <4>. QED  BY <2>2, <3>2, <4>1, <4>2, Zenon DEF HandleMessage
    <3>5. thread' \in [Starts -> Places]
      BY <2>2 DEF ThreadTypes, HandleMessage, Thread, Places
    <3>. QED  BY <2>2, <3>3, <3>4, <3>5 DEF ThreadTypes, HandleMessage, loading, working
  <2>3. CASE ReadWindow(k)
    <3> DEFINE read == [j \in 1 .. windowLength |->
                          buffer[handled[k] - windowLength + 1 + j - 1]]
               where == {handled[k] - windowLength + 1 + j - 1 : j \in 1 .. windowLength}
    <3>1. where \subseteq DOMAIN buffer => read \in Seq(Nat)
      BY DEF CircleTypes
    <3>2. window' \in [Starts -> Seq(Nat)]
      BY <2>3, <3>1 DEF ThreadTypes, ReadWindow
    <3>3. handled' \in [Starts -> Int] /\ died' \in Causes
      BY <2>3 DEF ThreadTypes, ReadWindow, Causes, Dies
    <3>4. thread' \in [Starts -> Places]
      BY <2>3 DEF ThreadTypes, ReadWindow, Thread, Places
    <3>. QED  BY <2>3, <3>2, <3>3, <3>4 DEF ThreadTypes, ReadWindow, loading, working
  <2>4. CASE ClassifySample(k) \/ RecordScores(k)
    <3>1. died' \in Causes
      BY <2>4 DEF ThreadTypes, ClassifySample, RecordScores, Causes, Dies
    <3>2. thread' \in [Starts -> Places]
      BY <2>4 DEF ThreadTypes, ClassifySample, RecordScores, Thread, Places
    <3>3. window' \in [Starts -> Seq(Nat)]
      <4>1. <<>> \in Seq(Nat)
        OBVIOUS
      <4>. QED  BY <2>4, <4>1 DEF ThreadTypes, ClassifySample, RecordScores
    <3>. QED  BY <2>4, <3>1, <3>2, <3>3 DEF ThreadTypes, ClassifySample, RecordScores, loading,
                                            working
  <2>. QED  BY <1>8, <2>1, <2>2, <2>3, <2>4 DEF ThreadStep
<1>9. CASE UNCHANGED vars
  BY <1>9 DEF ThreadTypes, vars, loading, looping, working
<1>. QED
  BY <1>1, <1>2, <1>3, <1>4, <1>5, <1>6, <1>7, <1>8, <1>9 DEF Next, Buttons, Lifecycle

LEMMA CircleTypesKept == TypeOK /\ [Next]_vars => CircleTypes'
<1> SUFFICES ASSUME CircleTypes, [Next]_vars PROVE CircleTypes'
  BY DEF TypeOK
<1>1. CASE Buttons \/ Lifecycle
  BY <1>1 DEF CircleTypes, Buttons, StartBuildingModel, StopBuildingModel, GraphClosed,
              StartClassifying, StopClassifying, Lifecycle, ServiceStarts, ServiceStops,
              PreferenceChanged, Stopped, circle, scores
<1>2. CASE WorkerStep
  <2>1. CASE AddSample
    <3>1. buffer' \in [DOMAIN buffer' -> Nat]
      BY <2>1 DEF CircleTypes, AddSample
    <3>2. samples' \in Nat /\ bufferIndex' \in Int
      BY <2>1 DEF CircleTypes, AddSample
    <3>. QED  BY <2>1, <3>1, <3>2 DEF CircleTypes, AddSample, scores
  <2>2. CASE Receive \/ TestBuilding \/ TestClassifying \/ SendIndex
    BY <2>2 DEF CircleTypes, Receive, TestBuilding, TestClassifying, SendIndex, circle,
                scores
  <2>. QED  BY <1>2, <2>1, <2>2 DEF WorkerStep
<1>3. ASSUME NEW k \in Starts, StarterStep(k)
      PROVE  CircleTypes'
  <2>1. native.window \in Nat /\ native.models \in Nat
    BY ModelSetsAssumption DEF CircleTypes, NoModels
  <2>2. CASE CanRead(k) \/ StartThread(k) \/ LoadModels(k) \/ SizeWindow(k)
    BY <2>1, <2>2 DEF CircleTypes, CanRead, StartThread, LoadModels, SizeWindow, circle,
                scores
  <2>3. CASE NewBuffer(k) \/ ResetIndex(k)
    BY <2>3 DEF CircleTypes, NewBuffer, ResetIndex, scores
  <2>4. CASE NewScores(k) \/ NewSums(k) \/ OpenClassFile(k) \/ SetClassifying(k)
    BY <2>1, <2>4 DEF CircleTypes, NewScores, NewSums, OpenClassFile, SetClassifying,
                circle, scores
  <2>. QED  BY <1>3, <2>2, <2>3, <2>4 DEF StarterStep
<1>4. ASSUME NEW k \in Starts, ThreadStep(k)
      PROVE  CircleTypes'
  BY <1>4 DEF CircleTypes, ThreadStep, RunThread, HandleMessage, ReadWindow,
              ClassifySample, RecordScores, circle, scores
<1>5. CASE UNCHANGED vars
  BY <1>5 DEF CircleTypes, vars, circle, scores
<1>. QED  BY <1>1, <1>2, <1>3, <1>4, <1>5 DEF Next

(* Type correctness, whatever the starts overlap.                          *)
THEOREM TypeCorrect == Spec => []TypeOK
<1>1. Init => TypeOK
  <2> SUFFICES ASSUME Init PROVE TypeOK
    OBVIOUS
  <2>1. PluginTypes
    BY DEF Init, PluginTypes
  <2>2. ThreadTypes
    BY BoundsAssumption DEF Init, ThreadTypes, Steps, Places, Causes
  <2>3. CircleTypes
    BY DEF Init, CircleTypes
  <2>. QED  BY <2>1, <2>2, <2>3 DEF TypeOK
<1>2. TypeOK /\ [Next]_vars => TypeOK'
  BY PluginTypesKept, ThreadTypesKept, CircleTypesKept DEF TypeOK
<1>. QED  BY <1>1, <1>2, PTL DEF Spec

-------------------------------------------------------------------------------
(* Control, while every start was calm: as long as models are loaded,      *)
(* nobody classifies.                                                      *)

Active(k) == starter[k] \notin {"new", "done"}

(* No sample is on its way through the classifier.                         *)
Idle ==
  /\ ~classifying /\ worker \notin {"add", "send"}
  /\ \A k \in Starts : queue[k] = <<>> /\ thread[k] \notin {"read", "native", "record"}

OneStarter ==
  /\ \A k \in Starts : k > starts => starter[k] = "new"
  /\ \A k, l \in Starts : Active(k) /\ Active(l) => k = l

LoadsAlone == Loading => Idle

Loopers ==
  /\ \A k \in Starts : thread[k] \in {"new", "started", "ended"} => queue[k] = <<>>
  /\ mHandler # 0 => thread[mHandler] \notin {"new", "started"}
  /\ \A k \in Starts : starter[k] \in {"new", "canRead", "thread"} => thread[k] = "new"

Control == OneStarter /\ LoadsAlone /\ Loopers

LEMMA StartControl ==
  ASSUME TypeOK, Control, StartClassifying, calm'
  PROVE  Control'
<1> USE DEF TypeOK, ThreadTypes
<1>1. ~Loading /\ ~classifying /\ worker = "idle" /\ \A k \in Starts : Rests(k)
  BY DEF StartClassifying, Quiet
<1>2. starts + 1 \in Starts /\ starts + 1 > starts
  BY BoundsAssumption DEF StartClassifying, Starts
<1>3. OneStarter'
  BY <1>1, <1>2 DEF Control, OneStarter, Loading, Active, StartClassifying, Starts
<1>4. Idle
  <2>1. ASSUME NEW k \in Starts
        PROVE  queue[k] = <<>> /\ thread[k] \notin {"read", "native", "record"}
    BY <1>1, <2>1 DEF Rests, Control, Loopers
  <2>. QED  BY <1>1, <2>1 DEF Idle, StartClassifying
<1>5. LoadsAlone'
  BY <1>4 DEF LoadsAlone, Idle, StartClassifying, looping, flags, working
<1>6. Loopers'
  BY <1>2 DEF Control, OneStarter, Loopers, StartClassifying, looping
<1>. QED  BY <1>3, <1>5, <1>6 DEF Control

LEMMA ButtonControl ==
  ASSUME Control,
         StartBuildingModel \/ StopBuildingModel \/ GraphClosed \/ StopClassifying
           \/ ServiceStarts \/ Stopped
  PROVE  Control'
<1>1. UNCHANGED <<loading, looping, working>> /\ (classifying' => classifying)
  BY DEF StartBuildingModel, StopBuildingModel, GraphClosed, StopClassifying,
         ServiceStarts, Stopped, flags
<1>. QED
  BY <1>1 DEF Control, OneStarter, LoadsAlone, Loopers, Loading, Active, Idle, loading,
              looping, working

(* Nothing is classified during a load, so that nobody is told to quit.    *)
LEMMA StopControl ==
  ASSUME TypeOK, Control, NEW from, Stopping(from), UNCHANGED <<loading, working>>
  PROVE  Control'
<1> USE DEF TypeOK, ThreadTypes
<1>1. UNCHANGED <<thread, mHandler, classifying>> /\ (~classifying => queue' = queue)
  BY DEF Stopping
<1>2. OneStarter' /\ LoadsAlone'
  BY <1>1 DEF Control, OneStarter, LoadsAlone, Loading, Active, Idle, loading, working
<1>3. ASSUME NEW k \in Starts, thread[k] \in {"new", "started", "ended"}
      PROVE  queue'[k] = queue[k]
  <2>1. mHandler # 0 => mHandler \in Starts
    BY DEF Starts
  <2>. QED  BY <1>3, <2>1 DEF Stopping, Sent, Control, Loopers
<1>4. Loopers'
  BY <1>1, <1>3 DEF Control, Loopers, loading
<1>. QED  BY <1>2, <1>4 DEF Control

LEMMA StarterControl ==
  ASSUME TypeOK, Control, NEW k \in Starts, StarterStep(k)
  PROVE  Control'
<1> USE DEF TypeOK, ThreadTypes
<1>1. PICK to \in Steps : /\ Active(k) /\ to # "new"
                         /\ starter' = [starter EXCEPT ![k] = to]
  BY DEF StarterStep, CanRead, StartThread, LoadModels, SizeWindow, NewBuffer, ResetIndex,
         NewScores, NewSums, OpenClassFile, SetClassifying, Starter, Active, Steps
<1>2. UNCHANGED <<starts, queue, mHandler, working>>
  BY DEF StarterStep, CanRead, StartThread, LoadModels, SizeWindow, NewBuffer, ResetIndex,
         NewScores, NewSums, OpenClassFile, SetClassifying, looping, flags
<1>3. Idle
  BY <1>1 DEF Control, LoadsAlone, Loading, Active
<1>4. OneStarter'
  BY <1>1, <1>2 DEF Control, OneStarter, Active
<1>5. \A l \in Starts : Active(l) => l = k
  BY <1>1 DEF Control, OneStarter
<1>6. classifying' => starter'[k] = "done"
  BY <1>3 DEF StarterStep, CanRead, StartThread, LoadModels, SizeWindow, NewBuffer,
         ResetIndex, NewScores, NewSums, OpenClassFile, SetClassifying, flags, Idle, Starter
<1>7. Loading' => ~classifying'
  BY <1>1, <1>5, <1>6 DEF Loading, Active
<1>8. CASE StartThread(k)
  <2>1. thread' = [thread EXCEPT ![k] = "started"] /\ thread[k] = "new"
        /\ starter' = [starter EXCEPT ![k] = "load"]
    BY <1>8 DEF StartThread, Starter, Control, Loopers
  <2>2. LoadsAlone'
    BY <1>2, <1>3, <1>7, <2>1 DEF LoadsAlone, Idle, working
  <2>3. Loopers'
    BY <1>2, <1>3, <2>1 DEF Control, Loopers, Idle
  <2>. QED  BY <1>4, <2>2, <2>3 DEF Control
<1>9. CASE ~StartThread(k)
  <2>1. UNCHANGED thread /\ (starter'[k] \in {"new", "canRead", "thread"}
                               => starter[k] \in {"new", "canRead", "thread"})
    BY <1>9 DEF StarterStep, CanRead, LoadModels, SizeWindow, NewBuffer, ResetIndex,
         NewScores, NewSums, OpenClassFile, SetClassifying, looping, Starter
  <2>2. LoadsAlone'
    BY <1>2, <1>3, <1>7, <2>1 DEF LoadsAlone, Idle, working
  <2>3. Loopers'
    BY <1>1, <1>2, <2>1 DEF Control, Loopers
  <2>. QED  BY <1>4, <2>2, <2>3 DEF Control
<1>. QED  BY <1>8, <1>9

LEMMA ThreadControl ==
  ASSUME TypeOK, Control, NEW k \in Starts, ThreadStep(k)
  PROVE  Control'
<1> USE DEF TypeOK, ThreadTypes
<1>1. UNCHANGED <<loading, flags, working>>
  BY DEF ThreadStep, RunThread, HandleMessage, ReadWindow, ClassifySample, RecordScores
<1>2. OneStarter'
  BY <1>1 DEF Control, OneStarter, Active, loading
<1>3. PICK to \in Places : /\ thread[k] # "new" /\ to \notin {"new", "started"}
                          /\ thread' = [thread EXCEPT ![k] = to]
  BY DEF ThreadStep, RunThread, HandleMessage, ReadWindow, ClassifySample, RecordScores,
         Thread, Places
<1>4. LoadsAlone'
  <2> SUFFICES ASSUME Loading PROVE Idle'
    BY <1>1 DEF LoadsAlone, Loading, loading
  <2>1. Idle
    BY DEF Control, LoadsAlone
  <2>2. RunThread(k)
    BY <2>1 DEF Idle, ThreadStep, HandleMessage, ReadWindow, ClassifySample, RecordScores,
                Thread
  <2>. QED  BY <1>1, <2>1, <2>2 DEF Idle, RunThread, Thread, flags, working
<1>5. mHandler' \in {mHandler, k} /\ (mHandler' = 0 => mHandler = 0)
  BY DEF ThreadStep, RunThread, HandleMessage, ReadWindow, ClassifySample, RecordScores,
         Starts
<1>6. (thread'[k] = "ended" => queue'[k] = <<>>)
      /\ \A l \in Starts : l # k => queue'[l] = queue[l]
  BY DEF ThreadStep, RunThread, HandleMessage, ReadWindow, ClassifySample, RecordScores,
         Thread
<1>7. Loopers'
  BY <1>1, <1>3, <1>5, <1>6 DEF Control, Loopers, loading, Starts
<1>. QED  BY <1>2, <1>4, <1>7 DEF Control

LEMMA WorkerControl ==
  ASSUME TypeOK, Control, WorkerStep
  PROVE  Control'
<1> USE DEF TypeOK, ThreadTypes
<1>1. UNCHANGED <<loading, flags, thread, mHandler>>
  BY DEF WorkerStep, Receive, TestBuilding, TestClassifying, AddSample, SendIndex, looping
<1>2. OneStarter'
  BY <1>1 DEF Control, OneStarter, Active, loading
<1>3. LoadsAlone'
  <2> SUFFICES ASSUME Loading PROVE Idle'
    BY <1>1 DEF LoadsAlone, Loading, loading
  <2>1. Idle
    BY DEF Control, LoadsAlone
  <2>2. Receive \/ TestBuilding \/ TestClassifying
    BY <2>1 DEF Idle, WorkerStep, AddSample, SendIndex, Worker
  <2>. QED  BY <1>1, <2>1, <2>2 DEF Idle, Receive, TestBuilding, TestClassifying, Worker,
                                    looping, flags
<1>4. ASSUME NEW k \in Starts, thread[k] \in {"new", "started", "ended"}
      PROVE  queue'[k] = queue[k]
  <2>1. mHandler # 0 => mHandler \in Starts
    BY DEF Starts
  <2>. QED
    BY <1>4, <2>1 DEF WorkerStep, Receive, TestBuilding, TestClassifying, AddSample,
                      SendIndex, Sent, Control, Loopers, looping
<1>5. Loopers'
  BY <1>1, <1>4 DEF Control, Loopers, loading
<1>. QED  BY <1>2, <1>3, <1>5 DEF Control

LEMMA ControlKept ==
  ASSUME TypeOK, Control, [Next]_vars, calm'
  PROVE  Control'
<1>1. CASE ServiceStops
  BY <1>1, StopControl DEF ServiceStops
<1>2. CASE PreferenceChanged
  <2>1. CASE Stopping("preference")
    BY <1>2, <2>1, StopControl DEF PreferenceChanged
  <2>2. CASE ~Stopping("preference")
    <3>1. UNCHANGED <<loading, looping, working, flags>>
      BY <1>2, <2>2 DEF PreferenceChanged
    <3>. QED
      BY <3>1 DEF Control, OneStarter, LoadsAlone, Loopers, Loading, Active, Idle,
                  loading, looping, working, flags
  <2>. QED  BY <2>1, <2>2
<1>3. CASE UNCHANGED vars
  BY <1>3 DEF Control, OneStarter, LoadsAlone, Loopers, Loading, Active, Idle,
              vars, loading, looping, working, flags
<1>. QED
  BY <1>1, <1>2, <1>3, StartControl, ButtonControl, StarterControl, ThreadControl,
     WorkerControl DEF Next, Buttons, Lifecycle

LEMMA ControlStarts == Init => Control
BY DEF Init, Control, OneStarter, LoadsAlone, Loopers, Loading, Active, Starts

-------------------------------------------------------------------------------
(* Data, while every start was calm: what the starter thread has made fits *)
(* the native models, and every index on its way has been written.         *)

R(i) == Reached(windowLength, bufferIndex, samples, i)

Ready ==
  /\ bufferMidPoint = windowLength - 1
  /\ Circle(windowLength, buffer, bufferIndex, samples)
  /\ native.window = windowLength
  /\ classProbs = native.models /\ cumulativeClassProbs = native.models

Messages ==
  /\ \A k \in Starts : \A m \in DOMAIN queue[k] : queue[k][m] = QUIT \/ R(queue[k][m])
  /\ \A k \in Starts : thread[k] = "read" => R(handled[k])
  /\ \A k \in Starts : thread[k] = "native" => Len(window[k]) = windowLength
  /\ worker = "send" => R(added)

(* What the starter has done before each of its steps.                     *)
Phase(k) ==
  /\ starter[k] \in {"buffer", "index", "scores", "sums", "file", "flag"} =>
       windowLength = native.window /\ bufferMidPoint = windowLength - 1
  /\ starter[k] \in {"index", "scores", "sums", "file", "flag"} =>
       windowLength # 0 /\ DOMAIN buffer = 0 .. (2 * windowLength - 2)
  /\ starter[k] \in {"scores", "sums", "file", "flag"} =>
       Circle(windowLength, buffer, bufferIndex, samples)
  /\ starter[k] \in {"sums", "file", "flag"} => classProbs = native.models
  /\ starter[k] \in {"file", "flag"} => cumulativeClassProbs = native.models

Unharmed == died \notin {"bufferIndex", "native", "scores"}

Data ==
  /\ Idle \/ Ready
  /\ Messages
  /\ died = "no" => \A k \in Starts : Phase(k)
  /\ Unharmed

(* Indices are appended only while Ready, so that Idle need not stay.      *)
LEMMA SentMessages ==
  ASSUME TypeOK, NEW k \in Starts, NEW i \in Int, i = QUIT \/ R(i), Messages,
         NEW l \in Starts, NEW m \in DOMAIN Sent(k, i)[l]
  PROVE  Sent(k, i)[l][m] = QUIT \/ R(Sent(k, i)[l][m])
<1> USE DEF TypeOK, ThreadTypes
<1>1. CASE Sent(k, i)[l] = queue[l]
  BY <1>1 DEF Messages
<1>2. CASE Sent(k, i)[l] # queue[l]
  <2>1. Sent(k, i)[l] = Append(queue[l], i) /\ queue[l] \in Seq(Int)
    BY <1>2 DEF Sent
  <2>2. m \in 1 .. Len(queue[l]) + 1
    BY <2>1
  <2>3. CASE m = Len(queue[l]) + 1
    BY <2>1, <2>3
  <2>4. CASE m # Len(queue[l]) + 1
    <3>1. m \in DOMAIN queue[l] /\ Sent(k, i)[l][m] = queue[l][m]
      BY <2>1, <2>2, <2>4
    <3>. QED  BY <3>1 DEF Messages
  <2>. QED  BY <2>3, <2>4
<1>. QED  BY <1>1, <1>2

LEMMA ButtonData ==
  ASSUME TypeOK, Control, Data, died = "no",
         StartBuildingModel \/ StopBuildingModel \/ GraphClosed \/ StartClassifying
           \/ StopClassifying \/ ServiceStarts \/ Stopped
  PROVE  Data'
<1>1. /\ UNCHANGED <<looping, native, circle, classProbs, cumulativeClassProbs, working>>
      /\ classifying' => classifying
      /\ died' # "no" \/ died' = "no"
      /\ died' \in {"no", "nullWriter"}
  BY DEF StartBuildingModel, StopBuildingModel, GraphClosed, StartClassifying,
         StopClassifying, ServiceStarts, Stopped, flags, scores, Dies
<1>2. \A k \in Starts : starter'[k] \in {starter[k], "canRead"}
  BY DEF StartBuildingModel, StopBuildingModel, GraphClosed, StartClassifying,
         StopClassifying, ServiceStarts, Stopped, loading, TypeOK, ThreadTypes
<1>3. (Idle \/ Ready)'
  BY <1>1 DEF Data, Idle, Ready, looping, circle, working
<1>4. Messages'
  BY <1>1 DEF Data, Messages, R, looping, circle, working
<1>5. \A k \in Starts : Phase(k)'
  BY <1>1, <1>2 DEF Data, Phase, circle
<1>6. Unharmed'
  BY <1>1 DEF Unharmed
<1>. QED  BY <1>3, <1>4, <1>5, <1>6 DEF Data

LEMMA StopData ==
  ASSUME TypeOK, Control, Data, died = "no", NEW from, Stopping(from),
         UNCHANGED <<loading, native, circle, scores, working>>
  PROVE  Data'
<1>1. /\ UNCHANGED <<thread, handled, window, classifying>>
      /\ died' \in {"no", "nullHandler"}
  BY DEF Stopping, Dies
<1>2. (Idle \/ Ready)'
  <2>1. CASE Ready
    BY <2>1 DEF Ready, circle, scores
  <2>2. CASE Idle
    BY <2>2, <1>1 DEF Idle, Stopping, working
  <2>. QED  BY <2>1, <2>2 DEF Data
<1>3. ASSUME NEW k \in Starts, NEW m \in DOMAIN queue'[k]
      PROVE  queue'[k][m] = QUIT \/ R(queue'[k][m])
  <2>1. CASE classifying /\ mHandler # 0
    <3>1. mHandler \in Starts /\ QUIT \in Int /\ queue' = Sent(mHandler, QUIT)
      BY <2>1 DEF Stopping, Starts, QUIT, TypeOK, ThreadTypes
    <3>. QED  BY <1>3, <3>1, SentMessages DEF Data
  <2>2. CASE ~(classifying /\ mHandler # 0)
    BY <1>3, <2>2 DEF Stopping, Data, Messages
  <2>. QED  BY <2>1, <2>2
<1>4. Messages'
  BY <1>1, <1>3 DEF Data, Messages, R, circle, working
<1>5. \A k \in Starts : Phase(k)'
  BY DEF Data, Phase, circle, loading, scores
<1>6. Unharmed'
  BY <1>1 DEF Unharmed
<1>. QED  BY <1>2, <1>4, <1>5, <1>6 DEF Data

LEMMA StarterData ==
  ASSUME TypeOK, Control, Data, died = "no", NEW k \in Starts, StarterStep(k)
  PROVE  Data'
<1> USE DEF TypeOK, ThreadTypes, CircleTypes
<1>1. Active(k) /\ Idle
  BY DEF StarterStep, CanRead, StartThread, LoadModels, SizeWindow, NewBuffer, ResetIndex,
         NewScores, NewSums, OpenClassFile, SetClassifying, Starter, Active, Control,
         LoadsAlone, Loading
<1>2. /\ UNCHANGED <<queue, worker>>
      /\ \A l \in Starts : thread'[l] \notin {"read", "native", "record"}
  BY <1>1 DEF StarterStep, CanRead, StartThread, LoadModels, SizeWindow, NewBuffer,
         ResetIndex, NewScores, NewSums, OpenClassFile, SetClassifying, looping, working,
         Idle
<1>3. Messages'
  BY <1>1, <1>2 DEF Messages, Idle
<1>4. died' \in {"no", "negativeSize"}
  BY DEF StarterStep, CanRead, StartThread, LoadModels, SizeWindow, NewBuffer,
         ResetIndex, NewScores, NewSums, OpenClassFile, SetClassifying, Dies
<1>5. Phase(k)
  BY DEF Data
<1>6. (Idle \/ Ready)'
  <2>1. CASE SetClassifying(k)
    BY <2>1, <1>5 DEF SetClassifying, Starter, Phase, Ready, circle, scores
  <2>2. CASE ~SetClassifying(k)
    BY <2>2, <1>1, <1>2 DEF StarterStep, CanRead, StartThread, LoadModels, SizeWindow,
         NewBuffer, ResetIndex, NewScores, NewSums, OpenClassFile, flags, Idle
  <2>. QED  BY <2>1, <2>2
<1>7. ASSUME NEW l \in Starts, died' = "no"
      PROVE  Phase(l)'
  <2>1. CASE l # k
    <3>1. ~Active(l)
      BY <1>1, <2>1 DEF Control, OneStarter
    <3>2. starter'[l] = starter[l]
      BY <2>1 DEF StarterStep, CanRead, StartThread, LoadModels, SizeWindow, NewBuffer,
         ResetIndex, NewScores, NewSums, OpenClassFile, SetClassifying, Starter
    <3>. QED  BY <3>1, <3>2 DEF Active, Phase
  <2>2. CASE l = k
    <3>1. CASE CanRead(k) \/ StartThread(k) \/ LoadModels(k) \/ SetClassifying(k)
      BY <2>2, <3>1 DEF CanRead, StartThread, LoadModels, SetClassifying, Starter, Phase
    <3>2. CASE SizeWindow(k)
      BY <2>2, <3>2 DEF SizeWindow, Starter, Phase
    <3>3. CASE NewBuffer(k)
      BY <1>5, <1>7, <2>2, <3>3 DEF NewBuffer, Starter, Phase, Dies
    <3>4. CASE ResetIndex(k)
      <4>1. windowLength \in Nat \ {0} /\ DOMAIN buffer = 0 .. (2 * windowLength - 2)
        BY <1>5, <3>4 DEF ResetIndex, Starter, Phase
      <4>2. Circle(windowLength, buffer, 0, 0)
        BY <4>1, EmptyCircle
      <4>. QED  BY <1>5, <2>2, <3>4, <4>1, <4>2 DEF ResetIndex, Starter, Phase
    <3>5. CASE NewScores(k) \/ NewSums(k) \/ OpenClassFile(k)
      BY <1>5, <2>2, <3>5 DEF NewScores, NewSums, OpenClassFile, Starter, Phase, circle
    <3>. QED  BY <3>1, <3>2, <3>3, <3>4, <3>5 DEF StarterStep
  <2>. QED  BY <2>1, <2>2
<1>. QED  BY <1>3, <1>4, <1>6, <1>7 DEF Data, Unharmed

LEMMA WindowFits ==
  ASSUME NEW W \in Nat \ {0}, NEW h \in (W - 1) .. (2 * W - 2), NEW j \in 1 .. W
  PROVE  h - W + 1 + j - 1 \in 0 .. (2 * W - 2)
OBVIOUS

LEMMA ThreadData ==
  ASSUME TypeOK, Control, Data, died = "no", NEW k \in Starts, ThreadStep(k)
  PROVE  Data'
<1> USE DEF TypeOK, ThreadTypes, CircleTypes
<1>1. UNCHANGED <<loading, flags, native, circle, scores, working>>
  BY DEF ThreadStep, RunThread, HandleMessage, ReadWindow, ClassifySample, RecordScores
<1>2. \A l \in Starts : Phase(l)'
  BY <1>1 DEF Data, Phase, loading, circle, scores
<1>3. Ready => Ready'
  BY <1>1 DEF Ready, circle, scores
<1>4. \A i : R(i) => R(i)'
  BY <1>1 DEF R, circle
<1>5. worker' = "send" => R(added)'
  BY <1>1, <1>4 DEF Data, Messages, working
<1>6. CASE RunThread(k)
  <2>1. (Idle \/ Ready)'
    BY <1>1, <1>3, <1>6 DEF Data, Idle, RunThread, Thread, flags, working
  <2>2. Messages'
    BY <1>4, <1>5, <1>6, <1>1 DEF Data, Messages, RunThread, Thread, circle
  <2>. QED  BY <1>2, <1>6, <2>1, <2>2 DEF Data, RunThread, Unharmed
<1>7. CASE HandleMessage(k)
  <2>1. Ready
    BY <1>7 DEF Data, Idle, HandleMessage
  <2>2. queue[k] \in Seq(Int) /\ queue[k] # <<>>
    BY <1>7 DEF HandleMessage
  <2>3. Head(queue[k]) = QUIT \/ R(Head(queue[k]))
    BY <2>2 DEF Data, Messages
  <2>4. ASSUME NEW l \in Starts, NEW m \in DOMAIN queue'[l]
        PROVE  queue'[l][m] = QUIT \/ R(queue'[l][m])
    <3>1. CASE l # k
      BY <1>7, <2>4, <3>1 DEF HandleMessage, Data, Messages
    <3>2. CASE l = k /\ queue'[k] = Tail(queue[k])
      <4>1. m + 1 \in DOMAIN queue[k] /\ queue'[l][m] = queue[k][m + 1]
        BY <2>2, <2>4, <3>2
      <4>. QED  BY <4>1 DEF Data, Messages
    <3>3. CASE l = k /\ queue'[k] = <<>>
      BY <2>4, <3>3
    <3>. QED  BY <1>7, <3>1, <3>2, <3>3 DEF HandleMessage
  <2>5. ASSUME NEW l \in Starts, thread'[l] = "read"
        PROVE  R(handled'[l])
    BY <1>7, <2>3, <2>5 DEF HandleMessage, Thread, Data, Messages
  <2>6. \A l \in Starts : thread'[l] = "native" => Len(window'[l]) = windowLength
    BY <1>7 DEF HandleMessage, Thread, Data, Messages
  <2>7. Messages'
    BY <1>1, <1>5, <2>4, <2>5, <2>6 DEF Messages, R, circle
  <2>. QED  BY <1>2, <1>3, <1>7, <2>1, <2>7 DEF Data, HandleMessage, Unharmed
<1>8. CASE ReadWindow(k)
  <2>1. Ready /\ R(handled[k])
    BY <1>8 DEF Data, Idle, Messages, ReadWindow, Thread
  <2> DEFINE where == {handled[k] - windowLength + 1 + j - 1 : j \in 1 .. windowLength}
  <2>2. handled[k] >= bufferMidPoint => where \subseteq DOMAIN buffer
    <3> SUFFICES ASSUME handled[k] >= bufferMidPoint, NEW j \in 1 .. windowLength
                 PROVE  handled[k] - windowLength + 1 + j - 1 \in 0 .. (2 * windowLength - 2)
      BY <2>1 DEF Ready, Circle
    <3>1. windowLength \in Nat \ {0} /\ handled[k] \in (windowLength - 1) .. (2 * windowLength - 2)
      BY <2>1 DEF Ready, Circle, R, Reached
    <3>. QED  BY <3>1, WindowFits
  <2>3. died' = died
    BY <1>8, <2>2 DEF ReadWindow
  <2>4. \A l \in Starts : thread'[l] = "native" => Len(window'[l]) = windowLength
    BY <1>8, <2>2 DEF ReadWindow, Thread, Data, Messages
  <2>5. \A l \in Starts : thread'[l] = "read" => thread[l] = "read" /\ handled'[l] = handled[l]
    BY <1>8 DEF ReadWindow, Thread
  <2>6. Messages'
    BY <1>1, <1>4, <1>5, <1>8, <2>4, <2>5 DEF Data, Messages, ReadWindow, circle
  <2>. QED  BY <1>2, <1>3, <2>1, <2>3, <2>6 DEF Data, Unharmed
<1>9. CASE ClassifySample(k) \/ RecordScores(k)
  <2>1. Ready
    BY <1>9 DEF Data, Idle, ClassifySample, RecordScores, Thread
  <2>2. died' \in {"no", "nullFile"}
    <3>1. CASE ClassifySample(k)
      <4>1. Len(window[k]) = native.window /\ classProbs = native.models
        BY <2>1, <3>1 DEF ClassifySample, Thread, Data, Messages, Ready
      <4>2. native.window \in Nat /\ native.models \in Nat
        BY ModelSetsAssumption DEF NoModels
      <4>. QED  BY <3>1, <4>1, <4>2 DEF ClassifySample
    <3>2. CASE RecordScores(k)
      BY <2>1, <3>2 DEF RecordScores, Ready
    <3>. QED  BY <1>9, <3>1, <3>2
  <2>3. Messages'
    BY <1>1, <1>4, <1>5, <1>9 DEF Data, Messages, ClassifySample, RecordScores, Thread,
                                  circle
  <2>. QED  BY <1>2, <1>3, <2>1, <2>2, <2>3 DEF Data, Unharmed
<1>. QED  BY <1>6, <1>7, <1>8, <1>9 DEF ThreadStep

LEMMA WorkerData ==
  ASSUME TypeOK, Control, Data, died = "no", WorkerStep
  PROVE  Data'
<1> USE DEF TypeOK, ThreadTypes, CircleTypes
<1>1. CASE Receive \/ TestBuilding
  <2>1. /\ UNCHANGED <<flags, loading, looping, native, circle, scores, died>>
        /\ worker' \notin {"add", "send"}
    BY <1>1 DEF Receive, TestBuilding, Worker
  <2>2. (Idle \/ Ready)'
    BY <2>1 DEF Data, Idle, Ready, flags, looping, circle, scores
  <2>3. Messages'
    BY <2>1 DEF Data, Messages, R, looping, circle
  <2>4. \A k \in Starts : Phase(k)'
    BY <2>1 DEF Data, Phase, loading, circle, scores
  <2>. QED  BY <2>1, <2>2, <2>3, <2>4 DEF Data, Unharmed
<1>2. CASE TestClassifying
  <2>1. /\ UNCHANGED <<flags, loading, looping, native, circle, scores, died>>
        /\ worker' # "send" /\ (worker' = "add" => classifying)
    BY <1>2 DEF TestClassifying, Worker
  <2>2. (Idle \/ Ready)'
    BY <2>1 DEF Data, Idle, Ready, flags, looping, circle, scores
  <2>3. Messages'
    BY <2>1 DEF Data, Messages, R, looping, circle
  <2>4. \A k \in Starts : Phase(k)'
    BY <2>1 DEF Data, Phase, loading, circle, scores
  <2>. QED  BY <2>1, <2>2, <2>3, <2>4 DEF Data, Unharmed
<1>3. CASE AddSample
  <2> DEFINE mirror == IF bufferIndex > bufferMidPoint THEN {bufferIndex - windowLength}
                       ELSE {}
  <2>1. Ready /\ ~Loading
    BY <1>3 DEF Data, Idle, Control, LoadsAlone, AddSample, Worker
  <2>2. {bufferIndex} \cup mirror \subseteq DOMAIN buffer
    BY <2>1 DEF Ready, Circle
  <2>3. /\ buffer' = [p \in DOMAIN buffer |->
                       IF p \in {bufferIndex} \cup mirror THEN samples + 1 ELSE buffer[p]]
        /\ samples' = samples + 1 /\ died' = died
        /\ bufferIndex' = IF bufferIndex + 1 >= 2 * windowLength - 1 THEN bufferMidPoint
                           ELSE bufferIndex + 1
        /\ added' = bufferIndex
        /\ UNCHANGED <<flags, loading, looping, native, windowLength, bufferMidPoint, scores>>
    BY <1>3, <2>2 DEF AddSample
  <2>4. DOMAIN buffer' = DOMAIN buffer
        /\ \A p \in DOMAIN buffer : buffer'[p] =
              IF p = bufferIndex
                 \/ (bufferIndex > windowLength - 1 /\ p = bufferIndex - windowLength)
              THEN samples + 1 ELSE buffer[p]
    BY <2>1, <2>3 DEF Ready
  <2>5. bufferIndex' = IF bufferIndex + 1 >= 2 * windowLength - 1 THEN windowLength - 1
                       ELSE bufferIndex + 1
    BY <2>1, <2>3 DEF Ready
  <2> HIDE DEF mirror
  <2>6. /\ Circle(windowLength, buffer', bufferIndex', samples + 1)
        /\ Reached(windowLength, bufferIndex', samples + 1, bufferIndex)
        /\ \A i \in Int : R(i) => Reached(windowLength, bufferIndex', samples + 1, i)
    <3>1. Circle(windowLength, buffer, bufferIndex, samples)
      BY <2>1 DEF Ready
    <3> DEFINE new == buffer'
               next == bufferIndex'
    <3>2. DOMAIN new = DOMAIN buffer
          /\ \A p \in DOMAIN buffer : new[p] =
                IF p = bufferIndex
                   \/ (bufferIndex > windowLength - 1 /\ p = bufferIndex - windowLength)
                THEN samples + 1 ELSE buffer[p]
      BY <2>4
    <3>3. next = IF bufferIndex + 1 >= 2 * windowLength - 1 THEN windowLength - 1
                 ELSE bufferIndex + 1
      BY <2>5
    <3> HIDE DEF new, next
    <3>4. /\ Circle(windowLength, new, next, samples + 1)
          /\ Reached(windowLength, next, samples + 1, bufferIndex)
          /\ \A i \in Int : Reached(windowLength, bufferIndex, samples, i)
                              => Reached(windowLength, next, samples + 1, i)
      BY <3>1, <3>2, <3>3, AddToCircle
    <3>. QED  BY <3>4 DEF new, next, R
  <2>7. Ready'
    BY <2>1, <2>3, <2>6 DEF Ready, scores
  <2>8. \A i \in Int : R(i) => R(i)'
    BY <2>3, <2>6 DEF R
  <2>9. Messages'
    <3>1. ASSUME NEW k \in Starts, NEW m \in DOMAIN queue'[k]
          PROVE  queue'[k][m] = QUIT \/ R(queue[k][m])'
      <4>1. queue'[k] = queue[k] /\ queue[k] \in Seq(Int) /\ queue[k][m] \in Int
        BY <2>3, <3>1 DEF looping
      <4>2. queue[k][m] = QUIT \/ R(queue[k][m])
        BY <3>1, <4>1 DEF Data, Messages
      <4>. QED  BY <2>8, <4>1, <4>2
    <3>2. ASSUME NEW k \in Starts, thread'[k] = "read"
          PROVE  R(handled[k])' /\ handled'[k] = handled[k]
      BY <2>3, <2>8, <3>2 DEF Data, Messages, looping
    <3>3. R(added)'
      BY <2>3, <2>6 DEF R
    <3>. QED  BY <2>3, <3>1, <3>2, <3>3 DEF Data, Messages, looping, QUIT
  <2>10. \A k \in Starts : Phase(k)'
    BY <2>1, <2>3 DEF Phase, Loading, loading
  <2>. QED  BY <2>3, <2>7, <2>9, <2>10 DEF Data, Unharmed
<1>4. CASE SendIndex
  <2>1. /\ UNCHANGED <<flags, loading, thread, handled, window, native, circle, scores>>
        /\ worker = "send" /\ worker' = "idle" /\ died' \in {"no", "nullHandler"}
    BY <1>4 DEF SendIndex, Worker, Dies
  <2>2. Ready /\ R(added)
    BY <2>1 DEF Data, Idle, Messages
  <2>3. Ready'
    BY <2>1, <2>2 DEF Ready, circle, scores
  <2>4. ASSUME NEW k \in Starts, NEW m \in DOMAIN queue'[k]
        PROVE  queue'[k][m] = QUIT \/ R(queue'[k][m])
    <3>1. CASE queue' = queue
      BY <2>4, <3>1 DEF Data, Messages
    <3>2. CASE queue' # queue
      <4>1. mHandler \in Starts /\ queue' = Sent(mHandler, added) /\ added \in Int
        BY <1>4, <3>2 DEF SendIndex, Starts
      <4>. QED  BY <2>2, <2>4, <4>1, SentMessages DEF Data
    <3>. QED  BY <3>1, <3>2
  <2>5. Messages'
    BY <2>1, <2>4 DEF Data, Messages, R, circle
  <2>6. \A k \in Starts : Phase(k)'
    BY <2>1 DEF Data, Phase, loading, circle, scores
  <2>. QED  BY <2>1, <2>3, <2>5, <2>6 DEF Data, Unharmed
<1>. QED  BY <1>1, <1>2, <1>3, <1>4 DEF WorkerStep

LEMMA DataKept ==
  ASSUME TypeOK, Control, Data, [Next]_vars
  PROVE  Data'
<1>1. CASE Next /\ ServiceStops
  BY <1>1, StopData DEF ServiceStops, Next
<1>2. CASE Next /\ PreferenceChanged
  <2>1. CASE Stopping("preference")
    BY <1>2, <2>1, StopData DEF PreferenceChanged, Next
  <2>2. CASE ~Stopping("preference")
    <3>1. UNCHANGED <<loading, looping, working, flags, circle, native, scores, died>>
      BY <1>2, <2>2 DEF PreferenceChanged
    <3>. QED
      BY <3>1 DEF Data, Idle, Ready, Messages, Phase, R, Unharmed, loading, looping,
                  working, flags, circle, scores
  <2>. QED  BY <2>1, <2>2
<1>3. CASE UNCHANGED vars
  BY <1>3 DEF Data, Idle, Ready, Messages, Phase, R, Unharmed, vars, loading, looping,
              working, flags, circle, scores
<1>. QED
  BY <1>1, <1>2, <1>3, ButtonData, StarterData, ThreadData, WorkerData
     DEF Next, Buttons, Lifecycle

LEMMA DataStarts == Init => Data
BY DEF Init, Data, Idle, Messages, Phase, Unharmed

(* No step makes a start calm again.                                       *)
LEMMA CalmBefore == [Next]_vars /\ calm' => calm
<1> SUFFICES ASSUME [Next]_vars, calm' PROVE calm
  OBVIOUS
<1>1. CASE Buttons \/ Lifecycle
  BY <1>1 DEF Buttons, StartBuildingModel, StopBuildingModel, GraphClosed, StartClassifying,
              StopClassifying, Lifecycle, ServiceStarts, ServiceStops, PreferenceChanged,
              Stopped, loading
<1>2. CASE WorkerStep
  BY <1>2 DEF WorkerStep, Receive, TestBuilding, TestClassifying, AddSample, SendIndex,
              loading
<1>3. ASSUME NEW k \in Starts, StarterStep(k) \/ ThreadStep(k)
      PROVE  calm
  BY <1>3 DEF StarterStep, CanRead, StartThread, LoadModels, SizeWindow, NewBuffer, ResetIndex,
              NewScores, NewSums, OpenClassFile, SetClassifying, ThreadStep, RunThread,
              HandleMessage, ReadWindow, ClassifySample, RecordScores, loading
<1>4. CASE UNCHANGED vars
  BY <1>4 DEF vars, loading
<1>. QED  BY <1>1, <1>2, <1>3, <1>4 DEF Next

Inv == TypeOK /\ (calm => Control /\ Data)

(* The inductive invariant: one starter at most, which works while nothing *)
(* is classified, and sizes that agree outside of it.                      *)
THEOREM ClassifierInvariant == Spec => []Inv
<1>1. Init => Control /\ Data
  BY ControlStarts, DataStarts
<1>2. TypeOK /\ (calm => Control /\ Data) /\ [Next]_vars => (calm => Control /\ Data)'
  BY CalmBefore, ControlKept, DataKept
<1>. QED  BY <1>1, <1>2, TypeCorrect, PTL DEF Spec, Inv

(* Whatever models are loaded, and however often: no index leaves the      *)
(* buffer and no array is shorter than the native code assumes, unless a   *)
(* start met threads of an earlier one at work.                            *)
THEOREM IndicesAreSafe == Spec => []SafeIndices
<1>1. Inv => SafeIndices
  BY DEF Inv, Data, Unharmed, SafeIndices
<1>. QED  BY <1>1, ClassifierInvariant, PTL

LEMMA PendingReached ==
  ASSUME Control, Data, NEW i \in Pending
  PROVE  Ready /\ R(i)
<1>1. CASE worker = "send" /\ i = added
  BY <1>1 DEF Data, Idle, Messages
<1>2. CASE \E k \in Starts : thread[k] = "read" /\ i = handled[k]
  BY <1>2 DEF Data, Idle, Messages
<1>3. CASE \E k \in Starts : \E m \in DOMAIN queue[k] : i = queue[k][m] /\ i # QUIT
  <2>1. PICK k \in Starts : \E m \in DOMAIN queue[k] : i = queue[k][m] /\ i # QUIT
    BY <1>3
  <2>2. queue[k] # <<>>
    BY <2>1
  <2>. QED  BY <2>1, <2>2 DEF Data, Idle, Messages
<1>. QED  BY <1>1, <1>2, <1>3 DEF Pending

(* A window that is classified holds the latest samples, each once: the    *)
(* buffer may go on while the message waits.  If it has not, they are in   *)
(* their order.  Again unless a start met threads of an earlier one.       *)
THEOREM WindowsAreLatest == Spec => []WindowIsLatest
<1>1. Inv => WindowIsLatest
  <2> SUFFICES ASSUME Inv, calm, NEW i \in Pending, i >= bufferMidPoint
               PROVE  /\ {buffer[p] : p \in Window(i)} = (samples - windowLength + 1) .. samples
                      /\ buffer[i] = samples =>
                           \A p \in Window(i) : buffer[p] = samples - (i - p)
    BY DEF WindowIsLatest
  <2>1. Ready /\ R(i)
    BY PendingReached DEF Inv
  <2>2. i >= windowLength - 1
    BY <2>1 DEF Ready
  <2>3. {buffer[p] : p \in Window(i)} = (samples - windowLength + 1) .. samples
    BY <2>1, <2>2, CircleWindow DEF Ready, R, Window
  <2>4. ASSUME buffer[i] = samples
        PROVE  \A p \in Window(i) : buffer[p] = samples - (i - p)
    BY <2>1, <2>2, <2>4, CircleOrder DEF Ready, R, Window
  <2>. QED  BY <2>3, <2>4
<1>. QED  BY <1>1, ClassifierInvariant, PTL

===============================================================================
