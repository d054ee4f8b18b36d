# A formal model of HumanSense

HumanSense is an Android application that logs the sensors of a phone.  Input
plugins listen to hardware and write data packets; `HSService` hands every packet
to every output plugin; output plugins write log files, classify activities or
cluster locations; a second service uploads finished log files.  This directory
holds TLA+ models of its core, what TLC checks of them on small instances, and
theorems that TLAPS checks for every value of the constants.

Paths below are relative to `src/src/ca/mcgill/hs/` unless they start with `src/`.

## 1. Inventory

| component | state | operations | runs on | what is hard |
|---|---|---|---|---|
| packet pipeline (`serv/HSService`, `plugin/InputPlugin`, `plugin/OutputPlugin`) | plugin lists, `isRunning`, the pool `tpe`, a `LinkedList` per output plugin | `onStart`, `onDestroy`, `onDataReady`, `run`, `onPreferenceChanged` | main thread, pool threads | `addLast` and `removeFirst` are guarded by two different monitors; a pool that is given up on runs beside the next one |
| `plugin/FileOutput` | open streams by packet type, rollover times, `numThreadsWriting`, `pluginStopping`; the live and recent directories | `onDataReceived`, `closeAll`, `getFileForPacketType`, `onPluginStart/Stop`, `onPreferenceChanged` | its worker, main thread | files are moved while others are opened; a busy wait; storage that fails; process death |
| `serv/LogFileUploaderService` | static `fileList`, `fileMap`, `started`; per instance `waiting`, `automatic`, `wifiOnly`, timer, receivers | `onStart`, `onDestroy`, four receivers, `uploadFiles`, `timerStart` | main thread, any number of upload threads, timer thread | threads share lists without locks; state outlives instances; retries; lost answers |
| GPS control (`plugin/GPSLogger`, `plugin/LocationClusterer`) | static flags, the receiver registration, timeouts posted to a handler | start, stop, fixes, timeouts, `enable`, `disableAfterNextScan` | main thread, the clusterer's consumer thread | unsynchronised flags; stale callbacks |
| location clustering (`classifiers/location/*`) | sliding window with a distance matrix; SQLite tables of locations, neighbours and clusters | `addObservation`, `addNewLocation`, `assignToCluster`, `add`, `mergeLocations` | the clusterer's consumer thread, a timer | clusters that are taken apart and merged statement by statement; values cached in `Location`; process death between statements; index reuse in the window |
| activity classifier (`plugin/TDEClassifierPlugin`, `classifiers/TimeDelayEmbeddingClassifier`, `AccelerometerLingeringFilter`, `src/jni/jni_api.cpp`, `src/jni/ClassifyTrajectory.cpp`) | circular buffer, arrays of scores, `building`, `classifying`, classifier threads and their messages; the native models | buttons, `onDataReceived`, `addSample`, `classify`, loading and reloading models, start and stop | main thread, its worker, starter threads, classifier threads | the buffer goes on changing while a message waits; flags are set late by other threads; Java arrays are sized by native models that a reload changes |
| native classifier (`src/jni/Classifier.cpp`, `TDEModel.cpp`, `src/jni/ANN`) | kd-trees over the points of the models, written to text files and read back; the neighbours of a search | building and dumping a tree, reading it, the search, the choice of neighbours and successors | classifier and starter threads | degenerate splits; rounding by the dump; boxes skipped by the search; the last points of a model have no successors |
| `plugin/WifiLogger`, `plugin/BluetoothLogger` | scan threads, receivers, locks, `threadRunning`, `isEnabling` | start, stop, scan, results | main thread, scan threads | a flag that the thread itself sets; an adapter that is being turned on |
| `plugin/SensorLogger`, `GSMLogger`, `LocationLogger` | registrations, `orientation` | start, stop, callbacks | main thread | packets that share one array |
| service life cycle (`HSAndroid`, `serv/HSServAutoStart`, `serv/LowBatteryMonitor`, `plugin/PluginFactory`) | static plugin lists, singletons | `onCreate`, boot, battery | main thread | lists are cleared and refilled while the service may run |
| `network/LogServerClient` | sockets | `connect`, `disconnect` | starter thread, main thread | partial failure |
| preferences, label view, widgets, utilities | screens | | main thread | nothing concurrent |
| `uploader/*`, `hardware/Sensor`, `src/jni/HSSensor*` | | | | dead code: nothing refers to it |
| `src/jni/cxcore`, `src/ext`, the rest of `src/jni/ANN` | | | | third-party |

Interaction.  Input plugins call `InputPlugin.write`, which calls
`HSService.onDataReady`; that queues the packet in every output plugin and submits
the plugin to the pool, whose thread calls the plugin's `onDataReceived`.
`FileOutput.closeAll` moves finished files to the directory that the uploader
reads and starts the uploader.  `LocationClusterer` calls `GPSLogger` back to turn
the GPS off while the user stands still.  Preference screens call
`HSService.onPreferenceChanged`, or broadcast intents to the uploader.

The properties that make each part correct are those of section 4; the `hazards`
of `PROJECT.json` list, at the line where each bites, what a test would hardly reach.

## 2. Plan

Most important first: data must get from a sensor to the server.

1. `PacketPipeline` (done), with the abstract `OrderedDelivery` that it implements;
   the refinement is checked and proved.
2. `FileOutput` (done): the worker and the files.
3. `LogFileUploader` (done).
4. `GPSControl` (done).
5. `LocationClusters` (done): adding, merging, linking and clustering locations.
6. `ActivityClassifier` (done): the buttons, the threads and the circular buffer.
7. `NearestNeighbours` (done): the trees of the native classifier and what it does with
   the neighbours it finds.

Left out on purpose, with the reasons in section 7: the window of
`MotionStateClusterer`, the scanning loggers, and the life cycle of the screens.

Abstract specifications worth stating next to `OrderedDelivery`: the clusters as a
partition that operations only coarsen (`ClustersNeverSplit` and `ChangesMeet` say
this of one operation), and the set of files on their way to the server, of which
`FileOutput` and `LogFileUploader` implement two halves.

## 3. Modules

Conventions.  A step of a model is one access to state that other threads see
(or one handler, on state that only the main thread sees).  Fields that the code
shares without synchronisation are read and written in program order: the models
assume sequential consistency.  All input plugins produce on the main thread, as
their listeners and receivers run there.  An exception that nothing catches ends
the process.  Definitions with a comment "Mutant" are not part of the models: they
are the faulty variants with which `PROJECT.json` shows that a property can fail.

**PacketPipeline** models `HSService.onDataReady` and `OutputPlugin`.  `main` is the
place of the main thread: `Write` passes the test of `isRunning`; `AddRead`, `AddEnter`,
`AddLink`, `AddReadSize`, `AddWriteSize` are the accesses of `LinkedList.addLast`
(under the plugin's monitor); `Execute` submits the task and goes to the next
plugin.  A task `task[p][k]` is the `run()` submitted with packet k: `RunEnter` takes
the queue's monitor, `RunCheck` is the loop's test, `RunTake` to `RunWriteSize` are
the accesses of `removeFirst`, `RunNoSuchElement` is its exception and `RunClear` the `clear()` of the
catch block, `RunHandle` the end of `onDataReceived`.  `OnStart`, `OnDestroy`, `Awaited` make and shut down the pool; a pool whose
tasks have not ended after two minutes is given up on.
`OrderedDelivery` is the abstract promise to the output plugins: to each of a set of
`Receivers`, packets one at a time, in the order they were offered, none twice.  `PacketDelivery`
instantiates it with the plugins, the histories `arrived` and `handled` of the pipeline and
`Handling`, which says whose `onDataReceived` is running; `DeliversInOrder` is
the instance's specification.

**FileOutput** models the plugin and its files.  A file is its name: type and second
of creation (the code's names have no finer resolution).  The worker's actions
follow `onDataReceived` (`Accept`, `BeginWriting`, the rollover, `GetStream`, `OpenFile`,
`WriteRecord` and `WriteRest`, `EndWriting`), with `closeAll` (`CloseHandles`, `MoveFile`, `MoveFails`,
`CloseEnd`) shared with the main thread's `onPluginStop` (`StopWaited` to
`StopEnd`, `Disable`).  `where[r]` says where record r is; a stop that closes the stream while the
record is being written cuts it short (`WriteRest`).  `Crash` is process death;
`OpenFails` the death by a null stream, which may leave a new or an emptied file behind.
`PreferenceChanged` and `Restamp` are the two halves of `onPreferenceChanged`, which runs only while the
service does: `HSService` registers its `prefReceiver` when it starts and unregisters it when it is
destroyed (140-262).  Without the service a changed preference is only stored.

**LogFileUploader** models the service.  Messages of the main thread are in `inbox`
(start, destroy, complete, connectivity, preferences); each call of `uploadFiles` takes a
thread `t` with its own place `pc[t]`; `fileList`, `fileMap`, `started` are
static, the functions over `Instances` are fields of service instances.  A call on `fileList` or
`fileMap` is one step.  `updateFileList` goes file by file (`ListFiles`, `TestFile`, `PutFile`, `AddToList`,
`FilesListed`) and is synchronized on its instance (`Holds`, `Enters`); the thread's `ClearMap` and
`ClearList` take no lock.  `httppost` belongs to the instance, so that overlapping threads fill in and
send each other's requests (`NewPost`, `SetEntity`, `Execute`); `Answers[f]` is what an exchange
with the server may lead to.  `httpclient` is shared too, but adds no outcome: a client that another
thread replaces or shuts down fails as a lost connection does.  `canUpload` asks for the network up to three times
and may find none in between (`NetworkThrows`), and `timerStart` is `KillTimer` and `NewTimer`.  The
history `crossed` collects the files that were between `fileMap.put` and `fileList.add`
when a thread cleared one of the two.

**GPSControl** models `GPSLogger` and the control that `LocationClusterer` has over it.
A thread's program is the sequence of operations it has yet to do (`todo`), so
that methods called from several places are written once and interleave at
every access of a shared flag.

**LocationClusters** models one call of `SignificantLocationClusterer.addNewLocation` after the
other, each a series of SQL statements: `NewLocation`; then `Merge` and `MergeDelete`
(`mergeLocations`), or `FindNear`, `LinkNeighbour` and `LinkLocation` (the rest of
`WifiLocationSet.add`); then `assignToCluster`: `AssignNew` or `AssignKnown`, `Join` (a neighbour is
added to a new cluster), `CheckFounds` and `CheckPasses` (the loop over the neighbours),
`MergeClusters`, `Relabel` and `Return`.  The three DELETEs of a merge are one step.  `locations`, `numMerged`, `neighbours` and `clusters` are the
tables; `listed` and `counted` are what `Location` objects cache of them, which `Evict` forgets.
`Crash` ends the process in an operation: the tables stay as they are.  The
history variables `before` and `interrupted` are there for the properties only.
Wi-Fi measurements are not modelled: which locations are close enough to merge with, or near, is a free
choice in each call, so that a location may also drift away from its neighbours.

**ActivityClassifier** models `TDEClassifierPlugin` and the Java side of the classifier.
The main thread's actions are the clicks (`StartBuildingModel`, `StopBuildingModel`, `StartClassifying`,
`StopClassifying`, `GraphClosed`) and the life cycle.  Start k has a starter thread, whose
actions from `CanRead(k)` to `SetClassifying(k)` are the statements that load the models and make
`buffer`, its index and the arrays of scores, one by one; and a classifier thread with
a message `queue`, which reads a window (`ReadWindow`), hands it to the native code
(`ClassifySample`) and records scores.  The worker tests the two flags, adds a sample to the circular
buffer (`AddSample`) and may send its index (`SendIndex`).  A sample is its number since the
buffer was made.  `died` records which exception or overrun ended the process.
Nothing waits for the threads of an earlier click.  The history `calm` records whether every
start so far met `Quiet`: no starter loading, no classifying, an idle worker, and classifier threads without messages.
`Stopping` is `onPluginStop` up to its message that
tells the classifier thread to quit, `Stopped` the rest.

**NearestNeighbours** models one model of the native classifier.  `tree` maps the path
of a node (a sequence of "lo" and "hi") to the node; `calls` is the stack of `rkd_tree`, whose
steps are `MakeLeaf` and `Split` (`sl_midpt_split` and the swaps of `annPlaneSplit`, with ties free).
`DumpAndRead` rounds every number as `kd_dump.cpp` prints it.  `Search` starts
`annkSearch`, whose recursion is `stack`: `SkipFar`, `VisitSplit` and `VisitLeaf` (which inserts into
`ANNmin_k`).  `SearchDone`, `ChooseNeighbour` and `Classified` are the loop of
`Classifier::classify` that replaces neighbours without successors, with the three algorithms' numbers
of spare neighbours.  Coordinates are integers, midpoints are rounded down and distances are
exact; the proofs ask of the rounding only that it is monotone and stays in bounds.

The MC modules fix sets for TLC; the `*Proofs` modules hold the theorems, and `SumTheorems` the
lemmas on sums that two of them share.

## 4. Runs

| run | bounds | what it shows |
|---|---|---|
| `PipelineRuns` | 2 output plugins, 2 packets, 2 sessions, fair threads | `TypeOK` (the raced size is never negative), `OneWorker` and `NeverRejected` with workers of an old pool beside those of the new one; the refinement `DeliversInOrder`; `FanOutCompletes`, `TasksEnd` |
| `PipelineKept` (violation) | 1 plugin, 3 packets | the race inside `LinkedList` loses a packet |
| `FileOutputRuns` | 2 types, an hourly and a daily interval (1 and 2 seconds here), 2 seconds, 2 records, 1 crash, storage failing, fair worker and stop | `TypeOK`, `HandlesLive`, `MovesExist`, `OpenFilesInWindow`, `RecentClosed`, `StopEnds` |
| `FileOutputStopOpen` (violation) | 1 type, one second, 2 records | a stop leaves a file open |
| `UploaderManual` | manual uploads; 2 files, which the user may delete or the logger add, 2 threads, 3 starts, 2 changes, every outcome of the server's own script, renames that fail; fair threads | `UploadedAccepted`, `DestroysStarted`, `OneUploader`, `QueuedOnce`, `NoneOverlooked`, `RunEnds` |
| `UploaderAutomatic` | automatic and manual; 1 file, 2 threads that overlap, 2 starts, 2 changes of preferences, network or files, any page | `NeverStranded` |
| `GPSRuns` | all settings, with and without GPS management; fair threads and timers | `TypeOK`, `ConsumerStops`, `GPSAlive`, `OffWhenUnused`, `GPSRetries` |
| `LocationClustering` | 5 locations, cores of 3, 1 crash, eviction at any time | `TypeOK`, `ClustersNeverSplit`, `ChangesMeet`, `ReturnedIsCluster`, `TablesAgree`, `CachedListsCurrent`, `EachCountsOnce` |
| `LocationReturned` (violation) | 5 locations, cores of 3 | a clustered location is reported as being in no cluster |
| `ActivityRuns` | no models, a short and a longer window; 2 starts, 4 packets; clicks, stops and preferences at any time | `TypeOK`, and until a start meets threads of an earlier one at work `SafeIndices`, `WindowIsLatest` |
| `ActivityExclusive` (violation) | 1 start, 1 packet | a model is built while another classifies |
| `NeighboursFound` | all models of 2 to 4 points out of 7, three that come back to where they began, one of 36 points; 2 dimensions, 3 queries, 3 algorithms, rounding to multiples of 4 | `TypeOK`, `NoTrivialLeaf`, `Separated`, `Nearest`, `RowsExist`, `Different` |

Why the bounds are enough.  The races of the pipeline need two packets (one being
added, one being removed) and a second session for two pools; `PipelineKept` uses a third
packet, which shows the damage.  In `FileOutput` two types let one file be open while another is
created, two seconds allow a first record that opens the first window and a second that rolls
it over, and one crash is enough to leave files behind in the live directory.  With manual uploads three starts allow one
during an upload, one between completion and destruction, and a fresh one, and two files let one fail
first and another fail later.  `UploaderAutomatic` is smaller: two threads overlap over one file, and a third thread
or a second file is left to the proof of `NeverStranded`.  `GPSControl`
needs no bound: its state space is finite.  Two starts with different models are enough to reload
(and to fail to), and four packets to fill the longer window, to wrap the buffer around and
to send an index that is read late.  The constraint of `ActivityRuns` stops at the first start that is not calm:
`calm` never becomes true again, so that the two properties claim nothing after it, and that the types hold
there as well is proved.  Four points are enough for every shape of a split, and the
larger models for searches that skip boxes; rounding to multiples of 4 is far coarser than the eight
digits of the code.  The 32 spare neighbours of algorithm 2 are why one model has 36 points.  Five locations with cores of three (`MIN_PTS` is 10) are enough for two clusters that a new location
merges, for a neighbour that founds a second cluster in one operation, and for merged
locations that count twice; the theorems cover all numbers.  The LRU cache of 100
objects is represented by evictions at any time.  `MaxQueue` cuts the (really unbounded) number
of times that overlapping threads put a file back.

Deadlock is checked where the environment can always act (`FileOutputRuns` and
`GPSRuns`).  The other runs stop when their bounded packets, starts, changes or
locations are used up, or when the process has died or the model's queries are answered, and
say `CHECK_DEADLOCK FALSE`.

Fairness.  `FairSpec` of a module asks only that threads which can run do: the
fan-out loop and the pool's threads (`PacketPipeline`), the worker and a stop in
progress (`FileOutput`), handlers, timers and upload threads
(`LogFileUploader`), the main looper and the consumer (`GPSControl`, where timers need strong
fairness as the looper may be idle only now and then).  Nothing is
assumed of users, sensors, networks or starts and stops.

## 5. Proofs

All theorems hold for every value of the constants that satisfies the modules'
assumptions.  The inductive invariants were model-checked on the runs' instances
before they were proved.

* `PacketPipelineProofs`: `PipelineInvariant`, and from it `TypeCorrect`,
  `MutualExclusion` (`OneWorker`), `NoRejection` (`NeverRejected`) and
  `NoNegativeSize` (`SizePositive`, a part of `TypeOK`).  `OneWorker` is inductive with the fact that the
  queue's monitor is held by exactly the task inside `run`.  `SizePositive` is
  not: the main thread may be inside `size++` with an old value.  The invariant bounds `size` from
  below in terms of the places of both threads: a worker between the test and its write has seen a
  positive size, and the overlapping `size++` can only write back a value that
  is at least that large.  Type correctness of `size` (a natural number) needs this bound.
  `PipelineImplementsDelivery` (`DeliversInOrder`): every step of the
  pipeline is a step of `OrderedDelivery` or leaves it alone, although the race may lose packets.
  `OrderInvariant` is why: packets are numbered as they are queued, and whatever links the race
  leaves behind, each leads from a packet to one with a larger number, or to the end.  So what
  a worker takes next is always newer than what it handled last.
* `FileOutputProofs`: `OpenFilesAreLive` (`HandlesLive`) and `RecentFilesClosed`
  (`RecentClosed`: what has reached the recent directory is open no more).  The action property follows from the invariant that an
  open handle's file is live and that no handle is open while the monitor is held, so that
  a record is only written to a live file.  `MovedFilesExist` (`MovesExist`) adds that nothing
  but the holder of the monitor takes files out of the live directory.  `FilesStayInWindow`
  (`OpenFilesInWindow`) assumes that Never is no interval the user may choose: then the first
  rollover comes before the first file, and each later one closes all files.
  `TypeCorrect` counts the writers: `numThreadsWriting` is one while the worker is between its two writes of it,
  and zero otherwise.
* `LogFileUploaderProofs`: for manual uploads (`Manual`) `DestroysOnlyStarted`, `NeverTwoUploaders`,
  `FilesQueuedOnce` and `NoFileOverlooked` prove `DestroysStarted`, `OneUploader`, `QueuedOnce` and `NoneOverlooked`.
  Their invariant `ManualInv` says that a started service has either one upload thread or one message ("complete", then
  "destroy") that leads to its end, that every start in the inbox of a service that is going down is followed by that
  message, and that a file being sent is in `fileMap` but not in `fileList`, so that
  `updateFileList` does not add it again.  The last two are about every file but those in `crossed`: for these the
  order of `put`, `add` and the two `clear`s decides (section 6).
  `UploadsAreAccepted` (`UploadedAccepted`) assumes `Manual` and that no page but the server's own is
  ever received (`OwnAnswers`): then one thread at a time is in `uploadFile`, so that the shared `httppost` holds its own
  file.  `Numbered` shows that instances never outnumber starts.
  `StartedIsWoken` (`NeverStranded`) and `TypeCorrect` hold for automatic uploads too, where upload threads overlap.
  `AwakeInv` says that a started service always has a thread with work left,
  a timer, a registered receiver or an ending message, and that `stopService` puts an
  `onDestroy` after every start asked for before.  It needs no fact about files, as each way a thread
  can end leaves one of the four behind.  `TypeCorrect` needs in turn that a running thread
  belongs to an instance that exists, and that one that sends has a file.
* `GPSControlProofs`: `StoppedConsumerIsIdle` (`ConsumerStops`), `GPSTypesHold` (`TypeOK`),
  `ReceiverStaysAlive` (`GPSAlive`) and `ReceiverOffUnused` (`OffWhenUnused`).  The last two speak of states
  between handlers; their invariant `GPSInv` has to speak of those within.  Until the
  consumer first controls the GPS only the main thread is at work, and `MainInv` lists what it may have left
  to do: a rest of `startListening` (`Starting`) or of `stopListening` (`Stopping`) and what comes
  after it.  For each it says how the receiver, its flag, the timers and the service go together.
* `LocationClustersProofs`: `ClustersStayWhole` (`ClustersNeverSplit`) and
  `ChangesEndTogether` (`ChangesMeet`).  Neither is inductive, as clusters are taken apart within
  an operation.  The invariant `ClusterInv` says that meanwhile two locations that
  shared a cluster still do, or both are in clusters of `clustersToMerge`, and that every
  location that was moved is in one of these; while clusters are relabelled the same holds of
  those left and the one that is kept.  A second invariant, `RowInv`, gives
  `TablesAlwaysAgree` (`TablesAgree`) and `CachedListsAreCurrent` (`CachedListsCurrent`): a
  location that is being added has no row and no cluster, and is the only one linked one way until `LinkLocation`.
  A third, `ReturnInv`, gives `ReturnedClusterIsCurrent` (`ReturnedIsCluster`): links go both ways, so
  that a cluster founded around a neighbour takes the location in or finds its cluster, and
  that cluster is merged with the one to be returned.  `LocationTypesHold` proves `TypeOK`, and `LocationsCountOnce`
  `EachCountsOnce`: from the merge's addition to the deletion of the row the sum of the counts is one
  operation ahead of the locations, and a crash there leaves it so.
* `ActivityClassifierProofs`: `TypeCorrect`, and from `ClassifierInvariant` `IndicesAreSafe` (`SafeIndices`) and
  `WindowsAreLatest` (`WindowIsLatest`).  Clicks, stops and changes of the preference come at any time; the
  invariant is about the states in which `calm` still holds.  Its part `Control` says that only one
  starter loads at a time, and while nothing is classified; its part `Data` relates the native models, the buffer and the
  scores step by step of a load, and says of every position of the buffer which sample it holds,
  before and after the wrap-around.
* `NearestNeighboursProofs`: `ModelInvariant`, `NeighbourInvariant`, and from them `TypeCorrect`,
  `EveryNodeHasPoints` (`NoTrivialLeaf`), `PlanesSeparate` (`Separated`), `NoRowMissing` (`RowsExist`),
  `MeansOfDifferent` (`Different`) and `NearestAreFound` (`Nearest`), for any points, dimension and rounding.  `ModelInv` says
  that every point belongs to one leaf or to one call that is still to be made, and that the
  planes above it are on its right sides; a midpoint that has slid to the points always leaves one on
  either side.  `NoRowMissing` counts: at most `MatchSteps` points have no successors,
  and the spare neighbours of the algorithms 2 and 3 cover those they may meet.
  `NearestAreFound` compares distances.  Its invariant `NearInv` gives every path a box (`BoxesFit`), of
  which the tree stores only two sides at each node, and says that a call on the stack knows the
  distance of its box (`StackFits`).  `FarDistance` derives that of the far child from it by
  exchanging one summand, and no point is closer than its box.  So each point that is neither in a
  call on the stack nor among `infos` is at least as far as the last of a full `ANNmin_k`.
* `SumTheorems`: lemmas about `SumFunctionOnSet`, with which the counts of locations and
  the distances of points are summed: what one summand adds, and that the sum is monotone.  The library's
  theorem of induction over finite sets has an operator parameter, which no backend
  instantiates; the proofs take a minimal counterexample among the subsets instead (`MinimalSubset`, from `WFMin`).

Every invariant and action property that the passing runs check is stated by a theorem.
Only model-checked:

* liveness under fairness (`TasksEnd`, `FanOutCompletes`, `StopEnds`, `RunEnds`, `GPSRetries`),
  which is out of the prover's reach;
* the four expected violations.

Some properties are claimed under a condition, and fail without it (section 6): `DestroysStarted`, `OneUploader`,
`QueuedOnce`, `NoneOverlooked` and `UploadedAccepted` for manual uploads (the last for the
server's own pages), `SafeIndices` and `WindowIsLatest` while `calm`, `OpenFilesInWindow` without
the interval Never, and `GPSAlive` and `OffWhenUnused` until the consumer first controls the GPS.

`LogFileUploader.TypeOK` is proved and is in no run: it follows from `TypesInv`.

## 6. Divergences between code and comments

Four are runs (expected violations):

* `PipelineKept`: `OutputPlugin.onDataReady` is synchronized on the plugin, `run` on
  the list, so that `addLast` and `removeFirst` overlap and a packet may drop out
  of the "Queue for incoming DataPackets kept in case more than one arrives before
  the previous one can be handled" (`plugin/OutputPlugin.java:55-56`).
* `FileOutputStopOpen`: a worker between the test of `pluginStopping` (453) and
  `numThreadsWriting++` (457) is not waited for; it opens a file after the stop's
  `closeAll` ("Close all open files.", `plugin/FileOutput.java:528`).
* `LocationReturned`: `assignToCluster` returns -1 for a location that a neighbour's new
  cluster has just taken in (`classifiers/location/SignificantLocationClusterer.java:187`,
  against "The id of the cluster, or -1 if the location is not a part of a cluster.", 109-110).
  `MotionStateClusterer` then starts no timer and stores another location at the next scan.
* `ActivityExclusive`: the starter thread sets `classifying` long after the click
  (`plugin/TDEClassifierPlugin.java:343`), and `startBuildingModel` tests only that flag (262): a
  model can be started meanwhile, against "Cannot classify while a model is being built" (307).

Others were met while modelling.  Most of these behaviours are in the models, and the passing
properties say what holds in spite of them; where a model or a run leaves one out, this is said.

* FileOutput: names have a resolution of one second, and `renameTo` replaces a moved
  file of the same name (369, against 337-338).  With the interval Never a file is open before
  `hasRunOnce` is set, so that the first rollover after a change of the interval closes nothing
  (471, against 467-468): the runs leave Never out of `Intervals`, and `FilesStayInWindow` assumes it.
  A stop waits for the writers it counts, but not for one between 453 and 457: the last record of a file that was closed
  and moved may be cut short.
* Uploader: a start between the completion broadcast and `onDestroy` returns early
  (279, against 57-58).  An IOException skips a readable file (539, against 565-567).
  `updateFileList` puts a file into `fileMap` and then into `fileList` (462-463) while a thread clears both
  without a lock (613-614): a file may end up in the map only, and is not uploaded before the next time the map is cleared, or in the
  list only, and is queued twice by the next start.  `QueuedOnce` and `NoneOverlooked` except these (`crossed`).
  `ff` keeps the first file that failed.  Once it has left the queue (deleted, skipped, or
  taken by a server that changes its mind) and others go on failing, nothing stops the run from retrying them for ever (579,
  against 574-578); `RunEnds` excepts this (`MarkerGone`).
  `waiting` is never reset by a resumed upload (600, 635, against 632-634).  Automatic uploads overlap: they share
  `httppost` (478-499), so that a thread may send the file of another and move its own; no
  property claims otherwise.  `canUpload` asks for the active network two or three times (194-205) and
  dereferences null when it goes down in between.  A preference may cancel a timer that
  another thread is about to use (404-405); `schedule` then throws (`TimerThrows`).  The sticky connectivity broadcast restarts the upload at once
  on a mobile network with Wi-Fi only (603, against 601-602).  Any page without FAILURE is success (508,
  against 512): `UploadedAccepted` is claimed for the server's own pages.
* GPS: `enable` races with a disable in progress (312, against 313); `GPSAlive` is
  claimed until the consumer first controls the GPS.  A changed preference restarts the
  receiver while it is remotely disabled (377, against 144-146).  `enable` ignores that logging is
  off (310), so that once the consumer controls the GPS a logger that is stopped or disabled may turn the receiver on, against
  "GPS Logging is off." (`src/res/values/strings.xml:152`); `OffWhenUnused` is claimed until then.
* Locations: `setNumMerged` leaves the count that neighbours have cached as it was
  (`classifiers/location/Location.java:341`, against 333-337), so that one of them may not be
  recognised as a core.  A process that ends between the statements of an operation leaves a cluster in two parts, or
  a link one way, for good.  `addToCluster` is a REPLACE that resets the label
  (`classifiers/location/LocationSet.java:52`).  `onPluginStop` of `LocationClusterer`
  closes `gpsClusterer` and then forgets `wifiClusterer` once more (`plugin/LocationClusterer.java:286`).
* Activity classifier: nothing waits for the threads of an earlier start.  After a start that meets them at work
  (`~calm`) TLC finds, within some thirty steps, an index outside of the buffer, arrays shorter than the native
  code takes for granted and windows that mix samples: the late `classifying` of a starter may undo a
  stop, and a second load changes window, buffer and index under the feet of the worker and of
  a classifier thread that was told nothing.  `mHandler` may still be null when the first sample comes, a log file
  that cannot be made is used all the same, and with a window of 0 the buffer has a negative size: the
  process ends (`died`).  `onPreferenceChanged` reads another preference than the one it is about
  (`plugin/TDEClassifierPlugin.java:690-691`).  `AccelerometerLingeringFilter.setWindowSize` (66-74) keeps the sum of the
  old window, against its comment (60-61).
* Native classifier: `annClose` frees the trivial leaf after every build, against "It must *never* deallocated" (`src/jni/ANN/kd_tree.cpp:46-47`); `NoTrivialLeaf` shows that no tree points to it.  `getDataPoint` bounds its index by one too many
  (`src/jni/TDEModel.cpp:176`).  The state of a search is in globals
  (`src/jni/ANN/kd_search.cpp:79`), and a model with fewer points than neighbours are asked for ends the process (102).
* Motion states: the first two observations share index 0 of the distance matrix
  (`classifiers/location/MotionStateClusterer.java:363`), and the delay of the timer
  overflows after 18 doublings (293).

## 7. Not modelled

* Formats, wording and layout (log records, notifications, preference screens,
  graphs, widgets), and memory reordering.
* `src/jni/cxcore` is nearly nine tenths of the C++ lines of the repository, and third-party, as are `src/ext` and the
  parts of ANN that the application does not call.
* The numerical code of the native classifier (reading series, delay embedding, the
  projection by PCA, the scores) is floating-point arithmetic over cxcore.  `NearestNeighbours` starts
  where points exist, and uses integers.
* `MotionStateClusterer`: its window, its votes and its timer.  What was found to go wrong there is a fact of
  one call, and the hazards name both lines.
* `WifiLogger` and `BluetoothLogger` follow broadcasts whose order only the platform knows; `SensorLogger`,
  `GSMLogger` and `LocationLogger` are registrations of one thread, of which `GPSControl` models the hardest.
* The screens, `HSAndroid`, boot and battery receivers, `PluginFactory`: one thread.  Their
  effect on the service (start, stop, preferences) is in the models of what they start.
* Remote logging and its sockets (`network/LogServerClient`), label collection, widgets, utilities.
* Dead code (`uploader/*`, `hardware/Sensor`, `src/jni/HSSensor*`).
* `significant locations (GPS)`: opened and closed, but never given an observation.
