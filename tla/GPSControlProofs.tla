--------------------------- MODULE GPSControlProofs ---------------------------
(***************************************************************************)
(* Whatever the user's preferences: a stopped consumer has nothing left to *)
(* do; and until the consumer first controls the GPS, the receiver is on   *)
(* or about to be restarted while it is wanted, and off while it is not.   *)
(***************************************************************************)
EXTENDS GPSControl, TLAPS

StopInv ==
  /\ DOMAIN todo = Thread
  /\ ConsumerStops

(* An operation of the main thread leaves the consumer's program alone.    *)
LEMMA MainOperation ==
  ASSUME StopInv, NEW op, NEW first, Does("main", op, first)
  PROVE  DOMAIN todo' = Thread /\ todo'["consumer"] = todo["consumer"]
BY DEF StopInv, Does, Thread

LEMMA MainBegins ==
  ASSUME StopInv, NEW program, Begins(program)
  PROVE  DOMAIN todo' = Thread /\ todo'["consumer"] = todo["consumer"]
BY DEF StopInv, Begins, Thread

(* The consumer only has operations to do while it is not stopped.         *)
LEMMA ConsumerOperation ==
  ASSUME StopInv, NEW op, NEW first, Does("consumer", op, first)
  PROVE  DOMAIN todo' = Thread /\ consuming
BY DEF StopInv, ConsumerStops, Idle, Does, Thread

(* The operations both threads have in common do not touch consuming.      *)
LEMMA ListeningSteps ==
  ASSUME StopInv, NEW th \in Thread, Listening(th)
  PROVE  StopInv'
<1>1. UNCHANGED consuming /\ \E op, first : Does(th, op, first)
  BY DEF Listening, RemoveAllTimers, TestFlag, Receiver, SetFlag, PostTimeout,
         SetRemote, others
<1>2. CASE th = "main"
  BY <1>1, <1>2, MainOperation DEF StopInv, ConsumerStops, Idle
<1>3. CASE th = "consumer"
  BY <1>1, <1>3, ConsumerOperation DEF StopInv, ConsumerStops
<1>. QED  BY <1>2, <1>3 DEF Thread

(* ClustererStart may let the consumer go on; ClustererStop, which waits   *)
(* for the monitor, is the only operation that stops it.                   *)
LEMMA MainSteps ==
  ASSUME StopInv, Main
  PROVE  StopInv'
<1>1. CASE Listening("main")
  BY <1>1, ListeningSteps DEF Thread
<1>2. CASE LogLocation \/ CheckIfTimedOut \/ SettlePending \/ PostRestart
            \/ RestartGPSUpdates
  <2>1. UNCHANGED consuming /\ \E op, first : Does("main", op, first)
    BY <1>2 DEF LogLocation, CheckIfTimedOut, SettlePending, PostRestart,
                RestartGPSUpdates, others
  <2>. QED  BY <2>1, MainOperation DEF StopInv, ConsumerStops, Idle
<1>3. CASE GPSStart \/ GPSStop \/ GPSPreferenceChanged \/ GPSSetting
            \/ ClustererPreferenceChanged \/ ClustererOff
  <2>1. UNCHANGED consuming /\ \E op, first : Does("main", op, first)
    BY <1>3 DEF GPSStart, GPSStop, GPSPreferenceChanged, GPSSetting,
                ClustererPreferenceChanged, ClustererOff, others
  <2>. QED  BY <2>1, MainOperation DEF StopInv, ConsumerStops, Idle
<1>4. CASE ClustererStart
  <2>1. (consuming => consuming') /\ Does("main", "clustererStart", <<>>)
    BY <1>4 DEF ClustererStart
  <2>. QED  BY <2>1, MainOperation DEF StopInv, ConsumerStops, Idle
<1>5. CASE ClustererStop
  <2>1. Idle("consumer") /\ Does("main", "clustererStop", <<>>)
    BY <1>5 DEF ClustererStop
  <2>. QED  BY <2>1, MainOperation DEF StopInv, ConsumerStops, Idle
<1>. QED  BY <1>1, <1>2, <1>3, <1>4, <1>5 DEF Main

(* A stopped consumer does nothing more: LocationClusterer.onPluginStop    *)
(* and consume hold the same monitor, and consume tests stopped under it.  *)
THEOREM StoppedConsumerIsIdle == Spec => []ConsumerStops
<1>1. Init => StopInv
  BY DEF Init, StopInv, ConsumerStops, Idle, Thread
<1>2. StopInv /\ [Next]_vars => StopInv'
  <2> SUFFICES ASSUME StopInv, [Next]_vars PROVE StopInv'
    OBVIOUS
  <2>1. CASE Main
    BY <2>1, MainSteps
  <2>2. CASE Listening("consumer")
    BY <2>2, ListeningSteps DEF Thread
  <2>3. ASSUME NEW moving \in BOOLEAN, Consume(moving)
        PROVE  StopInv'
    BY <2>3 DEF Consume, StopInv, ConsumerStops
  <2>4. CASE OnStart \/ OnDestroy \/ OnLocationChanged \/ TimeoutFires \/ RestartFires
    <3>1. UNCHANGED consuming /\ \E program : Begins(program)
      BY <2>4 DEF OnStart, OnDestroy, OnLocationChanged, TimeoutFires, RestartFires,
                  others
    <3>. QED  BY <3>1, MainBegins DEF StopInv, ConsumerStops, Idle
  <2>5. ASSUME NEW p \in Preferences, PreferencesChanged(p)
        PROVE  StopInv'
    <3>1. UNCHANGED consuming /\ \E program : Begins(program)
      BY <2>5 DEF PreferencesChanged
    <3>. QED  BY <3>1, MainBegins DEF StopInv, ConsumerStops, Idle
  <2>6. CASE UNCHANGED vars
    BY <2>6 DEF vars, others, StopInv, ConsumerStops, Idle
  <2>. QED  BY <2>1, <2>2, <2>3, <2>4, <2>5, <2>6 DEF Next
<1>3. StopInv => ConsumerStops
  BY DEF StopInv
<1>. QED  BY <1>1, <1>2, <1>3, PTL DEF Spec

-------------------------------------------------------------------------------
(* The types.                                                              *)

LEMMA ProgramTypes ==
  /\ <<>> \in Seq(Operations)
  /\ \A a \in Operations : <<a>> \in Seq(Operations)
  /\ \A a, b \in Operations : <<a, b>> \in Seq(Operations)
  /\ \A a, b, c \in Operations : <<a, b, c>> \in Seq(Operations)
  /\ \A s, r \in Seq(Operations) : s \o r \in Seq(Operations)
  /\ \A test, s : s \in Seq(Operations) => When(test, s) \in Seq(Operations)
  /\ startListening \in Seq(Operations) /\ stopListening \in Seq(Operations)
  /\ enable \in Seq(Operations) /\ disableAfterNextScan \in Seq(Operations)
<1>1. /\ <<>> \in Seq(Operations)
      /\ \A a \in Operations : <<a>> \in Seq(Operations)
      /\ \A a, b \in Operations : <<a, b>> \in Seq(Operations)
      /\ \A a, b, c \in Operations : <<a, b, c>> \in Seq(Operations)
      /\ \A s, r \in Seq(Operations) : s \o r \in Seq(Operations)
  OBVIOUS
<1>2. \A test, s : s \in Seq(Operations) => When(test, s) \in Seq(Operations)
  BY <1>1 DEF When
<1>3. {"removeAllTimers", "ifNotListening", "ifListening", "clearDisabled", "clearPending",
       "setPending"} \subseteq Operations
  BY DEF Operations
<1>4. startListening \in Seq(Operations) /\ stopListening \in Seq(Operations)
  BY <1>1, <1>3 DEF startListening, stopListening
<1>5. enable \in Seq(Operations) /\ disableAfterNextScan \in Seq(Operations)
  BY <1>1, <1>3, <1>4 DEF enable, disableAfterNextScan
<1>. QED  BY <1>1, <1>2, <1>4, <1>5

TodoTypes == todo \in [Thread -> Seq(Operations)]

LEMMA DoesTypes ==
  ASSUME TodoTypes, NEW th \in Thread, NEW op, NEW first \in Seq(Operations),
         Does(th, op, first)
  PROVE  TodoTypes'
<1>1. Tail(todo[th]) \in Seq(Operations)
  BY DEF Does, TodoTypes
<1>2. first \o Tail(todo[th]) \in Seq(Operations)
  BY <1>1, ProgramTypes
<1>. QED  BY <1>2 DEF Does, TodoTypes

LEMMA ListeningTypes ==
  ASSUME TypeOK, NEW th \in Thread, Listening(th)
  PROVE  TypeOK'
<1> USE DEF TypeOK, receiver, remote, settings, others
<1>1. TodoTypes'
  <2>1. {"requestUpdates", "setListening", "postTimeout", "removeUpdates",
         "clearListening"} \subseteq Operations
    BY DEF Operations
  <2>2. /\ \A test : When(test, <<"requestUpdates", "setListening", "postTimeout">>)
                       \in Seq(Operations)
        /\ \A test : When(test, <<"removeUpdates", "clearListening">>) \in Seq(Operations)
    BY <2>1, ProgramTypes
  <2>3. PICK op, first : first \in Seq(Operations) /\ Does(th, op, first)
    BY <2>2, ProgramTypes DEF Listening, RemoveAllTimers, TestFlag, Receiver, SetFlag,
       PostTimeout, SetRemote
  <2>. QED  BY <2>3, DoesTypes DEF TodoTypes
<1>2. CASE RemoveAllTimers(th)
  BY <1>1, <1>2 DEF RemoveAllTimers, TodoTypes
<1>3. CASE TestFlag(th)
  BY <1>1, <1>3 DEF TestFlag, TodoTypes
<1>4. CASE Receiver(th)
  BY <1>1, <1>4 DEF Receiver, TodoTypes
<1>5. CASE SetFlag(th)
  BY <1>1, <1>5 DEF SetFlag, TodoTypes
<1>6. CASE PostTimeout(th)
  BY <1>1, <1>6 DEF PostTimeout, TodoTypes
<1>7. CASE SetRemote(th)
  BY <1>1, <1>7 DEF SetRemote, TodoTypes
<1>. QED  BY <1>2, <1>3, <1>4, <1>5, <1>6, <1>7 DEF Listening

LEMMA MainTypes ==
  ASSUME TypeOK, Main
  PROVE  TypeOK'
<1> USE DEF TypeOK, receiver, remote, settings, others
<1>1. /\ "main" \in Thread
      /\ \A r \in Preferences : /\ r.gps \in BOOLEAN /\ r.timeout \in BOOLEAN
                                /\ r.clusterer \in BOOLEAN /\ r.manage \in BOOLEAN
  BY GPSAssumption DEF Thread
<1>2. ASSUME NEW op, NEW first, Does("main", op, first), first \in Seq(Operations)
      PROVE  TodoTypes'
  BY <1>1, <1>2, DoesTypes DEF TodoTypes
<1>3. {"clearPending", "setDisabled", "logLocation", "settlePending", "postRestart",
       "readTimeout", "gpsStop", "gpsOff", "gpsStart", "clustererStop", "clustererOff",
       "clustererStart"} \subseteq Operations
  BY DEF Operations
<1>4. CASE Listening("main")
  BY <1>1, <1>4, ListeningTypes
<1>5. CASE LogLocation
  <2>1. When(pendingRemoteDisable, <<"clearPending">> \o stopListening \o <<"setDisabled">>)
          \in Seq(Operations)
    BY <1>3, ProgramTypes
  <2>2. TodoTypes'
    BY <1>2, <1>5, <2>1 DEF LogLocation
  <2>. QED  BY <1>5, <2>2 DEF LogLocation, TodoTypes
<1>6. CASE CheckIfTimedOut
  <2>1. ASSUME NEW known
        PROVE  When(listeningForLocationUpdates, When(known, <<"logLocation">>)
                 \o stopListening \o <<"settlePending", "postRestart">>) \in Seq(Operations)
    <3>1. /\ When(known, <<"logLocation">>) \in Seq(Operations)
          /\ <<"settlePending", "postRestart">> \in Seq(Operations)
      BY <1>3, ProgramTypes
    <3>2. When(known, <<"logLocation">>) \o stopListening \in Seq(Operations)
      BY <3>1, ProgramTypes
    <3>. QED  BY <3>1, <3>2, ProgramTypes
  <2>2. TodoTypes'
    BY <1>2, <1>6, <2>1 DEF CheckIfTimedOut
  <2>. QED  BY <1>6, <2>2 DEF CheckIfTimedOut, TodoTypes
<1>7. CASE SettlePending
  <2>1. When(pendingRemoteDisable, <<"setDisabled", "clearPending">>) \in Seq(Operations)
    BY <1>3, ProgramTypes
  <2>2. TodoTypes'
    BY <1>2, <1>7, <2>1 DEF SettlePending
  <2>. QED  BY <1>7, <2>2 DEF SettlePending, TodoTypes
<1>8. CASE PostRestart
  <2>1. TodoTypes'
    BY <1>2, <1>8, ProgramTypes DEF PostRestart
  <2>. QED  BY <1>8, <2>1 DEF PostRestart, TodoTypes
<1>9. CASE RestartGPSUpdates
  <2>1. TodoTypes'
    BY <1>2, <1>9, ProgramTypes DEF RestartGPSUpdates
  <2>. QED  BY <1>9, <2>1 DEF RestartGPSUpdates, TodoTypes
<1>10. CASE GPSStart
  <2>1. TodoTypes'
    BY <1>2, <1>10, ProgramTypes DEF GPSStart
  <2>. QED  BY <1>1, <1>10, <2>1 DEF GPSStart, TodoTypes
<1>11. CASE GPSStop
  <2>1. TodoTypes'
    BY <1>2, <1>11, ProgramTypes DEF GPSStop
  <2>. QED  BY <1>11, <2>1 DEF GPSStop, TodoTypes
<1>12. CASE GPSPreferenceChanged
  <2>1. /\ stopListening \o <<"readTimeout">> \o startListening \in Seq(Operations)
        /\ <<"gpsStop", "gpsOff">> \in Seq(Operations) /\ <<"gpsStart">> \in Seq(Operations)
    BY <1>3, ProgramTypes
  <2>2. TodoTypes'
    BY <1>1, <1>2, <1>12, <2>1, ProgramTypes DEF GPSPreferenceChanged
  <2>. QED  BY <1>12, <2>2 DEF GPSPreferenceChanged, TodoTypes
<1>13. CASE GPSSetting
  <2>1. TodoTypes'
    BY <1>2, <1>13, ProgramTypes DEF GPSSetting
  <2>. QED  BY <1>1, <1>13, <2>1 DEF GPSSetting, TodoTypes
<1>14. CASE ClustererStart
  <2>1. TodoTypes'
    BY <1>2, <1>14, ProgramTypes DEF ClustererStart
  <2>. QED  BY <1>1, <1>14, <2>1 DEF ClustererStart, TodoTypes
<1>15. CASE ClustererStop
  <2>1. TodoTypes'
    BY <1>2, <1>15, ProgramTypes DEF ClustererStop
  <2>. QED  BY <1>15, <2>1 DEF ClustererStop, TodoTypes
<1>16. CASE ClustererPreferenceChanged
  <2>1. /\ <<"clustererStop", "clustererOff">> \in Seq(Operations)
        /\ <<"clustererStart">> \in Seq(Operations)
    BY <1>3, ProgramTypes
  <2>2. TodoTypes'
    BY <1>1, <1>2, <1>16, <2>1, ProgramTypes DEF ClustererPreferenceChanged
  <2>. QED  BY <1>1, <1>16, <2>2 DEF ClustererPreferenceChanged, TodoTypes
<1>17. CASE ClustererOff
  <2>1. TodoTypes'
    BY <1>2, <1>17, ProgramTypes DEF ClustererOff
  <2>. QED  BY <1>17, <2>1 DEF ClustererOff, TodoTypes
<1>. QED
  BY <1>4, <1>5, <1>6, <1>7, <1>8, <1>9, <1>10, <1>11, <1>12, <1>13, <1>14, <1>15, <1>16,
     <1>17 DEF Main

LEMMA BeginningTypes ==
  ASSUME TypeOK,
         \/ OnStart \/ OnDestroy \/ OnLocationChanged \/ TimeoutFires \/ RestartFires
         \/ \E p \in Preferences : PreferencesChanged(p)
         \/ \E moving \in BOOLEAN : Consume(moving)
  PROVE  TypeOK'
<1> USE DEF TypeOK, receiver, remote, settings, others
<1>1. ASSUME NEW program \in Seq(Operations), Begins(program)
      PROVE  TodoTypes'
  BY <1>1 DEF Begins, TodoTypes
<1>2. {"clustererStart", "gpsStart", "gpsStop", "clustererStop", "gpsPreference",
       "clustererPreference", "logLocation", "checkIfTimedOut", "settlePending", "restart"}
        \subseteq Operations
  BY DEF Operations
<1>3. CASE OnStart
  <2>1. TodoTypes'
    BY <1>1, <1>2, <1>3, ProgramTypes DEF OnStart
  <2>. QED  BY <1>3, <2>1 DEF OnStart, TodoTypes
<1>4. CASE OnDestroy
  <2>1. TodoTypes'
    BY <1>1, <1>2, <1>4, ProgramTypes DEF OnDestroy
  <2>. QED  BY <1>4, <2>1 DEF OnDestroy, TodoTypes
<1>5. CASE OnLocationChanged
  <2>1. TodoTypes'
    BY <1>1, <1>2, <1>5, ProgramTypes DEF OnLocationChanged
  <2>. QED  BY <1>5, <2>1 DEF OnLocationChanged, TodoTypes
<1>6. CASE TimeoutFires
  <2>1. TodoTypes'
    BY <1>1, <1>2, <1>6, ProgramTypes DEF TimeoutFires
  <2>. QED  BY <1>6, <2>1 DEF TimeoutFires, TodoTypes
<1>7. CASE RestartFires
  <2>1. TodoTypes'
    BY <1>1, <1>2, <1>7, ProgramTypes DEF RestartFires
  <2>. QED  BY <1>7, <2>1 DEF RestartFires, TodoTypes
<1>8. ASSUME NEW p \in Preferences, PreferencesChanged(p)
      PROVE  TypeOK'
  <2>1. When(serving, <<"gpsPreference", "clustererPreference">>) \in Seq(Operations)
    BY <1>2, ProgramTypes
  <2>2. TodoTypes'
    BY <1>1, <1>8, <2>1 DEF PreferencesChanged
  <2>. QED  BY <1>8, <2>2 DEF PreferencesChanged, TodoTypes
<1>9. ASSUME NEW moving \in BOOLEAN, Consume(moving)
      PROVE  TypeOK'
  <2>1. TodoTypes'
    BY <1>9, ProgramTypes DEF Consume, TodoTypes
  <2>. QED  BY <1>9, <2>1 DEF Consume, TodoTypes
<1>. QED  BY <1>3, <1>4, <1>5, <1>6, <1>7, <1>8, <1>9

LEMMA TypesStay ==
  ASSUME TypeOK, [Next]_vars
  PROVE  TypeOK'
<1>1. CASE UNCHANGED vars
  BY <1>1 DEF vars, receiver, remote, settings, others, TypeOK
<1>2. CASE Next
  BY <1>2, MainTypes, ListeningTypes, BeginningTypes DEF Next, Thread
<1>. QED  BY <1>1, <1>2

LEMMA TypesAtFirst == Init => TypeOK
<1> SUFFICES ASSUME Init PROVE TypeOK
  OBVIOUS
<1>1. <<>> \in Seq(Operations)
  OBVIOUS
<1>2. todo \in [Thread -> Seq(Operations)]
  BY <1>1 DEF Init
<1>3. timeouts \in Nat /\ restarts \in Nat /\ prefs \in Preferences
  BY DEF Init
<1>4. /\ serving \in BOOLEAN /\ registered \in BOOLEAN
      /\ listeningForLocationUpdates \in BOOLEAN
      /\ remotelyDisabled \in BOOLEAN /\ pendingRemoteDisable \in BOOLEAN
      /\ pluginEnabled \in BOOLEAN /\ gpsTimeoutInMillis \in BOOLEAN
      /\ clustererEnabled \in BOOLEAN /\ manageGPS \in BOOLEAN
      /\ consuming \in BOOLEAN /\ previouslyMoving \in BOOLEAN /\ managed \in BOOLEAN
  BY Zenon DEF Init
<1>. QED  BY <1>2, <1>3, <1>4 DEF TypeOK

(* The types: every program of a thread is made of operations, and no      *)
(* callback is taken away that has not been posted.                        *)
THEOREM GPSTypesHold == Spec => []TypeOK
<1>1. Init => TypeOK
  BY TypesAtFirst
<1>2. TypeOK /\ [Next]_vars => TypeOK'
  BY TypesStay
<1>. QED  BY <1>1, <1>2, PTL DEF Spec

-------------------------------------------------------------------------------
(* The GPS receiver while the consumer has not yet controlled it: only the *)
(* main thread is at work, and what it still has to do tells how the       *)
(* receiver, its flag, the timers and the plugin go together.              *)

Then(op, rest) == <<op>> \o rest

(* startListening and stopListening, and then rest.                        *)
ToStart(rest) == Then("removeAllTimers", Then("ifNotListening", rest))
ToStop(rest)  == Then("removeAllTimers", Then("ifListening", rest))

InStep   == registered = listeningForLocationUpdates
Off      == ~registered /\ ~listeningForLocationUpdates
NoTimers == timeouts = 0 /\ restarts = 0

(* What holds when the main thread is idle.                                *)
Settled ==
  /\ InStep
  /\ serving /\ pluginEnabled => listeningForLocationUpdates \/ restarts > 0
  /\ ~(serving /\ pluginEnabled) => Off /\ NoTimers

(* program is what is left of startListening, and then rest.               *)
Starting(program, rest) ==
  \/ program = ToStart(rest) /\ InStep
  \/ program = Then("ifNotListening", rest) /\ InStep
  \/ /\ program = Then("requestUpdates", Then("setListening", Then("postTimeout", rest)))
     /\ Off
  \/ /\ program = Then("setListening", Then("postTimeout", rest))
     /\ registered /\ ~listeningForLocationUpdates
  \/ program = Then("postTimeout", rest) /\ registered /\ listeningForLocationUpdates

(* program is what is left of stopListening, and then rest.                *)
Stopping(program, rest) ==
  \/ program = ToStop(rest) /\ InStep
  \/ program = Then("ifListening", rest) /\ InStep /\ NoTimers
  \/ /\ program = Then("removeUpdates", Then("clearListening", rest))
     /\ registered /\ listeningForLocationUpdates /\ NoTimers
  \/ /\ program = Then("clearListening", rest)
     /\ ~registered /\ listeningForLocationUpdates /\ NoTimers

Last(op) == Then(op, <<>>)
Clusterer == Last("clustererPreference")
Reread == Then("readTimeout", ToStart(Clusterer))
TurnOff == Then("gpsOff", Clusterer)
Pause == Then("settlePending", Last("postRestart"))

(* The programs that leave the GPS alone.                                  *)
Elsewhere ==
  {<<>>, Clusterer, Last("clustererStart"), Last("clustererStop"), Last("clustererOff"),
   Then("clustererStop", Last("clustererOff")), Last("logLocation")}

(* The programs of a service that runs with GPS logging on.                *)
Serving(program) ==
  \/ Starting(program, <<>>) \/ Starting(program, Clusterer)
  \/ Stopping(program, Reread) \/ Stopping(program, TurnOff) \/ Stopping(program, Pause)
  \/ /\ program \in {Reread, Pause, Last("postRestart"), Last("restart"),
                     Then("settlePending", Last("restart")), Then("gpsStop", TurnOff),
                     Then("logLocation", ToStop(Pause))}
     /\ InStep
  \/ program = Last("checkIfTimedOut") /\ Settled

Programs(program) ==
  \/ program \in Elsewhere /\ Settled
  \/ serving /\ pluginEnabled /\ Serving(program)
  \/ program = Then("gpsPreference", Clusterer) /\ serving /\ Settled
  \/ /\ program \in {Then("clustererStart", Last("gpsStart")), Last("gpsStart"),
                     Then("gpsStart", Clusterer), TurnOff}
     /\ serving /\ Off /\ NoTimers
  \/ /\ program = Then("gpsStop", Last("clustererStop"))
     /\ ~serving /\ InStep /\ (pluginEnabled \/ (Off /\ NoTimers))
  \/ ~serving /\ Stopping(program, Last("clustererStop"))

MainInv == Programs(todo["main"])

AloneInv ==
  ~managed =>
    Idle("consumer") /\ ~remotelyDisabled /\ ~pendingRemoteDisable /\ MainInv

GPSInv == TypeOK /\ AloneInv

LEMMA ThenRuns ==
  ASSUME NEW op \in Operations, NEW rest \in Seq(Operations)
  PROVE  /\ Then(op, rest) \in Seq(Operations) /\ Then(op, rest) # <<>>
         /\ Head(Then(op, rest)) = op /\ Tail(Then(op, rest)) = rest
<1>1. <<op>> \in Seq(Operations)
  OBVIOUS
<1>. QED  BY <1>1 DEF Then

LEMMA ThenJoins ==
  ASSUME NEW rest \in Seq(Operations)
  PROVE  /\ <<>> \o rest = rest
         /\ \A a \in Operations : <<a>> \o rest = Then(a, rest)
         /\ \A a, b \in Operations : <<a, b>> \o rest = Then(a, Then(b, rest))
         /\ \A a, b, c \in Operations : <<a, b, c>> \o rest = Then(a, Then(b, Then(c, rest)))
<1>1. /\ \A a \in Operations : <<a>> \in Seq(Operations)
      /\ \A a, b \in Operations : <<a, b>> \in Seq(Operations)
  OBVIOUS
<1>2. /\ \A s, r, q \in Seq(Operations) : (s \o r) \o q = s \o (r \o q)
      /\ \A a, b \in Operations : <<a, b>> = <<a>> \o <<b>>
      /\ \A a, b, c \in Operations : <<a, b, c>> = <<a>> \o <<b, c>>
  <2>1. ASSUME NEW s \in Seq(Operations), NEW r \in Seq(Operations), NEW q \in Seq(Operations)
        PROVE  (s \o r) \o q = s \o (r \o q)
    OBVIOUS
  <2>2. ASSUME NEW a \in Operations, NEW b \in Operations
        PROVE  <<a, b>> = <<a>> \o <<b>>
    <3>1. <<a, b>> = Append(<<a>>, b)
      OBVIOUS
    <3>2. Append(<<a>>, b) = <<a>> \o <<b>>
      BY <1>1
    <3>. QED  BY <3>1, <3>2
  <2>3. ASSUME NEW a \in Operations, NEW b \in Operations, NEW c \in Operations
        PROVE  <<a, b, c>> = <<a>> \o <<b, c>>
    OBVIOUS
  <2>. QED  BY <2>1, <2>2, <2>3
<1>3. \A a \in Operations : <<a>> \o rest = Then(a, rest)
  BY DEF Then
<1>4. \A a, b \in Operations : <<a, b>> \o rest = Then(a, Then(b, rest))
  BY <1>1, <1>2 DEF Then
<1>5. ASSUME NEW a \in Operations, NEW b \in Operations, NEW c \in Operations
      PROVE  <<a, b, c>> \o rest = Then(a, Then(b, Then(c, rest)))
  <2>1. <<a, b, c>> \o rest = <<a>> \o (<<b, c>> \o rest)
    <3>1. PICK s, r : s = <<a>> /\ r = <<b, c>>
      OBVIOUS
    <3>2. s \in Seq(Operations) /\ r \in Seq(Operations) /\ <<a, b, c>> = s \o r
      BY <1>1, <1>2, <3>1
    <3>3. (s \o r) \o rest = s \o (r \o rest)
      BY <1>2, <3>2
    <3>. QED  BY <3>1, <3>2, <3>3
  <2>2. <<b, c>> \o rest = Then(b, Then(c, rest))
    BY <1>4
  <2>. QED  BY <2>1, <2>2 DEF Then
<1>. QED  BY <1>3, <1>4, <1>5

(* The operations, and the programs that the invariant names.              *)
LEMMA ThenTypes ==
  /\ {"removeAllTimers", "ifNotListening", "ifListening", "requestUpdates", "removeUpdates",
      "setListening", "clearListening", "postTimeout"} \subseteq Operations
  /\ {"logLocation", "checkIfTimedOut", "settlePending", "postRestart", "restart", "gpsStart",
      "gpsStop", "gpsPreference", "readTimeout", "gpsOff"} \subseteq Operations
  /\ {"clustererStart", "clustererStop", "clustererPreference", "clustererOff"}
       \subseteq Operations
  /\ <<>> \in Seq(Operations)
  /\ \A a \in Operations : Last(a) \in Seq(Operations)
  /\ \A a \in Operations, s \in Seq(Operations) : Then(a, s) \in Seq(Operations)
  /\ Clusterer \in Seq(Operations) /\ Reread \in Seq(Operations)
  /\ TurnOff \in Seq(Operations) /\ Pause \in Seq(Operations)
  /\ \A s \in Seq(Operations) : ToStart(s) \in Seq(Operations) /\ ToStop(s) \in Seq(Operations)
<1>1. /\ {"removeAllTimers", "ifNotListening", "ifListening", "requestUpdates", "removeUpdates",
          "setListening", "clearListening", "postTimeout"} \subseteq Operations
      /\ {"logLocation", "checkIfTimedOut", "settlePending", "postRestart", "restart",
          "gpsStart", "gpsStop", "gpsPreference", "readTimeout", "gpsOff"} \subseteq Operations
      /\ {"clustererStart", "clustererStop", "clustererPreference", "clustererOff"}
           \subseteq Operations
      /\ <<>> \in Seq(Operations)
  BY DEF Operations
<1>2. /\ \A a \in Operations, s \in Seq(Operations) : Then(a, s) \in Seq(Operations)
      /\ \A a \in Operations : Last(a) \in Seq(Operations)
  BY <1>1, ThenRuns DEF Last
<1>3. Clusterer \in Seq(Operations)
  BY <1>1, <1>2 DEF Clusterer
<1>4. \A s \in Seq(Operations) : ToStart(s) \in Seq(Operations) /\ ToStop(s) \in Seq(Operations)
  BY <1>1, <1>2 DEF ToStart, ToStop
<1>5. /\ Reread \in Seq(Operations) /\ TurnOff \in Seq(Operations) /\ Pause \in Seq(Operations)
  BY <1>1, <1>2, <1>3, <1>4 DEF Reread, TurnOff, Pause
<1>. QED  BY <1>1, <1>2, <1>3, <1>4, <1>5

(* The thread does the first operation of its program.                     *)
LEMMA Follows ==
  ASSUME TypeOK, NEW op \in Operations, NEW rest \in Seq(Operations),
         todo["main"] = Then(op, rest), NEW o, NEW first, Does("main", o, first)
  PROVE  o = op /\ todo'["main"] = first \o rest /\ todo'["consumer"] = todo["consumer"]
<1>1. Head(todo["main"]) = o /\ todo' = [todo EXCEPT !["main"] = first \o Tail(@)]
  BY DEF Does
<1>2. Head(todo["main"]) = op /\ Tail(todo["main"]) = rest
  BY ThenRuns
<1>. QED  BY <1>1, <1>2 DEF TypeOK, Thread

(* The action that an operation of the main thread is.                     *)
ActionOf(op) ==
  /\ op = "removeAllTimers" => RemoveAllTimers("main")
  /\ op \in {"ifNotListening", "ifListening"} => TestFlag("main")
  /\ op \in {"requestUpdates", "removeUpdates"} => Receiver("main")
  /\ op \in {"setListening", "clearListening"} => SetFlag("main")
  /\ op = "postTimeout" => PostTimeout("main")
  /\ op = "logLocation" => LogLocation
  /\ op = "checkIfTimedOut" => CheckIfTimedOut
  /\ op = "settlePending" => SettlePending
  /\ op = "postRestart" => PostRestart
  /\ op = "restart" => RestartGPSUpdates
  /\ op = "gpsStart" => GPSStart
  /\ op = "gpsStop" => GPSStop
  /\ op = "gpsPreference" => GPSPreferenceChanged
  /\ op \in {"readTimeout", "gpsOff"} => GPSSetting
  /\ op = "clustererStart" => ClustererStart
  /\ op = "clustererStop" => ClustererStop
  /\ op = "clustererPreference" => ClustererPreferenceChanged
  /\ op = "clustererOff" => ClustererOff

LEMMA OperationIs ==
  ASSUME TypeOK, NEW op \in Operations, NEW rest \in Seq(Operations),
         todo["main"] = Then(op, rest), Main
  PROVE  ActionOf(op)
<1>1. \A o, first : Does("main", o, first) => o = op
  BY Follows
<1>2. RemoveAllTimers("main") => op = "removeAllTimers"
  BY <1>1 DEF RemoveAllTimers
<1>3. TestFlag("main") => op \in {"ifNotListening", "ifListening"}
  BY <1>1 DEF TestFlag
<1>4. Receiver("main") => op \in {"requestUpdates", "removeUpdates"}
  BY <1>1 DEF Receiver
<1>5. SetFlag("main") => op \in {"setListening", "clearListening"}
  BY <1>1 DEF SetFlag
<1>6. PostTimeout("main") => op = "postTimeout"
  BY <1>1 DEF PostTimeout
<1>7. SetRemote("main") =>
        op \in {"setPending", "clearPending", "setDisabled", "clearDisabled"}
  BY <1>1 DEF SetRemote
<1>8. /\ LogLocation => op = "logLocation"
      /\ CheckIfTimedOut => op = "checkIfTimedOut"
      /\ SettlePending => op = "settlePending"
      /\ PostRestart => op = "postRestart"
      /\ RestartGPSUpdates => op = "restart"
  BY <1>1 DEF LogLocation, CheckIfTimedOut, SettlePending, PostRestart, RestartGPSUpdates
<1>9. /\ GPSStart => op = "gpsStart"
      /\ GPSStop => op = "gpsStop"
      /\ GPSPreferenceChanged => op = "gpsPreference"
      /\ GPSSetting => op \in {"readTimeout", "gpsOff"}
  BY <1>1 DEF GPSStart, GPSStop, GPSPreferenceChanged, GPSSetting
<1>10. /\ ClustererStart => op = "clustererStart"
       /\ ClustererStop => op = "clustererStop"
       /\ ClustererPreferenceChanged => op = "clustererPreference"
       /\ ClustererOff => op = "clustererOff"
  BY <1>1 DEF ClustererStart, ClustererStop, ClustererPreferenceChanged, ClustererOff
<1>. QED
  BY <1>2, <1>3, <1>4, <1>5, <1>6, <1>7, <1>8, <1>9, <1>10 DEF Main, Listening, ActionOf

LEMMA ThenLasts ==
  /\ \A a \in Operations : <<a>> = Last(a)
  /\ \A a, b \in Operations : <<a, b>> = Then(a, Last(b))
<1>1. <<>> \in Seq(Operations) /\ \A s \in Seq(Operations) : s \o <<>> = s
  OBVIOUS
<1>2. /\ \A a \in Operations : <<a>> \in Seq(Operations)
      /\ \A a, b \in Operations : <<a, b>> \in Seq(Operations)
  OBVIOUS
<1>3. /\ \A a \in Operations : <<a>> \o <<>> = Then(a, <<>>)
      /\ \A a, b \in Operations : <<a, b>> \o <<>> = Then(a, Then(b, <<>>))
  BY <1>1, ThenJoins
<1>. QED  BY <1>1, <1>2, <1>3 DEF Last

Alone == ~remotelyDisabled /\ ~pendingRemoteDisable

(* What an operation of the main thread does to the receiver and to the    *)
(* rest of its program, while no remote request is there.                  *)
LeavesReceiver == UNCHANGED <<receiver, pluginEnabled>>

TimerEffect(op, rest) ==
  /\ op = "removeAllTimers" =>
       /\ todo'["main"] = rest /\ NoTimers'
       /\ UNCHANGED <<registered, listeningForLocationUpdates, pluginEnabled>>
  /\ op = "postTimeout" =>
       /\ todo'["main"] = rest
       /\ UNCHANGED <<registered, listeningForLocationUpdates, restarts, pluginEnabled>>
  /\ op = "postRestart" =>
       /\ todo'["main"] = rest /\ restarts' > 0
       /\ UNCHANGED <<registered, listeningForLocationUpdates, timeouts, pluginEnabled>>

ListenEffect(op, rest) ==
  /\ op = "ifNotListening" =>
       /\ todo'["main"] =
            IF listeningForLocationUpdates THEN rest
            ELSE Then("requestUpdates", Then("setListening", Then("postTimeout", rest)))
       /\ LeavesReceiver
  /\ op = "ifListening" =>
       /\ todo'["main"] =
            IF listeningForLocationUpdates
            THEN Then("removeUpdates", Then("clearListening", rest)) ELSE rest
       /\ LeavesReceiver
  /\ op \in {"requestUpdates", "removeUpdates"} =>
       /\ todo'["main"] = rest
       /\ registered' <=> op = "requestUpdates"
       /\ UNCHANGED <<listeningForLocationUpdates, timeouts, restarts, pluginEnabled>>
  /\ op \in {"setListening", "clearListening"} =>
       /\ todo'["main"] = rest
       /\ listeningForLocationUpdates' <=> op = "setListening"
       /\ UNCHANGED <<registered, timeouts, restarts, pluginEnabled>>

LoggerEffect(op, rest) ==
  /\ op \in {"logLocation", "settlePending", "readTimeout"} =>
       todo'["main"] = rest /\ LeavesReceiver
  /\ op = "checkIfTimedOut" =>
       /\ LeavesReceiver
       /\ todo'["main"] \in
            IF listeningForLocationUpdates
            THEN {ToStop(Then("settlePending", Then("postRestart", rest))),
                  Then("logLocation", ToStop(Then("settlePending", Then("postRestart", rest))))}
            ELSE {rest}
  /\ op = "restart" =>
       /\ todo'["main"] = IF pluginEnabled THEN ToStart(rest) ELSE rest
       /\ LeavesReceiver
  /\ op = "gpsStart" =>
       /\ todo'["main"] = IF pluginEnabled' THEN ToStart(rest) ELSE rest
       /\ UNCHANGED receiver
  /\ op = "gpsStop" =>
       /\ todo'["main"] = IF pluginEnabled THEN ToStop(rest) ELSE rest
       /\ LeavesReceiver
  /\ op = "gpsPreference" =>
       /\ todo'["main"] \in
            IF pluginEnabled
            THEN {ToStop(Then("readTimeout", ToStart(rest))),
                  Then("gpsStop", Then("gpsOff", rest))}
            ELSE {Then("gpsStart", rest), rest}
       /\ LeavesReceiver
  /\ op = "gpsOff" => todo'["main"] = rest /\ ~pluginEnabled' /\ UNCHANGED receiver

ClustererEffect(op, rest) ==
  /\ op \in {"clustererStart", "clustererStop", "clustererOff"} =>
       todo'["main"] = rest /\ LeavesReceiver
  /\ op = "clustererPreference" =>
       /\ todo'["main"] \in
            {Then("clustererStop", Then("clustererOff", rest)), Then("clustererStart", rest),
             rest}
       /\ LeavesReceiver

Frame == UNCHANGED <<serving, managed, remote>> /\ todo'["consumer"] = todo["consumer"]

Effect(op, rest) ==
  /\ TimerEffect(op, rest) /\ ListenEffect(op, rest) /\ LoggerEffect(op, rest)
  /\ ClustererEffect(op, rest) /\ Frame

LEMMA MethodJoins ==
  ASSUME NEW rest \in Seq(Operations)
  PROVE  /\ startListening \o rest = ToStart(rest) /\ stopListening \o rest = ToStop(rest)
         /\ (stopListening \o <<"readTimeout">> \o startListening) \o rest
              = ToStop(Then("readTimeout", ToStart(rest)))
         /\ \A known :
              (When(known, <<"logLocation">>) \o stopListening
                \o <<"settlePending", "postRestart">>) \o rest
                \in {ToStop(Then("settlePending", Then("postRestart", rest))),
                     Then("logLocation",
                          ToStop(Then("settlePending", Then("postRestart", rest))))}
<1>1. ASSUME NEW r \in Seq(Operations)
      PROVE  startListening \o r = ToStart(r) /\ stopListening \o r = ToStop(r)
  <2>1. \A a, b \in Operations : <<a, b>> \o r = Then(a, Then(b, r))
    BY ThenJoins
  <2>2. /\ "removeAllTimers" \in Operations /\ "ifNotListening" \in Operations
        /\ "ifListening" \in Operations
    BY DEF Operations
  <2>. QED  BY <2>1, <2>2 DEF startListening, stopListening, ToStart, ToStop
<1>2. \A s, r, q \in Seq(Operations) : (s \o r) \o q = s \o (r \o q)
  <2>1. ASSUME NEW s \in Seq(Operations), NEW r \in Seq(Operations), NEW q \in Seq(Operations)
        PROVE  (s \o r) \o q = s \o (r \o q)
    OBVIOUS
  <2>. QED  BY <2>1
<1>3. (stopListening \o <<"readTimeout">> \o startListening) \o rest
        = ToStop(Then("readTimeout", ToStart(rest)))
  <2>1. PICK a, b, c : a = stopListening /\ b = <<"readTimeout">> /\ c = startListening
    OBVIOUS
  <2>2. a \in Seq(Operations) /\ b \in Seq(Operations) /\ c \in Seq(Operations)
    BY <2>1, ProgramTypes, ThenTypes
  <2>3. a \o b \in Seq(Operations) /\ c \o rest \in Seq(Operations)
    BY <2>2, ProgramTypes
  <2>4. ((a \o b) \o c) \o rest = (a \o b) \o (c \o rest)
    BY <1>2, <2>2, <2>3
  <2>5. (a \o b) \o (c \o rest) = a \o (b \o (c \o rest))
    BY <1>2, <2>2, <2>3
  <2>6. c \o rest = ToStart(rest) /\ ToStart(rest) \in Seq(Operations)
    BY <1>1, <2>1, ThenTypes
  <2>7. b \o ToStart(rest) = Then("readTimeout", ToStart(rest))
    BY <2>1, <2>6, ThenJoins, ThenTypes
  <2>8. a \o Then("readTimeout", ToStart(rest)) = ToStop(Then("readTimeout", ToStart(rest)))
    BY <1>1, <2>1, <2>6, ThenTypes
  <2>. QED  BY <2>1, <2>4, <2>5, <2>6, <2>7, <2>8
<1>4. ASSUME NEW known
      PROVE  (When(known, <<"logLocation">>) \o stopListening
               \o <<"settlePending", "postRestart">>) \o rest
               \in {ToStop(Then("settlePending", Then("postRestart", rest))),
                    Then("logLocation",
                         ToStop(Then("settlePending", Then("postRestart", rest))))}
  <2>1. PICK a, b, c : /\ a = When(known, <<"logLocation">>) /\ b = stopListening
                       /\ c = <<"settlePending", "postRestart">>
    OBVIOUS
  <2>2. a \in Seq(Operations) /\ b \in Seq(Operations) /\ c \in Seq(Operations)
    BY <2>1, ProgramTypes, ThenTypes
  <2>3. a \o b \in Seq(Operations) /\ c \o rest \in Seq(Operations)
    BY <2>2, ProgramTypes
  <2>4. ((a \o b) \o c) \o rest = (a \o b) \o (c \o rest)
    BY <1>2, <2>2, <2>3
  <2>5. (a \o b) \o (c \o rest) = a \o (b \o (c \o rest))
    BY <1>2, <2>2, <2>3
  <2>6. PICK r : r = Then("settlePending", Then("postRestart", rest))
    OBVIOUS
  <2>7. c \o rest = r /\ r \in Seq(Operations)
    <3>1. \A x, y \in Operations : <<x, y>> \o rest = Then(x, Then(y, rest))
      BY ThenJoins
    <3>2. "settlePending" \in Operations /\ "postRestart" \in Operations
      BY DEF Operations
    <3>. QED  BY <2>1, <2>6, <3>1, <3>2, ThenTypes
  <2>8. b \o r = ToStop(r) /\ ToStop(r) \in Seq(Operations)
    BY <1>1, <2>1, <2>7, ThenTypes
  <2>9. \/ a \o ToStop(r) = Then("logLocation", ToStop(r))
        \/ a \o ToStop(r) = ToStop(r)
    <3>1. a = <<"logLocation">> \/ a = <<>>
      BY <2>1 DEF When
    <3>. QED  BY <2>8, <3>1, ThenJoins, ThenTypes
  <2>. QED  BY <2>1, <2>4, <2>5, <2>6, <2>7, <2>8, <2>9
<1>. QED  BY <1>1, <1>3, <1>4

LEMMA EffectOf ==
  ASSUME TypeOK, Alone, NEW op \in Operations, NEW rest \in Seq(Operations),
         todo["main"] = Then(op, rest), Main,
         op \notin {"setPending", "clearPending", "setDisabled", "clearDisabled"}
  PROVE  Effect(op, rest)
<1>1. ActionOf(op)
  BY OperationIs
<1>2. \A o, first : Does("main", o, first) =>
        o = op /\ todo'["main"] = first \o rest /\ todo'["consumer"] = todo["consumer"]
  BY Follows
<1>3. /\ <<>> \o rest = rest
      /\ \A a \in Operations : <<a>> \o rest = Then(a, rest)
      /\ \A a, b \in Operations : <<a, b>> \o rest = Then(a, Then(b, rest))
      /\ \A a, b, c \in Operations : <<a, b, c>> \o rest = Then(a, Then(b, Then(c, rest)))
  BY ThenJoins
<1>4. TimerEffect(op, rest)
  BY <1>1, <1>2, <1>3
  DEF TypeOK, TimerEffect, ActionOf, RemoveAllTimers, PostTimeout, PostRestart, NoTimers, Alone,
      settings
<1>5. ListenEffect(op, rest)
  <2>1. /\ <<"requestUpdates", "setListening", "postTimeout">> \o rest
              = Then("requestUpdates", Then("setListening", Then("postTimeout", rest)))
        /\ <<"removeUpdates", "clearListening">> \o rest
              = Then("removeUpdates", Then("clearListening", rest))
    BY <1>3 DEF Operations
  <2>2. TestFlag("main") => ListenEffect(op, rest)
    <3>1. TestFlag("main") =>
            /\ LeavesReceiver
            /\ \/ /\ op = "ifNotListening"
                  /\ todo'["main"] = When(~listeningForLocationUpdates,
                       <<"requestUpdates", "setListening", "postTimeout">>) \o rest
               \/ /\ op = "ifListening"
                  /\ todo'["main"] = When(listeningForLocationUpdates,
                       <<"removeUpdates", "clearListening">>) \o rest
      BY <1>2 DEF TestFlag, LeavesReceiver, receiver, settings
    <3>. QED  BY <1>3, <2>1, <3>1 DEF ListenEffect, When
  <2>3. Receiver("main") => ListenEffect(op, rest)
    BY <1>2, <1>3 DEF ListenEffect, Receiver, settings
  <2>4. SetFlag("main") => ListenEffect(op, rest)
    BY <1>2, <1>3 DEF ListenEffect, SetFlag, settings
  <2>. QED  BY <1>1, <2>2, <2>3, <2>4 DEF ListenEffect, ActionOf
<1>6. LoggerEffect(op, rest)
  <2>1. /\ startListening \o rest = ToStart(rest) /\ stopListening \o rest = ToStop(rest)
        /\ (stopListening \o <<"readTimeout">> \o startListening) \o rest
              = ToStop(Then("readTimeout", ToStart(rest)))
        /\ \A known :
              (When(known, <<"logLocation">>) \o stopListening
                \o <<"settlePending", "postRestart">>) \o rest
                \in {ToStop(Then("settlePending", Then("postRestart", rest))),
                     Then("logLocation",
                          ToStop(Then("settlePending", Then("postRestart", rest))))}
    BY MethodJoins
  <2> USE DEF LeavesReceiver, receiver, settings, When
  <2>2. op \in {"logLocation", "settlePending", "readTimeout"} =>
          todo'["main"] = rest /\ LeavesReceiver
    BY <1>1, <1>2, <1>3 DEF ActionOf, LogLocation, SettlePending, GPSSetting, Alone
  <2>3. op = "checkIfTimedOut" =>
          /\ LeavesReceiver
          /\ todo'["main"] \in
               IF listeningForLocationUpdates
               THEN {ToStop(Then("settlePending", Then("postRestart", rest))),
                     Then("logLocation",
                          ToStop(Then("settlePending", Then("postRestart", rest))))}
               ELSE {rest}
    BY <1>1, <1>2, <1>3, <2>1 DEF ActionOf, CheckIfTimedOut
  <2>4. op = "restart" =>
          /\ todo'["main"] = IF pluginEnabled THEN ToStart(rest) ELSE rest
          /\ LeavesReceiver
    BY <1>1, <1>2, <1>3, <2>1 DEF ActionOf, RestartGPSUpdates, Alone
  <2>5. op = "gpsStart" =>
          /\ todo'["main"] = IF pluginEnabled' THEN ToStart(rest) ELSE rest
          /\ UNCHANGED receiver
    BY <1>1, <1>2, <1>3, <2>1 DEF ActionOf, GPSStart
  <2>6. op = "gpsStop" =>
          /\ todo'["main"] = IF pluginEnabled THEN ToStop(rest) ELSE rest
          /\ LeavesReceiver
    BY <1>1, <1>2, <1>3, <2>1 DEF ActionOf, GPSStop
  <2>7. op = "gpsPreference" =>
          /\ todo'["main"] \in
               IF pluginEnabled
               THEN {ToStop(Then("readTimeout", ToStart(rest))),
                     Then("gpsStop", Then("gpsOff", rest))}
               ELSE {Then("gpsStart", rest), rest}
          /\ LeavesReceiver
    <3>1. prefs.gps \in BOOLEAN /\ pluginEnabled \in BOOLEAN
      BY GPSAssumption DEF TypeOK
    <3>2. /\ <<"gpsStop", "gpsOff">> \o rest = Then("gpsStop", Then("gpsOff", rest))
          /\ <<"gpsStart">> \o rest = Then("gpsStart", rest)
      <4>1. "gpsStop" \in Operations /\ "gpsOff" \in Operations /\ "gpsStart" \in Operations
        BY DEF Operations
      <4>. QED  BY <1>3, <4>1
    <3>3. op = "gpsPreference" => GPSPreferenceChanged
      BY <1>1 DEF ActionOf
    <3>4. GPSPreferenceChanged =>
            /\ LeavesReceiver
            /\ \E first : /\ todo'["main"] = first \o rest
                          /\ first \in IF pluginEnabled
                               THEN {stopListening \o <<"readTimeout">> \o startListening,
                                     <<"gpsStop", "gpsOff">>}
                               ELSE {<<"gpsStart">>, <<>>}
      BY <1>2, <3>1 DEF GPSPreferenceChanged
    <3>. QED  BY <1>3, <2>1, <3>2, <3>3, <3>4
  <2>8. op = "gpsOff" => todo'["main"] = rest /\ ~pluginEnabled' /\ UNCHANGED receiver
    BY <1>1, <1>2, <1>3 DEF ActionOf, GPSSetting
  <2>. QED  BY <2>2, <2>3, <2>4, <2>5, <2>6, <2>7, <2>8 DEF LoggerEffect
<1>7. ClustererEffect(op, rest)
  <2> USE DEF LeavesReceiver, receiver, settings
  <2>1. op \in {"clustererStart", "clustererStop", "clustererOff"} =>
          todo'["main"] = rest /\ LeavesReceiver
    BY <1>1, <1>2, <1>3 DEF ActionOf, ClustererStart, ClustererStop, ClustererOff
  <2>2. /\ <<"clustererStop", "clustererOff">> \o rest
              = Then("clustererStop", Then("clustererOff", rest))
        /\ <<"clustererStart">> \o rest = Then("clustererStart", rest)
    <3>1. "clustererStop" \in Operations /\ "clustererOff" \in Operations
          /\ "clustererStart" \in Operations
      BY DEF Operations
    <3>. QED  BY <1>3, <3>1
  <2>3. op = "clustererPreference" => ClustererPreferenceChanged
    BY <1>1 DEF ActionOf
  <2>4. prefs.clusterer \in BOOLEAN /\ clustererEnabled \in BOOLEAN
    BY GPSAssumption DEF TypeOK
  <2>5. ClustererPreferenceChanged =>
          /\ LeavesReceiver
          /\ \E first : /\ todo'["main"] = first \o rest
                        /\ first \in {<<"clustererStop", "clustererOff">>,
                                     <<"clustererStart">>, <<>>}
    BY <1>2, <2>4 DEF ClustererPreferenceChanged
  <2>. QED  BY <1>3, <2>1, <2>2, <2>3, <2>5 DEF ClustererEffect
<1>8. Frame
  <2>1. todo'["consumer"] = todo["consumer"]
    <3>1. \E o, first : Does("main", o, first)
      BY DEF Main, Listening, RemoveAllTimers, TestFlag, Receiver, SetFlag, PostTimeout,
         SetRemote, LogLocation, CheckIfTimedOut, SettlePending, PostRestart,
         RestartGPSUpdates, GPSStart, GPSStop, GPSPreferenceChanged, GPSSetting,
         ClustererStart, ClustererStop, ClustererPreferenceChanged, ClustererOff
    <3>. QED  BY <1>2, <3>1
  <2>2. ~SetRemote("main")
    BY <1>2 DEF SetRemote
  <2>3. UNCHANGED <<serving, managed, remote>>
    BY <2>2 DEF Main, Listening, RemoveAllTimers, TestFlag, Receiver, SetFlag, PostTimeout,
       LogLocation, CheckIfTimedOut, SettlePending, PostRestart,
       RestartGPSUpdates, GPSStart, GPSStop, GPSPreferenceChanged, GPSSetting,
       ClustererStart, ClustererStop, ClustererPreferenceChanged, ClustererOff, others
  <2>. QED  BY <2>1, <2>3 DEF Frame
<1>. QED  BY <1>4, <1>5, <1>6, <1>7, <1>8 DEF Effect

LEMMA StartingStep ==
  ASSUME TypeOK, Alone, NEW rest \in Seq(Operations), Starting(todo["main"], rest), Main
  PROVE  /\ Frame /\ UNCHANGED pluginEnabled
         /\ \/ Starting(todo["main"], rest)'
            \/ todo'["main"] = rest /\ registered' /\ listeningForLocationUpdates'
<1>1. {"removeAllTimers", "ifNotListening", "requestUpdates", "setListening", "postTimeout"}
        \subseteq Operations
  BY DEF Operations
<1>2. /\ \A a \in Operations, s \in Seq(Operations) : Then(a, s) \in Seq(Operations)
      /\ registered \in BOOLEAN /\ listeningForLocationUpdates \in BOOLEAN
  BY ThenTypes DEF TypeOK
<1>3. CASE todo["main"] = ToStart(rest) /\ InStep
  <2>1. Effect("removeAllTimers", Then("ifNotListening", rest))
    BY <1>1, <1>2, <1>3, EffectOf DEF ToStart
  <2>. QED  BY <1>3, <2>1 DEF Effect, TimerEffect, Starting, InStep
<1>4. CASE todo["main"] = Then("ifNotListening", rest) /\ InStep
  <2>1. Effect("ifNotListening", rest)
    BY <1>1, <1>2, <1>4, EffectOf
  <2>. QED
    BY <1>2, <1>4, <2>1 DEF Effect, ListenEffect, LeavesReceiver, receiver, Starting, InStep, Off
<1>5. CASE /\ todo["main"]
                = Then("requestUpdates", Then("setListening", Then("postTimeout", rest)))
           /\ Off
  <2>1. Effect("requestUpdates", Then("setListening", Then("postTimeout", rest)))
    BY <1>1, <1>2, <1>5, EffectOf
  <2>. QED  BY <1>2, <1>5, <2>1 DEF Effect, ListenEffect, Starting, Off
<1>6. CASE /\ todo["main"] = Then("setListening", Then("postTimeout", rest))
           /\ registered /\ ~listeningForLocationUpdates
  <2>1. Effect("setListening", Then("postTimeout", rest))
    BY <1>1, <1>2, <1>6, EffectOf
  <2>. QED  BY <1>2, <1>6, <2>1 DEF Effect, ListenEffect, Starting
<1>7. CASE todo["main"] = Then("postTimeout", rest) /\ registered /\ listeningForLocationUpdates
  <2>1. Effect("postTimeout", rest)
    BY <1>1, <1>2, <1>7, EffectOf
  <2>. QED  BY <1>2, <1>7, <2>1 DEF Effect, TimerEffect, Starting
<1>. QED  BY <1>3, <1>4, <1>5, <1>6, <1>7 DEF Starting

LEMMA StoppingStep ==
  ASSUME TypeOK, Alone, NEW rest \in Seq(Operations), Stopping(todo["main"], rest), Main
  PROVE  /\ Frame /\ UNCHANGED pluginEnabled
         /\ \/ Stopping(todo["main"], rest)'
            \/ todo'["main"] = rest /\ Off' /\ NoTimers'
<1>1. {"removeAllTimers", "ifListening", "removeUpdates", "clearListening"} \subseteq Operations
  BY DEF Operations
<1>2. /\ \A a \in Operations, s \in Seq(Operations) : Then(a, s) \in Seq(Operations)
      /\ registered \in BOOLEAN /\ listeningForLocationUpdates \in BOOLEAN
  BY ThenTypes DEF TypeOK
<1>3. CASE todo["main"] = ToStop(rest) /\ InStep
  <2>1. Effect("removeAllTimers", Then("ifListening", rest))
    BY <1>1, <1>2, <1>3, EffectOf DEF ToStop
  <2>. QED  BY <1>3, <2>1 DEF Effect, TimerEffect, Stopping, InStep, NoTimers
<1>4. CASE todo["main"] = Then("ifListening", rest) /\ InStep /\ NoTimers
  <2>1. Effect("ifListening", rest)
    BY <1>1, <1>2, <1>4, EffectOf
  <2>. QED
    BY <1>2, <1>4, <2>1
    DEF Effect, ListenEffect, LeavesReceiver, receiver, Stopping, InStep, NoTimers, Off
<1>5. CASE /\ todo["main"] = Then("removeUpdates", Then("clearListening", rest))
           /\ registered /\ listeningForLocationUpdates /\ NoTimers
  <2>1. Effect("removeUpdates", Then("clearListening", rest))
    BY <1>1, <1>2, <1>5, EffectOf
  <2>. QED  BY <1>2, <1>5, <2>1 DEF Effect, ListenEffect, Stopping, NoTimers
<1>6. CASE /\ todo["main"] = Then("clearListening", rest)
           /\ ~registered /\ listeningForLocationUpdates /\ NoTimers
  <2>1. Effect("clearListening", rest)
    BY <1>1, <1>2, <1>6, EffectOf
  <2>. QED  BY <1>2, <1>6, <2>1 DEF Effect, ListenEffect, Off, NoTimers
<1>. QED  BY <1>3, <1>4, <1>5, <1>6 DEF Stopping

(* The programs that leave the GPS alone, of whichever service.            *)
LEMMA ElsewhereStep ==
  ASSUME TypeOK, Alone, Main, todo["main"] \in Elsewhere \ {<<>>}, Settled
  PROVE  Frame /\ MainInv'
<1>1. {"clustererStart", "clustererStop", "clustererPreference", "clustererOff", "logLocation"}
        \subseteq Operations /\ <<>> \in Seq(Operations)
  BY DEF Operations
<1>2. \A a \in Operations, s \in Seq(Operations) : Then(a, s) \in Seq(Operations)
  BY ThenTypes
<1>3. PICK op, rest :
        /\ op \in {"clustererStart", "clustererStop", "clustererPreference", "clustererOff",
                   "logLocation"}
        /\ op = "clustererPreference" => rest = <<>>
        /\ rest \in {<<>>, Last("clustererOff")}
        /\ todo["main"] = Then(op, rest)
  BY DEF Elsewhere, Clusterer, Last
<1>4. op \in Operations /\ rest \in Seq(Operations)
  BY <1>1, <1>2, <1>3 DEF Last
<1>5. Effect(op, rest)
  BY <1>3, <1>4, EffectOf
<1>6. LeavesReceiver
  BY <1>3, <1>5 DEF Effect, ClustererEffect, LoggerEffect
<1>7. todo'["main"] \in Elsewhere
  <2>1. CASE op = "clustererPreference"
    BY <1>3, <1>5, <2>1 DEF Effect, ClustererEffect, Elsewhere, Last
  <2>2. CASE op # "clustererPreference"
    <3>1. todo'["main"] = rest
      BY <1>3, <1>5, <2>2 DEF Effect, ClustererEffect, LoggerEffect
    <3>. QED  BY <1>3, <3>1 DEF Elsewhere
  <2>. QED  BY <2>1, <2>2
<1>8. Settled'
  BY <1>5, <1>6 DEF Effect, Frame, LeavesReceiver, receiver, Settled, InStep, Off, NoTimers
<1>. QED  BY <1>5, <1>7, <1>8 DEF Effect, MainInv, Programs

LEMMA StartedSettled ==
  ASSUME serving, pluginEnabled, registered, listeningForLocationUpdates
  PROVE  Settled
BY DEF Settled, InStep

(* A service that runs with GPS logging on.                                *)
LEMMA ServingStep ==
  ASSUME TypeOK, Alone, Main, serving, pluginEnabled, Serving(todo["main"])
  PROVE  Frame /\ MainInv'
<1> DEFINE p == todo["main"]
           q == todo'["main"]
<1>1. /\ {"settlePending", "postRestart", "restart", "gpsStop", "gpsOff", "readTimeout",
          "logLocation", "checkIfTimedOut"} \subseteq Operations
      /\ <<>> \in Seq(Operations) /\ Clusterer \in Seq(Operations) /\ Reread \in Seq(Operations)
      /\ TurnOff \in Seq(Operations) /\ Pause \in Seq(Operations)
      /\ \A s \in Seq(Operations) :
           ToStart(s) \in Seq(Operations) /\ ToStop(s) \in Seq(Operations)
      /\ \A a \in Operations, s \in Seq(Operations) : Then(a, s) \in Seq(Operations)
  BY ThenTypes DEF Operations
<1>2. registered' \in BOOLEAN /\ listeningForLocationUpdates' \in BOOLEAN
  BY MainTypes DEF TypeOK
<1>3. ASSUME Frame, UNCHANGED pluginEnabled, Serving(todo["main"])'
      PROVE  MainInv'
  BY <1>3 DEF MainInv, Programs, Frame
<1>4. ASSUME NEW rest \in {<<>>, Clusterer}, Starting(p, rest)
      PROVE  Frame /\ MainInv'
  <2>1. /\ Frame /\ UNCHANGED pluginEnabled
        /\ \/ Starting(todo["main"], rest)'
           \/ q = rest /\ registered' /\ listeningForLocationUpdates'
    BY <1>1, <1>4, StartingStep
  <2>2. CASE Starting(todo["main"], rest)'
    BY <1>3, <1>4, <2>1, <2>2 DEF Serving
  <2>3. CASE q = rest /\ registered' /\ listeningForLocationUpdates'
    <3>1. Settled' /\ q \in Elsewhere
      BY <1>4, <2>1, <2>3 DEF Settled, InStep, Frame, Elsewhere
    <3>. QED  BY <2>1, <3>1 DEF MainInv, Programs
  <2>. QED  BY <2>1, <2>2, <2>3
<1>5. ASSUME NEW rest \in {Reread, TurnOff, Pause}, Stopping(p, rest)
      PROVE  Frame /\ MainInv'
  <2>1. /\ Frame /\ UNCHANGED pluginEnabled
        /\ Stopping(todo["main"], rest)' \/ (q = rest /\ Off' /\ NoTimers')
    BY <1>1, <1>5, StoppingStep
  <2>2. CASE Stopping(todo["main"], rest)'
    BY <1>3, <1>5, <2>1, <2>2 DEF Serving
  <2>3. CASE rest # TurnOff /\ q = rest /\ Off' /\ NoTimers'
    BY <1>2, <1>3, <1>5, <2>1, <2>3 DEF Serving, Off, InStep
  <2>4. CASE rest = TurnOff /\ q = rest /\ Off' /\ NoTimers'
    BY <2>1, <2>4 DEF MainInv, Programs, Frame
  <2>. QED  BY <2>1, <2>2, <2>3, <2>4
<1>6. CASE p = Reread /\ InStep
  <2>1. Effect("readTimeout", ToStart(Clusterer))
    BY <1>1, <1>6, EffectOf DEF Reread
  <2>2. q = ToStart(Clusterer) /\ LeavesReceiver /\ Frame
    BY <2>1 DEF Effect, LoggerEffect
  <2>3. Starting(todo["main"], Clusterer)'
    BY <1>6, <2>2 DEF Starting, InStep, LeavesReceiver, receiver
  <2>. QED  BY <1>3, <2>2, <2>3 DEF Serving, LeavesReceiver
<1>7. CASE p = Pause /\ InStep
  <2>1. Effect("settlePending", Last("postRestart"))
    BY <1>1, <1>7, EffectOf DEF Pause, Last
  <2>2. q = Last("postRestart") /\ LeavesReceiver /\ Frame
    BY <2>1 DEF Effect, LoggerEffect
  <2>. QED  BY <1>3, <1>7, <2>2 DEF Serving, LeavesReceiver, receiver, InStep
<1>8. CASE p = Last("postRestart") /\ InStep
  <2>1. Effect("postRestart", <<>>)
    BY <1>1, <1>8, EffectOf DEF Last
  <2>2. /\ q = <<>> /\ restarts' > 0 /\ Frame
        /\ UNCHANGED <<registered, listeningForLocationUpdates, pluginEnabled>>
    BY <2>1 DEF Effect, TimerEffect
  <2>3. Settled' /\ q \in Elsewhere
    BY <1>8, <2>2 DEF Settled, InStep, Frame, Elsewhere
  <2>. QED  BY <2>2, <2>3 DEF MainInv, Programs
<1>9. CASE p = Last("restart") /\ InStep
  <2>1. Effect("restart", <<>>)
    BY <1>1, <1>9, EffectOf DEF Last
  <2>2. q = ToStart(<<>>) /\ LeavesReceiver /\ Frame
    BY <2>1 DEF Effect, LoggerEffect
  <2>3. Starting(todo["main"], <<>>)'
    BY <1>9, <2>2 DEF Starting, InStep, LeavesReceiver, receiver
  <2>. QED  BY <1>3, <2>2, <2>3 DEF Serving, LeavesReceiver
<1>10. CASE p = Then("settlePending", Last("restart")) /\ InStep
  <2>1. Effect("settlePending", Last("restart"))
    BY <1>1, <1>10, EffectOf DEF Last
  <2>2. q = Last("restart") /\ LeavesReceiver /\ Frame
    BY <2>1 DEF Effect, LoggerEffect
  <2>. QED  BY <1>3, <1>10, <2>2 DEF Serving, LeavesReceiver, receiver, InStep
<1>11. CASE p = Then("gpsStop", TurnOff) /\ InStep
  <2>1. Effect("gpsStop", TurnOff)
    BY <1>1, <1>11, EffectOf
  <2>2. q = ToStop(TurnOff) /\ LeavesReceiver /\ Frame
    BY <2>1 DEF Effect, LoggerEffect
  <2>3. Stopping(todo["main"], TurnOff)'
    BY <1>11, <2>2 DEF Stopping, InStep, LeavesReceiver, receiver
  <2>. QED  BY <1>3, <2>2, <2>3 DEF Serving, LeavesReceiver
<1>12. CASE p = Then("logLocation", ToStop(Pause)) /\ InStep
  <2>1. Effect("logLocation", ToStop(Pause))
    BY <1>1, <1>12, EffectOf
  <2>2. q = ToStop(Pause) /\ LeavesReceiver /\ Frame
    BY <2>1 DEF Effect, LoggerEffect
  <2>3. Stopping(todo["main"], Pause)'
    BY <1>12, <2>2 DEF Stopping, InStep, LeavesReceiver, receiver
  <2>. QED  BY <1>3, <2>2, <2>3 DEF Serving, LeavesReceiver
<1>13. CASE p = Last("checkIfTimedOut") /\ Settled
  <2>1. Effect("checkIfTimedOut", <<>>)
    BY <1>1, <1>13, EffectOf DEF Last
  <2>2. /\ LeavesReceiver /\ Frame
        /\ q \in IF listeningForLocationUpdates
                 THEN {ToStop(Pause), Then("logLocation", ToStop(Pause))} ELSE {<<>>}
    BY <2>1 DEF Effect, LoggerEffect, Pause, Last
  <2>3. CASE listeningForLocationUpdates
    <3>1. Stopping(todo["main"], Pause)' \/ (q = Then("logLocation", ToStop(Pause)) /\ InStep')
      BY <1>13, <2>2, <2>3 DEF Stopping, Settled, InStep, LeavesReceiver, receiver
    <3>. QED  BY <1>3, <2>2, <3>1 DEF Serving, LeavesReceiver
  <2>4. CASE ~listeningForLocationUpdates
    <3>1. Settled' /\ q \in Elsewhere
      BY <1>13, <2>2, <2>4
      DEF Settled, InStep, Off, NoTimers, Frame, Elsewhere, LeavesReceiver, receiver
    <3>. QED  BY <2>2, <3>1 DEF MainInv, Programs
  <2>. QED  BY <2>3, <2>4
<1>. QED
  BY <1>4, <1>5, <1>6, <1>7, <1>8, <1>9, <1>10, <1>11, <1>12, <1>13 DEF Serving

LEMMA ProgramStep ==
  ASSUME TypeOK, Alone, Main, MainInv
  PROVE  Frame /\ MainInv'
<1> DEFINE p == todo["main"]
           q == todo'["main"]
<1>1. /\ {"gpsPreference", "clustererStart", "gpsStart", "gpsStop", "clustererStop", "gpsOff",
          "readTimeout"} \subseteq Operations
      /\ <<>> \in Seq(Operations) /\ Clusterer \in Seq(Operations) /\ Reread \in Seq(Operations)
      /\ TurnOff \in Seq(Operations)
      /\ \A s \in Seq(Operations) :
           ToStart(s) \in Seq(Operations) /\ ToStop(s) \in Seq(Operations)
      /\ \A a \in Operations, s \in Seq(Operations) : Then(a, s) \in Seq(Operations)
  BY ThenTypes DEF Operations
<1>2. registered' \in BOOLEAN /\ listeningForLocationUpdates' \in BOOLEAN
  BY MainTypes DEF TypeOK
<1>3. CASE p \in Elsewhere /\ Settled
  <2>1. p # <<>>
    BY DEF Main, Listening, RemoveAllTimers, TestFlag, Receiver, SetFlag, PostTimeout,
       SetRemote, LogLocation, CheckIfTimedOut, SettlePending, PostRestart,
       RestartGPSUpdates, GPSStart, GPSStop, GPSPreferenceChanged, GPSSetting,
       ClustererStart, ClustererStop, ClustererPreferenceChanged, ClustererOff, Does
  <2>. QED  BY <1>3, <2>1, ElsewhereStep
<1>4. CASE serving /\ pluginEnabled /\ Serving(p)
  BY <1>4, ServingStep
<1>5. CASE p = Then("gpsPreference", Clusterer) /\ serving /\ Settled
  <2>1. Effect("gpsPreference", Clusterer)
    BY <1>1, <1>5, EffectOf
  <2>2. /\ LeavesReceiver /\ Frame
        /\ q \in IF pluginEnabled THEN {ToStop(Reread), Then("gpsStop", TurnOff)}
                 ELSE {Then("gpsStart", Clusterer), Clusterer}
    BY <2>1 DEF Effect, LoggerEffect, Reread, TurnOff
  <2>3. CASE pluginEnabled
    <3>1. Stopping(todo["main"], Reread)' \/ (q = Then("gpsStop", TurnOff) /\ InStep')
      BY <1>5, <2>2, <2>3 DEF Stopping, Settled, InStep, LeavesReceiver, receiver
    <3>2. Serving(todo["main"])'
      BY <3>1 DEF Serving
    <3>3. serving' /\ pluginEnabled'
      BY <1>5, <2>2, <2>3 DEF Frame, LeavesReceiver
    <3>. QED  BY <2>2, <3>2, <3>3 DEF MainInv, Programs
  <2>4. CASE ~pluginEnabled
    <3>1. Off' /\ NoTimers' /\ Settled' /\ serving'
      BY <1>5, <2>2, <2>4 DEF Settled, InStep, Off, NoTimers, Frame, LeavesReceiver, receiver
    <3>2. q = Then("gpsStart", Clusterer) \/ q \in Elsewhere
      BY <2>2, <2>4 DEF Elsewhere
    <3>. QED  BY <2>2, <3>1, <3>2 DEF MainInv, Programs
  <2>. QED  BY <2>3, <2>4
<1>6. CASE p = Then("clustererStart", Last("gpsStart")) /\ serving /\ Off /\ NoTimers
  <2>1. Effect("clustererStart", Last("gpsStart"))
    BY <1>1, <1>6, EffectOf DEF Last
  <2>2. q = Last("gpsStart") /\ LeavesReceiver /\ Frame
    BY <2>1 DEF Effect, ClustererEffect
  <2>3. Off' /\ NoTimers' /\ serving'
    BY <1>6, <2>2 DEF Off, NoTimers, Frame, LeavesReceiver, receiver
  <2>. QED  BY <2>2, <2>3 DEF MainInv, Programs
<1>7. ASSUME NEW rest \in {<<>>, Clusterer},
             p = Then("gpsStart", rest), serving, Off, NoTimers
      PROVE  Frame /\ MainInv'
  <2>1. Effect("gpsStart", rest)
    BY <1>1, <1>7, EffectOf
  <2>2. /\ q = IF pluginEnabled' THEN ToStart(rest) ELSE rest
        /\ UNCHANGED receiver /\ Frame
    BY <2>1 DEF Effect, LoggerEffect
  <2>3. Off' /\ NoTimers' /\ serving'
    BY <1>7, <2>2 DEF Off, NoTimers, Frame, receiver
  <2>4. CASE pluginEnabled'
    <3>1. Starting(todo["main"], rest)'
      BY <1>2, <2>2, <2>3, <2>4 DEF Starting, Off, InStep
    <3>2. Serving(todo["main"])'
      BY <1>7, <3>1 DEF Serving
    <3>. QED  BY <2>2, <2>3, <2>4, <3>2 DEF MainInv, Programs
  <2>5. CASE ~pluginEnabled'
    <3>1. q \in Elsewhere /\ Settled'
      BY <1>2, <1>7, <2>2, <2>3, <2>5 DEF Elsewhere, Settled, Off, InStep
    <3>. QED  BY <2>2, <3>1 DEF MainInv, Programs
  <2>. QED  BY <2>4, <2>5
<1>8. CASE p = TurnOff /\ serving /\ Off /\ NoTimers
  <2>1. Effect("gpsOff", Clusterer)
    BY <1>1, <1>8, EffectOf DEF TurnOff
  <2>2. q = Clusterer /\ ~pluginEnabled' /\ UNCHANGED receiver /\ Frame
    BY <2>1 DEF Effect, LoggerEffect
  <2>3. q \in Elsewhere /\ Settled'
    BY <1>2, <1>8, <2>2 DEF Elsewhere, Settled, Off, InStep, NoTimers, receiver
  <2>. QED  BY <2>2, <2>3 DEF MainInv, Programs
<1>9. CASE /\ p = Then("gpsStop", Last("clustererStop"))
           /\ ~serving /\ InStep /\ (pluginEnabled \/ (Off /\ NoTimers))
  <2>1. Effect("gpsStop", Last("clustererStop"))
    BY <1>1, <1>9, EffectOf DEF Last
  <2>2. /\ q = IF pluginEnabled THEN ToStop(Last("clustererStop")) ELSE Last("clustererStop")
        /\ LeavesReceiver /\ Frame
    BY <2>1 DEF Effect, LoggerEffect
  <2>3. CASE pluginEnabled
    <3>1. Stopping(todo["main"], Last("clustererStop"))' /\ ~serving'
      BY <1>9, <2>2, <2>3 DEF Stopping, InStep, LeavesReceiver, receiver, Frame
    <3>. QED  BY <2>2, <3>1 DEF MainInv, Programs
  <2>4. CASE ~pluginEnabled
    <3>1. q \in Elsewhere /\ Settled'
      BY <1>9, <2>2, <2>4
      DEF Elsewhere, Settled, Off, NoTimers, InStep, LeavesReceiver, receiver, Frame
    <3>. QED  BY <2>2, <3>1 DEF MainInv, Programs
  <2>. QED  BY <2>3, <2>4
<1>10. CASE ~serving /\ Stopping(p, Last("clustererStop"))
  <2>1. Last("clustererStop") \in Seq(Operations)
    BY <1>1 DEF Last
  <2>2. /\ Frame
        /\ \/ Stopping(todo["main"], Last("clustererStop"))'
           \/ q = Last("clustererStop") /\ Off' /\ NoTimers'
    BY <1>10, <2>1, StoppingStep
  <2>3. CASE Stopping(todo["main"], Last("clustererStop"))'
    BY <1>10, <2>2, <2>3 DEF MainInv, Programs, Frame
  <2>4. CASE q = Last("clustererStop") /\ Off' /\ NoTimers'
    <3>1. q \in Elsewhere /\ Settled'
      BY <1>2, <1>10, <2>2, <2>4 DEF Elsewhere, Settled, Off, InStep, Frame
    <3>. QED  BY <2>2, <3>1 DEF MainInv, Programs
  <2>. QED  BY <2>2, <2>3, <2>4
<1>. QED
  BY <1>3, <1>4, <1>5, <1>6, <1>7, <1>8, <1>9, <1>10 DEF MainInv, Programs, Last

(* What the invariant says of a main thread that is idle.                  *)
LEMMA IdleSettled ==
  ASSUME TypeOK, MainInv, todo["main"] = <<>>
  PROVE  Settled
<1>1. \A op, rest : op \in Operations /\ rest \in Seq(Operations) => Then(op, rest) # <<>>
  BY ThenRuns
<1>. QED
  BY <1>1, ThenTypes
  DEF MainInv, Programs, Serving, Starting, Stopping, ToStart, ToStop, Last, Reread, TurnOff,
      Pause

(* The main thread takes up something new.                                 *)
LEMMA BeginStep ==
  ASSUME TypeOK, Alone, MainInv,
         \/ OnStart \/ OnDestroy \/ OnLocationChanged \/ TimeoutFires \/ RestartFires
         \/ \E p \in Preferences : PreferencesChanged(p)
  PROVE  /\ UNCHANGED <<managed, remote>> /\ todo'["consumer"] = todo["consumer"]
         /\ MainInv'
<1>1. \A program : Begins(program) =>
        todo["main"] = <<>> /\ todo'["main"] = program /\ todo'["consumer"] = todo["consumer"]
  BY DEF Begins, Idle, TypeOK, Thread
<1>2. /\ registered \in BOOLEAN /\ listeningForLocationUpdates \in BOOLEAN
      /\ timeouts \in Nat /\ restarts \in Nat /\ pluginEnabled \in BOOLEAN
      /\ serving \in BOOLEAN
  BY DEF TypeOK
<1>3. todo["main"] = <<>> => Settled
  BY IdleSettled
<1>4. /\ \A a \in Operations : <<a>> = Last(a)
      /\ \A a, b \in Operations : <<a, b>> = Then(a, Last(b))
  BY ThenLasts
<1>5. CASE OnStart
  <2>1. /\ Begins(<<"clustererStart", "gpsStart">>) /\ ~serving /\ serving'
        /\ UNCHANGED <<receiver, managed, remote>>
    BY <1>5 DEF OnStart
  <2>2. todo'["main"] = Then("clustererStart", Last("gpsStart"))
    <3>1. "clustererStart" \in Operations /\ "gpsStart" \in Operations
      BY DEF Operations
    <3>. QED  BY <1>1, <1>4, <2>1, <3>1
  <2>3. Off' /\ NoTimers'
    BY <1>1, <1>3, <2>1 DEF Settled, Off, NoTimers, receiver
  <2>. QED  BY <1>1, <2>1, <2>2, <2>3 DEF MainInv, Programs
<1>6. CASE OnDestroy
  <2>1. /\ Begins(<<"gpsStop", "clustererStop">>) /\ serving /\ ~serving'
        /\ UNCHANGED <<receiver, managed, remote, pluginEnabled>>
    BY <1>6 DEF OnDestroy, settings
  <2>2. todo'["main"] = Then("gpsStop", Last("clustererStop"))
    <3>1. "gpsStop" \in Operations /\ "clustererStop" \in Operations
      BY DEF Operations
    <3>. QED  BY <1>1, <1>4, <2>1, <3>1
  <2>3. InStep' /\ (pluginEnabled' \/ (Off' /\ NoTimers'))
    BY <1>1, <1>3, <2>1 DEF Settled, InStep, Off, NoTimers, receiver
  <2>. QED  BY <1>1, <2>1, <2>2, <2>3 DEF MainInv, Programs
<1>7. CASE OnLocationChanged
  <2>1. /\ Begins(<<"logLocation">>)
        /\ UNCHANGED <<receiver, managed, remote, pluginEnabled, serving>>
    BY <1>7 DEF OnLocationChanged, settings, others
  <2>2. todo'["main"] = Last("logLocation")
    <3>1. "logLocation" \in Operations
      BY DEF Operations
    <3>. QED  BY <1>1, <1>4, <2>1, <3>1
  <2>3. Settled'
    BY <1>1, <1>3, <2>1 DEF Settled, InStep, Off, NoTimers, receiver
  <2>. QED  BY <1>1, <2>1, <2>2, <2>3 DEF MainInv, Programs, Elsewhere
<1>8. CASE TimeoutFires
  <2>1. /\ Begins(<<"checkIfTimedOut">>) /\ timeouts > 0
        /\ UNCHANGED <<registered, listeningForLocationUpdates, restarts, managed, remote,
                       pluginEnabled, serving>>
    BY <1>8 DEF TimeoutFires, settings, others
  <2>2. todo'["main"] = Last("checkIfTimedOut")
    <3>1. "checkIfTimedOut" \in Operations
      BY DEF Operations
    <3>. QED  BY <1>1, <1>4, <2>1, <3>1
  <2>3. serving /\ pluginEnabled
    BY <1>1, <1>2, <1>3, <2>1 DEF Settled, NoTimers
  <2>4. Settled' /\ serving' /\ pluginEnabled'
    BY <1>1, <1>3, <2>1, <2>3 DEF Settled, InStep
  <2>. QED  BY <1>1, <2>1, <2>2, <2>4 DEF MainInv, Programs, Serving
<1>9. CASE RestartFires
  <2>1. /\ Begins(<<"settlePending", "restart">>) /\ restarts > 0
        /\ UNCHANGED <<registered, listeningForLocationUpdates, managed, remote,
                       pluginEnabled, serving>>
    BY <1>9 DEF RestartFires, settings, others
  <2>2. todo'["main"] = Then("settlePending", Last("restart"))
    <3>1. "settlePending" \in Operations /\ "restart" \in Operations
      BY DEF Operations
    <3>. QED  BY <1>1, <1>4, <2>1, <3>1
  <2>3. serving' /\ pluginEnabled' /\ InStep'
    BY <1>1, <1>2, <1>3, <2>1 DEF Settled, NoTimers, InStep
  <2>4. Serving(todo["main"])'
    BY <2>2, <2>3 DEF Serving
  <2>. QED  BY <1>1, <2>1, <2>3, <2>4 DEF MainInv, Programs
<1>10. ASSUME NEW r \in Preferences, PreferencesChanged(r)
       PROVE  /\ UNCHANGED <<managed, remote>> /\ todo'["consumer"] = todo["consumer"]
              /\ MainInv'
  <2>1. /\ Begins(When(serving, <<"gpsPreference", "clustererPreference">>))
        /\ UNCHANGED <<receiver, managed, remote, pluginEnabled, serving>>
    BY <1>10 DEF PreferencesChanged, settings
  <2>2. Settled'
    BY <1>1, <1>3, <2>1 DEF Settled, InStep, Off, NoTimers, receiver
  <2>3. todo'["main"] = <<>> \/ (serving' /\ todo'["main"] = Then("gpsPreference", Clusterer))
    <3>1. "gpsPreference" \in Operations /\ "clustererPreference" \in Operations
      BY DEF Operations
    <3>2. <<"gpsPreference", "clustererPreference">> = Then("gpsPreference", Clusterer)
      BY <1>4, <3>1 DEF Clusterer
    <3>. QED  BY <1>1, <2>1, <3>2 DEF When
  <2>4. MainInv'
    BY <2>2, <2>3 DEF MainInv, Programs, Elsewhere
  <2>. QED  BY <1>1, <2>1, <2>4
<1>. QED  BY <1>5, <1>6, <1>7, <1>8, <1>9, <1>10

LEMMA GPSStays ==
  ASSUME GPSInv, [Next]_vars
  PROVE  GPSInv'
<1>1. TypeOK'
  BY TypesStay DEF GPSInv
<1>2. ASSUME ~managed'
      PROVE  /\ todo'["consumer"] = <<>> /\ MainInv'
             /\ ~remotelyDisabled' /\ ~pendingRemoteDisable'
  <2>1. ~managed
    BY <1>2 DEF Next, Main, Listening, RemoveAllTimers, TestFlag, Receiver, SetFlag, PostTimeout,
       SetRemote, LogLocation, CheckIfTimedOut, SettlePending, PostRestart,
       RestartGPSUpdates, GPSStart, GPSStop, GPSPreferenceChanged, GPSSetting,
       ClustererStart, ClustererStop, ClustererPreferenceChanged, ClustererOff, OnStart,
       OnDestroy, OnLocationChanged, TimeoutFires, RestartFires, PreferencesChanged, Consume,
       others, vars
  <2>2. TypeOK /\ Alone /\ MainInv /\ todo["consumer"] = <<>>
    BY <2>1 DEF GPSInv, AloneInv, Alone, Idle
  <2>3. CASE Main
    BY <2>2, <2>3, ProgramStep DEF Frame, Alone, remote
  <2>4. CASE \/ OnStart \/ OnDestroy \/ OnLocationChanged \/ TimeoutFires \/ RestartFires
             \/ \E p \in Preferences : PreferencesChanged(p)
    BY <2>2, <2>4, BeginStep DEF Alone, remote
  <2>5. CASE Listening("consumer")
    BY <2>2, <2>5 DEF Listening, RemoveAllTimers, TestFlag, Receiver, SetFlag, PostTimeout,
       SetRemote, Does
  <2>6. ~\E moving \in BOOLEAN : Consume(moving)
    BY <1>2 DEF Consume
  <2>7. CASE UNCHANGED vars
    BY <2>2, <2>7
    DEF vars, receiver, remote, settings, others, Alone, MainInv, Programs, Serving, Starting,
        Stopping, Settled, InStep, Off, NoTimers
  <2>. QED  BY <2>3, <2>4, <2>5, <2>6, <2>7 DEF Next
<1>. QED  BY <1>1, <1>2 DEF GPSInv, AloneInv, Idle

LEMMA GPSAtFirst == Init => GPSInv
<1>1. Init => TypeOK
  BY TypesAtFirst
<1>2. Init => todo["main"] = <<>> /\ todo["consumer"] = <<>>
  BY DEF Init, Thread
<1>3. Init => Settled /\ ~remotelyDisabled /\ ~pendingRemoteDisable
  BY DEF Init, Settled, InStep, Off, NoTimers
<1>. QED
  BY <1>1, <1>2, <1>3 DEF GPSInv, AloneInv, Idle, MainInv, Programs, Elsewhere

(* No order of timeouts, restarts, locations and changes of preferences    *)
(* leaves a running GPSLogger without the receiver and without a restart   *)
(* that is posted, until the consumer first controls the GPS.              *)
THEOREM ReceiverStaysAlive == Spec => []GPSAlive
<1>1. Init => GPSInv
  BY GPSAtFirst
<1>2. GPSInv /\ [Next]_vars => GPSInv'
  BY GPSStays
<1>3. GPSInv => GPSAlive
  BY IdleSettled DEF GPSInv, AloneInv, GPSAlive, Quiet, Idle, Thread, Settled, InStep
<1>. QED  BY <1>1, <1>2, <1>3, PTL DEF Spec

(* Nothing that is posted or half done turns the receiver on for a service *)
(* that has been destroyed or a plugin that the user has disabled.         *)
THEOREM ReceiverOffUnused == Spec => []OffWhenUnused
<1>1. Init => GPSInv
  BY GPSAtFirst
<1>2. GPSInv /\ [Next]_vars => GPSInv'
  BY GPSStays
<1>3. GPSInv => OffWhenUnused
  BY IdleSettled
  DEF GPSInv, AloneInv, OffWhenUnused, Quiet, Idle, Thread, Settled, InStep, Off, NoTimers
<1>. QED  BY <1>1, <1>2, <1>3, PTL DEF Spec

===============================================================================
