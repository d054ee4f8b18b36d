------------------------------- MODULE GPSControl -------------------------------
(***************************************************************************)
(* Who turns the GPS receiver on and off.  GPSLogger does on the main      *)
(* thread: when the service or the plugin starts and stops, when a         *)
(* preference changes, when a scan times out and when the pause after it   *)
(* is over.  LocationClusterer does on its consumer thread, through        *)
(* disableAfterNextScan and enable, when it sees the user stop or move.    *)
(* The flags they share are plain static fields.                           *)
(*                                                                         *)
(* A thread's program is the sequence of the operations that it has yet to *)
(* do, todo[thread]; an operation may put others in front of the rest.     *)
(***************************************************************************)
EXTENDS Integers, Sequences

CONSTANTS
  Preferences   (* The settings that the user may choose: records of       *)
                (* booleans gps, timeout (one is set), clusterer, manage.  *)

ASSUME GPSAssumption ==
  /\ Preferences # {}
  /\ Preferences \subseteq [gps : BOOLEAN, timeout : BOOLEAN, clusterer : BOOLEAN,
                            manage : BOOLEAN]

Thread == {"main", "consumer"}

VARIABLES
  prefs,                        (* The stored preferences.                 *)
  serving,                      (* HSService.isRunning.                    *)
  todo,
  registered,                   (* Whether the receiver is on for us.      *)
  listeningForLocationUpdates,  (* GPSLogger's flag for that.              *)
  timeouts, restarts,           (* How often checkIfTimedOut and           *)
                                (* restartGPSUpdates are posted.           *)
  remotelyDisabled, pendingRemoteDisable,
  pluginEnabled,                (* GPSLogger's.                            *)
  gpsTimeoutInMillis,           (* Whether it is positive.                 *)
  clustererEnabled, manageGPS,  (* LocationClusterer's.                    *)
  consuming,                    (* Whether its consumer is not stopped.    *)
  previouslyMoving,
  managed                       (* History: the consumer has controlled    *)
                                (* the GPS; read by properties only.       *)

receiver == <<registered, listeningForLocationUpdates, timeouts, restarts>>
remote   == <<remotelyDisabled, pendingRemoteDisable>>
settings == <<pluginEnabled, gpsTimeoutInMillis, clustererEnabled, manageGPS>>
others   == <<prefs, serving, consuming, previouslyMoving, managed>>
vars == <<receiver, remote, settings, others, todo>>

Init ==
  /\ prefs \in Preferences /\ serving = FALSE
  /\ todo = [th \in Thread |-> <<>>]
  /\ registered = FALSE /\ listeningForLocationUpdates = FALSE
  /\ timeouts = 0 /\ restarts = 0
  /\ remotelyDisabled = FALSE /\ pendingRemoteDisable = FALSE
  /\ pluginEnabled = FALSE /\ gpsTimeoutInMillis = TRUE
  /\ clustererEnabled = FALSE /\ manageGPS = FALSE
  /\ consuming = FALSE /\ previouslyMoving = TRUE /\ managed = FALSE

-------------------------------------------------------------------------------
(* The methods, as programs.                                               *)

startListening == <<"removeAllTimers", "ifNotListening">>
stopKeepsTimers == <<"ifListening">>        (* Mutant: timers are kept.      *)
stopListening  == <<"removeAllTimers", "ifListening">>
enable         == startListening \o <<"clearDisabled", "clearPending">>
disableAfterNextScan == <<"setPending">>
When(test, program) == IF test THEN program ELSE <<>>

Idle(th) == todo[th] = <<>>

(* Thread th does op, and before the rest of its program, first.           *)
Does(th, op, first) ==
  /\ todo[th] # <<>> /\ Head(todo[th]) = op
  /\ todo' = [todo EXCEPT ![th] = first \o Tail(@)]

-------------------------------------------------------------------------------
(* startListeningForLocationUpdates, stopListeningForLocationUpdates.      *)

(* Mutant: one posted callback is removed, not all.                        *)
RemoveOneTimer(th) ==
  /\ Does(th, "removeAllTimers", <<>>)
  /\ timeouts' = timeouts - 1 /\ restarts' = 0
  /\ UNCHANGED <<registered, listeningForLocationUpdates, remote, settings, others>>

RemoveAllTimers(th) ==
  /\ Does(th, "removeAllTimers", <<>>)
  /\ timeouts' = 0 /\ restarts' = 0
  /\ UNCHANGED <<registered, listeningForLocationUpdates, remote, settings, others>>

TestFlag(th) ==
  /\ \/ Does(th, "ifNotListening", When(~listeningForLocationUpdates,
             <<"requestUpdates", "setListening", "postTimeout">>))
     \/ Does(th, "ifListening", When(listeningForLocationUpdates,
             <<"removeUpdates", "clearListening">>))
  /\ UNCHANGED <<receiver, remote, settings, others>>

Receiver(th) ==
  /\ \/ Does(th, "requestUpdates", <<>>) /\ registered' = TRUE
     \/ Does(th, "removeUpdates", <<>>) /\ registered' = FALSE
  /\ UNCHANGED <<listeningForLocationUpdates, timeouts, restarts, remote, settings,
                 others>>

SetFlag(th) ==
  /\ \/ Does(th, "setListening", <<>>) /\ listeningForLocationUpdates' = TRUE
     \/ Does(th, "clearListening", <<>>) /\ listeningForLocationUpdates' = FALSE
  /\ UNCHANGED <<registered, timeouts, restarts, remote, settings, others>>

PostTimeout(th) ==
  /\ Does(th, "postTimeout", <<>>)
  /\ timeouts' = IF gpsTimeoutInMillis THEN timeouts + 1 ELSE timeouts
  /\ UNCHANGED <<registered, listeningForLocationUpdates, restarts, remote, settings,
                 others>>

(* The writes to the two flags of the remote control.                      *)
SetRemote(th) ==
  /\ \/ Does(th, "setPending", <<>>) /\ pendingRemoteDisable' = TRUE
        /\ UNCHANGED remotelyDisabled
     \/ Does(th, "clearPending", <<>>) /\ pendingRemoteDisable' = FALSE
        /\ UNCHANGED remotelyDisabled
     \/ Does(th, "setDisabled", <<>>) /\ remotelyDisabled' = TRUE
        /\ UNCHANGED pendingRemoteDisable
     \/ Does(th, "clearDisabled", <<>>) /\ remotelyDisabled' = FALSE
        /\ UNCHANGED pendingRemoteDisable
  /\ UNCHANGED <<receiver, settings, others>>

-------------------------------------------------------------------------------
(* GPSLogger on the main thread.                                           *)

(* A pending request is carried out with the location that is logged.      *)
LogLocation ==
  /\ Does("main", "logLocation", When(pendingRemoteDisable,
          <<"clearPending">> \o stopListening \o <<"setDisabled">>))
  /\ UNCHANGED <<receiver, remote, settings, others>>

(* Mutant: the restart is posted before stopListening removes the timers.  *)
CheckIfTimedOutPostsFirst ==
  /\ \E known \in BOOLEAN :
       Does("main", "checkIfTimedOut", When(listeningForLocationUpdates,
            When(known, <<"logLocation">>) \o <<"settlePending", "postRestart">>
              \o stopListening))
  /\ UNCHANGED <<receiver, remote, settings, others>>

(* checkIfTimedOut: the last known location, if any, is logged first.      *)
CheckIfTimedOut ==
  /\ \E known \in BOOLEAN :
       Does("main", "checkIfTimedOut", When(listeningForLocationUpdates,
            When(known, <<"logLocation">>) \o stopListening
              \o <<"settlePending", "postRestart">>))
  /\ UNCHANGED <<receiver, remote, settings, others>>

SettlePending ==
  /\ Does("main", "settlePending",
          When(pendingRemoteDisable, <<"setDisabled", "clearPending">>))
  /\ UNCHANGED <<receiver, remote, settings, others>>

(* Mutant: nothing is posted.                                              *)
PostRestartNever ==
  /\ Does("main", "postRestart", <<>>)
  /\ UNCHANGED <<receiver, remote, settings, others>>

PostRestart ==
  /\ Does("main", "postRestart", <<>>)
  /\ restarts' = IF remotelyDisabled THEN restarts ELSE restarts + 1
  /\ UNCHANGED <<registered, listeningForLocationUpdates, timeouts, remote, settings,
                 others>>

RestartGPSUpdates ==
  /\ Does("main", "restart", When(~remotelyDisabled /\ pluginEnabled, startListening))
  /\ UNCHANGED <<receiver, remote, settings, others>>

GPSStart ==
  /\ Does("main", "gpsStart", When(prefs.gps, startListening))
  /\ pluginEnabled' = prefs.gps /\ gpsTimeoutInMillis' = prefs.timeout
  /\ UNCHANGED <<receiver, remote, clustererEnabled, manageGPS, others>>

GPSStop ==
  /\ Does("main", "gpsStop", When(pluginEnabled, stopListening))
  /\ UNCHANGED <<receiver, remote, settings, others>>

(* onPreferenceChanged, then changePluginEnabledStatus.                    *)
GPSPreferenceChanged ==
  /\ Does("main", "gpsPreference",
          CASE pluginEnabled /\ prefs.gps  -> stopListening \o <<"readTimeout">>
                                                \o startListening
            [] pluginEnabled /\ ~prefs.gps -> <<"gpsStop", "gpsOff">>
            [] ~pluginEnabled /\ prefs.gps -> <<"gpsStart">>
            [] OTHER                       -> <<>>)
  /\ UNCHANGED <<receiver, remote, settings, others>>

GPSSetting ==
  /\ \/ Does("main", "readTimeout", <<>>) /\ gpsTimeoutInMillis' = prefs.timeout
        /\ UNCHANGED pluginEnabled
     \/ Does("main", "gpsOff", <<>>) /\ pluginEnabled' = FALSE
        /\ UNCHANGED gpsTimeoutInMillis
  /\ UNCHANGED <<receiver, remote, clustererEnabled, manageGPS, others>>

-------------------------------------------------------------------------------
(* LocationClusterer: on the main thread, and its consumer.                *)

ClustererStart ==
  /\ Does("main", "clustererStart", <<>>)
  /\ clustererEnabled' = prefs.clusterer /\ manageGPS' = prefs.manage
  /\ consuming' = (consuming \/ prefs.clusterer)
  /\ UNCHANGED <<receiver, remote, pluginEnabled, gpsTimeoutInMillis, prefs, serving,
                 previouslyMoving, managed>>

(* Mutant: onPluginStop is not synchronized with consume.                  *)
ClustererStopUnlocked ==
  /\ Does("main", "clustererStop", <<>>)
  /\ consuming' = FALSE
  /\ UNCHANGED <<receiver, remote, settings, prefs, serving, previouslyMoving,
                 managed>>

(* onPluginStop waits for the monitor that consume holds.                  *)
ClustererStop ==
  /\ Idle("consumer") /\ Does("main", "clustererStop", <<>>)
  /\ consuming' = FALSE
  /\ UNCHANGED <<receiver, remote, settings, prefs, serving, previouslyMoving,
                 managed>>

ClustererPreferenceChanged ==
  /\ Does("main", "clustererPreference",
          CASE clustererEnabled /\ ~prefs.clusterer -> <<"clustererStop", "clustererOff">>
            [] ~clustererEnabled /\ prefs.clusterer -> <<"clustererStart">>
            [] OTHER                                -> <<>>)
  /\ manageGPS' = prefs.manage
  /\ UNCHANGED <<receiver, remote, pluginEnabled, gpsTimeoutInMillis, clustererEnabled,
                 others>>

ClustererOff ==
  /\ Does("main", "clustererOff", <<>>) /\ clustererEnabled' = FALSE
  /\ UNCHANGED <<receiver, remote, pluginEnabled, gpsTimeoutInMillis, manageGPS, others>>

(* consume: an observation makes the user move or stand still.             *)
Consume(moving) ==
  /\ consuming /\ manageGPS /\ Idle("consumer") /\ moving # previouslyMoving
  /\ todo' = [todo EXCEPT !["consumer"] =
                IF moving THEN enable ELSE disableAfterNextScan]
  /\ previouslyMoving' = moving /\ managed' = TRUE
  /\ UNCHANGED <<receiver, remote, settings, prefs, serving, consuming>>

-------------------------------------------------------------------------------
(* The main thread takes up something new.                                 *)

Begins(program) == Idle("main") /\ todo' = [todo EXCEPT !["main"] = program]

(* HSService.onStart starts output plugins before input plugins, and       *)
(* onDestroy stops them in the opposite order.                             *)
OnStart ==
  /\ ~serving /\ Begins(<<"clustererStart", "gpsStart">>)
  /\ serving' = TRUE
  /\ UNCHANGED <<receiver, remote, settings, prefs, consuming, previouslyMoving,
                 managed>>

OnDestroy ==
  /\ serving /\ Begins(<<"gpsStop", "clustererStop">>)
  /\ serving' = FALSE
  /\ UNCHANGED <<receiver, remote, settings, prefs, consuming, previouslyMoving,
                 managed>>

(* The user edits the preferences; the service, if it runs, is told.       *)
PreferencesChanged(p) ==
  /\ Begins(When(serving, <<"gpsPreference", "clustererPreference">>))
  /\ p # prefs /\ prefs' = p
  /\ UNCHANGED <<receiver, remote, settings, serving, consuming, previouslyMoving,
                 managed>>

OnLocationChanged ==
  /\ registered /\ Begins(<<"logLocation">>)
  /\ UNCHANGED <<receiver, remote, settings, others>>

TimeoutFires ==
  /\ timeouts > 0 /\ timeouts' = timeouts - 1
  /\ Begins(<<"checkIfTimedOut">>)
  /\ UNCHANGED <<registered, listeningForLocationUpdates, restarts, remote, settings,
                 others>>

RestartFires ==
  /\ restarts > 0 /\ restarts' = restarts - 1
  /\ Begins(<<"settlePending", "restart">>)
  /\ UNCHANGED <<registered, listeningForLocationUpdates, timeouts, remote, settings,
                 others>>

-------------------------------------------------------------------------------

Listening(th) ==
  \/ RemoveAllTimers(th) \/ TestFlag(th) \/ Receiver(th) \/ SetFlag(th)
  \/ PostTimeout(th) \/ SetRemote(th)

Main ==
  \/ Listening("main") \/ LogLocation \/ CheckIfTimedOut \/ SettlePending
  \/ PostRestart \/ RestartGPSUpdates \/ GPSStart \/ GPSStop
  \/ GPSPreferenceChanged \/ GPSSetting \/ ClustererStart \/ ClustererStop
  \/ ClustererPreferenceChanged \/ ClustererOff

Next ==
  \/ Main \/ Listening("consumer")
  \/ \E moving \in BOOLEAN : Consume(moving)
  \/ OnStart \/ OnDestroy \/ OnLocationChanged \/ TimeoutFires \/ RestartFires
  \/ \E p \in Preferences : PreferencesChanged(p)

Spec == Init /\ [][Next]_vars

(* Threads finish what they do, and timers fire once the main thread is    *)
(* idle; it may be idle only now and then.                                 *)
FairSpec ==
  /\ Spec /\ WF_vars(Main) /\ WF_vars(Listening("consumer"))
  /\ SF_vars(TimeoutFires) /\ SF_vars(RestartFires)

-------------------------------------------------------------------------------

Operations ==
  {"removeAllTimers", "ifNotListening", "ifListening", "requestUpdates", "removeUpdates",
   "setListening", "clearListening", "postTimeout", "setPending", "clearPending",
   "setDisabled", "clearDisabled", "logLocation", "checkIfTimedOut", "settlePending",
   "postRestart", "restart", "gpsStart", "gpsStop", "gpsPreference", "readTimeout",
   "gpsOff", "clustererStart", "clustererStop", "clustererPreference", "clustererOff"}

TypeOK ==
  /\ prefs \in Preferences /\ serving \in BOOLEAN /\ todo \in [Thread -> Seq(Operations)]
  /\ registered \in BOOLEAN /\ listeningForLocationUpdates \in BOOLEAN
  /\ timeouts \in Nat /\ restarts \in Nat
  /\ remotelyDisabled \in BOOLEAN /\ pendingRemoteDisable \in BOOLEAN
  /\ pluginEnabled \in BOOLEAN /\ gpsTimeoutInMillis \in BOOLEAN
  /\ clustererEnabled \in BOOLEAN /\ manageGPS \in BOOLEAN
  /\ consuming \in BOOLEAN /\ previouslyMoving \in BOOLEAN /\ managed \in BOOLEAN

Quiet == \A th \in Thread : Idle(th)

(* While the service runs with GPS logging on, the receiver is on or is    *)
(* about to be restarted: no order of timeouts, restarts and changes of    *)
(* preferences leaves it off.  It holds until the consumer first controls  *)
(* the GPS: enable, on its thread, races with a disable that the main      *)
(* thread is carrying out.                                                 *)
GPSAlive ==
  Quiet /\ ~managed /\ serving /\ pluginEnabled => registered \/ restarts > 0

(* Until the consumer first controls the GPS, the receiver is off when     *)
(* nobody wants it: while the service does not run, where nothing posted   *)
(* will turn it on again either, and, as the preference says, "GPS Logging *)
(* is off." while the plugin is disabled.  Not so afterwards: enable tests *)
(* neither, and turns a stopped or disabled logger's receiver on.          *)
OffWhenUnused ==
  Quiet /\ ~managed =>
    /\ ~serving => ~registered /\ timeouts = 0 /\ restarts = 0
    /\ serving /\ ~pluginEnabled => ~registered

(* Once the clusterer is stopped its consumer does nothing more: it never  *)
(* controls the GPS, or uses the closed cluster database, late.            *)
ConsumerStops == ~consuming => Idle("consumer")

(* A GPS without a fix is tried again and again: if the service runs with  *)
(* GPS logging on from some time on, and the consumer never controls the   *)
(* GPS, the receiver is on again and again.                                *)
GPSRetries ==
  []~managed /\ <>[](serving /\ pluginEnabled) => []<>registered

===============================================================================
