------------------------------- MODULE Gateway -------------------------------
(***************************************************************************)
(* The device: app_main, the event task with the handlers of the network,  *)
(* ctrl_tsk, the client tasks, and the reset that takes everything back to *)
(* app_main.  The components are what their modules promise: Network       *)
(* (implemented by WifiConnect), TimeService (by Fsntp), Control (by       *)
(* Telemetry) over Session (by MqttSession), and the steps of Shutdown.    *)
(***************************************************************************)

CONSTANTS Client, Ctrl, NULL   \* as in MqttSession

ASSUME CtrlAssumption == Ctrl \notin Client
ASSUME NullAssumption == NULL \notin Client

VARIABLES
  boot,                                       \* app_main
  ctrl,                                       \* Control
  stage, addressed, wifi_connect,             \* Network
  recovery, known,                            \* TimeService
  asked, starting, overlapped, life, mqttc,   \* Session
  mqtt_service_state, restarting,
  at, found, registered, running, driver, netif   \* Shutdown

network  == <<stage, addressed>>
time     == <<recovery, known>>
session  == <<asked, starting, overlapped, life, mqttc, mqtt_service_state, restarting>>
shutdown == <<at, found, registered, running, driver, netif>>
vars     == <<boot, ctrl, network, wifi_connect, time, session, shutdown>>

Net     == INSTANCE Network WITH Interfaces <- {"wifi"}
Service == INSTANCE TimeService WITH stage <- recovery
Ctl     == INSTANCE Control
Stop    == INSTANCE Shutdown WITH Task <- Client

TypeOK ==
  /\ boot \in {"init", "connect", "time", "create", "done"}
  /\ stage \in {"connecting", "connected", "panic"}
  /\ addressed \subseteq {"wifi"}
  /\ recovery \in {"recovering", "done"} /\ known \in BOOLEAN
  /\ Ctl!TypeOK
  /\ Stop!TypeOK

Init ==
  /\ boot = "init"
  /\ Net!Init /\ Service!Init /\ Ctl!Init /\ Stop!Init

------------------------------------------------------------------------------
(* app_main.                                                               *)

Boot(from, to) == boot = from /\ boot' = to

\* The initialisations and the start in fisi_example_connect.
StartNetwork ==
  /\ Boot("init", "connect")
  /\ Stop!Start
  /\ UNCHANGED <<ctrl, network, wifi_connect, time, session>>

\* The rest of fisi_example_connect, which returns with an address.
Connect ==
  /\ Boot("connect", "time")
  /\ Net!Connect
  /\ UNCHANGED <<ctrl, time, session, shutdown>>

\* A failed ESP_ERROR_CHECK of app_main, of the calls it makes, or of
\* on_wifi_disconnect in the event task.
Panic ==
  /\ boot \in {"init", "connect"} \/ running = "disconnect"
  /\ UNCHANGED wifi_connect /\ Net!Panic
  /\ UNCHANGED <<boot, ctrl, time, session, shutdown>>

Answer  == Service!Learn
Discard == Service!Discard

\* The loop over sntp_init_time.
Recover ==
  /\ boot = "time"
  /\ Answer \/ Discard
  /\ UNCHANGED <<boot, ctrl, network, wifi_connect, session, shutdown>>

\* Mutant: a call that failed ends the loop, too.
TimeDone_Anyway ==
  /\ Boot("time", "create")
  /\ recovery' = "done" /\ UNCHANGED known
  /\ UNCHANGED <<ctrl, network, wifi_connect, session, shutdown>>

TimeDone ==
  /\ Boot("time", "create")
  /\ Service!Done
  /\ UNCHANGED <<ctrl, network, wifi_connect, session, shutdown>>

\* xTaskCreatePinnedToCore, whose result is ignored: there may be no task.
CreateCtrl ==
  /\ Boot("create", "done")
  /\ Ctl!Create \/ UNCHANGED <<ctrl, wifi_connect, session>>
  /\ UNCHANGED <<network, time, shutdown>>

------------------------------------------------------------------------------
(* The event task and the handlers of WifiConnect.c.  The flag and the     *)
(* address are written as a handler begins.                                *)

OnWifiConnect ==
  /\ Stop!Begin("connect")
  /\ wifi_connect' = TRUE /\ Net!Flag
  /\ UNCHANGED <<boot, ctrl, time, session>>

OnWifiDisconnect ==
  /\ Stop!Begin("disconnect")
  /\ wifi_connect' = FALSE /\ Net!Flag
  /\ UNCHANGED <<boot, ctrl, time, session>>

\* An IPv6 address that is not of the preferred type does not count.
OnGotIp ==
  /\ \/ Stop!Begin("got_ip") /\ Net!Addressed("wifi")
     \/ Stop!Begin("got_ip6") /\ (Net!Addressed("wifi") \/ UNCHANGED <<network, wifi_connect>>)
  /\ UNCHANGED <<boot, ctrl, time, session>>

EndHandler ==
  /\ Stop!End
  /\ UNCHANGED <<boot, ctrl, network, wifi_connect, time, session>>

------------------------------------------------------------------------------
(* ctrl_tsk, and the session.                                              *)

MasterInit == Ctl!MasterInit /\ UNCHANGED <<boot, network, time, shutdown>>
CtrlStart  == Ctl!CtrlStart /\ UNCHANGED <<boot, network, time, shutdown>>
Publish    == Ctl!Publish /\ UNCHANGED <<boot, network, time, shutdown>>
Delay      == Ctl!Delay /\ UNCHANGED <<boot, network, time, shutdown>>

InStart(t) == Ctl!InStart(t) /\ UNCHANGED <<boot, network, time, shutdown>>

ClientConnected(c) == Ctl!Connected(c) /\ UNCHANGED <<boot, network, time, shutdown>>
ClientLost(c)      == Ctl!Lost(c) /\ UNCHANGED <<boot, network, time, shutdown>>
ClientError(c)     == Ctl!Error(c) /\ UNCHANGED <<boot, network, time, shutdown>>

\* Without WiFi the handler goes through esp_restart into stop.
ClientDisconnected(c) ==
  /\ Ctl!Disconnected(c)
  /\ IF wifi_connect THEN UNCHANGED shutdown ELSE Stop!Enter(c)
  /\ UNCHANGED <<boot, network, time>>

Shutdown(c) ==
  /\ Stop!Step(c)
  /\ UNCHANGED <<boot, ctrl, network, wifi_connect, time, session>>

------------------------------------------------------------------------------
(* The reset: at the end of esp_restart or of a panic, or by a crash (see  *)
(* Control).                                                               *)

Down == stage = "panic" \/ ctrl = "panic" \/ \E c \in Client : at[c] = "reset"

Reset ==
  /\ Down \/ Ctl!Crash
  /\ boot' = "init"
  /\ stage' = "connecting" /\ addressed' = {}
  /\ recovery' = "recovering" /\ known' \in BOOLEAN
  /\ Ctl!Anew
  /\ at' = [c \in Client |-> "out"] /\ found' = {} /\ registered' = {}
  /\ running' = "none" /\ driver' = "off" /\ netif' = FALSE

------------------------------------------------------------------------------
AppMain == StartNetwork \/ Connect \/ TimeDone \/ CreateCtrl

Next ==
  \/ AppMain \/ Panic \/ Recover
  \/ OnWifiConnect \/ OnWifiDisconnect \/ OnGotIp \/ EndHandler
  \/ MasterInit \/ CtrlStart \/ Publish \/ Delay
  \/ \E t \in Ctl!Sess!Thread : InStart(t)
  \/ \E c \in Client :
       ClientConnected(c) \/ ClientLost(c) \/ ClientError(c) \/ ClientDisconnected(c) \/ Shutdown(c)
  \/ Reset

Spec == Init /\ [][Next]_vars

(* Every task that can run is scheduled.  A client tries its connection    *)
(* until the handler has heard how it went, the loop over sntp_init_time   *)
(* gets the time as Fsntp shows (BootGetsTime), a task that waits for the  *)
(* mutex of the event loop gets it between two events, and a reset that is *)
(* due happens.                                                            *)
Fairness ==
  /\ WF_vars(AppMain) /\ SF_vars(TimeDone)
  /\ WF_vars(Answer /\ Recover)
  /\ WF_vars(EndHandler)
  /\ WF_vars(MasterInit) /\ WF_vars(CtrlStart) /\ WF_vars(Publish) /\ WF_vars(Delay)
  /\ \A t \in Ctl!Sess!Thread : WF_vars(InStart(t) /\ t \notin starting')
  /\ \A c \in Client :
       /\ WF_vars(ClientConnected(c) \/ ClientError(c) \/ ClientDisconnected(c))
       /\ SF_vars(Shutdown(c))
  /\ WF_vars(Down /\ Reset)

FairSpec == Spec /\ Fairness

------------------------------------------------------------------------------
(* Properties.                                                             *)

\* A session is started, and with it a token dated, only after the clock was set and the
\* network connected, since this boot, whatever resets came before.
TokensAfterTime ==
  starting # {} \/ (\E c \in Client : life[c] # "none") =>
    known /\ recovery = "done" /\ addressed # {} /\ ctrl \notin {"none", "master", "wait", "panic"}

OrderlyTeardown == Stop!OrderlyTeardown

\* esp_restart brings every task that called it to a reset, however many called it.
RestartCompletes == \A c \in Client : c \in restarting ~> c \notin restarting

\* There is no ctrl_tsk, or its handle has no task that could ever connect, and no start
\* is under way that could give it one.
Silent ==
  /\ boot = "done" /\ starting = {}
  /\ ctrl = "none" \/ (asked /\ (mqttc = NULL \/ life[mqttc] = "made"))

Calm == addressed # {} /\ wifi_connect

Failure == Reset \/ \E c \in Client : ClientLost(c) \/ ClientError(c) \/ ClientDisconnected(c)

\* When the failures stop and WiFi stays, telemetry is published again and again on a
\* client that is connected, unless the device was left silent by a start that failed.
TelemetryReturns ==
  (<>[]Calm /\ <>[][~Failure]_vars) =>
    \/ []<>(ctrl = "publish" /\ mqttc # NULL /\ life[mqttc] = "connected")
    \/ <>[]Silent
==============================================================================
