------------------------------- MODULE Session -------------------------------
(***************************************************************************)
(* What the session (mqtt_app_start and mqtt_event_handler) promises to    *)
(* the rest of the device: which clients exist and run, which one ctrl_tsk *)
(* publishes on, what the service state says, who is in a start of the     *)
(* session, and who has called esp_restart.  The tokens, the heap and the  *)
(* buffers are inside MqttSession.                                         *)
(***************************************************************************)

CONSTANTS
  Client,   \* the clients the heap has room for
  Ctrl,     \* the task that runs ctrl_tsk
  NULL      \* the null handle

VARIABLES
  asked,              \* has ctrl_tsk called mqtt_app_start_main?
  starting,           \* the threads in mqtt_app_start
  overlapped,         \* two of them were at a time
  life,               \* of each client: without a task ("made"), or with one
  mqttc,
  mqtt_service_state,
  restarting,         \* the client tasks in esp_restart
  wifi_connect

vars == <<asked, starting, overlapped, life, mqttc, mqtt_service_state, restarting, wifi_connect>>

Thread == {Ctrl} \cup Client

TypeOK ==
  /\ asked \in BOOLEAN /\ overlapped \in BOOLEAN
  /\ starting \subseteq Thread /\ restarting \subseteq Client
  /\ life \in [Client -> {"none", "made", "waiting", "connected"}]
  /\ mqttc \in Client \cup {NULL}
  /\ mqtt_service_state \in {"ERROR", "CONNECTED", "DISCONNECTED"}
  /\ wifi_connect \in BOOLEAN

Init ==
  /\ asked = FALSE
  /\ starting = {} /\ overlapped = FALSE
  /\ life = [c \in Client |-> "none"]
  /\ mqttc = NULL
  /\ mqtt_service_state = "ERROR"
  /\ restarting = {}
  /\ wifi_connect = FALSE

Enter(t) ==
  /\ starting' = starting \cup {t}
  /\ overlapped' = (overlapped \/ starting # {})

CtrlStart ==
  /\ ~asked /\ wifi_connect
  /\ asked' = TRUE
  /\ Enter(Ctrl)
  /\ UNCHANGED <<life, mqttc, mqtt_service_state, restarting, wifi_connect>>

------------------------------------------------------------------------------
(* A start, in any thread.                                                 *)

\* The handle is assigned once the token is made: a new client, or NULL.
Assign(t) ==
  /\ t \in starting
  /\ \/ \E c \in Client :
          life[c] = "none" /\ life' = [life EXCEPT ![c] = "made"] /\ mqttc' = c
     \/ mqttc' = NULL /\ UNCHANGED life
  /\ UNCHANGED <<asked, starting, overlapped, mqtt_service_state, restarting, wifi_connect>>

\* The client of the handle, which another start may have assigned, gets its task.
Run(t) ==
  /\ t \in starting
  /\ mqttc # NULL /\ life[mqttc] = "made"
  /\ life' = [life EXCEPT ![mqttc] = "waiting"]
  /\ UNCHANGED <<asked, starting, overlapped, mqttc, mqtt_service_state, restarting, wifi_connect>>

\* With or without a client: no caller learns it.
Leave(t) ==
  /\ t \in starting
  /\ starting' = starting \ {t}
  /\ UNCHANGED <<asked, overlapped, life, mqttc, mqtt_service_state, restarting, wifi_connect>>

------------------------------------------------------------------------------
(* The events of a client, in its task.                                    *)

Free(c) == c \notin starting \cup restarting

\* Mutant: the service state is left alone.
OnConnected_NoState(c) ==
  /\ life[c] = "waiting" /\ Free(c)
  /\ life' = [life EXCEPT ![c] = "connected"]
  /\ UNCHANGED <<asked, starting, overlapped, mqttc, mqtt_service_state, restarting, wifi_connect>>

OnConnected(c) ==
  /\ life[c] = "waiting" /\ Free(c)
  /\ life' = [life EXCEPT ![c] = "connected"]
  /\ mqtt_service_state' = "CONNECTED"
  /\ UNCHANGED <<asked, starting, overlapped, mqttc, restarting, wifi_connect>>

\* The connection is lost, which the handler has yet to hear.
Lose(c) ==
  /\ life[c] = "connected"
  /\ life' = [life EXCEPT ![c] = "waiting"]
  /\ UNCHANGED <<asked, starting, overlapped, mqttc, mqtt_service_state, restarting, wifi_connect>>

OnError(c) ==
  /\ life[c] = "waiting" /\ Free(c)
  /\ mqtt_service_state' = "ERROR"
  /\ UNCHANGED <<asked, starting, overlapped, life, mqttc, restarting, wifi_connect>>

OnDisconnected(c) ==
  /\ life[c] = "waiting" /\ Free(c)
  /\ mqtt_service_state' = "DISCONNECTED"
  /\ \/ wifi_connect /\ Enter(c) /\ UNCHANGED restarting
     \/ ~wifi_connect /\ restarting' = restarting \cup {c} /\ UNCHANGED <<starting, overlapped>>
  /\ UNCHANGED <<asked, life, mqttc, wifi_connect>>

------------------------------------------------------------------------------
WifiChange ==
  /\ wifi_connect' = ~wifi_connect
  /\ UNCHANGED <<asked, starting, overlapped, life, mqttc, mqtt_service_state, restarting>>

\* Of its own the session brings the device down only by esp_restart, by a start
\* that is under way, or, once two starts have overlapped, at any time.
MayReset == restarting # {} \/ starting # {} \/ overlapped

Anew ==
  /\ asked' = FALSE
  /\ starting' = {} /\ overlapped' = FALSE
  /\ life' = [c \in Client |-> "none"]
  /\ mqttc' = NULL
  /\ mqtt_service_state' = "ERROR"
  /\ restarting' = {}
  /\ wifi_connect' = FALSE

Reset == MayReset /\ Anew

Next ==
  \/ CtrlStart
  \/ \E t \in Thread : Assign(t) \/ Run(t) \/ Leave(t)
  \/ \E c \in Client : OnConnected(c) \/ Lose(c) \/ OnError(c) \/ OnDisconnected(c)
  \/ WifiChange
  \/ Reset

Spec == Init /\ [][Next]_vars
==============================================================================
