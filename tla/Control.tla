------------------------------- MODULE Control -------------------------------
(***************************************************************************)
(* What the control task (ctrl_tsk) does to the rest of the device, over   *)
(* the session as Session promises it: when it starts the session, when it *)
(* publishes, and how it brings the device down.  The inside of a round is *)
(* in Telemetry.                                                           *)
(***************************************************************************)

CONSTANTS Client, Ctrl, NULL   \* as in Session

VARIABLES
  ctrl,                                       \* where ctrl_tsk stands
  asked, starting, overlapped, life, mqttc,   \* Session
  mqtt_service_state, restarting, wifi_connect

session == <<asked, starting, overlapped, life, mqttc, mqtt_service_state,
             restarting, wifi_connect>>
vars    == <<ctrl, session>>

Sess == INSTANCE Session

TypeOK ==
  /\ ctrl \in {"none", "master", "wait", "start", "loop", "publish", "panic"}
  /\ Sess!TypeOK

Init == ctrl = "none" /\ Sess!Init

Create == ctrl = "none" /\ ctrl' = "master" /\ UNCHANGED session

\* ESP_ERROR_CHECK(master_init()).
MasterInit ==
  /\ ctrl = "master"
  /\ ctrl' \in {"wait", "panic"}
  /\ UNCHANGED session

\* The wait for WiFi, and the only start this task makes.
CtrlStart == ctrl = "wait" /\ ctrl' = "start" /\ Sess!CtrlStart

InStart(t) ==
  \/ (Sess!Assign(t) \/ Sess!Run(t)) /\ UNCHANGED ctrl
  \/ Sess!Leave(t) /\ ctrl' = IF t = Ctrl THEN "loop" ELSE ctrl

\* Mutant: the loop ends with the first publication, and the task is deleted.
Publish_Once ==
  /\ ctrl = "loop" /\ mqtt_service_state = "CONNECTED"
  /\ ctrl' = "deleted"
  /\ UNCHANGED session

\* A round that finds CONNECTED publishes on mqttc; another one changes nothing here.
Publish ==
  /\ ctrl = "loop" /\ mqtt_service_state = "CONNECTED"
  /\ ctrl' = "publish"
  /\ UNCHANGED session

Delay == ctrl = "publish" /\ ctrl' = "loop" /\ UNCHANGED session

\* The events of a client.
Connected(c)    == Sess!OnConnected(c) /\ UNCHANGED ctrl
Lost(c)         == Sess!Lose(c) /\ UNCHANGED ctrl
Error(c)        == Sess!OnError(c) /\ UNCHANGED ctrl
Disconnected(c) == Sess!OnDisconnected(c) /\ UNCHANGED ctrl

WifiChange == Sess!WifiChange /\ UNCHANGED ctrl

\* What a start of a session does to the memory (see Session) may bring the device
\* down, and so may the publication on a NULL handle.
Crash == starting # {} \/ overlapped \/ (ctrl = "publish" /\ mqttc = NULL)

Anew == ctrl' = "none" /\ Sess!Anew

Reset ==
  /\ ctrl = "panic" \/ restarting # {} \/ Crash
  /\ Anew

Next ==
  \/ Create \/ MasterInit \/ CtrlStart \/ Publish \/ Delay
  \/ \E t \in Sess!Thread : InStart(t)
  \/ \E c \in Client : Connected(c) \/ Lost(c) \/ Error(c) \/ Disconnected(c)
  \/ WifiChange
  \/ Reset

Spec == Init /\ [][Next]_vars
==============================================================================
