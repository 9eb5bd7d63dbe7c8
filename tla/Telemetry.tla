------------------------------ MODULE Telemetry ------------------------------
(***************************************************************************)
(* The control task (ctrl_tsk of app_main.c) and the Modbus master         *)
(* (modbus.c): it brings the master up, waits for WiFi, starts the MQTT    *)
(* session, and then reads the registers of the generator set, formats     *)
(* those of interest into a payload and publishes it, every 10 seconds.    *)
(*                                                                         *)
(* The session around it, whose threads write the state and the handle     *)
(* between any two steps of this task, is what Session promises and        *)
(* MqttSession implements.  What a register holds is reduced to the read   *)
(* it comes from.                                                          *)
(***************************************************************************)
EXTENDS Integers, Sequences, FiniteSets

CONSTANTS Client, Ctrl, NULL   \* as in MqttSession

ASSUME CtrlAssumption == Ctrl \notin Client
ASSUME NullAssumption == NULL \notin Client

VARIABLES
  pc,                 \* where ctrl_tsk stands
  step,               \* the steps of master_init that succeeded
  array_modbus,       \* modbus.c:59: the read each register comes from
  payload_char,       \* the registers of the payload, as array_modbus had them
  read,               \* the result of the read of this cycle
  everRead,           \* history: a read succeeded since the boot
  refused,            \* history: a new client could not be made while one had a task
  asked, starting, overlapped, life, mqttc,   \* Session
  mqtt_service_state, restarting, wifi_connect

modbus  == <<step, array_modbus, read, everRead>>
session == <<asked, starting, overlapped, life, mqttc, mqtt_service_state,
             restarting, wifi_connect>>
vars    == <<pc, modbus, payload_char, refused, session>>

Sess == INSTANCE Session

NUM_REG   == 86    \* modbus.c:83
Registers == 0..127

\* The registers of the payload, by the index in array_modbus.
Published == (5..8) \cup (14..25) \cup (61..63) \cup (66..69) \cup (76..78) \cup (82..84)

\* The calls of master_init, each of which may fail.
MasterSteps == <<"mbc_master_init", "mbc_master_setup", "uart_set_pin",
                 "mbc_master_start", "uart_set_mode", "mbc_master_set_descriptor">>

Age   == {"zeros", "old", "new"}   \* never read, read in an earlier cycle, in this one
Place == {"none", "master", "wait", "start", "request", "test", "format", "publish",
          "sleep", "panic"}

TypeOK ==
  /\ pc \in Place
  /\ step \in 0..Len(MasterSteps)
  /\ array_modbus \in [Registers -> Age]
  /\ payload_char \in [Published -> Age]
  /\ read \in {"none", "ok", "failed"}
  /\ everRead \in BOOLEAN /\ refused \in BOOLEAN
  /\ Sess!TypeOK

Init ==
  /\ pc = "none" /\ step = 0
  /\ array_modbus = [r \in Registers |-> "zeros"]
  /\ payload_char = [r \in Published |-> "zeros"]
  /\ read = "none" /\ everRead = FALSE
  /\ refused = FALSE
  /\ Sess!Init

------------------------------------------------------------------------------
(* ctrl_tsk before its loop.                                               *)

\* xTaskCreatePinnedToCore, at the end of app_main.
Create ==
  /\ pc = "none" /\ pc' = "master"
  /\ UNCHANGED <<modbus, payload_char, refused, session>>

\* A failed step makes master_init return early, and ESP_ERROR_CHECK abort.
MasterInit ==
  /\ pc = "master"
  /\ \/ /\ step' = step + 1
        /\ pc' = IF step' = Len(MasterSteps) THEN "wait" ELSE "master"
     \/ pc' = "panic" /\ UNCHANGED step
  /\ UNCHANGED <<array_modbus, payload_char, read, everRead, refused, session>>

\* The wait for WiFi, and the call of mqtt_app_start_main; InStart is its inside.
WaitWifi ==
  /\ pc = "wait" /\ pc' = "start"
  /\ Sess!CtrlStart
  /\ UNCHANGED <<modbus, payload_char, refused>>

------------------------------------------------------------------------------
(* request_modbus_info: CID 0 is NUM_REG holding registers from 0, which   *)
(* go to array_modbus; on an error the array is left as it is.             *)

Fill(n) == [r \in Registers |-> IF r < n THEN "new"
                                ELSE IF array_modbus[r] = "new" THEN "old"
                                ELSE array_modbus[r]]

\* Mutant: the characteristic ends two registers early.
ReadSucceeds_TooFew ==
  /\ pc = "request" /\ pc' = "test"
  /\ array_modbus' = Fill(NUM_REG - 2)
  /\ read' = "ok" /\ everRead' = TRUE
  /\ UNCHANGED <<step, payload_char, refused, session>>

ReadSucceeds ==
  /\ pc = "request"
  /\ array_modbus' = Fill(NUM_REG)
  /\ read' = "ok" /\ everRead' = TRUE
  /\ pc' = "test"
  /\ UNCHANGED <<step, payload_char, refused, session>>

\* Mutant: nothing is published after a read that failed.
ReadFails_Skips ==
  /\ pc = "request" /\ pc' = "sleep"
  /\ array_modbus' = Fill(0)
  /\ read' = "failed"
  /\ UNCHANGED <<step, everRead, payload_char, refused, session>>

\* No answer, a bad CRC, an exception code: logged, and nothing else.
ReadFails ==
  /\ pc = "request"
  /\ array_modbus' = Fill(0)
  /\ read' = "failed"
  /\ pc' = "test"
  /\ UNCHANGED <<step, everRead, payload_char, refused, session>>

------------------------------------------------------------------------------
(* The payload.  The state is tested once, before it is formatted.         *)

\* Mutant: it publishes in every state.
TestState_Dropped ==
  /\ pc = "test" /\ pc' = "format"
  /\ UNCHANGED <<modbus, payload_char, refused, session>>

TestState ==
  /\ pc = "test"
  /\ pc' = IF mqtt_service_state = "CONNECTED" THEN "format" ELSE "sleep"
  /\ UNCHANGED <<modbus, payload_char, refused, session>>

\* Mutant: it takes the whole array for the payload.
FormatPayload_All ==
  /\ pc = "format" /\ pc' = "publish"
  /\ payload_char' = array_modbus
  /\ UNCHANGED <<modbus, refused, session>>

FormatPayload ==
  /\ pc = "format"
  /\ payload_char' = [r \in Published |-> array_modbus[r]]
  /\ pc' = "publish"
  /\ UNCHANGED <<modbus, refused, session>>

\* esp_mqtt_client_publish reads mqttc again, and may not survive NULL (Reset).
\* A payload it does not take is lost: the result is only logged.
Publish ==
  /\ pc = "publish" /\ pc' = "sleep"
  /\ UNCHANGED <<modbus, payload_char, refused, session>>

\* Mutant: the loop begins above the wait.
Sleep_ToWait ==
  /\ pc = "sleep"
  /\ pc' = "wait"
  /\ UNCHANGED <<modbus, payload_char, refused, session>>

Sleep ==
  /\ pc = "sleep"
  /\ pc' = "request"
  /\ UNCHANGED <<modbus, payload_char, refused, session>>

------------------------------------------------------------------------------
(* The session: a start in ctrl_tsk or in the task of a client, and the    *)
(* events of the clients.                                                  *)

Running == {c \in Client : life[c] \in {"waiting", "connected"}}

\* refused: the handle becomes NULL while a client has a task.
InStart(t) ==
  /\ \/ /\ Sess!Assign(t)
        /\ refused' = (refused \/ (mqttc' = NULL /\ Running # {}))
        /\ UNCHANGED pc
     \/ Sess!Run(t) /\ UNCHANGED <<pc, refused>>
     \/ /\ Sess!Leave(t)
        /\ pc' = IF t = Ctrl THEN "request" ELSE pc
        /\ UNCHANGED refused
  /\ UNCHANGED <<modbus, payload_char>>

OnEvent(c) ==
  /\ Sess!OnConnected(c) \/ Sess!Lose(c) \/ Sess!OnError(c) \/ Sess!OnDisconnected(c)
  /\ UNCHANGED <<pc, modbus, payload_char, refused>>

WifiChange ==
  /\ Sess!WifiChange
  /\ UNCHANGED <<pc, modbus, payload_char, refused>>

\* A panic of ctrl_tsk, the end of esp_restart, or what a start does to the memory.
Reset ==
  /\ pc = "panic" \/ Sess!MayReset \/ (pc = "publish" /\ mqttc = NULL)
  /\ pc' = "none" /\ step' = 0
  /\ array_modbus' = [r \in Registers |-> "zeros"]
  /\ payload_char' = [r \in Published |-> "zeros"]
  /\ read' = "none" /\ everRead' = FALSE
  /\ refused' = FALSE
  /\ Sess!Anew

CtrlTask ==
  \/ MasterInit \/ WaitWifi
  \/ ReadSucceeds \/ ReadFails
  \/ TestState \/ FormatPayload \/ Publish \/ Sleep

Others ==
  \/ \E t \in Sess!Thread : InStart(t)
  \/ \E c \in Client : OnEvent(c)
  \/ WifiChange

Next == Create \/ CtrlTask \/ Others \/ Reset

Spec == Init /\ [][Next]_vars

(* ctrl_tsk is scheduled whenever it can run: every call it makes returns, *)
(* its start of the session included, as a Modbus request times out and a  *)
(* publish waits for a client lock that handlers hold for a bounded time.  *)
(* A reset that was asked for happens.                                     *)
FairSpec ==
  /\ Spec
  /\ WF_vars(CtrlTask)
  /\ WF_vars(InStart(Ctrl) /\ Ctrl \notin starting')
  /\ WF_vars((pc = "panic" \/ restarting # {}) /\ Reset)

------------------------------------------------------------------------------
\* The read an array_modbus that is up to date comes from.
LatestRead == IF read = "ok" THEN "new" ELSE IF everRead THEN "old" ELSE "zeros"

\* app_main.c:273 to 432: a payload is never a mixture.  All of its registers are
\* of this cycle's read if that succeeded, else of the last that did, else the
\* zeros of a device that has read nothing since it booted.
PayloadIsOneRead ==
  pc = "publish" =>
    \A r \in Published : payload_char[r] = LatestRead

\* app_main.c:276 and 432: mqttc is read long after the state was tested, while
\* the tasks of the clients assign it (mqtt.c:115).  It is NULL at the publish
\* only if a new client could not be made while an old one stayed.
NullOnlyAfterRefusal == pc = "publish" /\ mqttc = NULL => refused /\ Running # {}

\* app_main.c:271: while the session stays connected, payloads go out again and
\* again, whether the generator set answers or not.
TelemetryGoesOn ==
  <>[](mqtt_service_state = "CONNECTED") => []<>(pc = "publish")

\* Seen from the rest of the device a round publishes from the moment the state was
\* tested, and does nothing else.
ctrl == CASE pc \in {"request", "test", "sleep"} -> "loop"
          [] pc \in {"format", "publish"}        -> "publish"
          [] OTHER                               -> pc

Ctl == INSTANCE Control

\* ctrl_tsk, with its reads that fail and its tests of a state others write, does to
\* the rest of the device what Control allows: one start, after WiFi, a publication
\* only after a round that found CONNECTED, and a panic only of master_init.
ImplementsControl == Ctl!Spec

==============================================================================
