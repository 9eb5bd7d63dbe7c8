----------------------------- MODULE MqttSession -----------------------------
(***************************************************************************)
(* The MQTT session of the gateway: ctrl_tsk starts a client through       *)
(* mqtt_app_start (mqtt.c), which makes a JWT with xgiotc_gen_JWT          *)
(* (gcpjwt.c); the task of every client delivers its events to             *)
(* mqtt_event_handler (app_main.c), whose DISCONNECTED branch calls        *)
(* mqtt_app_start again, for a new client, in the task of the old one.     *)
(* The threads share the globals jwt, oBuf, mqttc, mqtt_service_state and  *)
(* the heap, without a lock.                                               *)
(*                                                                         *)
(* A step is what a thread does between two uses of the shared state; where *)
(* one step has two uses, the comment of its action says why that is all   *)
(* the same.  A client task is external (the esp-mqtt library) except for  *)
(* its calls of mqtt_event_handler.                                        *)
(***************************************************************************)
EXTENDS FiniteSets, Naturals

CONSTANTS
  Client,   \* the clients the heap has room for; each has a task once started
  Ctrl,     \* the task that runs ctrl_tsk
  Block,    \* the heap blocks left to jwt, oBuf and the parsed private key
  NULL      \* the null pointer

Thread == {Ctrl} \cup Client

ASSUME ThreadAssumption == Ctrl \notin Client
ASSUME NullAssumption   == NULL \notin Client \cup Block

VARIABLES
  pc,                 \* where each thread stands
  frame,              \* the locals of mqtt_app_start and xgiotc_gen_JWT, by thread
  heap,               \* what each block is allocated for, or "free"
  data,               \* what each block holds
  fault,              \* the memory error made so far, if any
  jwt,                \* mqtt.c:68, the token buffer
  oBuf,               \* gcpjwt.c:33, the signature buffer
  mqttc,              \* app_main.c, the handle ctrl_tsk publishes on
  cl,                 \* external: the life of each client
  token,              \* external: the password each client was made with
  mqtt_service_state, \* mqtt.c:66
  wifi_connect,       \* app_main.c, written by the WiFi handlers
  overlapped          \* history: two threads were in mqtt_app_start at a time

vars == <<pc, frame, heap, data, fault, jwt, oBuf, mqttc, cl, token,
          mqtt_service_state, wifi_connect, overlapped>>

memory  == <<heap, data, fault>>
globals == <<jwt, oBuf>>
session == <<mqttc, cl, token, mqtt_service_state>>
history == <<wifi_connect, overlapped>>

------------------------------------------------------------------------------
(* The places a thread can be.                                             *)

InGenerator == {"gen", "obuf", "otest", "sign", "gfail", "encode", "write", "pkfree", "gdone"}
InAppStart  == {"malloc", "cfg", "copy", "print", "init", "start", "release"} \cup InGenerator
InHandler   == {"onConnected", "onError", "onDisconnected"}
Place       == {"waitWifi", "loop", "idle", "restarting"} \cup InAppStart \cup InHandler

InStart(t) == pc[t] \in InAppStart

Pointer == Block \cup {NULL}
Content == {"junk", "jwt"} \cup Thread   \* a thread: the signature it made
Frame   == [jwtstr : Pointer, pk : Pointer, sig : Content, pass : Pointer]

EmptyFrame == [jwtstr |-> NULL, pk |-> NULL, sig |-> "junk", pass |-> NULL]

Panics  == {"double_free", "null_write"}
Running == {"connected", "wait"}

TypeOK ==
  /\ pc \in [Thread -> Place]
  /\ frame \in [Thread -> Frame]
  /\ heap \in [Block -> {"free", "jwt", "obuf", "pk"}]
  /\ data \in [Block -> Content]
  /\ fault \in {"none", "use_after_free"} \cup Panics
  /\ jwt \in Pointer
  /\ oBuf \in Pointer
  /\ mqttc \in Client \cup {NULL}
  /\ cl \in [Client -> {"none", "created", "unstarted"} \cup Running]
  /\ token \in [Client -> {"none", "signed", "junk"}]
  /\ mqtt_service_state \in {"ERROR", "CONNECTED", "DISCONNECTED"}
  /\ wifi_connect \in BOOLEAN
  /\ overlapped \in BOOLEAN
  /\ \A t \in Thread : frame[t] # EmptyFrame => InStart(t)

\* The state after a boot.  The state variable is 0, which is MQTT_SERV_ERROR.
Init ==
  /\ pc = [t \in Thread |-> IF t = Ctrl THEN "waitWifi" ELSE "idle"]
  /\ frame = [t \in Thread |-> EmptyFrame]
  /\ heap = [b \in Block |-> "free"]
  /\ data = [b \in Block |-> "junk"]
  /\ fault = "none"
  /\ jwt = NULL /\ oBuf = NULL /\ mqttc = NULL
  /\ cl = [c \in Client |-> "none"]
  /\ token = [c \in Client |-> "none"]
  /\ mqtt_service_state = "ERROR"
  /\ wifi_connect = FALSE
  /\ overlapped = FALSE

------------------------------------------------------------------------------
(* Moving a thread.                                                        *)

At(t, place) == pc[t] = place /\ fault \notin Panics
Goto(t, place) == pc' = [pc EXCEPT ![t] = place]

\* The call of mqtt_app_start(&mqttc, &mqttcfg).
EnterAppStart(t) ==
  /\ Goto(t, "malloc")
  /\ overlapped' = (overlapped \/ \E u \in Thread \ {t} : InStart(u))

\* Mutant: the locals outlive the call.
ReturnFromAppStart_KeepsFrame(t) ==
  /\ Goto(t, IF t = Ctrl THEN "loop" ELSE "idle")
  /\ UNCHANGED frame

\* Its return: into the loop of ctrl_tsk, or out of the event handler.
ReturnFromAppStart(t) ==
  /\ Goto(t, IF t = Ctrl THEN "loop" ELSE "idle")
  /\ frame' = [frame EXCEPT ![t] = EmptyFrame]

------------------------------------------------------------------------------
(* The heap.  Any allocation may fail.                                     *)

Allocate(b, kind) ==
  /\ heap[b] = "free"
  /\ heap' = [heap EXCEPT ![b] = kind]
  /\ data' = [data EXCEPT ![b] = "junk"]
  /\ UNCHANGED fault

Free(p) ==
  /\ heap' = IF p = NULL THEN heap ELSE [heap EXCEPT ![p] = "free"]
  /\ fault' = IF p # NULL /\ heap[p] = "free" THEN "double_free" ELSE fault
  /\ UNCHANGED data

\* A use of *p: through a dangling pointer it is undefined behaviour.
Use(p) == fault' = IF p = NULL THEN "null_write"
                   ELSE IF heap[p] = "free" THEN "use_after_free" ELSE fault

\* A string that is only read: a null one is printed, or taken for none.
UseString(p) == IF p = NULL THEN UNCHANGED fault ELSE Use(p)

\* What a read of *p may give: a freed block may have been written over.
Read(p) == IF p = NULL THEN {"junk"}
           ELSE IF heap[p] = "free" THEN {"junk", data[p]} ELSE {data[p]}

Write(p, v) ==
  /\ Use(p)
  /\ data' = IF p = NULL THEN data ELSE [data EXCEPT ![p] = v]
  /\ UNCHANGED heap

------------------------------------------------------------------------------
(* mqtt_app_start up to the generator: jwt = malloc(5000).  mqttcfg.uri is *)
(* GCPIOT_BROKER_URI at every call, so the uri tests never divert it.      *)

MallocJwt(t) ==
  /\ At(t, "malloc")
  /\ Goto(t, "gen")
  /\ \/ \E b \in Block : Allocate(b, "jwt") /\ jwt' = b
     \/ jwt' = NULL /\ UNCHANGED memory
  /\ UNCHANGED <<frame, oBuf, session, history>>

------------------------------------------------------------------------------
(* xgiotc_gen_JWT.  Its buffer is called jwtstr and is the value jwt has   *)
(* at the call.  The signature is written by mbedtls_pk_sign through the   *)
(* value oBuf has when the call is made; as the length of the signature    *)
(* and of the token are fixed and fit, the test for a short buffer never   *)
(* fails.  A failed generation returns to the release of jwt.              *)

GenEnter(t) ==
  /\ At(t, "gen")
  /\ \/ \E b \in Block :
          /\ Allocate(b, "pk")
          /\ frame' = [frame EXCEPT ![t].jwtstr = jwt, ![t].pk = b]
          /\ Goto(t, "obuf")
     \/ /\ Goto(t, "release")                  \* mbedtls_pk_parse_key failed
        /\ UNCHANGED <<frame, memory>>
  /\ UNCHANGED <<globals, session, history>>

MallocObuf(t) ==
  /\ At(t, "obuf")
  /\ \/ \E b \in Block : Allocate(b, "obuf") /\ oBuf' = b
     \/ oBuf' = NULL /\ UNCHANGED memory
  /\ Goto(t, "otest")
  /\ UNCHANGED <<frame, jwt, session, history>>

\* if (oBuf == NULL), which another start may have replaced; then oBuf is freed
\* all the same.
TestObuf(t) ==
  /\ At(t, "otest")
  /\ Goto(t, IF oBuf = NULL THEN "gfail" ELSE "sign")
  /\ UNCHANGED <<frame, memory, globals, session, history>>

Sign(t) ==
  /\ At(t, "sign")
  /\ \/ Write(oBuf, t) /\ Goto(t, "encode")
     \/ Goto(t, "gfail") /\ UNCHANGED memory   \* mbedtls_md or mbedtls_pk_sign failed
  /\ UNCHANGED <<frame, globals, session, history>>

\* Mutant: the error path falls through to the free at the end.
FreeObufOnError_FallsThrough(t) ==
  /\ At(t, "gfail") /\ Free(oBuf) /\ Goto(t, "gdone")
  /\ UNCHANGED <<frame, globals, session, history>>

\* Mutant: the error path forgets oBuf.
FreeObufOnError_Forgets(t) ==
  /\ At(t, "gfail") /\ Goto(t, "release")
  /\ UNCHANGED <<frame, memory, globals, session, history>>

\* Mutant: mqtt_app_start does not test the result of the generator.
FreeObufOnError_ResultIgnored(t) ==
  /\ At(t, "gfail") /\ Free(oBuf) /\ Goto(t, "cfg")
  /\ UNCHANGED <<frame, globals, session, history>>

\* The error returns once oBuf is allocated, or was not: pk_context is not freed.
FreeObufOnError(t) ==
  /\ At(t, "gfail")
  /\ Free(oBuf)
  /\ Goto(t, "release")
  /\ frame' = [frame EXCEPT ![t] = EmptyFrame]
  /\ UNCHANGED <<globals, session, history>>

\* base64url_encode of *oBuf into the local base64Signature.
Encode(t) ==
  /\ At(t, "encode")
  /\ Use(oBuf)
  /\ \E v \in Read(oBuf) : frame' = [frame EXCEPT ![t].sig = v]
  /\ Goto(t, "write")
  /\ UNCHANGED <<heap, data, globals, session, history>>

\* sprintf(jwtstr, ...).  A malloc of jwt that failed is found out only here.
WriteJwt(t) ==
  /\ At(t, "write")
  /\ Write(frame[t].jwtstr, IF frame[t].sig = t THEN "jwt" ELSE "junk")
  /\ frame' = [frame EXCEPT ![t].sig = "junk"]
  /\ Goto(t, "pkfree")
  /\ UNCHANGED <<globals, session, history>>

FreePk(t) ==
  /\ At(t, "pkfree")
  /\ Free(frame[t].pk)
  /\ frame' = [frame EXCEPT ![t].pk = NULL]
  /\ Goto(t, "gdone")
  /\ UNCHANGED <<globals, session, history>>

FreeObuf(t) ==
  /\ At(t, "gdone")
  /\ Free(oBuf)
  /\ Goto(t, "cfg")
  /\ UNCHANGED <<frame, globals, session, history>>

------------------------------------------------------------------------------
(* mqtt_app_start after the generator.                                     *)

\* if (jwt != NULL), after the generator has written to it.
TestJwt(t) ==
  /\ At(t, "cfg")
  /\ Goto(t, IF jwt = NULL THEN "release" ELSE "copy")
  /\ frame' = [frame EXCEPT ![t] = EmptyFrame]
  /\ UNCHANGED <<memory, globals, session, history>>

\* mqtt_cfg.password = jwt.
CopyPassword(t) ==
  /\ At(t, "copy")
  /\ frame' = [frame EXCEPT ![t].pass = jwt]
  /\ Goto(t, "print")
  /\ UNCHANGED <<memory, globals, session, history>>

\* printf of *jwt.
PrintJwt(t) ==
  /\ At(t, "print")
  /\ UseString(jwt)
  /\ Goto(t, "init")
  /\ UNCHANGED <<frame, heap, data, globals, session, history>>

\* *mqtt_client = esp_mqtt_client_init(&mqtt_cfg), which copies the password.
\* Without one, which is no token either, the broker refuses the client.
ClientInit(t) ==
  /\ At(t, "init")
  /\ \/ /\ UseString(frame[t].pass)
        /\ \E c \in Client, v \in Read(frame[t].pass) :
             /\ cl[c] = "none"
             /\ cl' = [cl EXCEPT ![c] = "created"]
             /\ token' = [token EXCEPT ![c] = IF v = "jwt" THEN "signed" ELSE "junk"]
             /\ mqttc' = c
     \/ mqttc' = NULL /\ UNCHANGED <<cl, token, fault>>
  /\ Goto(t, "start")
  /\ UNCHANGED <<frame, heap, data, globals, mqtt_service_state, history>>

\* The test of *mqtt_client and esp_mqtt_client_start(*mqtt_client): both read
\* mqttc again, in one step, as a null handle is refused by the second as well.
\* A client that runs already is refused; its task may not be made.
Startable == mqttc # NULL /\ cl[mqttc] \in {"created", "unstarted"}

\* Mutant: the start is forgotten.
ClientStart_Skipped(t) ==
  /\ At(t, "start") /\ Goto(t, "release")
  /\ UNCHANGED <<frame, memory, globals, session, history>>

ClientStart(t) ==
  /\ At(t, "start")
  /\ Goto(t, "release")
  /\ \/ Startable /\ \E s \in {"wait", "unstarted"} : cl' = [cl EXCEPT ![mqttc] = s]
     \/ ~Startable /\ UNCHANGED cl
  /\ UNCHANGED <<frame, memory, globals, token, mqttc, mqtt_service_state, history>>

\* free(jwt) and the return, on every path; no caller looks at the result.  The
\* test of jwt before it, on one path, is that of free.
ReleaseJwt(t) ==
  /\ At(t, "release")
  /\ Free(jwt)
  /\ ReturnFromAppStart(t)
  /\ UNCHANGED <<globals, session, history>>

------------------------------------------------------------------------------
(* ctrl_tsk: it waits for wifi_connect, starts the session once, and goes  *)
(* into its loop.                                                          *)

CtrlStart ==
  /\ At(Ctrl, "waitWifi")
  /\ wifi_connect
  /\ EnterAppStart(Ctrl)
  /\ UNCHANGED <<frame, memory, globals, session, wifi_connect>>

------------------------------------------------------------------------------
(* The task of a client.  External: it connects, loses the connection and  *)
(* waits before it reconnects; a failure reported by the transport or the  *)
(* broker is an ERROR event and then a DISCONNECTED event.  The broker     *)
(* accepts no token that is not a signed JWT, nor one that has expired; as *)
(* any attempt may fail, an expiry takes nothing more than ConnectFails.   *)

ConnectSucceeds(c) ==
  /\ At(c, "idle") /\ cl[c] = "wait"
  /\ wifi_connect /\ token[c] = "signed"
  /\ cl' = [cl EXCEPT ![c] = "connected"]
  /\ Goto(c, "onConnected")
  /\ UNCHANGED <<frame, memory, globals, token, mqttc, mqtt_service_state, history>>

ConnectFails(c) ==
  /\ At(c, "idle") /\ cl[c] = "wait"
  /\ Goto(c, "onError")
  /\ UNCHANGED <<frame, memory, globals, session, history>>

\* A read or write error, or no answer to a ping (no ERROR event then).
LoseConnection(c) ==
  /\ At(c, "idle") /\ cl[c] = "connected"
  /\ cl' = [cl EXCEPT ![c] = "wait"]
  /\ Goto(c, "onError") \/ Goto(c, "onDisconnected")
  /\ UNCHANGED <<frame, memory, globals, token, mqttc, mqtt_service_state, history>>

------------------------------------------------------------------------------
(* mqtt_event_handler, in the task of client c.                            *)

\* Mutant: the CONNECTED event does not set the state.
HandleConnected_NoState(c) ==
  /\ At(c, "onConnected") /\ Goto(c, "idle")
  /\ UNCHANGED <<frame, memory, globals, session, history>>

HandleConnected(c) ==
  /\ At(c, "onConnected")
  /\ mqtt_service_state' = "CONNECTED"
  /\ Goto(c, "idle")
  /\ UNCHANGED <<frame, memory, globals, cl, token, mqttc, history>>

HandleError(c) ==
  /\ At(c, "onError")
  /\ mqtt_service_state' = "ERROR"
  /\ Goto(c, "onDisconnected")   \* the library's next event
  /\ UNCHANGED <<frame, memory, globals, cl, token, mqttc, history>>

\* Mutant: the DISCONNECTED event does not set the state.
HandleDisconnected_NoState(c) ==
  /\ At(c, "onDisconnected")
  /\ \/ wifi_connect /\ EnterAppStart(c)
     \/ ~wifi_connect /\ Goto(c, "restarting") /\ UNCHANGED overlapped
  /\ UNCHANGED <<frame, memory, globals, session, wifi_connect>>

\* Mutant: no esp_restart without WiFi.
HandleDisconnected_NoRestart(c) ==
  /\ At(c, "onDisconnected")
  /\ mqtt_service_state' = "DISCONNECTED"
  /\ \/ wifi_connect /\ EnterAppStart(c)
     \/ ~wifi_connect /\ Goto(c, "idle") /\ UNCHANGED overlapped
  /\ UNCHANGED <<frame, memory, globals, cl, token, mqttc, wifi_connect>>

\* The state is written and wifi_connect read in one step: ctrl_tsk, which reads the
\* state, and the WiFi handlers, which write the flag, share nothing else with it.
HandleDisconnected(c) ==
  /\ At(c, "onDisconnected")
  /\ mqtt_service_state' = "DISCONNECTED"
  /\ \/ wifi_connect /\ EnterAppStart(c)
     \/ ~wifi_connect /\ Goto(c, "restarting") /\ UNCHANGED overlapped
  /\ UNCHANGED <<frame, memory, globals, cl, token, mqttc, wifi_connect>>

------------------------------------------------------------------------------
(* The environment, and the ways a run of the device ends.                 *)

WifiChange ==
  /\ wifi_connect' = ~wifi_connect
  /\ UNCHANGED <<pc, frame, memory, globals, session, overlapped>>

\* Back to Init.
Reboot ==
  /\ pc' = [t \in Thread |-> IF t = Ctrl THEN "waitWifi" ELSE "idle"]
  /\ frame' = [t \in Thread |-> EmptyFrame]
  /\ heap' = [b \in Block |-> "free"] /\ data' = [b \in Block |-> "junk"]
  /\ fault' = "none"
  /\ jwt' = NULL /\ oBuf' = NULL /\ mqttc' = NULL
  /\ cl' = [c \in Client |-> "none"] /\ token' = [c \in Client |-> "none"]
  /\ mqtt_service_state' = "ERROR"
  /\ wifi_connect' = FALSE /\ overlapped' = FALSE

\* The reset at the end of esp_restart, or of a panic.
Restart ==
  /\ fault \in Panics \/ \E t \in Thread : pc[t] = "restarting"
  /\ Reboot

\* Writing to freed memory may bring the device down at any later time.
CorruptionCrash == fault = "use_after_free" /\ Reboot

------------------------------------------------------------------------------
AppStart(t) ==
  \/ MallocJwt(t) \/ GenEnter(t) \/ MallocObuf(t) \/ TestObuf(t) \/ Sign(t)
  \/ FreeObufOnError(t) \/ Encode(t) \/ WriteJwt(t) \/ FreePk(t) \/ FreeObuf(t)
  \/ TestJwt(t) \/ CopyPassword(t) \/ PrintJwt(t) \/ ClientInit(t) \/ ClientStart(t) \/ ReleaseJwt(t)

Handle(c) == HandleConnected(c) \/ HandleError(c) \/ HandleDisconnected(c)

ClientLibrary(c) == ConnectSucceeds(c) \/ ConnectFails(c)

Next ==
  \/ CtrlStart
  \/ \E t \in Thread : AppStart(t)
  \/ \E c \in Client : Handle(c) \/ ClientLibrary(c) \/ LoseConnection(c)
  \/ WifiChange
  \/ Restart
  \/ CorruptionCrash

Spec == Init /\ [][Next]_vars

(* Every task that can run is scheduled.  The client library tries a       *)
(* connection again, notices a dead link by its keep-alive, and hands its  *)
(* events to the handler; a reset that was asked for happens.              *)
Fairness ==
  /\ WF_vars(CtrlStart)
  /\ \A t \in Thread : WF_vars(AppStart(t))
  /\ \A c \in Client :
       /\ WF_vars(Handle(c))
       /\ WF_vars(ClientLibrary(c))
       /\ WF_vars(~wifi_connect /\ LoseConnection(c))
  /\ WF_vars(Restart)

FairSpec == Spec /\ Fairness

------------------------------------------------------------------------------
(* Properties.  As long as no two threads have been in mqtt_app_start at   *)
(* once ("serial"), the start is right; what overlapping starts break is   *)
(* stated by the last two.                                                 *)

Serial == ~overlapped

\* A serial history makes no memory error but the write through a jwt whose
\* malloc failed, which mqtt_app_start tests only after the generator wrote it.
SerialHeapSafe == Serial => fault \in {"none", "null_write"}

\* When no serial start is under way, no block is left of jwt or oBuf, whatever
\* step of the start failed (keys of failed generations are left).
SerialNoLeak ==
  Serial /\ fault = "none" /\ (\A t \in Thread : ~InStart(t))
    => \A b \in Block : heap[b] \in {"free", "pk"}

\* No client of a serial history was made with a password that is not the token
\* its own start had signed.
SerialToken == Serial => \A c \in Client : token[c] # "junk"

\* Serially, a client that was made is the one its start is about to start.
SerialNoOrphan ==
  Serial => \A c \in Client : cl[c] = "created" =>
              mqttc = c /\ \E t \in Thread : pc[t] = "start"

\* ctrl_tsk sees CONNECTED only while a client is connected, or while the handler of
\* one that lost its connection, or failed to make one, has yet to run.
ConnectedIsReal ==
  mqtt_service_state = "CONNECTED" =>
    \E c \in Client : \/ cl[c] = "connected" /\ pc[c] = "idle"
                      \/ pc[c] \in {"onError", "onDisconnected"}

Idle(c) == cl[c] \in Running /\ pc[c] = "idle"

\* With one client, and its handler not running, the state is its state.
SoleClientAgreement ==
  \A c \in Client :
    Idle(c) /\ (\A d \in Client \ {c} : cl[d] = "none")
      => (mqtt_service_state = "CONNECTED" <=> cl[c] = "connected")

\* What the rest of the device relies on: the module Session.
asked == pc[Ctrl] # "waitWifi"
starting == {t \in Thread : InStart(t)}
restarting == {c \in Client : pc[c] = "restarting"}
life == [c \in Client |->
           IF cl[c] = "none" THEN "none"
           ELSE IF cl[c] \in {"created", "unstarted"} THEN "made"
           ELSE IF cl[c] = "connected" /\ pc[c] # "onConnected" THEN "connected"
           ELSE "waiting"]

Promise == INSTANCE Session

\* However the threads, the heap and the error paths go, the device sees one handle
\* and one state that change as Session says, and it is brought down only by an
\* esp_restart, by a start that is under way, or after two starts have overlapped.
ImplementsSession == Promise!Spec

\* A running client without WiFi ends in a reboot of the device, or WiFi is back.
WifiLossReboots ==
  (~wifi_connect /\ \E c \in Client : cl[c] \in Running)
    ~> (wifi_connect \/ \A c \in Client : cl[c] = "none")

\* mqtt.h:41, "Function to get current MQTT service state": when no handler is
\* running, the state is CONNECTED if a client is connected.
ServiceStateCurrent ==
  (\A t \in Thread : pc[t] \in {"loop", "idle"}) /\ (\E c \in Client : cl[c] = "connected")
    => mqtt_service_state = "CONNECTED"

\* gcpjwt.h, "generate Google Cloud IOT JWT access key" and "0 for SUCCESS": when
\* the generator has succeeded, its buffer holds a token.
SuccessMeansToken ==
  \A t \in Thread : pc[t] = "cfg" /\ fault \notin Panics =>
    LET b == frame[t].jwtstr IN heap[b] # "free" /\ data[b] = "jwt"

==============================================================================
