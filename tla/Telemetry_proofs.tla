--------------------------- MODULE Telemetry_proofs ---------------------------
(***************************************************************************)
(* Proofs about the telemetry loop, for any number of clients: what is     *)
(* published is one read of the registers, the handle published on is NULL *)
(* only after a failed replacement of a client, and the loop implements    *)
(* Control.                                                                *)
(***************************************************************************)
EXTENDS Telemetry, TLAPS

\* Every register of the payload is one the characteristic covers, so at every
\* step the array holds the latest read there, and a payload that is about to be
\* published is a copy of it.
ArrayInv ==
  /\ array_modbus \in [Registers -> Age]
  /\ read = "ok" => everRead
  /\ read \in {"none", "ok", "failed"}
  /\ \A r \in Published : array_modbus[r] = LatestRead
  /\ pc = "publish" => \A r \in Published : payload_char[r] = array_modbus[r]

\* Who may write the handle: a state of CONNECTED is the work of a client that has a
\* task, tasks never end, and beside one the handle is lost only by a refusal.
HandleInv ==
  /\ mqttc = NULL /\ Running # {} => refused
  /\ mqtt_service_state = "CONNECTED" => Running # {}
  /\ pc \in {"format", "publish"} => Running # {}

\* master_init has steps left as long as it is under way.
StepsLeft ==
  /\ pc = "none" => step = 0
  /\ pc = "master" => step < 6

IInv == TypeOK /\ StepsLeft /\ ArrayInv /\ HandleInv

\* The characteristic covers the payload: what is published was asked for.
LEMMA PublishedCovered ==
  \A r \in Published : r \in Registers /\ r < NUM_REG
BY DEF Published, Registers, NUM_REG

\* The array after a read of all NUM_REG registers, and after one of none.
LEMMA FillFacts ==
  ASSUME array_modbus \in [Registers -> Age]
  PROVE  /\ Fill(NUM_REG) \in [Registers -> Age]
         /\ \A r \in Published : Fill(NUM_REG)[r] = "new"
         /\ Fill(0) \in [Registers -> Age]
         /\ \A r \in Published :
              Fill(0)[r] = IF array_modbus[r] = "new" THEN "old" ELSE array_modbus[r]
<1>1. Fill(NUM_REG) \in [Registers -> Age] /\ Fill(0) \in [Registers -> Age]
  BY DEF Fill, Age, Registers
<1>2. \A r \in Published : Fill(NUM_REG)[r] = "new"
  BY PublishedCovered DEF Fill
<1>3. \A r \in Published :
        Fill(0)[r] = IF array_modbus[r] = "new" THEN "old" ELSE array_modbus[r]
  BY PublishedCovered DEF Fill, Registers
<1> QED BY <1>1, <1>2, <1>3

LEMMA InitArray == Init => ArrayInv
BY PublishedCovered DEF Init, ArrayInv, LatestRead, Age

LEMMA StepArray == ArrayInv /\ [Next]_vars => ArrayInv'
<1> SUFFICES ASSUME ArrayInv, [Next]_vars PROVE ArrayInv'
  OBVIOUS
<1>1. CASE ReadSucceeds
  BY <1>1, FillFacts DEF ReadSucceeds, ArrayInv, LatestRead
<1>2. CASE ReadFails
  BY <1>2, FillFacts DEF ReadFails, ArrayInv, LatestRead
<1>3. CASE FormatPayload
  BY <1>3 DEF FormatPayload, ArrayInv, LatestRead, modbus
<1>4. CASE Reset
  BY <1>4, PublishedCovered DEF Reset, ArrayInv, LatestRead, Age
<1>5. CASE Create \/ MasterInit \/ WaitWifi \/ TestState \/ Publish \/ Sleep
  BY <1>5 DEF Create, MasterInit, WaitWifi, TestState, Publish, Sleep, ArrayInv, LatestRead, modbus
<1>6. CASE Others
  <2>1. UNCHANGED <<modbus, payload_char>> /\ (pc' = "publish" => pc = "publish")
    BY <1>6 DEF Others, InStart, OnEvent, WifiChange
  <2>. QED  BY <2>1 DEF ArrayInv, LatestRead, modbus
<1>7. CASE UNCHANGED vars
  BY <1>7 DEF vars, modbus, ArrayInv, LatestRead
<1> QED BY <1>1, <1>2, <1>3, <1>4, <1>5, <1>6, <1>7 DEF Next, CtrlTask

LEMMA InitHandle == Init => HandleInv
BY DEF Init, Sess!Init, HandleInv, Running

LEMMA StepHandle == Sess!TypeOK /\ HandleInv /\ [Next]_vars => HandleInv'
<1> SUFFICES ASSUME Sess!TypeOK, HandleInv, [Next]_vars PROVE HandleInv'
  OBVIOUS
<1> USE DEF HandleInv
<1>1. ASSUME UNCHANGED <<life, mqttc, mqtt_service_state, refused>>,
             pc' \in {"format", "publish"} => pc \in {"format", "publish"}
      PROVE  HandleInv'
  BY <1>1 DEF Running
<1>2. CASE TestState \/ FormatPayload
  BY <1>2 DEF TestState, FormatPayload, session, Running
<1>3. CASE Create \/ MasterInit \/ WaitWifi \/ ReadSucceeds \/ ReadFails \/ Publish \/ Sleep
  BY <1>1, <1>3 DEF Create, MasterInit, WaitWifi, ReadSucceeds, ReadFails, Publish, Sleep, session,
                    Sess!CtrlStart
<1>4. ASSUME NEW t \in Sess!Thread, InStart(t) PROVE HandleInv'
  <2>1. CASE Sess!Assign(t) /\ refused' = (refused \/ (mqttc' = NULL /\ Running # {}))
    <3>1. Running' = Running
      BY <2>1 DEF Running, Sess!Assign, Sess!TypeOK
    <3>. QED  BY <1>4, <2>1, <3>1 DEF InStart, Sess!Assign, Sess!Leave, Sess!Run
  <2>2. CASE Sess!Run(t) /\ UNCHANGED <<pc, refused>>
    <3>1. Running \subseteq Running' /\ Running' # {} /\ mqttc' # NULL
      BY <2>2 DEF Running, Sess!Run, Sess!TypeOK
    <3>. QED  BY <2>2, <3>1
  <2>3. CASE Sess!Leave(t) /\ pc' = (IF t = Ctrl THEN "request" ELSE pc) /\ UNCHANGED refused
    BY <1>1, <2>3 DEF Sess!Leave
  <2>. QED  BY <1>4, <2>1, <2>2, <2>3 DEF InStart
<1>5. ASSUME NEW c \in Client, OnEvent(c) PROVE HandleInv'
  <2>1. Running' = Running /\ c \in Running /\ UNCHANGED <<mqttc, pc, refused>>
    BY <1>5 DEF OnEvent, Running, Sess!OnConnected, Sess!Lose, Sess!OnError, Sess!OnDisconnected,
                Sess!TypeOK
  <2>. QED  BY <2>1
<1>6. CASE WifiChange
  BY <1>1, <1>6 DEF WifiChange, Sess!WifiChange
<1>7. CASE Reset
  BY <1>7 DEF Reset, Sess!Anew, Running
<1>8. CASE UNCHANGED vars
  BY <1>1, <1>8 DEF vars, session
<1> QED
  BY <1>2, <1>3, <1>4, <1>5, <1>6, <1>7, <1>8 DEF Next, CtrlTask, Others

------------------------------------------------------------------------------
(* The type of the variables.                                              *)

LEMMA SixSteps == Len(MasterSteps) = 6
BY DEF MasterSteps

\* The initial state, which a reset leads back to, is typed.
LEMMA InitTypeOK == Init => TypeOK /\ StepsLeft
<1> SUFFICES ASSUME Init PROVE TypeOK /\ StepsLeft
  OBVIOUS
<1>1. array_modbus \in [Registers -> Age] /\ payload_char \in [Published -> Age]
  BY DEF Init, Age
<1>2. step \in 0..Len(MasterSteps) /\ StepsLeft
  BY SixSteps DEF Init, StepsLeft
<1>3. Sess!TypeOK
  BY DEF Init, Sess!Init, Sess!TypeOK
<1> QED BY <1>1, <1>2, <1>3 DEF Init, TypeOK, Place

LEMMA ResetInit == Reset => Init'
BY DEF Reset, Init, Sess!Anew, Sess!Init

\* Each step of a start of the session, or of a client, keeps the session typed.
LEMMA SessionTypeOK ==
  ASSUME Sess!TypeOK, Others
  PROVE  Sess!TypeOK'
<1> USE DEF Sess!TypeOK, Sess!Thread
<1>1. ASSUME NEW t \in Sess!Thread, InStart(t) PROVE Sess!TypeOK'
  BY <1>1 DEF InStart, Sess!Assign, Sess!Run, Sess!Leave
<1>2. ASSUME NEW c \in Client, OnEvent(c) PROVE Sess!TypeOK'
  BY <1>2 DEF OnEvent, Sess!OnConnected, Sess!Lose, Sess!OnError, Sess!OnDisconnected, Sess!Enter
<1>3. CASE WifiChange
  BY <1>3 DEF WifiChange, Sess!WifiChange
<1> QED BY <1>1, <1>2, <1>3 DEF Others

\* Each step of ctrl_tsk keeps the types.
LEMMA CtrlTypeOK ==
  ASSUME TypeOK, StepsLeft, Create \/ CtrlTask
  PROVE  TypeOK' /\ StepsLeft'
<1> USE SixSteps DEF TypeOK, StepsLeft, modbus, session, Place
<1>1. CASE WaitWifi
  BY <1>1 DEF WaitWifi, Sess!CtrlStart, Sess!Enter, Sess!TypeOK, Sess!Thread
<1>2. ASSUME UNCHANGED session PROVE Sess!TypeOK'
  BY <1>2 DEF Sess!TypeOK
<1>3. CASE MasterInit
  BY <1>2, <1>3 DEF MasterInit
<1>4. CASE ReadSucceeds \/ ReadFails
  BY <1>2, <1>4, FillFacts DEF ReadSucceeds, ReadFails
<1>5. CASE FormatPayload
  BY <1>2, <1>5, PublishedCovered DEF FormatPayload
<1>6. CASE Create \/ TestState \/ Publish \/ Sleep
  BY <1>2, <1>6 DEF Create, TestState, Publish, Sleep
<1> QED BY <1>1, <1>3, <1>4, <1>5, <1>6 DEF CtrlTask

\* So does each step of the session.
LEMMA OthersTypeOK ==
  ASSUME TypeOK, StepsLeft, Others
  PROVE  TypeOK' /\ StepsLeft'
<1>1. UNCHANGED <<modbus, payload_char>> /\ pc' \in {pc, "request"}
  BY DEF Others, InStart, OnEvent, WifiChange
<1>2. refused' \in BOOLEAN
  BY DEF Others, InStart, OnEvent, WifiChange, TypeOK
<1>3. Sess!TypeOK'
  BY SessionTypeOK DEF TypeOK
<1> QED BY <1>1, <1>2, <1>3 DEF TypeOK, StepsLeft, modbus, Place

LEMMA StepTypeOK == TypeOK /\ StepsLeft /\ [Next]_vars => TypeOK' /\ StepsLeft'
<1>1. CASE Reset
  BY <1>1, ResetInit, InitTypeOK, PTL
<1>2. CASE UNCHANGED vars
  BY <1>2 DEF vars, modbus, session, TypeOK, StepsLeft, Sess!TypeOK
<1> QED BY <1>1, <1>2, CtrlTypeOK, OthersTypeOK DEF Next

------------------------------------------------------------------------------
\* The inductive invariant of the telemetry loop.
THEOREM Invariance == Spec => []IInv
<1>1. Init => IInv
  BY InitTypeOK, InitArray, InitHandle DEF IInv
<1>2. IInv /\ [Next]_vars => IInv'
  BY StepTypeOK, StepArray, StepHandle DEF IInv, TypeOK
<1> QED BY <1>1, <1>2, PTL DEF Spec

\* In every reachable state of the loop each variable has its type.
THEOREM TypeCorrect == Spec => []TypeOK
<1>1. IInv => TypeOK
  BY DEF IInv
<1> QED BY <1>1, Invariance, PTL

\* Every payload is one read of the registers, the latest that succeeded
\* (request_modbus_info, and the payload of ctrl_tsk).
THEOREM OneRead == Spec => []PayloadIsOneRead
<1>1. IInv => PayloadIsOneRead
  BY DEF IInv, ArrayInv, PayloadIsOneRead
<1> QED BY <1>1, Invariance, PTL

\* The handle is NULL at a publish only after a client task failed to make a new
\* client (ctrl_tsk, and the DISCONNECTED branch of mqtt_event_handler).
THEOREM NullOnlyIfRefused == Spec => []NullOnlyAfterRefusal
<1>1. IInv => NullOnlyAfterRefusal
  BY DEF IInv, HandleInv, NullOnlyAfterRefusal
<1> QED BY <1>1, Invariance, PTL
------------------------------------------------------------------------------
(* The refinement of Control.                                              *)

LEMMA InitControl == Init => Ctl!Init
BY DEF Init, ctrl, Ctl!Init, Ctl!Sess!Init, Sess!Init

\* A step of ctrl_tsk is a step of Control, or is inside a round.
LEMMA CtrlControl ==
  ASSUME Create \/ CtrlTask
  PROVE  [Ctl!Next]_Ctl!vars
<1> USE DEF ctrl, session, Ctl!session, Ctl!vars
<1>1. CASE Create
  BY <1>1 DEF Create, Ctl!Next, Ctl!Create
<1>2. CASE MasterInit
  BY <1>2 DEF MasterInit, Ctl!Next, Ctl!MasterInit
<1>3. CASE WaitWifi
  BY <1>3 DEF WaitWifi, Sess!CtrlStart, Sess!Enter, Ctl!Next, Ctl!CtrlStart, Ctl!Sess!CtrlStart,
              Ctl!Sess!Enter
<1>4. CASE TestState
  BY <1>4 DEF TestState, Ctl!Next, Ctl!Publish
<1>5. CASE Publish
  BY <1>5 DEF Publish, Ctl!Next, Ctl!Delay
<1>6. CASE ReadSucceeds \/ ReadFails \/ FormatPayload \/ Sleep
  BY <1>6 DEF ReadSucceeds, ReadFails, FormatPayload, Sleep
<1> QED BY <1>1, <1>2, <1>3, <1>4, <1>5, <1>6 DEF CtrlTask

\* A step of the session is the same step of Control.  The call that ctrl_tsk waits
\* for ends when it leaves the start.
LEMMA OthersControl ==
  ASSUME Others
  PROVE  Ctl!Next
<1>1. ASSUME NEW t \in Sess!Thread, InStart(t) PROVE Ctl!InStart(t)
  BY <1>1 DEF InStart, ctrl, Ctl!InStart, Sess!Assign, Sess!Run, Sess!Leave,
              Ctl!Sess!Assign, Ctl!Sess!Run, Ctl!Sess!Leave
<1>2. ASSUME NEW c \in Client, OnEvent(c)
      PROVE  Ctl!Connected(c) \/ Ctl!Lost(c) \/ Ctl!Error(c) \/ Ctl!Disconnected(c)
  <2>1. UNCHANGED ctrl
    BY <1>2 DEF OnEvent, ctrl
  <2>. QED
    BY <1>2, <2>1 DEF OnEvent, Ctl!Connected, Ctl!Lost, Ctl!Error, Ctl!Disconnected,
       Sess!OnConnected, Sess!Lose, Sess!OnError, Sess!OnDisconnected, Sess!Enter, Sess!Free,
       Ctl!Sess!OnConnected, Ctl!Sess!Lose, Ctl!Sess!OnError, Ctl!Sess!OnDisconnected,
       Ctl!Sess!Enter, Ctl!Sess!Free
<1>3. CASE WifiChange
  BY <1>3 DEF WifiChange, ctrl, Sess!WifiChange, Ctl!Next, Ctl!WifiChange, Ctl!Sess!WifiChange
<1> QED BY <1>1, <1>2, <1>3 DEF Others, Sess!Thread, Ctl!Sess!Thread, Ctl!Next

LEMMA ResetControl == Reset => Ctl!Reset
BY DEF Reset, ctrl, Sess!MayReset, Sess!Anew, Ctl!Reset, Ctl!Crash, Ctl!Anew, Ctl!Sess!Anew

\* The loop implements Control (ctrl_tsk), for any number of clients and whatever they,
\* the generator set and the starts of the session do meanwhile.
THEOREM ControlTheorem == Spec => ImplementsControl
<1>1. [Next]_vars => [Ctl!Next]_Ctl!vars
  <2>1. CASE Reset
    BY <2>1, ResetControl DEF Ctl!Next
  <2>2. CASE UNCHANGED vars
    BY <2>2 DEF vars, session, ctrl, Ctl!vars, Ctl!session
  <2> QED BY <2>1, <2>2, CtrlControl, OthersControl DEF Next
<1> QED BY <1>1, InitControl, PTL DEF Spec, ImplementsControl, Ctl!Spec
==============================================================================
