------------------------- MODULE MqttSession_proofs -------------------------
(***************************************************************************)
(* Proofs about MqttSession, for any number of clients and blocks.         *)
(***************************************************************************)
EXTENDS MqttSession, TLAPS

(* The type of the variables is inductive by itself.                       *)

\* The variables start with values of their types.
LEMMA InitTypeOK == Init => TypeOK
<1> SUFFICES ASSUME Init PROVE TypeOK  OBVIOUS
<1>1. frame \in [Thread -> Frame]  BY DEF Init, Frame, EmptyFrame, Pointer, Content
<1>2. pc \in [Thread -> Place]     BY DEF Init, Place
<1>. QED  BY <1>1, <1>2 DEF Init, TypeOK, Pointer, Content, Panics

\* Each action of a thread in mqtt_app_start keeps the types.
LEMMA AppStartTypeOK == ASSUME TypeOK, NEW t \in Thread, AppStart(t) PROVE TypeOK'
<1> USE DEF TypeOK, InStart, InAppStart, InGenerator, Frame, EmptyFrame, Pointer, Content, Place,
            At, Goto, Allocate, Free, Use, Write, Panics, memory, globals, session, history
<1>1. CASE MallocJwt(t)       BY <1>1 DEF MallocJwt
<1>2. CASE GenEnter(t)
  <2>1. frame' \in [Thread -> Frame]                        BY <1>2 DEF GenEnter
  <2>2. pc' \in [Thread -> Place]                           BY <1>2 DEF GenEnter
  <2>3. \A u \in Thread : frame'[u] # EmptyFrame => InStart(u)'
    BY <1>2 DEF GenEnter
  <2>. QED  BY <1>2, <2>1, <2>2, <2>3 DEF GenEnter
<1>3. CASE MallocObuf(t)      BY <1>3 DEF MallocObuf
<1>4. CASE Sign(t)            BY <1>4 DEF Sign
<1>5. CASE FreeObufOnError(t) BY <1>5 DEF FreeObufOnError
<1>6. CASE Encode(t)          BY <1>6 DEF Encode, Read
<1>7. CASE WriteJwt(t)        BY <1>7 DEF WriteJwt
<1>8. CASE FreePk(t)          BY <1>8 DEF FreePk
<1>9. CASE FreeObuf(t)        BY <1>9 DEF FreeObuf
<1>10. CASE TestObuf(t) \/ TestJwt(t) \/ CopyPassword(t) \/ PrintJwt(t)
  BY <1>10 DEF TestObuf, TestJwt, CopyPassword, PrintJwt, UseString
<1>11. CASE ClientInit(t)     BY <1>11 DEF ClientInit, UseString
<1>12. CASE ClientStart(t)    BY <1>12 DEF ClientStart, Startable, Running
<1>13. CASE ReleaseJwt(t)     BY <1>13 DEF ReleaseJwt, ReturnFromAppStart
<1>. QED
  BY <1>1, <1>2, <1>3, <1>4, <1>5, <1>6, <1>7, <1>8, <1>9, <1>10, <1>11, <1>12, <1>13 DEF AppStart

\* A step outside of mqtt_app_start keeps the types if its own changes are typed.
LEMMA OutsideTypeOK ==
  ASSUME TypeOK, UNCHANGED <<frame, memory, globals, mqttc>>,
         pc' \in [Thread -> Place], \A t \in Thread : InStart(t) => InStart(t)',
         cl' \in [Client -> {"none", "created", "unstarted"} \cup Running],
         token' \in [Client -> {"none", "signed", "junk"}],
         mqtt_service_state' \in {"ERROR", "CONNECTED", "DISCONNECTED"},
         wifi_connect' \in BOOLEAN, overlapped' \in BOOLEAN
  PROVE  TypeOK'
  BY DEF TypeOK, memory, globals

\* Each action of a client, its handler included, keeps the types.
LEMMA ClientTypeOK ==
  ASSUME TypeOK, NEW c \in Client,
         Handle(c) \/ ClientLibrary(c) \/ LoseConnection(c)
  PROVE  TypeOK'
<1>1. c \in Thread  BY DEF Thread
<1>2. ASSUME NEW from \in InHandler \cup {"idle"}, NEW to \in Place, At(c, from), Goto(c, to)
      PROVE  pc' \in [Thread -> Place] /\ \A t \in Thread : InStart(t) => InStart(t)'
  BY <1>1, <1>2 DEF TypeOK, At, Goto, InStart, InHandler, InAppStart, InGenerator
<1>3. CASE HandleConnected(c) \/ HandleError(c)
  <2>1. UNCHANGED <<frame, memory, globals, cl, token, mqttc, history>>
        /\ mqtt_service_state' \in {"ERROR", "CONNECTED", "DISCONNECTED"}
    BY <1>3 DEF HandleConnected, HandleError
  <2>2. \E from \in InHandler, to \in Place : At(c, from) /\ Goto(c, to)
    BY <1>3 DEF HandleConnected, HandleError, InHandler, Place
  <2>. QED  BY <2>1, <2>2, <1>2, OutsideTypeOK DEF TypeOK, history
<1>4. CASE HandleDisconnected(c)
  <2>1. UNCHANGED <<frame, memory, globals, cl, token, mqttc, wifi_connect>>
        /\ mqtt_service_state' = "DISCONNECTED" /\ overlapped' \in BOOLEAN
    BY <1>4 DEF HandleDisconnected, EnterAppStart, TypeOK
  <2>2. \E from \in InHandler, to \in Place : At(c, from) /\ Goto(c, to)
    BY <1>4 DEF HandleDisconnected, EnterAppStart, InHandler, Place, InAppStart
  <2>. QED  BY <2>1, <2>2, <1>2, OutsideTypeOK DEF TypeOK
<1>5. CASE ConnectSucceeds(c) \/ ConnectFails(c) \/ LoseConnection(c)
  <2>1. /\ UNCHANGED <<frame, memory, globals, token, mqttc, mqtt_service_state, history>>
        /\ cl' \in [Client -> {"none", "created", "unstarted"} \cup Running]
    BY <1>5 DEF ConnectSucceeds, ConnectFails, LoseConnection, Running, TypeOK, session
  <2>2. \E to \in Place : At(c, "idle") /\ Goto(c, to)
    BY <1>5 DEF ConnectSucceeds, ConnectFails, LoseConnection, InHandler, Place
  <2>. QED  BY <2>1, <2>2, <1>2, OutsideTypeOK DEF TypeOK, history
<1>. QED  BY <1>3, <1>4, <1>5 DEF Handle, ClientLibrary

\* A reboot leads to the initial state.
LEMMA RebootInit == Reboot => Init'
  BY DEF Reboot, Init, EmptyFrame

\* Every step keeps the types.
LEMMA NextTypeOK == TypeOK /\ [Next]_vars => TypeOK'
<1> SUFFICES ASSUME TypeOK, [Next]_vars PROVE TypeOK'  OBVIOUS
<1>1. CASE CtrlStart
  <2>. Ctrl \in Thread  BY DEF Thread
  <2>. QED
    BY <1>1 DEF CtrlStart, EnterAppStart, At, Goto, TypeOK, InStart, InAppStart, Place,
                memory, globals, session
<1>2. ASSUME NEW t \in Thread, AppStart(t) PROVE TypeOK'  BY <1>2, AppStartTypeOK
<1>3. ASSUME NEW c \in Client,
             Handle(c) \/ ClientLibrary(c) \/ LoseConnection(c)
      PROVE  TypeOK'
  BY <1>3, ClientTypeOK
<1>4. CASE WifiChange
  BY <1>4 DEF WifiChange, TypeOK, InStart, memory, globals, session
<1>5. CASE Reboot  BY <1>5, RebootInit, InitTypeOK, PTL
<1>6. CASE UNCHANGED vars
  BY <1>6 DEF vars, TypeOK, InStart
<1>. QED
  BY <1>1, <1>2, <1>3, <1>4, <1>5, <1>6 DEF Next, Restart, CorruptionCrash

\* In every reachable state each variable has its type, and a thread keeps no
\* local of mqtt_app_start once the call is over.
THEOREM TypeCorrect == Spec => []TypeOK
  BY InitTypeOK, NextTypeOK, PTL DEF Spec

(***************************************************************************)
(* The inductive invariant.  A serial history has at most one thread in    *)
(* mqtt_app_start; until that thread makes the write through a null jwt,   *)
(* the globals and the blocks are its own, and what it may rely on at each *)
(* place is StartFacts.                                                    *)
(***************************************************************************)
OneStarter == Serial => \A t, u \in Thread : InStart(t) /\ InStart(u) => t = u

Calm == Serial /\ fault = "none"

HoldsObuf == {"otest", "sign", "gfail", "encode", "write", "pkfree", "gdone"}
HoldsPk   == {"obuf", "otest", "sign", "encode", "write", "pkfree"}
TokenMade == {"pkfree", "gdone", "cfg", "copy", "print", "init"}

StartFacts(t) ==
  /\ pc[t] # "malloc" /\ jwt # NULL => heap[jwt] = "jwt"
  /\ pc[t] \in InGenerator \ {"gen"} => frame[t].jwtstr = jwt
  /\ pc[t] \in HoldsObuf => oBuf = NULL \/ heap[oBuf] = "obuf"
  /\ pc[t] \in HoldsObuf \ {"otest", "gfail"} => oBuf # NULL
  /\ pc[t] \in HoldsPk => frame[t].pk # NULL /\ heap[frame[t].pk] = "pk"
  /\ pc[t] = "encode" => data[oBuf] = t
  /\ pc[t] = "write" => frame[t].sig = t
  /\ pc[t] \in TokenMade => jwt # NULL /\ data[jwt] = "jwt"
  /\ pc[t] \in {"print", "init"} => frame[t].pass = jwt

\* The blocks of jwt and oBuf are held by a start that is under way.
BlocksOwned ==
  \A b \in Block :
    /\ heap[b] = "jwt" => b = jwt /\ \E t \in Thread : InStart(t) /\ pc[t] # "malloc"
    /\ heap[b] = "obuf" => b = oBuf /\ \E t \in Thread : pc[t] \in HoldsObuf

IInv ==
  /\ TypeOK
  /\ OneStarter
  /\ SerialHeapSafe
  /\ Calm => \A t \in Thread : InStart(t) => StartFacts(t)
  /\ Calm => BlocksOwned
  /\ SerialToken
  /\ SerialNoOrphan

\* The invariant holds initially.
LEMMA InitIInv == Init => IInv
<1> SUFFICES ASSUME Init PROVE IInv  OBVIOUS
<1>1. TypeOK  BY InitTypeOK
<1>2. \A t \in Thread : ~InStart(t)
  BY DEF Init, InStart, InAppStart, InGenerator
<1>. QED
  BY <1>1, <1>2 DEF Init, IInv, OneStarter, SerialHeapSafe, BlocksOwned, SerialToken, SerialNoOrphan

\* A step of mqtt_app_start moves its own thread only, from a place in the call.
LEMMA AppStartMoves ==
  ASSUME TypeOK, NEW t \in Thread, AppStart(t)
  PROVE  /\ InStart(t) /\ fault \notin Panics
         /\ UNCHANGED history
         /\ \A u \in Thread \ {t} : pc'[u] = pc[u] /\ frame'[u] = frame[u]
<1> USE DEF TypeOK, At, Goto, InStart, InAppStart, InGenerator
<1>1. CASE MallocJwt(t) \/ GenEnter(t) \/ MallocObuf(t) \/ TestObuf(t) \/ Sign(t)
  BY <1>1 DEF MallocJwt, GenEnter, MallocObuf, TestObuf, Sign
<1>2. CASE FreeObufOnError(t) \/ Encode(t) \/ WriteJwt(t) \/ FreePk(t) \/ FreeObuf(t)
  BY <1>2 DEF FreeObufOnError, Encode, WriteJwt, FreePk, FreeObuf
<1>3. CASE TestJwt(t) \/ CopyPassword(t) \/ PrintJwt(t)
  BY <1>3 DEF TestJwt, CopyPassword, PrintJwt
<1>4. CASE ClientInit(t) \/ ClientStart(t) \/ ReleaseJwt(t)
  BY <1>4 DEF ClientInit, ClientStart, ReleaseJwt, ReturnFromAppStart
<1>. QED  BY <1>1, <1>2, <1>3, <1>4 DEF AppStart

\* Each step of the one starter keeps what the starter relies on, and its claim on
\* the blocks, and makes no memory error but the write through a null jwt.
LEMMA StarterKeepsFacts ==
  ASSUME TypeOK, Calm, NEW t \in Thread, StartFacts(t), BlocksOwned, AppStart(t),
         \A u \in Thread \ {t} : ~InStart(u)
  PROVE  /\ fault' \in {"none", "null_write"}
         /\ fault' = "none" /\ InStart(t)' => StartFacts(t)'
         /\ fault' = "none" => BlocksOwned'
<1> USE NullAssumption
    DEF TypeOK, Calm, At, Goto, InStart, InAppStart, InGenerator, Pointer,
        StartFacts, BlocksOwned, HoldsObuf, HoldsPk, TokenMade, memory, globals
<1>1. CASE MallocJwt(t)       BY <1>1 DEF MallocJwt, Allocate
<1>2. CASE GenEnter(t)        BY <1>2 DEF GenEnter, Allocate, Frame
<1>3. CASE MallocObuf(t)
  <2>1. UNCHANGED <<frame, jwt>> /\ pc'[t] = "otest"  BY <1>3 DEF MallocObuf
  <2>2. CASE oBuf' = NULL /\ UNCHANGED memory
    BY <1>3, <2>1, <2>2 DEF MallocObuf
  <2>3. ASSUME NEW b \in Block, Allocate(b, "obuf"), oBuf' = b
        PROVE  StartFacts(t)' /\ fault' = fault /\ BlocksOwned'
    <3>1. StartFacts(t)' /\ fault' = fault
      BY <1>3, <2>1, <2>3 DEF Allocate, MallocObuf
    <3>2. \A c \in Block : heap'[c] = "jwt" => c = jwt
      BY <2>1, <2>3 DEF Allocate
    <3>3. \A c \in Block : heap'[c] = "obuf" => c = oBuf'
      BY <1>3, <2>3 DEF Allocate, MallocObuf
    <3>. QED  BY <2>1, <3>1, <3>2, <3>3
  <2>. QED  BY <1>3, <2>2, <2>3 DEF MallocObuf
<1>4. CASE Sign(t)            BY <1>4 DEF Sign, Write, Use
<1>5. CASE FreeObufOnError(t) BY <1>5 DEF FreeObufOnError, Free
<1>6. CASE Encode(t)          BY <1>6 DEF Encode, Use, Read, Frame
<1>7. CASE WriteJwt(t)        BY <1>7 DEF WriteJwt, Write, Use
<1>8. CASE FreePk(t)          BY <1>8 DEF FreePk, Free, Frame
<1>9. CASE FreeObuf(t)        BY <1>9 DEF FreeObuf, Free
<1>10. CASE TestObuf(t) \/ TestJwt(t)
  BY <1>10 DEF TestObuf, TestJwt
<1>11. CASE CopyPassword(t) \/ PrintJwt(t)
  BY <1>11 DEF CopyPassword, PrintJwt, UseString, Use, Frame
<1>12. CASE ClientInit(t)     BY <1>12 DEF ClientInit, UseString, Use
<1>13. CASE ClientStart(t)    BY <1>13 DEF ClientStart
<1>14. CASE ReleaseJwt(t)     BY <1>14 DEF ReleaseJwt, ReturnFromAppStart, Free
<1>. QED
  BY <1>1, <1>2, <1>3, <1>4, <1>5, <1>6, <1>7, <1>8, <1>9, <1>10, <1>11, <1>12, <1>13, <1>14
  DEF AppStart

\* A step of the one starter makes no client with a token that is not its own,
\* and starts the client it made.
LEMMA StarterKeepsClients ==
  ASSUME TypeOK, Serial, NEW t \in Thread, AppStart(t), SerialToken, SerialNoOrphan,
         fault = "none" => StartFacts(t), fault \in {"none", "null_write"},
         \A u \in Thread \ {t} : ~InStart(u)
  PROVE  SerialToken' /\ SerialNoOrphan'
<1> USE NullAssumption DEF SerialToken, SerialNoOrphan, TypeOK
<1>1. fault = "none" /\ Serial' /\ UNCHANGED overlapped
  BY AppStartMoves DEF Panics, history, Serial
<1>2. CASE ClientInit(t)
  <2>1. frame[t].pass = jwt /\ jwt \in Block /\ data[jwt] = "jwt" /\ heap[jwt] # "free"
    BY <1>1, <1>2 DEF StartFacts, ClientInit, At, TokenMade, Pointer
  <2>2. Read(frame[t].pass) = {"jwt"}
    BY <2>1 DEF Read
  <2>3. pc[t] = "init" /\ pc'[t] = "start"
    BY <1>2 DEF ClientInit, At, Goto
  <2>4. \A d \in Client : cl[d] # "created"
    BY <2>3, <1>1 DEF Serial, InStart, InAppStart
  <2>5. SerialToken'
    BY <1>2, <2>2, <1>1 DEF ClientInit, Serial
  <2>6. \A d \in Client : cl'[d] = "created" => mqttc' = d
    BY <1>2, <2>4 DEF ClientInit
  <2>. QED  BY <2>3, <2>5, <2>6
<1>3. CASE ClientStart(t)
  <2>1. UNCHANGED <<token, mqttc>>
    BY <1>3 DEF ClientStart
  <2>2. \A d \in Client : cl'[d] # "created"
    BY <1>3, <1>1 DEF ClientStart, Startable, Serial, Running
  <2>. QED  BY <2>1, <2>2, <1>1 DEF Serial
<1>4. CASE ~ClientInit(t) /\ ~ClientStart(t)
  <2>1. UNCHANGED session /\ pc[t] # "start"
    BY <1>4 DEF AppStart, MallocJwt, GenEnter, MallocObuf, TestObuf, Sign, FreeObufOnError, Encode,
                WriteJwt, FreePk, FreeObuf, TestJwt, CopyPassword, PrintJwt, ReleaseJwt, At
  <2>2. \A d \in Client : cl[d] # "created"
    BY <2>1, <1>1 DEF Serial, InStart, InAppStart
  <2>. QED  BY <2>1, <2>2, <1>1 DEF session, Serial
<1>. QED  BY <1>2, <1>3, <1>4

\* Every step of mqtt_app_start keeps the invariant.
LEMMA AppStartIInv == ASSUME IInv, NEW t \in Thread, AppStart(t) PROVE IInv'
<1>1. TypeOK /\ TypeOK'  BY AppStartTypeOK DEF IInv
<1>2. /\ InStart(t) /\ fault \notin Panics /\ UNCHANGED overlapped
      /\ \A u \in Thread \ {t} : pc'[u] = pc[u] /\ frame'[u] = frame[u]
  BY <1>1, AppStartMoves DEF history
<1>3. CASE ~Serial
  BY <1>1, <1>2, <1>3 DEF IInv, Serial, Calm, OneStarter, SerialHeapSafe, SerialToken,
     SerialNoOrphan
<1>4. CASE Serial
  <2>1. \A u \in Thread \ {t} : ~InStart(u)
    BY <1>2, <1>4 DEF IInv, OneStarter
  <2>2. Calm /\ StartFacts(t) /\ BlocksOwned
    BY <1>2, <1>4 DEF IInv, SerialHeapSafe, Calm, Panics
  <2>3. /\ fault' \in {"none", "null_write"}
        /\ fault' = "none" /\ InStart(t)' => StartFacts(t)'
        /\ fault' = "none" => BlocksOwned'
    BY <1>1, <2>1, <2>2, StarterKeepsFacts
  <2>4. SerialToken' /\ SerialNoOrphan'
    BY <1>1, <1>4, <2>1, <2>2, StarterKeepsClients DEF IInv, Calm
  <2>5. \A u \in Thread \ {t} : ~InStart(u)'
    BY <1>2, <2>1 DEF InStart
  <2>6. OneStarter'
    BY <2>5 DEF OneStarter
  <2>. QED  BY <1>1, <2>3, <2>4, <2>5, <2>6 DEF IInv, SerialHeapSafe, Calm
<1>. QED  BY <1>3, <1>4

\* A call of mqtt_app_start keeps the invariant: unless the call overlaps another
\* one, no block of jwt and oBuf is allocated when it begins.
LEMMA EnterIInv ==
  ASSUME IInv, TypeOK', NEW t \in Thread, ~InStart(t), EnterAppStart(t),
         UNCHANGED <<frame, memory, globals, mqttc, cl, token>>
  PROVE  IInv'
<1> USE DEF TypeOK, EnterAppStart, Goto
<1>1. CASE overlapped'
  BY <1>1 DEF IInv, Serial, Calm, OneStarter, SerialHeapSafe, SerialToken, SerialNoOrphan
<1>2. CASE ~overlapped'
  <2>1. Serial /\ \A u \in Thread : ~InStart(u)
    BY <1>2 DEF IInv, Serial
  <2>2. pc'[t] = "malloc" /\ \A u \in Thread \ {t} : pc'[u] = pc[u]
    BY DEF IInv
  <2>3. \A u \in Thread \ {t} : ~InStart(u)'
    BY <2>1, <2>2 DEF InStart
  <2>4. OneStarter'
    BY <2>3 DEF OneStarter
  <2>5. SerialHeapSafe' /\ SerialToken'
    BY <2>1 DEF IInv, SerialHeapSafe, SerialToken, memory
  <2>6. SerialNoOrphan'
    BY <2>1 DEF IInv, SerialNoOrphan, InStart, InAppStart
  <2>7. Calm' => \A u \in Thread : InStart(u)' => StartFacts(u)'
    BY <2>2, <2>3 DEF StartFacts, InGenerator, HoldsObuf, HoldsPk, TokenMade
  <2>8. Calm' => BlocksOwned'
    BY <2>1 DEF IInv, Calm, BlocksOwned, memory, globals, InStart, InAppStart, InGenerator,
       HoldsObuf
  <2>. QED  BY <2>4, <2>5, <2>6, <2>7, <2>8 DEF IInv
<1>. QED  BY <1>1, <1>2

\* A step that leaves mqtt_app_start and its data alone keeps the invariant.
LEMMA OutsideIInv ==
  ASSUME IInv, TypeOK', UNCHANGED <<frame, memory, globals, mqttc, overlapped>>,
         \A t \in Thread : pc'[t] = pc[t] \/ (~InStart(t) /\ ~InStart(t)'),
         \A c \in Client : /\ cl'[c] = "created" => cl[c] = "created"
                           /\ token'[c] = "junk" => token[c] = "junk"
  PROVE  IInv'
<1>1. ASSUME NEW t \in Thread
      PROVE  (InStart(t)' <=> InStart(t)) /\ (InStart(t) => pc'[t] = pc[t])
  BY <1>1 DEF InStart
<1>2. OneStarter' /\ SerialHeapSafe' /\ SerialToken'
  <2>1. SerialHeapSafe' /\ SerialToken'
    BY DEF IInv, SerialHeapSafe, SerialToken, Serial, memory
  <2>2. OneStarter'
    BY <1>1 DEF IInv, OneStarter, Serial
  <2>. QED  BY <2>1, <2>2
<1>3. SerialNoOrphan'
  BY <1>1 DEF IInv, SerialNoOrphan, Serial, InStart, InAppStart
<1>4. Calm' => \A t \in Thread : InStart(t)' => StartFacts(t)'
  <2>1. SUFFICES ASSUME Calm', NEW t \in Thread, InStart(t)' PROVE StartFacts(t)'
    OBVIOUS
  <2>2. StartFacts(t) /\ pc'[t] = pc[t]
    BY <1>1, <2>1 DEF IInv, Calm, Serial, memory
  <2>. QED  BY <2>2 DEF StartFacts, memory, globals
<1>5. Calm' => BlocksOwned'
  BY <1>1 DEF IInv, Calm, Serial, BlocksOwned, memory, globals, HoldsObuf, InStart, InAppStart,
     InGenerator
<1>. QED  BY <1>2, <1>3, <1>4, <1>5 DEF IInv

\* Every step of a client, its handler included, keeps the invariant.
LEMMA ClientIInv ==
  ASSUME IInv, NEW c \in Client,
         Handle(c) \/ ClientLibrary(c) \/ LoseConnection(c)
  PROVE  IInv'
<1>1. c \in Thread /\ TypeOK /\ TypeOK'  BY ClientTypeOK DEF Thread, IInv
<1>2. CASE HandleDisconnected(c) /\ wifi_connect
  BY <1>1, <1>2, EnterIInv
  DEF HandleDisconnected, At, InStart, InAppStart, InGenerator
<1>3. CASE ~(HandleDisconnected(c) /\ wifi_connect)
  <2>1. UNCHANGED <<frame, memory, globals, mqttc, overlapped>>
    BY <1>3 DEF Handle, HandleConnected, HandleError, HandleDisconnected, ClientLibrary,
                ConnectSucceeds, ConnectFails, LoseConnection, session, history
  <2>2. \A t \in Thread : pc'[t] = pc[t] \/ (~InStart(t) /\ ~InStart(t)')
    BY <1>1, <1>3 DEF Handle, HandleConnected, HandleError, HandleDisconnected, ClientLibrary,
                ConnectSucceeds, ConnectFails, LoseConnection,
                TypeOK, At, Goto, InStart, InAppStart, InGenerator
  <2>3. \A d \in Client : /\ cl'[d] = "created" => cl[d] = "created"
                          /\ token'[d] = "junk" => token[d] = "junk"
    BY <1>1, <1>3 DEF Handle, HandleConnected, HandleError, HandleDisconnected, ClientLibrary,
                ConnectSucceeds, ConnectFails, LoseConnection, TypeOK, session
  <2>. QED  BY <1>1, <2>1, <2>2, <2>3, OutsideIInv
<1>. QED  BY <1>2, <1>3

\* Every step keeps the invariant.
LEMMA NextIInv == IInv /\ [Next]_vars => IInv'
<1> SUFFICES ASSUME IInv, [Next]_vars PROVE IInv'  OBVIOUS
<1>1. TypeOK /\ TypeOK'  BY NextTypeOK DEF IInv
<1>2. CASE CtrlStart
  BY <1>1, <1>2, EnterIInv
  DEF CtrlStart, At, InStart, InAppStart, InGenerator, Thread, session
<1>3. ASSUME NEW t \in Thread, AppStart(t) PROVE IInv'  BY <1>3, AppStartIInv
<1>4. ASSUME NEW c \in Client,
             Handle(c) \/ ClientLibrary(c) \/ LoseConnection(c)
      PROVE  IInv'
  BY <1>4, ClientIInv
<1>5. CASE WifiChange
  BY <1>1, <1>5, OutsideIInv DEF WifiChange, session
<1>6. CASE Reboot  BY <1>6, RebootInit, InitIInv, PTL
<1>7. CASE UNCHANGED vars
  BY <1>1, <1>7, OutsideIInv DEF vars, memory, globals
<1>. QED
  BY <1>2, <1>3, <1>4, <1>5, <1>6, <1>7 DEF Next, Restart, CorruptionCrash

\* The invariant holds in every reachable state.
THEOREM Invariance == Spec => []IInv
  BY InitIInv, NextIInv, PTL DEF Spec

\* For any number of clients: as long as no two calls of mqtt_app_start have
\* overlapped, jwt and oBuf are neither freed twice nor used after their free.
THEOREM HeapSafety == Spec => []SerialHeapSafe
<1>1. IInv => SerialHeapSafe  BY DEF IInv
<1>. QED  BY <1>1, Invariance, PTL

\* Whatever step of a serial start failed, jwt and oBuf are released at its end.
THEOREM NoLeak == Spec => []SerialNoLeak
<1>1. IInv => SerialNoLeak
  BY DEF IInv, SerialNoLeak, Calm, BlocksOwned, TypeOK, InStart, InAppStart, InGenerator, HoldsObuf
<1>. QED  BY <1>1, Invariance, PTL

\* Serially, every client is made with the token its own start had signed.
THEOREM TokenIsSigned == Spec => []SerialToken
<1>1. IInv => SerialToken  BY DEF IInv
<1>. QED  BY <1>1, Invariance, PTL

\* Serially, a client is made only by a start that is about to start it.
THEOREM NoOrphan == Spec => []SerialNoOrphan
<1>1. IInv => SerialNoOrphan  BY DEF IInv
<1>. QED  BY <1>1, Invariance, PTL

------------------------------------------------------------------------------
(* What ctrl_tsk reads in mqtt_service_state needs no serial history, but  *)
(* the bond between a client and the place of its task.                    *)

TaskMatchesClient ==
  \A c \in Client :
    /\ cl[c] \notin Running => pc[c] = "idle"
    /\ pc[c] = "onConnected" => cl[c] = "connected"
    /\ pc[c] \notin {"idle", "onConnected"} => cl[c] = "wait"

SoleConnectedSeen ==
  \A c \in Client :
    cl[c] = "connected" /\ pc[c] = "idle" /\ (\A d \in Client \ {c} : cl[d] = "none")
      => mqtt_service_state = "CONNECTED"

StateInv == TypeOK /\ TaskMatchesClient /\ ConnectedIsReal /\ SoleConnectedSeen

\* The invariant of the state variable holds initially.
LEMMA InitStateInv == Init => StateInv
<1> SUFFICES ASSUME Init PROVE StateInv  OBVIOUS
<1>1. TypeOK  BY InitTypeOK
<1>2. \A c \in Client : pc[c] = "idle" /\ cl[c] = "none"
  BY ThreadAssumption DEF Init, Thread
<1>. QED
  BY <1>1, <1>2 DEF Init, StateInv, TaskMatchesClient, ConnectedIsReal, SoleConnectedSeen, Running

\* A step of mqtt_app_start keeps it: the thread comes from a place where its
\* client waits to reconnect, and no client becomes connected.
LEMMA AppStartStateInv == ASSUME StateInv, NEW t \in Thread, AppStart(t) PROVE StateInv'
<1>1. TypeOK /\ TypeOK'  BY AppStartTypeOK DEF StateInv
<1>2. /\ InStart(t)
      /\ \A u \in Thread \ {t} : pc'[u] = pc[u]
  BY <1>1, AppStartMoves
<1>3. mqtt_service_state' = mqtt_service_state
  BY DEF AppStart, MallocJwt, GenEnter, MallocObuf, TestObuf, Sign, FreeObufOnError, Encode,
     WriteJwt,
         FreePk, FreeObuf, TestJwt, CopyPassword, PrintJwt, ClientInit, ClientStart, ReleaseJwt,
             session
<1>4. \A c \in Client : \/ cl'[c] = cl[c]
                        \/ cl[c] = "none" /\ cl'[c] = "created"
                        \/ cl[c] \in {"created", "unstarted"} /\ cl'[c] \in {"wait", "unstarted"}
  <2>1. CASE ClientInit(t)   BY <2>1, <1>1 DEF ClientInit, TypeOK
  <2>2. CASE ClientStart(t)  BY <2>2, <1>1 DEF ClientStart, Startable, TypeOK
  <2>3. CASE ~ClientInit(t) /\ ~ClientStart(t)
    BY <2>3 DEF AppStart, MallocJwt, GenEnter, MallocObuf, TestObuf, Sign, FreeObufOnError,
       Encode, WriteJwt,
                FreePk, FreeObuf, TestJwt, CopyPassword, PrintJwt, ReleaseJwt, session
  <2>. QED  BY <2>1, <2>2, <2>3
<1>5. InStart(t)' \/ pc'[t] = IF t = Ctrl THEN "loop" ELSE "idle"
  BY <1>1 DEF AppStart, MallocJwt, GenEnter, MallocObuf, TestObuf, Sign, FreeObufOnError, Encode,
     WriteJwt,
              FreePk, FreeObuf, TestJwt, CopyPassword, PrintJwt, ClientInit, ClientStart,
                  ReleaseJwt,
              ReturnFromAppStart, Goto, TypeOK, InStart, InAppStart, InGenerator
<1>6. \A c \in Client : c \in Thread /\ c # Ctrl
  BY ThreadAssumption DEF Thread
<1>7. \A c \in Client : c = t => cl[c] = "wait" /\ cl'[c] = "wait" /\ pc'[c] \notin InHandler
  BY <1>2, <1>4, <1>5, <1>6
  DEF StateInv, TaskMatchesClient, InStart, InAppStart, InGenerator, InHandler
<1>8. \A c \in Client : c # t => pc'[c] = pc[c]
  BY <1>2, <1>6
<1>9. TaskMatchesClient'
  BY <1>4, <1>7, <1>8 DEF StateInv, TaskMatchesClient, InHandler, Running
<1>10. ConnectedIsReal'
  BY <1>2, <1>3, <1>4, <1>8 DEF StateInv, ConnectedIsReal, InStart, InAppStart, InGenerator
<1>11. SoleConnectedSeen'
  BY <1>3, <1>4, <1>7, <1>8 DEF StateInv, SoleConnectedSeen
<1>. QED  BY <1>1, <1>9, <1>10, <1>11 DEF StateInv

\* A step of a client or of its handler keeps it.
LEMMA ClientStateInv ==
  ASSUME StateInv, NEW c \in Client,
         Handle(c) \/ ClientLibrary(c) \/ LoseConnection(c)
  PROVE  StateInv'
<1>1. TypeOK /\ TypeOK'  BY ClientTypeOK DEF StateInv
<1>2. \A d \in Client : d \in Thread  BY DEF Thread
<1> USE <1>1, <1>2 DEF StateInv, TypeOK, TaskMatchesClient, ConnectedIsReal, SoleConnectedSeen,
                       At, Goto
<1>3. CASE HandleConnected(c)    BY <1>3 DEF HandleConnected, Running
<1>4. CASE HandleError(c)        BY <1>4 DEF HandleError, Running
<1>5. CASE HandleDisconnected(c) BY <1>5 DEF HandleDisconnected, EnterAppStart, Running
<1>6. CASE ConnectSucceeds(c)    BY <1>6 DEF ConnectSucceeds, session, Running
<1>7. CASE ConnectFails(c)       BY <1>7 DEF ConnectFails, session, Running
<1>8. CASE LoseConnection(c)     BY <1>8 DEF LoseConnection, session, Running
<1>. QED
  BY <1>3, <1>4, <1>5, <1>6, <1>7, <1>8 DEF Handle, ClientLibrary

\* Every step keeps the invariant of the state variable.
LEMMA NextStateInv == StateInv /\ [Next]_vars => StateInv'
<1> SUFFICES ASSUME StateInv, [Next]_vars PROVE StateInv'  OBVIOUS
<1>1. TypeOK /\ TypeOK'  BY NextTypeOK DEF StateInv
<1>2. CASE CtrlStart
  <2>1. UNCHANGED session /\ \A c \in Client : pc'[c] = pc[c]
    BY <1>1, <1>2, ThreadAssumption DEF CtrlStart, EnterAppStart, Goto, TypeOK, Thread
  <2>. QED
    BY <1>1, <2>1 DEF StateInv, TaskMatchesClient, ConnectedIsReal, SoleConnectedSeen, session
<1>3. ASSUME NEW t \in Thread, AppStart(t) PROVE StateInv'  BY <1>3, AppStartStateInv
<1>4. ASSUME NEW c \in Client,
             Handle(c) \/ ClientLibrary(c) \/ LoseConnection(c)
      PROVE  StateInv'
  BY <1>4, ClientStateInv
<1>5. CASE WifiChange \/ UNCHANGED vars
  BY <1>1, <1>5 DEF WifiChange, vars, session,
     StateInv, TaskMatchesClient, ConnectedIsReal, SoleConnectedSeen
<1>6. CASE Reboot  BY <1>6, RebootInit, InitStateInv, PTL
<1>. QED
  BY <1>2, <1>3, <1>4, <1>5, <1>6 DEF Next, Restart, CorruptionCrash

\* With any number of clients: ctrl_tsk sees CONNECTED only if a client is
\* connected or the handler of one that is not any more has yet to run.
THEOREM ConnectedReal == Spec => []ConnectedIsReal
<1>1. StateInv => ConnectedIsReal  BY DEF StateInv
<1>. QED  BY <1>1, InitStateInv, NextStateInv, PTL DEF Spec

\* While only one client was ever made, mqtt_service_state is its state whenever
\* its handler is not running.
THEOREM SoleClient == Spec => []SoleClientAgreement
<1>1. StateInv => SoleClientAgreement
  BY DEF StateInv, TaskMatchesClient, ConnectedIsReal, SoleConnectedSeen, SoleClientAgreement,
         Idle, Running
<1>. QED  BY <1>1, InitStateInv, NextStateInv, PTL DEF Spec

------------------------------------------------------------------------------
(* What the session promises to the rest of the device.  The mapping reads *)
(* the places of the threads and the lives of the clients; that a panic is *)
(* the fault of a start takes an invariant more: after the write through a *)
(* null jwt no thread moves, so its start is still under way.              *)

PromiseInv ==
  /\ fault = "null_write" => \E t \in Thread : InStart(t)
  /\ pc[Ctrl] \in {"waitWifi", "loop"} \cup InAppStart

SessionInv == IInv /\ StateInv /\ PromiseInv

\* The invariant holds initially.
LEMMA InitSessionInv == Init => SessionInv
<1>1. Init => PromiseInv  BY DEF Init, PromiseInv, Thread
<1>. QED  BY <1>1, InitIInv, InitStateInv DEF SessionInv

\* A step of mqtt_app_start writes through a null pointer only inside of the call.
LEMMA AppStartPromiseInv ==
  ASSUME TypeOK, PromiseInv, NEW t \in Thread, AppStart(t)
  PROVE  PromiseInv'
<1>1. /\ InStart(t) /\ fault \notin Panics
      /\ \A u \in Thread \ {t} : pc'[u] = pc[u]
  BY AppStartMoves
<1>2. Ctrl \in Thread  BY DEF Thread
<1>3. InStart(t)' \/ pc'[t] = IF t = Ctrl THEN "loop" ELSE "idle"
  BY DEF AppStart, MallocJwt, GenEnter, MallocObuf, TestObuf, Sign, FreeObufOnError, Encode,
     WriteJwt,
         FreePk, FreeObuf, TestJwt, CopyPassword, PrintJwt, ClientInit, ClientStart, ReleaseJwt,
         ReturnFromAppStart, Goto, TypeOK, InStart, InAppStart, InGenerator
<1>4. CASE ReleaseJwt(t)
  <2>1. fault' # "null_write"
    BY <1>1, <1>4 DEF ReleaseJwt, Free, Panics
  <2>. QED  BY <1>1, <1>2, <1>3, <2>1 DEF PromiseInv, InStart
<1>5. CASE ~ReleaseJwt(t)
  <2>1. InStart(t)'
    BY <1>5 DEF AppStart, MallocJwt, GenEnter, MallocObuf, TestObuf, Sign, FreeObufOnError,
       Encode, WriteJwt,
         FreePk, FreeObuf, TestJwt, CopyPassword, PrintJwt, ClientInit, ClientStart, Goto, TypeOK,
             InStart, InAppStart,
         InGenerator
  <2>. QED  BY <1>1, <1>2, <2>1 DEF PromiseInv, InStart
<1>. QED  BY <1>4, <1>5

\* A step of a client keeps it: none moves after a panic.
LEMMA ClientPromiseInv ==
  ASSUME TypeOK, PromiseInv, NEW c \in Client,
         Handle(c) \/ ClientLibrary(c) \/ LoseConnection(c)
  PROVE  PromiseInv'
<1>1. c # Ctrl /\ c \in Thread /\ Ctrl \in Thread  BY ThreadAssumption DEF Thread
<1>2. fault' = fault /\ \A u \in Thread \ {c} : pc'[u] = pc[u]
  BY <1>1 DEF Handle, HandleConnected, HandleError, HandleDisconnected, EnterAppStart,
     ClientLibrary,
     ConnectSucceeds, ConnectFails, LoseConnection, Goto, memory, TypeOK
<1>3. pc' = pc \/ fault # "null_write"
  BY DEF Handle, HandleConnected, HandleError, HandleDisconnected, ClientLibrary, At, Panics,
     ConnectSucceeds, ConnectFails, LoseConnection
<1>. QED  BY <1>1, <1>2, <1>3 DEF PromiseInv, InStart

\* Every step keeps the invariant.
LEMMA NextSessionInv == SessionInv /\ [Next]_vars => SessionInv'
<1> SUFFICES ASSUME SessionInv, [Next]_vars PROVE PromiseInv'
  BY NextIInv, NextStateInv DEF SessionInv
<1>1. TypeOK /\ PromiseInv  BY DEF SessionInv, IInv
<1>2. CASE CtrlStart
  BY <1>1, <1>2 DEF CtrlStart, EnterAppStart, At, Goto, Panics, memory, PromiseInv, TypeOK, Thread,
                    InAppStart
<1>3. ASSUME NEW t \in Thread, AppStart(t) PROVE PromiseInv'
  BY <1>1, <1>3, AppStartPromiseInv
<1>4. ASSUME NEW c \in Client,
             Handle(c) \/ ClientLibrary(c) \/ LoseConnection(c)
      PROVE  PromiseInv'
  BY <1>1, <1>4, ClientPromiseInv
<1>5. CASE WifiChange \/ UNCHANGED vars
  BY <1>1, <1>5 DEF WifiChange, vars, memory, PromiseInv, InStart
<1>6. CASE Reboot
  BY <1>6 DEF Reboot, PromiseInv, Thread
<1>. QED
  BY <1>2, <1>3, <1>4, <1>5, <1>6 DEF Next, Restart, CorruptionCrash

\* The initial states map to initial states.
LEMMA InitSession == Init => Promise!Init
<1> SUFFICES ASSUME Init PROVE Promise!Init  OBVIOUS
<1>1. \A t \in Thread : ~InStart(t) /\ pc[t] # "restarting"
  BY DEF Init, InStart, InAppStart, InGenerator
<1>2. ~asked /\ starting = {} /\ restarting = {}
  BY <1>1 DEF Init, asked, starting, restarting, Thread
<1>3. life = [c \in Client |-> "none"]
  BY DEF Init, life
<1>. QED  BY <1>2, <1>3 DEF Init, Promise!Init

\* A step that changes no client's life, and enters and leaves no handler of a
\* CONNECTED event, is not seen in life.
LEMMA SameLife ==
  ASSUME \A c \in Client : cl'[c] = cl[c] /\ (pc'[c] = "onConnected" <=> pc[c] = "onConnected")
  PROVE  life' = life
  BY DEF life

\* A step of the start maps to the assignment of the handle, to the client's start,
\* to the end of the call, or to no step.
LEMMA AppStartSession ==
  ASSUME SessionInv, TypeOK', NEW t \in Thread, AppStart(t)
  PROVE  [Promise!Next]_Promise!vars
<1> USE DEF At, Goto
<1>1. pc[Ctrl] # "waitWifi" \/ t # Ctrl
  BY AppStartMoves DEF SessionInv, StateInv, InStart, InAppStart, InGenerator
<1>2. TypeOK /\ TaskMatchesClient /\ UNCHANGED history /\ InStart(t) /\ t \in starting
  BY AppStartMoves DEF SessionInv, StateInv, starting, IInv
<1>3. /\ \A u \in Thread \ {t} : pc'[u] = pc[u]
      /\ InStart(t)' \/ ReleaseJwt(t)
      /\ InStart(t)' \/ pc'[t] = IF t = Ctrl THEN "loop" ELSE "idle"
  <2>1. \A u \in Thread \ {t} : pc'[u] = pc[u]
    BY <1>2, AppStartMoves
  <2>. QED
    BY <1>2, <2>1 DEF AppStart, MallocJwt, GenEnter, MallocObuf, TestObuf, Sign, FreeObufOnError,
       Encode, WriteJwt,
         FreePk, FreeObuf, TestJwt, CopyPassword, PrintJwt, ClientInit, ClientStart, ReleaseJwt,
         ReturnFromAppStart, TypeOK, InStart, InAppStart, InGenerator
<1>4. asked' = asked
  BY <1>2, <1>3 DEF asked, InStart, InAppStart, InGenerator, Thread
<1>5. restarting' = restarting
  BY <1>2, <1>3 DEF restarting, InStart, InAppStart, InGenerator, Thread
<1>6. \A c \in Client : pc'[c] = "onConnected" <=> pc[c] = "onConnected"
  BY <1>2, <1>3 DEF InStart, InAppStart, InGenerator, Thread
<1>7. UNCHANGED <<wifi_connect, overlapped>>  BY <1>2 DEF history
<1>8. CASE ClientInit(t)
  <2>1. starting' = starting
    BY <1>2, <1>3, <1>8 DEF starting, InStart, InAppStart, ClientInit, TypeOK
  <2>2. UNCHANGED mqtt_service_state  BY <1>8 DEF ClientInit
  <2>3. CASE mqttc' = NULL /\ UNCHANGED cl
    BY <1>2, <1>4, <1>5, <1>6, <1>7, <2>1, <2>2, <2>3, SameLife
    DEF Promise!Next, Promise!Assign, Promise!Thread, Thread
  <2>4. ASSUME NEW c \in Client, cl[c] = "none", cl' = [cl EXCEPT ![c] = "created"], mqttc' = c
        PROVE  Promise!Assign(t)
    <3>1. life[c] = "none"  BY <2>4 DEF life
    <3>2. life' = [life EXCEPT ![c] = "made"]
      BY <1>2, <1>6, <2>4 DEF life, TypeOK
    <3>. QED  BY <1>2, <1>4, <1>5, <1>7, <2>1, <2>2, <2>4, <3>1, <3>2 DEF Promise!Assign
  <2>. QED
    BY <1>8, <2>3, <2>4 DEF ClientInit, Promise!Next, Promise!Thread, Thread
<1>9. CASE ClientStart(t)
  <2>1. starting' = starting
    BY <1>2, <1>3, <1>9 DEF starting, InStart, InAppStart, ClientStart, TypeOK
  <2>2. UNCHANGED <<mqttc, mqtt_service_state>>  BY <1>9 DEF ClientStart
  <2>3. CASE ~Startable
    BY <1>4, <1>5, <1>6, <1>7, <1>9, <2>1, <2>2, <2>3, SameLife DEF ClientStart, Promise!vars
  <2>4. CASE Startable /\ cl' = [cl EXCEPT ![mqttc] = "unstarted"]
    <3>1. life' = life
      BY <1>2, <1>6, <2>4 DEF life, TypeOK, Startable
    <3>. QED  BY <1>4, <1>5, <1>7, <2>1, <2>2, <3>1 DEF Promise!vars
  <2>5. CASE Startable /\ cl' = [cl EXCEPT ![mqttc] = "wait"]
    <3>1. mqttc \in Client /\ mqttc # NULL /\ life[mqttc] = "made"
      BY <1>2, <2>5 DEF Startable, TypeOK, life
    <3>2. life' = [life EXCEPT ![mqttc] = "waiting"]
      BY <1>2, <1>6, <2>5, <3>1 DEF life, TypeOK, TaskMatchesClient, Startable, Running
    <3>. QED
      BY <1>2, <1>4, <1>5, <1>7, <2>1, <2>2, <3>1, <3>2
      DEF Promise!Next, Promise!Run, Promise!Thread, Thread
  <2>. QED  BY <1>9, <2>3, <2>4, <2>5 DEF ClientStart
<1>10. CASE ReleaseJwt(t)
  <2>1. UNCHANGED session  BY <1>10 DEF ReleaseJwt
  <2>2. pc'[t] \notin InAppStart
    BY <1>2, <1>10 DEF ReleaseJwt, ReturnFromAppStart, TypeOK, InAppStart, InGenerator
  <2>3. starting' = starting \ {t}
    BY <1>2, <1>3, <2>2 DEF starting, InStart
  <2>4. life' = life  BY <1>6, <2>1, SameLife DEF session
  <2>. QED
    BY <1>2, <1>4, <1>5, <1>7, <2>1, <2>3, <2>4
    DEF session, Promise!Next, Promise!Leave, Promise!Thread, Thread
<1>11. CASE ~ClientInit(t) /\ ~ClientStart(t) /\ ~ReleaseJwt(t)
  <2>1. UNCHANGED session
    BY <1>11 DEF AppStart, MallocJwt, GenEnter, MallocObuf, TestObuf, Sign, FreeObufOnError, Encode,
                WriteJwt, FreePk, FreeObuf, TestJwt, CopyPassword, PrintJwt
  <2>2. starting' = starting
    BY <1>2, <1>3, <1>11 DEF starting, InStart
  <2>. QED  BY <1>4, <1>5, <1>6, <1>7, <2>1, <2>2, SameLife DEF session, Promise!vars
<1>. QED  BY <1>8, <1>9, <1>10, <1>11

\* A step of a client maps to the step of its event, or to no step.
LEMMA ClientSession ==
  ASSUME SessionInv, TypeOK', NEW c \in Client,
         Handle(c) \/ ClientLibrary(c) \/ LoseConnection(c)
  PROVE  [Promise!Next]_Promise!vars
<1> USE DEF At, Goto
<1>1. TypeOK /\ TaskMatchesClient  BY DEF SessionInv, StateInv
<1>2. c \in Thread /\ c # Ctrl /\ Ctrl \in Thread  BY ThreadAssumption DEF Thread
<1>3. \A u \in Thread \ {c} : pc'[u] = pc[u]
  BY <1>1, <1>2 DEF Handle, HandleConnected, HandleError, HandleDisconnected, EnterAppStart,
     ClientLibrary, ConnectSucceeds, ConnectFails, LoseConnection, TypeOK
<1>4. asked' = asked  BY <1>2, <1>3 DEF asked
<1>5. ~InStart(c) /\ ~InStart(c)' => starting' = starting
  BY <1>2, <1>3 DEF starting, InStart
<1>6. pc[c] # "restarting" /\ pc'[c] # "restarting" => restarting' = restarting
  BY <1>3, <1>2 DEF restarting, Thread
<1>7. \A d \in Client \ {c} : pc'[d] = pc[d]  BY <1>3 DEF Thread
<1>8. ~InStart(c) /\ pc[c] # "restarting" => Promise!Free(c)
  BY <1>2 DEF Promise!Free, starting, restarting
<1>9. CASE HandleConnected(c)
  <2>1. pc[c] = "onConnected" /\ pc'[c] = "idle" /\ cl[c] = "connected"
    BY <1>1, <1>2, <1>9 DEF HandleConnected, TypeOK, TaskMatchesClient
  <2>2. starting' = starting /\ restarting' = restarting /\ Promise!Free(c)
    BY <1>5, <1>6, <1>8, <2>1 DEF InStart, InAppStart, InGenerator
  <2>3. life[c] = "waiting" /\ life' = [life EXCEPT ![c] = "connected"]
    BY <1>7, <1>9, <2>1 DEF life, HandleConnected
  <2>. QED
    BY <1>4, <1>9, <2>2, <2>3 DEF HandleConnected, history, Promise!Next, Promise!OnConnected
<1>10. CASE HandleError(c)
  <2>1. pc[c] = "onError" /\ pc'[c] = "onDisconnected" /\ cl[c] = "wait"
    BY <1>1, <1>2, <1>10 DEF HandleError, TypeOK, TaskMatchesClient
  <2>2. starting' = starting /\ restarting' = restarting /\ Promise!Free(c)
    BY <1>5, <1>6, <1>8, <2>1 DEF InStart, InAppStart, InGenerator
  <2>3. life[c] = "waiting" /\ life' = life
    BY <1>7, <1>10, <2>1 DEF life, HandleError
  <2>. QED
    BY <1>4, <1>10, <2>2, <2>3 DEF HandleError, history, Promise!Next, Promise!OnError
<1>11. CASE HandleDisconnected(c)
  <2>1. pc[c] = "onDisconnected" /\ pc'[c] \in {"malloc", "restarting"} /\ cl[c] = "wait"
    BY <1>1, <1>2, <1>11 DEF HandleDisconnected, EnterAppStart, TypeOK, TaskMatchesClient
  <2>2. life[c] = "waiting" /\ life' = life
    BY <1>7, <1>11, <2>1 DEF life, HandleDisconnected
  <2>3. Promise!Free(c)
    BY <1>8, <2>1 DEF InStart, InAppStart, InGenerator
  <2>4. CASE wifi_connect
    <3>1. pc'[c] = "malloc"
      BY <1>1, <1>2, <1>11, <2>4 DEF HandleDisconnected, EnterAppStart, TypeOK
    <3>2. starting' = starting \cup {c}
      BY <1>2, <1>3, <3>1 DEF starting, InStart, InAppStart
    <3>3. restarting' = restarting  BY <1>6, <2>1, <3>1
    <3>4. overlapped' = (overlapped \/ starting # {})
      <4>1. ~InStart(c)  BY <2>1 DEF InStart, InAppStart, InGenerator
      <4>2. (\E u \in Thread \ {c} : InStart(u)) <=> starting # {}
        BY <4>1 DEF starting
      <4>. QED  BY <1>11, <2>4, <4>2 DEF HandleDisconnected, EnterAppStart
    <3>. QED
      BY <1>4, <1>11, <2>2, <2>3, <2>4, <3>2, <3>3, <3>4
      DEF HandleDisconnected, Promise!Next, Promise!OnDisconnected, Promise!Enter
  <2>5. CASE ~wifi_connect
    <3>1. pc'[c] = "restarting" /\ UNCHANGED overlapped
      BY <1>1, <1>2, <1>11, <2>5 DEF HandleDisconnected, TypeOK
    <3>2. starting' = starting
      BY <1>5, <2>1, <3>1 DEF InStart, InAppStart, InGenerator
    <3>3. restarting' = restarting \cup {c}
      BY <1>7, <3>1 DEF restarting
    <3>. QED
      BY <1>4, <1>11, <2>2, <2>3, <2>5, <3>1, <3>2, <3>3
      DEF HandleDisconnected, Promise!Next, Promise!OnDisconnected
  <2>. QED  BY <2>4, <2>5
<1>12. CASE LoseConnection(c)
  <2>1. /\ pc[c] = "idle" /\ pc'[c] \in {"onError", "onDisconnected"}
        /\ cl[c] = "connected" /\ cl' = [cl EXCEPT ![c] = "wait"]
    BY <1>1, <1>2, <1>12 DEF LoseConnection, TypeOK
  <2>2. starting' = starting /\ restarting' = restarting
    BY <1>5, <1>6, <2>1 DEF InStart, InAppStart, InGenerator
  <2>3. life[c] = "connected" /\ life' = [life EXCEPT ![c] = "waiting"]
    BY <1>1, <1>7, <2>1 DEF life, TypeOK
  <2>. QED
    BY <1>4, <1>12, <2>2, <2>3 DEF LoseConnection, history, Promise!Next, Promise!Lose
<1>13. CASE ConnectSucceeds(c) \/ ConnectFails(c)
  <2>1. UNCHANGED <<mqttc, mqtt_service_state, history>>
    BY <1>13 DEF ConnectSucceeds, ConnectFails, session
  <2>2. /\ pc[c] = "idle" /\ pc'[c] \in {"onConnected", "onError"}
        /\ cl[c] = "wait"
        /\ \/ cl'[c] = "connected" /\ pc'[c] = "onConnected"
           \/ cl'[c] = "wait"
        /\ \A d \in Client \ {c} : cl'[d] = cl[d]
    BY <1>1, <1>2, <1>13 DEF ConnectSucceeds, ConnectFails, TypeOK, session
  <2>3. life' = life  BY <1>7, <2>2 DEF life
  <2>4. starting' = starting /\ restarting' = restarting
    BY <1>5, <1>6, <2>2 DEF starting, restarting, InStart, InAppStart, InGenerator
  <2>. QED  BY <1>4, <2>1, <2>3, <2>4 DEF history, Promise!vars
<1>. QED
  BY <1>9, <1>10, <1>11, <1>12, <1>13 DEF Handle, ClientLibrary

\* A reset maps to one that Session allows: a panic was the fault of a start that
\* is under way, or two starts have overlapped.
LEMMA ResetSession ==
  ASSUME SessionInv, Restart \/ CorruptionCrash
  PROVE  Promise!Reset
<1>1. Promise!MayReset
  <2>1. CASE \E t \in Thread : pc[t] = "restarting"
    BY <2>1 DEF SessionInv, PromiseInv, InAppStart, InGenerator, Thread, Promise!MayReset,
       restarting
  <2>2. CASE fault \in Panics \cup {"use_after_free"}
    <3>1. overlapped \/ fault = "null_write"
      BY <2>2 DEF SessionInv, IInv, SerialHeapSafe, Serial, Panics
    <3>. QED  BY <3>1 DEF SessionInv, PromiseInv, Promise!MayReset, starting
  <2>. QED  BY <2>1, <2>2 DEF Restart, CorruptionCrash
<1>2. Init'
  BY RebootInit DEF Restart, CorruptionCrash
<1>3. Promise!Init'
  BY <1>2, InitSession, PTL
<1>. QED  BY <1>1, <1>3 DEF Promise!Reset, Promise!Anew, Promise!Init

\* Every step maps to a step of Session or to no step.
LEMMA NextSession == SessionInv /\ SessionInv' /\ [Next]_vars => [Promise!Next]_Promise!vars
<1> SUFFICES ASSUME SessionInv, SessionInv', [Next]_vars PROVE [Promise!Next]_Promise!vars
  OBVIOUS
<1>1. TypeOK /\ TypeOK'  BY DEF SessionInv, IInv
<1>2. CASE CtrlStart
  <2>1. /\ pc[Ctrl] = "waitWifi" /\ pc'[Ctrl] = "malloc"
        /\ \A u \in Thread \ {Ctrl} : pc'[u] = pc[u]
    BY <1>1, <1>2 DEF CtrlStart, EnterAppStart, At, Goto, TypeOK, Thread
  <2>2. \A c \in Client : pc'[c] = pc[c]
    BY <2>1, ThreadAssumption DEF Thread
  <2>3. ~asked /\ asked' = TRUE  BY <2>1 DEF asked
  <2>4. starting' = starting \cup {Ctrl}
    BY <2>1 DEF starting, InStart, InAppStart, Thread
  <2>5. restarting' = restarting  BY <2>2 DEF restarting
  <2>6. life' = life  BY <1>2, <2>2, SameLife DEF CtrlStart, session
  <2>7. overlapped' = (overlapped \/ starting # {})
    <3>1. ~InStart(Ctrl)  BY <2>1 DEF InStart, InAppStart, InGenerator
    <3>2. (\E u \in Thread \ {Ctrl} : InStart(u)) <=> starting # {}
      BY <3>1 DEF starting
    <3>. QED  BY <1>2, <3>2 DEF CtrlStart, EnterAppStart
  <2>. QED
    BY <1>2, <2>3, <2>4, <2>5, <2>6, <2>7
    DEF CtrlStart, session, Promise!Next, Promise!CtrlStart, Promise!Enter
<1>3. ASSUME NEW t \in Thread, AppStart(t) PROVE [Promise!Next]_Promise!vars
  BY <1>1, <1>3, AppStartSession
<1>4. ASSUME NEW c \in Client,
             Handle(c) \/ ClientLibrary(c) \/ LoseConnection(c)
      PROVE  [Promise!Next]_Promise!vars
  BY <1>1, <1>4, ClientSession
<1>5. CASE WifiChange
  <2>1. UNCHANGED <<asked, starting, life, restarting>>
    BY <1>5 DEF WifiChange, session, asked, starting, life, restarting, InStart
  <2>. QED
    BY <1>5, <2>1 DEF WifiChange, session, Promise!Next, Promise!WifiChange
<1>6. CASE Restart \/ CorruptionCrash
  BY <1>6, ResetSession DEF Promise!Next
<1>7. CASE UNCHANGED vars
  BY <1>7 DEF vars, Promise!vars, asked, starting, life, restarting, InStart
<1>. QED
  BY <1>2, <1>3, <1>4, <1>5, <1>6, <1>7 DEF Next

\* For any number of clients and blocks: whatever the threads, the heap and the error
\* paths do, the rest of the device sees only what Session allows.
THEOREM SessionTheorem == Spec => ImplementsSession
  BY InitSessionInv, NextSessionInv, InitSession, NextSession, PTL
  DEF Spec, ImplementsSession, Promise!Spec

=============================================================================
