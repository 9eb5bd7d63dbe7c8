--------------------------- MODULE Gateway_proofs ---------------------------
(***************************************************************************)
(* Proofs about Gateway, for any number of clients.                        *)
(***************************************************************************)
EXTENDS Gateway, TLAPS

(* The order of the boot, and that nothing of a session and no task in     *)
(* stop is there before ctrl_tsk has begun.                                *)

Early == {"none", "master", "wait", "panic"}

BootOrder ==
  /\ boot # "done" => ctrl = "none"
  /\ boot \in {"time", "create", "done"} => addressed # {}
  /\ boot \in {"create", "done"} => recovery = "done"
  /\ recovery = "done" => known
  /\ boot = "init" => Stop!Init

NoSessionEarly ==
  ctrl \in Early =>
    /\ starting = {} /\ \A c \in Client : life[c] = "none"
    /\ \A c \in Client : at[c] = "out"

(* The teardown: what a task in stop has done, and what it holds.          *)

\* The handlers that a task at a place has unregistered.
Past(place) ==
  CASE place = "got_ip"  -> {"disconnect"}
    [] place = "got_ip6" -> {"disconnect", "got_ip"}
    [] place = "connect" -> {"disconnect", "got_ip", "got_ip6"}
    [] place \in {"stop", "deinit", "clear", "destroy"} -> Stop!Handler
    [] OTHER -> {}

EventInv ==
  /\ running # "none" => running \in registered
  /\ driver # "started" => registered = {}
  /\ \A c \in Client : registered \cap Past(at[c]) = {}

HolderInv ==
  /\ driver # "off" => netif
  /\ \A c \in Client :
       /\ at[c] \in Stop!Handler \cup {"stop", "deinit"} /\ driver # "off" => c \in found
       /\ at[c] \in {"clear", "destroy"} =>
            /\ c \in found /\ netif /\ driver = "off"
            /\ \A d \in Client \ {c} : at[d] \notin {"clear", "destroy"}

StopInv == EventInv /\ HolderInv

IInv == TypeOK /\ BootOrder /\ NoSessionEarly /\ StopInv

------------------------------------------------------------------------------
\* The invariant holds initially.
LEMMA InitIInv == Init => IInv
<1> SUFFICES ASSUME Init PROVE IInv  OBVIOUS
<1> USE DEF Init, Net!Init, Service!Init, Ctl!Init, Ctl!Sess!Init, Stop!Init
<1>1. TypeOK
  BY DEF TypeOK, Ctl!TypeOK, Ctl!Sess!TypeOK, Stop!TypeOK, Stop!Place, Stop!Checked, Stop!Handler
<1>2. BootOrder /\ NoSessionEarly
  BY DEF BootOrder, NoSessionEarly
<1>3. StopInv
  BY DEF StopInv, EventInv, HolderInv, Past, Stop!Handler
<1>. QED  BY <1>1, <1>2, <1>3 DEF IInv

\* The order in which wifi_stop unregisters its handlers.
LEMMA UnregisterOrder ==
  ASSUME NEW c \in Client, Stop!Unregister(c)
  PROVE  \/ at[c] = "disconnect" /\ Stop!Move(c, "disconnect", "got_ip")
         \/ at[c] = "got_ip" /\ Stop!Move(c, "got_ip", "got_ip6")
         \/ at[c] = "got_ip6" /\ Stop!Move(c, "got_ip6", "connect")
         \/ at[c] = "connect" /\ Stop!Move(c, "connect", "stop")
  BY DEF Stop!Unregister, Stop!After, Stop!Handler

\* A reset leads to an initial state.
LEMMA ResetInit == Reset => Init'
  BY DEF Reset, Init, Net!Init, Service!Init, Ctl!Init, Ctl!Anew, Ctl!Sess!Init, Ctl!Sess!Anew,
         Stop!Init

\* A step of a task in stop keeps the types of the variables of the shutdown.
LEMMA StepTypeOK ==
  ASSUME Stop!TypeOK, NEW c \in Client, Stop!Step(c)
  PROVE  Stop!TypeOK'
<1> USE DEF Stop!TypeOK, Stop!Place, Stop!Checked, Stop!Handler, Stop!Move
<1>1. CASE Stop!Look(c)        BY <1>1 DEF Stop!Look
<1>2. CASE Stop!Compare(c)     BY <1>2 DEF Stop!Compare
<1>3. CASE Stop!Unregister(c)  BY <1>3, UnregisterOrder DEF Stop!Unregister
<1>4. CASE Stop!StopDriver(c)  BY <1>4 DEF Stop!StopDriver
<1>5. CASE Stop!Deinit(c)      BY <1>5 DEF Stop!Deinit
<1>6. CASE Stop!Clear(c)       BY <1>6 DEF Stop!Clear
<1>7. CASE Stop!Destroy(c)     BY <1>7 DEF Stop!Destroy
<1>8. CASE Stop!Abort(c)       BY <1>8 DEF Stop!Abort
<1>. QED  BY <1>1, <1>2, <1>3, <1>4, <1>5, <1>6, <1>7, <1>8 DEF Stop!Step

\* A step of a task in stop keeps the invariant of the teardown.
LEMMA StepStopInv ==
  ASSUME Stop!TypeOK, StopInv, NEW c \in Client, Stop!Step(c)
  PROVE  StopInv'
<1> USE DEF Stop!TypeOK, StopInv, EventInv, HolderInv, Stop!Handler, Stop!Move
<1>1. CASE Stop!Look(c)        BY <1>1 DEF Stop!Look, Past
<1>2. CASE Stop!Compare(c)     BY <1>2 DEF Stop!Compare, Past
<1>3. CASE Stop!Unregister(c)
  <2>1. registered' = registered \ {at[c]} /\ UNCHANGED <<running, driver>> /\ running = "none"
    BY <1>3 DEF Stop!Unregister
  <2>3. \A d \in Client \ {c} : registered' \cap Past(at'[d]) = {}
    <3>1. \A d \in Client \ {c} : at'[d] = at[d]
      BY <1>3 DEF Stop!Unregister
    <3>. QED  BY <2>1, <3>1
  <2>4. registered' \cap Past(at'[c]) = {}
    <3>1. CASE at[c] = "disconnect" /\ at'[c] = "got_ip"   BY <2>1, <3>1 DEF Past
    <3>2. CASE at[c] = "got_ip" /\ at'[c] = "got_ip6"      BY <2>1, <3>2 DEF Past
    <3>3. CASE at[c] = "got_ip6" /\ at'[c] = "connect"     BY <2>1, <3>3 DEF Past
    <3>4. CASE at[c] = "connect" /\ at'[c] = "stop"        BY <2>1, <3>4 DEF Past
    <3>. QED  BY <1>3, UnregisterOrder, <3>1, <3>2, <3>3, <3>4
  <2>5. EventInv'  BY <2>1, <2>3, <2>4
  <2>2. HolderInv'  BY <1>3, UnregisterOrder DEF Stop!Unregister
  <2>. QED  BY <2>2, <2>5
<1>4. CASE Stop!StopDriver(c)
  <2>1. registered \cap Stop!Handler = {}
    BY <1>4 DEF Stop!StopDriver, Past
  <2>2. EventInv'   BY <1>4, <2>1 DEF Stop!StopDriver, Past
  <2>3. HolderInv'  BY <1>4 DEF Stop!StopDriver
  <2>. QED  BY <2>2, <2>3
<1>5. CASE Stop!Deinit(c)
  <2>1. EventInv'   BY <1>5 DEF Stop!Deinit, Past
  <2>2. HolderInv'  BY <1>5 DEF Stop!Deinit
  <2>. QED  BY <2>1, <2>2
<1>6. CASE Stop!Clear(c)       BY <1>6 DEF Stop!Clear, Past
<1>7. CASE Stop!Destroy(c)     BY <1>7 DEF Stop!Destroy, Past
<1>8. CASE Stop!Abort(c)       BY <1>8 DEF Stop!Abort, Stop!Checked, Past
<1>. QED  BY <1>1, <1>2, <1>3, <1>4, <1>5, <1>6, <1>7, <1>8 DEF Stop!Step

\* What happens outside of the boot, of ctrl_tsk's own steps and of the reset keeps
\* the order of the boot, if an address or the clock is never taken back.
LEMMA OutsideBootOrder ==
  ASSUME BootOrder, UNCHANGED <<boot, ctrl, recovery, known>>, addressed \subseteq addressed',
         boot = "init" => UNCHANGED shutdown
  PROVE  BootOrder'
<1>1. (boot = "init" => Stop!Init)'
  BY DEF BootOrder, shutdown, Stop!Init
<1>. QED  BY <1>1 DEF BootOrder

\* Each step of app_main, ctrl_tsk or the recovery of the time keeps the invariant.
LEMMA TaskIInv ==
  ASSUME IInv, AppMain \/ Panic \/ Recover \/ MasterInit \/ CtrlStart \/ Publish \/ Delay
  PROVE  IInv'
<1> USE DEF IInv, TypeOK, Boot, network, time, session, shutdown, Ctl!session, Ctl!TypeOK,
            Ctl!Sess!TypeOK, Ctl!Sess!Thread
<1>1. CASE StartNetwork
  <2>1. Stop!TypeOK'
    BY <1>1 DEF StartNetwork, Stop!Start, Stop!TypeOK
  <2>2. TypeOK'
    BY <1>1, <2>1 DEF StartNetwork
  <2>3. BootOrder' /\ NoSessionEarly'
    BY <1>1 DEF StartNetwork, Stop!Start, BootOrder, NoSessionEarly
  <2>4. StopInv'
    BY <1>1 DEF StartNetwork, Stop!Start, BootOrder, Stop!Init, StopInv, EventInv, HolderInv, Past,
                Stop!Handler
  <2>. QED  BY <2>2, <2>3, <2>4
<1>2. ASSUME UNCHANGED shutdown PROVE Stop!TypeOK' /\ StopInv'
  <2>1. Stop!TypeOK'  BY <1>2 DEF Stop!TypeOK
  <2>2. StopInv'      BY <1>2 DEF StopInv, EventInv, HolderInv
  <2>. QED  BY <2>1, <2>2
<1>3. ASSUME UNCHANGED <<starting, life, shutdown>>, ctrl' \in Early => ctrl \in Early
      PROVE  NoSessionEarly'
  BY <1>3 DEF NoSessionEarly
<1>4. CASE Connect
  <2>1. NoSessionEarly'  BY <1>3, <1>4 DEF Connect, Net!Connect
  <2>2. BootOrder'  BY <1>4 DEF Connect, Net!Connect, BootOrder
  <2>. QED  BY <1>2, <1>4, <2>1, <2>2 DEF Connect, Net!Connect
<1>5. CASE TimeDone
  <2>1. NoSessionEarly'  BY <1>3, <1>5 DEF TimeDone
  <2>2. BootOrder'  BY <1>5 DEF TimeDone, Service!Done, BootOrder
  <2>. QED  BY <1>2, <1>5, <2>1, <2>2 DEF TimeDone, Service!Done
<1>6. CASE CreateCtrl
  <2>1. NoSessionEarly'  BY <1>3, <1>6 DEF CreateCtrl, Ctl!Create, Ctl!session, BootOrder, Early
  <2>2. BootOrder'  BY <1>6 DEF CreateCtrl, Ctl!Create, Ctl!session, BootOrder
  <2>. QED  BY <1>2, <1>6, <2>1, <2>2 DEF CreateCtrl, Ctl!Create
<1>7. CASE Panic
  <2>1. NoSessionEarly'  BY <1>3, <1>7 DEF Panic, Net!Panic
  <2>2. BootOrder'  BY <1>7, OutsideBootOrder DEF Panic, Net!Panic
  <2>. QED  BY <1>2, <1>7, <2>1, <2>2 DEF Panic, Net!Panic
<1>8. CASE Recover
  <2>1. NoSessionEarly'  BY <1>3, <1>8 DEF Recover
  <2>2. BootOrder'
    BY <1>8 DEF Recover, Answer, Discard, Service!Learn, Service!Discard, BootOrder
  <2>. QED
    BY <1>2, <1>8, <2>1, <2>2 DEF Recover, Answer, Discard, Service!Learn, Service!Discard
<1>9. CASE MasterInit \/ Publish \/ Delay
  <2>1. NoSessionEarly'
    BY <1>3, <1>9 DEF MasterInit, Ctl!MasterInit, Publish, Ctl!Publish, Delay, Ctl!Delay, Early
  <2>2. BootOrder'
    <3>1. UNCHANGED <<boot, addressed, recovery, known, shutdown>> /\ ctrl # "none"
      BY <1>9 DEF MasterInit, Ctl!MasterInit, Publish, Ctl!Publish, Delay, Ctl!Delay
    <3>2. (boot = "init" => Stop!Init)'
      BY <3>1 DEF BootOrder
    <3>. QED  BY <3>1, <3>2 DEF BootOrder
  <2>3. TypeOK'
    <3>1. UNCHANGED <<boot, network, wifi_connect, time, session, shutdown>>
          /\ ctrl' \in {"wait", "panic", "publish", "loop"}
      BY <1>9 DEF MasterInit, Ctl!MasterInit, Publish, Ctl!Publish, Delay, Ctl!Delay
    <3>. QED  BY <1>2, <3>1
  <2>. QED  BY <1>2, <1>9, <2>1, <2>2, <2>3
           DEF MasterInit, Ctl!MasterInit, Publish, Ctl!Publish, Delay, Ctl!Delay
<1>10. CASE CtrlStart
  <2>1. NoSessionEarly'
    BY <1>10 DEF CtrlStart, Ctl!CtrlStart, Early, NoSessionEarly
  <2>2. BootOrder'
    BY <1>10 DEF CtrlStart, Ctl!CtrlStart, Ctl!Sess!CtrlStart, BootOrder
  <2>3. TypeOK'
    BY <1>2, <1>10 DEF CtrlStart, Ctl!CtrlStart, Ctl!Sess!CtrlStart, Ctl!Sess!Enter
  <2>. QED  BY <1>2, <1>10, <2>1, <2>2, <2>3 DEF CtrlStart, Ctl!CtrlStart
<1>. QED
  BY <1>1, <1>4, <1>5, <1>6, <1>7, <1>8, <1>9, <1>10 DEF AppMain

\* Each step of the event task keeps the invariant.
LEMMA EventIInv ==
  ASSUME IInv, OnWifiConnect \/ OnWifiDisconnect \/ OnGotIp \/ EndHandler
  PROVE  IInv'
<1> USE DEF IInv, network, time, session
<1>1. /\ UNCHANGED <<boot, ctrl, time, session, at, found, registered, driver, netif>>
      /\ wifi_connect' \in BOOLEAN /\ stage' = stage
      /\ addressed' \in {addressed, addressed \cup {"wifi"}}
  BY DEF OnWifiConnect, OnWifiDisconnect, OnGotIp, EndHandler, Stop!Begin, Stop!End, Net!Flag,
         Net!Addressed, TypeOK, Ctl!TypeOK, Ctl!Sess!TypeOK
<1>2. \/ running' = "none"
      \/ running' \in registered
  BY DEF OnWifiConnect, OnWifiDisconnect, OnGotIp, EndHandler, Stop!Begin, Stop!End
<1>3. running # "none" \/ registered # {}
  BY DEF OnWifiConnect, OnWifiDisconnect, OnGotIp, EndHandler, Stop!Begin, Stop!End
<1>4. TypeOK'
  BY <1>1, <1>2 DEF TypeOK, Ctl!TypeOK, Ctl!Sess!TypeOK, Stop!TypeOK
<1>5. BootOrder'
  <2>1. boot # "init"
    BY <1>3 DEF BootOrder, Stop!Init
  <2>. QED  BY <1>1, <2>1, OutsideBootOrder
<1>6. NoSessionEarly'
  BY <1>1 DEF NoSessionEarly
<1>7. StopInv'
  BY <1>1, <1>2 DEF StopInv, EventInv, HolderInv
<1>. QED  BY <1>4, <1>5, <1>6, <1>7

\* Each step of a start or of a client keeps the invariant.
LEMMA SessionIInv ==
  ASSUME IInv,
         \/ \E t \in Ctl!Sess!Thread : InStart(t)
         \/ \E c \in Client : \/ ClientConnected(c) \/ ClientLost(c) \/ ClientError(c)
                             \/ ClientDisconnected(c)
  PROVE  IInv'
<1> USE DEF IInv, network, time, Ctl!InStart, Ctl!Connected, Ctl!Lost, Ctl!Error, Ctl!Disconnected
<1>1. ctrl \notin Early
  BY DEF NoSessionEarly, InStart, Ctl!Sess!Assign, Ctl!Sess!Run, Ctl!Sess!Leave,
         ClientConnected, ClientLost, ClientError, ClientDisconnected,
         Ctl!Sess!OnConnected, Ctl!Sess!Lose, Ctl!Sess!OnError, Ctl!Sess!OnDisconnected
<1>2. UNCHANGED <<boot, network, wifi_connect, time, found, registered, running, driver, netif>>
  BY DEF InStart, Ctl!Sess!Assign, Ctl!Sess!Run, Ctl!Sess!Leave,
         ClientConnected, ClientLost, ClientError, ClientDisconnected,
         Ctl!Sess!OnConnected, Ctl!Sess!Lose, Ctl!Sess!OnError, Ctl!Sess!OnDisconnected, shutdown, Stop!Enter
<1>3. ctrl' \in {ctrl, "loop"}
  BY DEF InStart, Ctl!Sess!Assign, Ctl!Sess!Run, Ctl!Sess!Leave,
         ClientConnected, ClientLost, ClientError, ClientDisconnected
<1>4. at' = at \/ \E c \in Client : Stop!Move(c, "out", "look")
  BY DEF InStart, ClientConnected, ClientLost, ClientError, ClientDisconnected, shutdown, Stop!Enter
<1>5. boot = "done" /\ boot' = "done"
  BY <1>1, <1>2 DEF BootOrder, Early
<1>6. BootOrder'
  BY <1>2, <1>5 DEF BootOrder
<1>7. NoSessionEarly'
  BY <1>1, <1>3 DEF NoSessionEarly, Early
<1>8. Stop!TypeOK'
  BY <1>2, <1>4 DEF TypeOK, Stop!TypeOK, Stop!Move, Stop!Place, Stop!Checked
<1>9. StopInv'
  BY <1>2, <1>4 DEF TypeOK, Stop!TypeOK, Stop!Move, StopInv, EventInv, HolderInv, Past, Stop!Handler
<1>10. TypeOK'
  <2>1. Ctl!Sess!TypeOK'
    <3> USE DEF TypeOK, Ctl!TypeOK, Ctl!Sess!TypeOK, Ctl!Sess!Thread
    <3>1. ASSUME NEW t \in Ctl!Sess!Thread, InStart(t) PROVE Ctl!Sess!TypeOK'
      BY <3>1 DEF InStart, Ctl!Sess!Assign, Ctl!Sess!Run, Ctl!Sess!Leave
    <3>2. ASSUME NEW c \in Client, ClientConnected(c) \/ ClientLost(c) \/ ClientError(c)
          PROVE  Ctl!Sess!TypeOK'
      BY <3>2 DEF ClientConnected, ClientLost, ClientError,
                  Ctl!Sess!OnConnected, Ctl!Sess!Lose, Ctl!Sess!OnError
    <3>3. ASSUME NEW c \in Client, ClientDisconnected(c) PROVE Ctl!Sess!TypeOK'
      BY <3>3 DEF ClientDisconnected, Ctl!Sess!OnDisconnected, Ctl!Sess!Enter
    <3>. QED  BY <3>1, <3>2, <3>3
  <2>. QED  BY <1>2, <1>3, <1>8, <2>1 DEF TypeOK, Ctl!TypeOK
<1>. QED  BY <1>6, <1>7, <1>9, <1>10

\* A step of a task in stop keeps the invariant.
LEMMA ShutdownIInv ==
  ASSUME IInv, NEW c \in Client, Shutdown(c)
  PROVE  IInv'
<1> USE DEF IInv, Shutdown, network, time, session
<1>1. at[c] # "out"
  BY DEF Stop!Step, Stop!Look, Stop!Compare, Stop!Unregister, Stop!StopDriver, Stop!Deinit,
         Stop!Clear, Stop!Destroy, Stop!Abort, Stop!Move, Stop!Handler, Stop!Checked
<1>2. ctrl \notin Early
  BY <1>1 DEF NoSessionEarly
<1>3. boot # "init"
  BY <1>2 DEF BootOrder, Early
<1>4. Stop!TypeOK'  BY StepTypeOK DEF TypeOK
<1>5. StopInv'      BY StepStopInv DEF TypeOK
<1>6. TypeOK'       BY <1>4 DEF TypeOK, Ctl!TypeOK, Ctl!Sess!TypeOK
<1>7. BootOrder'    BY <1>3, OutsideBootOrder
<1>8. NoSessionEarly'  BY <1>2 DEF NoSessionEarly
<1>. QED  BY <1>5, <1>6, <1>7, <1>8

\* Every step keeps the invariant.
LEMMA NextIInv == IInv /\ [Next]_vars => IInv'
<1> SUFFICES ASSUME IInv, [Next]_vars PROVE IInv'  OBVIOUS
<1>1. CASE AppMain \/ Panic \/ Recover \/ MasterInit \/ CtrlStart \/ Publish \/ Delay
  BY <1>1, TaskIInv
<1>2. CASE OnWifiConnect \/ OnWifiDisconnect \/ OnGotIp \/ EndHandler
  BY <1>2, EventIInv
<1>3. CASE \/ \E t \in Ctl!Sess!Thread : InStart(t)
           \/ \E c \in Client : \/ ClientConnected(c) \/ ClientLost(c) \/ ClientError(c)
                               \/ ClientDisconnected(c)
  BY <1>3, SessionIInv
<1>4. ASSUME NEW c \in Client, Shutdown(c) PROVE IInv'  BY <1>4, ShutdownIInv
<1>5. CASE Reset  BY <1>5, ResetInit, InitIInv, PTL
<1>6. CASE UNCHANGED vars
  <2> USE <1>6 DEF vars, network, time, session, shutdown
  <2>1. TypeOK'  BY DEF IInv, TypeOK, Ctl!TypeOK, Ctl!Sess!TypeOK, Stop!TypeOK
  <2>2. BootOrder' /\ NoSessionEarly'  BY DEF IInv, BootOrder, NoSessionEarly, Stop!Init
  <2>3. StopInv'  BY DEF IInv, StopInv, EventInv, HolderInv
  <2>. QED  BY <2>1, <2>2, <2>3 DEF IInv
<1>. QED  BY <1>1, <1>2, <1>3, <1>4, <1>5, <1>6 DEF Next

\* The invariant holds in every reachable state.
THEOREM Invariance == Spec => []IInv
  BY InitIInv, NextIInv, PTL DEF Spec

\* In every reachable state of the device each variable has its type.
THEOREM TypeCorrect == Spec => []TypeOK
<1>1. IInv => TypeOK  BY DEF IInv
<1>. QED  BY <1>1, Invariance, PTL

\* For any number of clients, and across every reset: no session is started, and so no
\* token dated, before the clock was set and the network connected.
THEOREM TokensTheorem == Spec => []TokensAfterTime
<1>1. IInv => TokensAfterTime
  <2> SUFFICES ASSUME IInv, starting # {} \/ \E c \in Client : life[c] # "none"
               PROVE  /\ known /\ recovery = "done" /\ addressed # {}
                      /\ ctrl \notin {"none", "master", "wait", "panic"}
    BY DEF TokensAfterTime
  <2>1. ctrl \notin Early   BY DEF IInv, NoSessionEarly
  <2>2. boot = "done"       BY <2>1 DEF IInv, BootOrder, Early
  <2>. QED  BY <2>1, <2>2 DEF IInv, BootOrder, Early
<1>. QED  BY <1>1, Invariance, PTL

\* However many tasks meet in stop: no handler runs once the driver was stopped, and
\* one task at a time takes the netif apart, while it is alive.
THEOREM TeardownTheorem == Spec => []OrderlyTeardown
<1>1. IInv => OrderlyTeardown
  BY DEF IInv, StopInv, EventInv, HolderInv, OrderlyTeardown, Stop!OrderlyTeardown
<1>. QED  BY <1>1, Invariance, PTL
=============================================================================
