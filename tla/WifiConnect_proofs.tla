-------------------------- MODULE WifiConnect_proofs --------------------------
(***************************************************************************)
(* Proofs about WifiConnect, for every choice of the interfaces and every  *)
(* length of the event queue.                                              *)
(***************************************************************************)
EXTENDS WifiConnect, FiniteSetTheorems, TLAPS

------------------------------------------------------------------------------
(* Types.                                                                  *)

\* The count of addresses to wait for is a positive number.
LEMMA CountType ==
  ASSUME interfaces \in Configurations
  PROVE  ToWaitFor \in Nat /\ ToWaitFor > 0
<1>1. interfaces \subseteq {"wifi", "eth"} /\ interfaces # {}
  BY ConfigAssumption
<1>2. IsFiniteSet({"wifi", "eth"}) /\ IsFiniteSet({"ip4"}) /\ IsFiniteSet({"ip4", "ip6"})
  <2>1. \A a, b : IsFiniteSet({a} \cup {b})
    BY FS_Singleton, FS_Union
  <2>2. {"wifi"} \cup {"eth"} = {"wifi", "eth"} /\ {"ip4"} \cup {"ip4"} = {"ip4"}
        /\ {"ip4"} \cup {"ip6"} = {"ip4", "ip6"}
    OBVIOUS
  <2>3. IsFiniteSet({"wifi"} \cup {"eth"}) /\ IsFiniteSet({"ip4"} \cup {"ip4"})
        /\ IsFiniteSet({"ip4"} \cup {"ip6"})
    BY <2>1, Zenon
  <2>. QED  BY <2>2, <2>3
<1>3. IsFiniteSet(interfaces) /\ IsFiniteSet(Kinds)
  BY <1>1, <1>2, FS_Subset DEF Kinds
<1>4. Kinds # {}
  BY DEF Kinds
<1>5. Cardinality(interfaces) \in Nat \ {0} /\ Cardinality(Kinds) \in Nat \ {0}
  BY <1>1, <1>3, <1>4, FS_CardinalityType, FS_EmptySet
<1>6. \A m, n \in Nat \ {0} : m * n \in Nat /\ m * n > 0
  OBVIOUS
<1>. QED  BY <1>5, <1>6 DEF ToWaitFor

USE DEF device, network

\* What a queue of events is, and how Take and Post change it.
LEMMA TakeType ==
  ASSUME NEW what, NEW i, queue \in Seq(Event), Len(queue) <= QueueMax, Take(what, i)
  PROVE  queue' \in Seq(Event) /\ Len(queue') <= QueueMax
BY ConfigAssumption DEF Take

LEMMA PostType ==
  ASSUME NEW what \in {"up", "down", "ip4", "ip6"}, NEW i \in interfaces,
         queue \in Seq(Event), Len(queue) <= QueueMax, Post(what, i)
  PROVE  queue' \in Seq(Event) /\ Len(queue') <= QueueMax
BY ConfigAssumption DEF Post, Event

LEMMA InitTypeOK == Init => TypeOK
<1>. SUFFICES ASSUME Init PROVE TypeOK
  OBVIOUS
<1>1. ToWaitFor \in Nat /\ QueueMax \in Nat
  BY CountType, ConfigAssumption DEF Init
<1>2. asking \in [interfaces -> SUBSET Kinds] /\ got \in [interfaces -> SUBSET Kinds]
  BY DEF Init
<1>3. queue \in Seq(Event) /\ Len(queue) <= QueueMax
  BY <1>1 DEF Init
<1>4. link \in [interfaces -> {"off", "down", "up"}]
  BY DEF Init
<1>5. taken \in 0..ToWaitFor /\ sem \in {NoSemaphore} \cup 0..ToWaitFor
  BY <1>1 DEF Init
<1>. QED  BY <1>2, <1>3, <1>4, <1>5 DEF Init, TypeOK

LEMMA NextTypeOK == TypeOK /\ [Next]_vars => TypeOK'
<1>. SUFFICES ASSUME TypeOK, [Next]_vars PROVE TypeOK'
  OBVIOUS
<1>1. ToWaitFor \in Nat /\ ToWaitFor > 0 /\ NoSemaphore = -1
  BY CountType DEF TypeOK, NoSemaphore
<1>2. interfaces' = interfaces
  BY DEF Next, Tasks, StartWifi, StartEthernet, CreateSemaphore, RegisterShutdown,
         TakeSemaphore, Connected, CreateCtrl, CtrlStart, Handlers, OnWifiConnect,
         OnEthEvent, OnWifiDisconnect, EthernetDown, HandleAddress, LinkUp, LinkDown,
         JoinFails, Address, Reset, vars
<1>3. Event' = Event /\ ToWaitFor' = ToWaitFor /\ Kinds' = Kinds
  BY <1>2 DEF Event, ToWaitFor, Kinds
<1>4. Kinds \subseteq {"ip4", "ip6"}
  BY DEF Kinds
<1>5. CASE StartWifi
  BY <1>2, <1>3, <1>5 DEF TypeOK, StartWifi
<1>6. CASE StartEthernet
  BY <1>2, <1>3, <1>6 DEF TypeOK, StartEthernet
<1>7. CASE CreateSemaphore
  BY <1>1, <1>2, <1>3, <1>7 DEF TypeOK, CreateSemaphore
<1>8. CASE RegisterShutdown
  BY <1>2, <1>3, <1>8 DEF TypeOK, RegisterShutdown
<1>9. CASE TakeSemaphore
  BY <1>1, <1>2, <1>3, <1>9 DEF TypeOK, TakeSemaphore
<1>10. CASE Connected
  BY <1>2, <1>3, <1>10 DEF TypeOK, Connected
<1>11. CASE CreateCtrl
  BY <1>2, <1>3, <1>11 DEF TypeOK, CreateCtrl
<1>12. CASE CtrlStart
  BY <1>2, <1>3, <1>12 DEF TypeOK, CtrlStart
<1>13. CASE OnWifiConnect
  <2>1. queue' \in Seq(Event) /\ Len(queue') <= QueueMax
    BY <1>13, TakeType DEF TypeOK, OnWifiConnect
  <2>2. wifi_connect' \in BOOLEAN
    BY <1>13, ConfigAssumption DEF TypeOK, OnWifiConnect
  <2>3. asking' \in [interfaces -> SUBSET Kinds]
    BY <1>13 DEF TypeOK, OnWifiConnect, Ask
  <2>. QED  BY <2>1, <2>2, <2>3, <1>2, <1>3, <1>13 DEF TypeOK, OnWifiConnect
<1>14. CASE OnEthEvent
  <2>1. queue' \in Seq(Event) /\ Len(queue') <= QueueMax
    BY <1>14, TakeType DEF TypeOK, OnEthEvent
  <2>2. asking' \in [interfaces -> SUBSET Kinds] /\ panic' \in {"none", "error"}
    BY <1>14 DEF TypeOK, OnEthEvent, Ask
  <2>. QED  BY <2>1, <2>2, <1>2, <1>3, <1>14 DEF TypeOK, OnEthEvent
<1>15. CASE OnWifiDisconnect
  <2>1. queue' \in Seq(Event) /\ Len(queue') <= QueueMax
    BY <1>15, TakeType DEF TypeOK, OnWifiDisconnect
  <2>2. asking' \in [interfaces -> SUBSET Kinds]
    BY <1>15 DEF TypeOK, OnWifiDisconnect, Ask
  <2>3. /\ joining' \in BOOLEAN /\ (joining' => "wifi" \in interfaces)
        /\ refused' \in BOOLEAN /\ panic' \in {"none", "assert", "error"}
    <3>1. Head(queue).if = "wifi" /\ Head(queue) \in Event
      BY <1>15 DEF TypeOK, OnWifiDisconnect, Take
    <3>. QED  BY <3>1, <1>15 DEF TypeOK, OnWifiDisconnect, Event, Joins, JoinError, JoinRefused
  <2>. QED  BY <2>1, <2>2, <2>3, <1>2, <1>3, <1>15 DEF TypeOK, OnWifiDisconnect
<1>16. CASE EthernetDown
  <2>1. queue' \in Seq(Event) /\ Len(queue') <= QueueMax
    BY <1>16, TakeType DEF TypeOK, EthernetDown
  <2>2. asking' \in [interfaces -> SUBSET Kinds]
    BY <1>16 DEF TypeOK, EthernetDown, Ask
  <2>. QED  BY <2>1, <2>2, <1>2, <1>3, <1>16 DEF TypeOK, EthernetDown
<1>17. CASE \E i \in interfaces, k \in Kinds : HandleAddress(k, i)
  <2>1. PICK i \in interfaces, k \in Kinds : HandleAddress(k, i)
    BY <1>17
  <2>2. queue' \in Seq(Event) /\ Len(queue') <= QueueMax
    BY <2>1, TakeType DEF TypeOK, HandleAddress
  <2>3. sem' \in {NoSemaphore} \cup 0..ToWaitFor /\ panic' \in {"none", "assert", "error"}
    BY <2>1, <1>1 DEF TypeOK, HandleAddress, Give
  <2>. QED  BY <2>1, <2>2, <2>3, <1>2, <1>3 DEF TypeOK, HandleAddress
<1>18. CASE \E i \in interfaces : LinkUp(i)
  <2>1. PICK i \in interfaces : LinkUp(i)
    BY <1>18
  <2>2. queue' \in Seq(Event) /\ Len(queue') <= QueueMax
    BY <2>1, PostType DEF TypeOK, LinkUp
  <2>3. link' \in [interfaces -> {"off", "down", "up"}] /\ joining' \in BOOLEAN
    BY <2>1 DEF TypeOK, LinkUp
  <2>. QED  BY <2>1, <2>2, <2>3, <1>2, <1>3 DEF TypeOK, LinkUp
<1>19. CASE \E i \in interfaces : LinkDown(i)
  <2>1. PICK i \in interfaces : LinkDown(i)
    BY <1>19
  <2>2. queue' \in Seq(Event) /\ Len(queue') <= QueueMax
    BY <2>1, PostType DEF TypeOK, LinkDown
  <2>. QED  BY <2>1, <2>2, <1>2, <1>3 DEF TypeOK, LinkDown
<1>20. CASE \E i \in interfaces, k \in Kinds : Address(k, i)
  <2>1. PICK i \in interfaces, k \in Kinds : Address(k, i)
    BY <1>20
  <2>2. queue' \in Seq(Event) /\ Len(queue') <= QueueMax
    BY <2>1, <1>4, PostType DEF TypeOK, Address
  <2>3. asking' \in [interfaces -> SUBSET Kinds] /\ got' \in [interfaces -> SUBSET Kinds]
    BY <2>1 DEF TypeOK, Address
  <2>. QED  BY <2>1, <2>2, <2>3, <1>2, <1>3 DEF TypeOK, Address
<1>21. CASE JoinFails
  <2>1. queue' \in Seq(Event) /\ Len(queue') <= QueueMax
    <3>1. Len(queue) < QueueMax /\ queue' = Append(queue, [what |-> "down", if |-> "wifi"])
      BY <1>21 DEF JoinFails, Post
    <3>2. "wifi" \in interfaces
      BY <1>21 DEF TypeOK, JoinFails
    <3>. QED  BY <3>1, <3>2, ConfigAssumption DEF TypeOK, Event
  <2>. QED  BY <2>1, <1>2, <1>3, <1>21 DEF TypeOK, JoinFails
<1>22. CASE Reset
  <2>1. asking' \in [interfaces -> SUBSET Kinds] /\ got' \in [interfaces -> SUBSET Kinds]
    BY <1>22 DEF Reset
  <2>2. queue' \in Seq(Event) /\ Len(queue') <= QueueMax
    BY <1>22, ConfigAssumption DEF Reset
  <2>3. link' \in [interfaces -> {"off", "down", "up"}]
    BY <1>22 DEF Reset
  <2>4. taken' \in 0..ToWaitFor /\ sem' \in {NoSemaphore} \cup 0..ToWaitFor
    BY <1>1, <1>22 DEF Reset
  <2>. QED  BY <1>2, <1>3, <1>22, <2>1, <2>2, <2>3, <2>4 DEF TypeOK, Reset
<1>23. CASE UNCHANGED vars
  BY <1>2, <1>3, <1>23 DEF TypeOK, vars
<1>. QED
  BY <1>5, <1>6, <1>7, <1>8, <1>9, <1>10, <1>11, <1>12, <1>13, <1>14, <1>15, <1>16, <1>17,
     <1>18, <1>19, <1>20, <1>21, <1>22, <1>23 DEF Next, Tasks, Handlers

\* The type invariant holds in every behaviour.
THEOREM TypeCorrect == Spec => []TypeOK
<1>. QED  BY InitTypeOK, NextTypeOK, PTL DEF Spec

------------------------------------------------------------------------------
(* The queue: what taking and posting an event does to its elements.       *)

LEMMA TakeShape ==
  ASSUME TypeOK, NEW what, NEW i, Take(what, i)
  PROVE  /\ Len(queue) \in Nat \ {0} /\ Len(queue') = Len(queue) - 1
         /\ DOMAIN queue = 1..Len(queue) /\ DOMAIN queue' = 1..(Len(queue) - 1)
         /\ \A n \in DOMAIN queue' : queue'[n] = queue[n + 1]
         /\ queue[1] = [what |-> what, if |-> i]
BY DEF Take, TypeOK

LEMMA PostShape ==
  ASSUME TypeOK, NEW what, NEW i, Post(what, i)
  PROVE  /\ Len(queue) \in Nat
         /\ DOMAIN queue = 1..Len(queue) /\ DOMAIN queue' = 1..(Len(queue) + 1)
         /\ \A n \in DOMAIN queue : queue'[n] = queue[n]
         /\ queue'[Len(queue) + 1] = [what |-> what, if |-> i]
BY DEF Post, TypeOK

------------------------------------------------------------------------------
(* The handlers and the link.  The strengthening of FlagFollowsLink: of    *)
(* the link events of WiFi that are still queued, the last one says how    *)
(* the link is; when none is left, wifi_connect says it.                   *)

LinkEvent(q, n) == q[n].if = "wifi" /\ q[n].what \in {"up", "down"}

LastTellsLink ==
  \A n \in DOMAIN queue :
    LinkEvent(queue, n) /\ (\A m \in DOMAIN queue : m > n => ~LinkEvent(queue, m))
      => (queue[n].what = "up" <=> link["wifi"] = "up")

FlagTellsLink ==
  (\A n \in DOMAIN queue : ~LinkEvent(queue, n)) => (wifi_connect <=> link["wifi"] = "up")

JoiningDown == joining => link["wifi"] = "down"

\* A loss that is queued is the only one, and is not yet answered.
LossPending ==
  \A n \in DOMAIN queue :
    queue[n] = [what |-> "down", if |-> "wifi"]
      => /\ link["wifi"] = "down" /\ ~joining /\ ~refused
         /\ \A m \in DOMAIN queue : queue[m] = [what |-> "down", if |-> "wifi"] => m = n

RefusedDown == refused => link["wifi"] = "down" /\ ~joining /\ ~Queued("down", "wifi")

\* One half of RejoinsUnlessRefused; RefusedDown is the other.
LossAnswered ==
  link["wifi"] = "down" /\ ~Panicked => joining \/ Queued("down", "wifi") \/ refused

LinkInv ==
  "wifi" \in interfaces =>
    /\ JoiningDown
    /\ LossPending
    /\ RefusedDown
    /\ LossAnswered
    /\ Ipv6 /\ ~Panicked => LastTellsLink /\ FlagTellsLink

\* Whoever has counted an address, or has one to count, has had one.
HadAddress == \E i \in interfaces : got[i] # {}

AddressInv ==
  /\ taken > 0 => HadAddress
  /\ sem > 0 => HadAddress
  /\ \A n \in DOMAIN queue : queue[n].what \in {"ip4", "ip6"} => HadAddress

IInv == TypeOK /\ LinkInv /\ AddressInv

LEMMA InitIInv == Init => IInv
<1>. SUFFICES ASSUME Init PROVE IInv
  OBVIOUS
<1>1. TypeOK
  BY InitTypeOK
<1>2. "wifi" \in interfaces => link["wifi"] = "off"
  BY DEF Init
<1>3. DOMAIN queue = {}
  BY DEF Init
<1>4. taken = 0 /\ sem = -1
  BY DEF Init, NoSemaphore
<1>. QED
  BY <1>1, <1>2, <1>3, <1>4
  DEF Init, IInv, LinkInv, AddressInv, JoiningDown, LossPending, RefusedDown, LossAnswered,
      LastTellsLink, FlagTellsLink, Panicked

\* Taking an event that is not a link event of WiFi, or posting one, changes nothing here.
LEMMA OtherEvents ==
  ASSUME TypeOK, LinkInv, NEW what, NEW i,
         Take(what, i) \/ Post(what, i),
         ~(i = "wifi" /\ what \in {"up", "down"}),
         interfaces' = interfaces,
         "wifi" \in interfaces => link'["wifi"] = link["wifi"],
         joining' = joining, wifi_connect' = wifi_connect, refused' = refused,
         Panicked => Panicked'
  PROVE  LinkInv'
<1>. SUFFICES ASSUME "wifi" \in interfaces PROVE LinkInv'
  BY DEF LinkInv
<1>1. JoiningDown'
  BY DEF LinkInv, JoiningDown
<1>2. CASE Take(what, i)
  <2>1. /\ Len(queue) \in Nat \ {0}
        /\ DOMAIN queue = 1..Len(queue) /\ DOMAIN queue' = 1..(Len(queue) - 1)
        /\ \A n \in DOMAIN queue' : queue'[n] = queue[n + 1]
        /\ queue[1] = [what |-> what, if |-> i]
    BY <1>2, TakeShape
  <2>2. \A n \in DOMAIN queue : n > 1 => n - 1 \in DOMAIN queue' /\ queue[n] = queue'[n - 1]
    BY <2>1
  <2>3. ~LinkEvent(queue, 1) /\ queue[1] # [what |-> "down", if |-> "wifi"]
    BY <2>1 DEF LinkEvent
  <2>4. LossPending' /\ RefusedDown' /\ LossAnswered'
    <3>1. Queued("down", "wifi")' <=> Queued("down", "wifi")
      BY <2>1, <2>2, <2>3 DEF Queued
    <3>2. LossPending'
      BY <2>1 DEF LinkInv, LossPending
    <3>. QED  BY <3>1, <3>2 DEF LinkInv, RefusedDown, LossAnswered
  <2>5. Ipv6 /\ ~Panicked' => LastTellsLink'
    BY <2>1, <2>2 DEF LinkInv, LastTellsLink, LinkEvent
  <2>6. Ipv6 /\ ~Panicked' => FlagTellsLink'
    BY <2>1, <2>2, <2>3 DEF LinkInv, FlagTellsLink, LinkEvent
  <2>. QED  BY <1>1, <2>4, <2>5, <2>6 DEF LinkInv
<1>3. CASE Post(what, i)
  <2>1. /\ Len(queue) \in Nat
        /\ DOMAIN queue = 1..Len(queue) /\ DOMAIN queue' = 1..(Len(queue) + 1)
        /\ \A n \in DOMAIN queue : queue'[n] = queue[n]
        /\ queue'[Len(queue) + 1] = [what |-> what, if |-> i]
    BY <1>3, PostShape
  <2>2. ~LinkEvent(queue', Len(queue) + 1)
    BY <2>1 DEF LinkEvent
  <2>3. \A n \in DOMAIN queue' : LinkEvent(queue', n) => n \in DOMAIN queue
    BY <2>1, <2>2
  <2>4. LossPending' /\ RefusedDown' /\ LossAnswered'
    <3>1. queue'[Len(queue) + 1] # [what |-> "down", if |-> "wifi"]
      BY <2>1
    <3>2. Queued("down", "wifi")' <=> Queued("down", "wifi")
      BY <2>1, <3>1 DEF Queued
    <3>3. LossPending'
      BY <2>1, <3>1 DEF LinkInv, LossPending
    <3>. QED  BY <3>2, <3>3 DEF LinkInv, RefusedDown, LossAnswered
  <2>5. Ipv6 /\ ~Panicked' => LastTellsLink'
    BY <2>1, <2>3 DEF LinkInv, LastTellsLink, LinkEvent
  <2>6. Ipv6 /\ ~Panicked' => FlagTellsLink'
    BY <2>1 DEF LinkInv, FlagTellsLink, LinkEvent
  <2>. QED  BY <1>1, <2>4, <2>5, <2>6 DEF LinkInv
<1>. QED  BY <1>2, <1>3

LEMMA QuietSteps ==
  ASSUME TypeOK, LinkInv, UNCHANGED <<interfaces, queue, link, joining, wifi_connect, refused>>,
         Panicked => Panicked'
  PROVE  LinkInv'
BY DEF LinkInv, JoiningDown, LossPending, RefusedDown, LossAnswered, Queued,
       LastTellsLink, FlagTellsLink, LinkEvent

\* A loss is posted when none is queued, so it is the only one.
LEMMA PostLoss ==
  ASSUME TypeOK, "wifi" \in interfaces, ~Queued("down", "wifi"), Post("down", "wifi"),
         link'["wifi"] = "down", ~joining', ~refused'
  PROVE  LossPending' /\ RefusedDown' /\ LossAnswered'
<1>1. /\ Len(queue) \in Nat
      /\ DOMAIN queue = 1..Len(queue) /\ DOMAIN queue' = 1..(Len(queue) + 1)
      /\ \A n \in DOMAIN queue : queue'[n] = queue[n]
      /\ queue'[Len(queue) + 1] = [what |-> "down", if |-> "wifi"]
  BY PostShape
<1>2. \A n \in DOMAIN queue' : queue'[n] = [what |-> "down", if |-> "wifi"] => n = Len(queue) + 1
  BY <1>1 DEF Queued
<1>3. Queued("down", "wifi")'
  BY <1>1 DEF Queued
<1>. QED  BY <1>2, <1>3 DEF LossPending, RefusedDown, LossAnswered

\* A link that came up leaves no loss in the queue.
LEMMA PostUp ==
  ASSUME TypeOK, Post("up", "wifi"), ~Queued("down", "wifi")
  PROVE  LossPending' /\ ~Queued("down", "wifi")'
<1>1. /\ Len(queue) \in Nat
      /\ DOMAIN queue = 1..Len(queue) /\ DOMAIN queue' = 1..(Len(queue) + 1)
      /\ \A n \in DOMAIN queue : queue'[n] = queue[n]
      /\ queue'[Len(queue) + 1] = [what |-> "up", if |-> "wifi"]
  BY PostShape
<1>2. [what |-> "up", if |-> "wifi"] # [what |-> "down", if |-> "wifi"]
  <2>1. [what |-> "up", if |-> "wifi"].what # [what |-> "down", if |-> "wifi"].what
    OBVIOUS
  <2>. QED  BY <2>1
<1>3. \A n \in DOMAIN queue' : queue'[n] # [what |-> "down", if |-> "wifi"]
  BY <1>1, <1>2 DEF Queued
<1>. QED  BY <1>3 DEF LossPending, Queued

\* After a link event of WiFi is posted, it is the last one.
LEMMA PostLink ==
  ASSUME TypeOK, NEW what \in {"up", "down"}, Post(what, "wifi"),
         what = "up" <=> link'["wifi"] = "up"
  PROVE  LastTellsLink' /\ FlagTellsLink'
         /\ \E n \in DOMAIN queue' : queue'[n] = [what |-> what, if |-> "wifi"]
<1>1. /\ Len(queue) \in Nat
      /\ DOMAIN queue = 1..Len(queue) /\ DOMAIN queue' = 1..(Len(queue) + 1)
      /\ queue'[Len(queue) + 1] = [what |-> what, if |-> "wifi"]
  BY PostShape
<1>2. LinkEvent(queue', Len(queue) + 1) /\ Len(queue) + 1 \in DOMAIN queue'
  BY <1>1 DEF LinkEvent
<1>3. \A n \in DOMAIN queue' : (\A m \in DOMAIN queue' : m > n => ~LinkEvent(queue', m))
        => n = Len(queue) + 1
  BY <1>1, <1>2
<1>4. LastTellsLink'
  BY <1>1, <1>3 DEF LastTellsLink
<1>5. FlagTellsLink'
  BY <1>2 DEF FlagTellsLink
<1>. QED  BY <1>1, <1>2, <1>4, <1>5

\* After one is taken, wifi_connect says what it said.
LEMMA TakeLink ==
  ASSUME TypeOK, LastTellsLink, NEW what \in {"up", "down"}, Take(what, "wifi"),
         UNCHANGED link, wifi_connect' <=> what = "up"
  PROVE  LastTellsLink' /\ FlagTellsLink'
<1>1. /\ Len(queue) \in Nat \ {0}
      /\ DOMAIN queue = 1..Len(queue) /\ DOMAIN queue' = 1..(Len(queue) - 1)
      /\ \A n \in DOMAIN queue' : queue'[n] = queue[n + 1]
      /\ queue[1] = [what |-> what, if |-> "wifi"]
  BY TakeShape
<1>2. \A n \in DOMAIN queue : n > 1 => n - 1 \in DOMAIN queue' /\ queue[n] = queue'[n - 1]
  BY <1>1
<1>3. LastTellsLink'
  BY <1>1, <1>2 DEF LastTellsLink, LinkEvent
<1>4. FlagTellsLink'
  <2>. SUFFICES ASSUME \A n \in DOMAIN queue' : ~LinkEvent(queue', n)
                PROVE  what = "up" <=> link["wifi"] = "up"
    BY DEF FlagTellsLink
  <2>1. \A m \in DOMAIN queue : m > 1 => ~LinkEvent(queue, m)
    BY <1>2 DEF LinkEvent
  <2>2. LinkEvent(queue, 1) /\ 1 \in DOMAIN queue
    BY <1>1 DEF LinkEvent
  <2>. QED  BY <1>1, <2>1, <2>2 DEF LastTellsLink
<1>. QED  BY <1>3, <1>4

LEMMA NextLinkInv == TypeOK /\ LinkInv /\ [Next]_vars => LinkInv'
<1>. SUFFICES ASSUME TypeOK, LinkInv, [Next]_vars PROVE LinkInv'
  OBVIOUS
<1>1. ASSUME CreateSemaphore \/ RegisterShutdown \/ TakeSemaphore \/ Connected
             \/ CreateCtrl \/ CtrlStart
      PROVE  LinkInv'
  BY <1>1, QuietSteps
  DEF CreateSemaphore, RegisterShutdown, TakeSemaphore, Connected, CreateCtrl, CtrlStart, Panicked
<1>2. CASE StartWifi
  <2>1. queue' = queue /\ wifi_connect' = wifi_connect /\ interfaces' = interfaces
        /\ "wifi" \in interfaces
    BY <1>2 DEF StartWifi
  <2>2. CASE panic' = panic
    <3>1. link' = [link EXCEPT !["wifi"] = "down"] /\ (refused' <=> ~joining') /\ link["wifi"] = "off"
      BY <1>2, <2>2 DEF StartWifi, Started, Panicked
    <3>2. link'["wifi"] = "down"
      BY <2>1, <3>1 DEF TypeOK
    <3>3. ~Queued("down", "wifi") /\ (Queued("down", "wifi")' <=> Queued("down", "wifi"))
      BY <2>1, <3>1 DEF LinkInv, LossPending, Queued
    <3>4. JoiningDown' /\ LossPending' /\ RefusedDown' /\ LossAnswered'
      BY <2>1, <3>1, <3>2, <3>3 DEF JoiningDown, LossPending, RefusedDown, LossAnswered, Queued
    <3>. QED
      BY <2>1, <2>2, <3>1, <3>2, <3>4
      DEF LinkInv, LastTellsLink, FlagTellsLink, LinkEvent, Panicked
  <2>3. CASE panic' # panic
    <3>1. UNCHANGED <<link, joining, refused>> /\ panic' = "error"
      BY <1>2, <2>3 DEF StartWifi
    <3>. QED  BY <2>1, <3>1, QuietSteps DEF Panicked
  <2>. QED  BY <2>2, <2>3
<1>3. CASE StartEthernet
  <2>1. UNCHANGED <<interfaces, queue, joining, wifi_connect, refused>>
        /\ (Panicked => Panicked')
    BY <1>3 DEF StartEthernet, Panicked
  <2>2. "wifi" \in interfaces => link'["wifi"] = link["wifi"]
    BY <1>3 DEF StartEthernet, TypeOK
  <2>. QED
    BY <2>1, <2>2
    DEF LinkInv, JoiningDown, LossPending, RefusedDown, LossAnswered, Queued,
        LastTellsLink, FlagTellsLink, LinkEvent, Panicked
<1>4. CASE OnWifiConnect
  <2>1. UNCHANGED <<interfaces, link, joining, refused, panic>> /\ ~Panicked /\ Take("up", "wifi")
        /\ wifi_connect' = (wifi_connect \/ Ipv6)
    BY <1>4 DEF OnWifiConnect, Take
  <2>2. ASSUME "wifi" \in interfaces PROVE LossPending' /\ RefusedDown' /\ LossAnswered'
    <3>1. /\ DOMAIN queue = 1..Len(queue) /\ DOMAIN queue' = 1..(Len(queue) - 1)
          /\ \A n \in DOMAIN queue' : queue'[n] = queue[n + 1]
          /\ queue[1] = [what |-> "up", if |-> "wifi"] /\ Len(queue) \in Nat \ {0}
      BY <2>1, TakeShape
    <3>2. /\ \A n \in DOMAIN queue : n = 1 \/ (n - 1 \in DOMAIN queue' /\ queue[n] = queue'[n - 1])
          /\ \A n \in DOMAIN queue' : n + 1 \in DOMAIN queue
      BY <3>1
    <3>3. queue[1] # [what |-> "down", if |-> "wifi"]
      <4>1. [what |-> "up", if |-> "wifi"].what # [what |-> "down", if |-> "wifi"].what
        OBVIOUS
      <4>. QED  BY <3>1, <4>1
    <3>4. Queued("down", "wifi")' <=> Queued("down", "wifi")
      BY <3>1, <3>2, <3>3 DEF Queued
    <3>5. LossPending'
      BY <2>1, <2>2, <3>1 DEF LinkInv, LossPending
    <3>. QED  BY <2>1, <2>2, <3>4, <3>5 DEF LinkInv, RefusedDown, LossAnswered, Panicked
  <2>3. ASSUME "wifi" \in interfaces, Ipv6 PROVE LastTellsLink' /\ FlagTellsLink'
    <3>1. LastTellsLink /\ wifi_connect'
      BY <2>1, <2>3 DEF LinkInv
    <3>. QED  BY <2>1, <3>1, TakeLink
  <2>. QED  BY <2>1, <2>2, <2>3 DEF LinkInv, JoiningDown
<1>5. CASE OnWifiDisconnect
  <2>1. UNCHANGED <<interfaces, link>> /\ ~Panicked /\ Take("down", "wifi")
        /\ wifi_connect' = FALSE
    BY <1>5 DEF OnWifiDisconnect, Take
  <2>2. \/ joining' = TRUE /\ refused' = refused
        \/ UNCHANGED <<joining, refused>> /\ Panicked'
        \/ joining' = joining /\ refused' = TRUE
    BY <1>5 DEF OnWifiDisconnect, Joins, JoinError, JoinRefused, Panicked
  <2>3. ASSUME "wifi" \in interfaces
        PROVE  JoiningDown' /\ LossPending' /\ RefusedDown' /\ LossAnswered'
    <3>1. /\ DOMAIN queue = 1..Len(queue) /\ DOMAIN queue' = 1..(Len(queue) - 1)
          /\ \A n \in DOMAIN queue' : queue'[n] = queue[n + 1]
          /\ queue[1] = [what |-> "down", if |-> "wifi"] /\ Len(queue) \in Nat \ {0}
      BY <2>1, TakeShape
    <3>2. 1 \in DOMAIN queue /\ \A n \in DOMAIN queue' : n + 1 \in DOMAIN queue /\ n + 1 # 1
      BY <3>1
    <3>3. /\ link["wifi"] = "down" /\ ~joining /\ ~refused
          /\ \A m \in DOMAIN queue : queue[m] = [what |-> "down", if |-> "wifi"] => m = 1
      BY <2>3, <3>1, <3>2 DEF LinkInv, LossPending
    <3>4. \A n \in DOMAIN queue' : queue'[n] # [what |-> "down", if |-> "wifi"]
      BY <3>1, <3>2, <3>3
    <3>5. LossPending' /\ ~Queued("down", "wifi")'
      BY <3>4 DEF LossPending, Queued
    <3>. QED  BY <2>1, <2>2, <3>3, <3>5 DEF JoiningDown, RefusedDown, LossAnswered
  <2>4. ASSUME "wifi" \in interfaces, Ipv6 PROVE LastTellsLink' /\ FlagTellsLink'
    <3>1. LastTellsLink
      BY <2>1, <2>4 DEF LinkInv
    <3>. QED  BY <2>1, <3>1, TakeLink
  <2>. QED  BY <2>1, <2>3, <2>4 DEF LinkInv
<1>6. ASSUME OnEthEvent \/ EthernetDown PROVE LinkInv'
  <2>1. /\ Take("up", "eth") \/ Take("down", "eth")
        /\ UNCHANGED <<interfaces, link, joining, wifi_connect, refused>>
        /\ ~Panicked
    BY <1>6 DEF OnEthEvent, EthernetDown, Take
  <2>. QED  BY <2>1, OtherEvents
<1>7. ASSUME NEW i \in interfaces, NEW k \in Kinds, HandleAddress(k, i) PROVE LinkInv'
  <2>1. k \notin {"up", "down"}
    BY DEF Kinds
  <2>. QED  BY <1>7, <2>1, OtherEvents DEF HandleAddress, Take
<1>8. ASSUME NEW i \in interfaces, LinkUp(i) PROVE LinkInv'
  <2>1. interfaces' = interfaces /\ wifi_connect' = wifi_connect /\ refused' = refused
        /\ panic' = panic /\ Post("up", i) /\ link' = [link EXCEPT ![i] = "up"]
        /\ joining' = (joining /\ i # "wifi") /\ link[i] = "down"
    BY <1>8 DEF LinkUp
  <2>2. CASE i = "wifi"
    <3>1. link'["wifi"] = "up" /\ ~joining'
      BY <2>1, <2>2 DEF TypeOK
    <3>2. LastTellsLink' /\ FlagTellsLink'
      BY <2>1, <2>2, <3>1, PostLink
    <3>3. "wifi" \in interfaces /\ joining
      BY <1>8, <2>2 DEF LinkUp
    <3>4. ~Queued("down", "wifi") /\ ~refused
      BY <3>3 DEF LinkInv, LossPending, RefusedDown, Queued
    <3>5. LossPending' /\ ~Queued("down", "wifi")'
      BY <2>1, <2>2, <3>4, PostUp
    <3>. QED
      BY <2>1, <3>1, <3>2, <3>4, <3>5 DEF LinkInv, JoiningDown, RefusedDown, LossAnswered
  <2>3. CASE i # "wifi"
    <3>1. joining' = joining /\ ("wifi" \in interfaces => link'["wifi"] = link["wifi"])
      BY <2>1, <2>3 DEF TypeOK
    <3>. QED  BY <2>1, <2>3, <3>1, OtherEvents DEF Panicked
  <2>. QED  BY <2>2, <2>3
<1>9. ASSUME NEW i \in interfaces, LinkDown(i) PROVE LinkInv'
  <2>1. interfaces' = interfaces /\ wifi_connect' = wifi_connect /\ refused' = refused
        /\ panic' = panic /\ Post("down", i) /\ link' = [link EXCEPT ![i] = "down"]
        /\ joining' = joining
    BY <1>9 DEF LinkDown
  <2>2. CASE i = "wifi"
    <3>1. link'["wifi"] = "down"
      BY <2>1, <2>2 DEF TypeOK
    <3>2. LastTellsLink' /\ FlagTellsLink'
          /\ \E n \in DOMAIN queue' : queue'[n] = [what |-> "down", if |-> "wifi"]
      BY <2>1, <2>2, <3>1, PostLink
    <3>3. link["wifi"] = "up" /\ "wifi" \in interfaces
      BY <1>9, <2>2 DEF LinkDown
    <3>4. ~joining /\ ~refused /\ ~Queued("down", "wifi")
      BY <3>3 DEF LinkInv, JoiningDown, LossPending, RefusedDown, Queued
    <3>5. LossPending' /\ RefusedDown' /\ LossAnswered'
      BY <2>1, <2>2, <3>1, <3>3, <3>4, PostLoss
    <3>. QED  BY <2>1, <3>1, <3>2, <3>4, <3>5 DEF LinkInv, JoiningDown
  <2>3. CASE i # "wifi"
    <3>1. "wifi" \in interfaces => link'["wifi"] = link["wifi"]
      BY <2>1, <2>3 DEF TypeOK
    <3>. QED  BY <2>1, <2>3, <3>1, OtherEvents DEF Panicked
  <2>. QED  BY <2>2, <2>3
<1>10. ASSUME NEW i \in interfaces, NEW k \in Kinds, Address(k, i) PROVE LinkInv'
  <2>1. k \notin {"up", "down"}
    BY DEF Kinds
  <2>. QED  BY <1>10, <2>1, OtherEvents DEF Address, Panicked
<1>11. CASE JoinFails
  <2>1. joining /\ Post("down", "wifi") /\ joining' = FALSE
        /\ UNCHANGED <<interfaces, link, wifi_connect, refused, panic>>
    BY <1>11 DEF JoinFails
  <2>2. ASSUME "wifi" \in interfaces PROVE LinkInv'
    <3>1. link'["wifi"] = "down"
      BY <2>1, <2>2 DEF LinkInv, JoiningDown
    <3>2. LastTellsLink' /\ FlagTellsLink'
          /\ \E n \in DOMAIN queue' : queue'[n] = [what |-> "down", if |-> "wifi"]
      BY <2>1, <3>1, PostLink
    <3>3. ~Queued("down", "wifi") /\ ~refused
      BY <2>1, <2>2 DEF LinkInv, LossPending, RefusedDown, Queued
    <3>4. LossPending' /\ RefusedDown' /\ LossAnswered'
      BY <2>1, <2>2, <3>1, <3>3, PostLoss
    <3>. QED  BY <2>1, <3>1, <3>2, <3>4 DEF LinkInv, JoiningDown
  <2>. QED  BY <2>1, <2>2 DEF LinkInv
<1>12. CASE Reset
  <2>1. DOMAIN queue' = {} /\ wifi_connect' = FALSE /\ joining' = FALSE /\ refused' = FALSE
    BY <1>12 DEF Reset
  <2>2. "wifi" \in interfaces' => link'["wifi"] = "off"
    BY <1>12 DEF Reset
  <2>. QED
    BY <2>1, <2>2
    DEF LinkInv, JoiningDown, LossPending, RefusedDown, LossAnswered, LastTellsLink, FlagTellsLink
<1>13. CASE UNCHANGED vars
  BY <1>13, QuietSteps DEF vars, Panicked
<1>. QED
  BY <1>1, <1>2, <1>3, <1>4, <1>5, <1>6, <1>7, <1>8, <1>9, <1>10, <1>11, <1>12, <1>13
  DEF Next, Tasks, Handlers

------------------------------------------------------------------------------
(* The addresses.                                                          *)

LEMMA NextAddressInv == TypeOK /\ AddressInv /\ [Next]_vars => AddressInv'
<1>. SUFFICES ASSUME TypeOK, AddressInv, [Next]_vars PROVE AddressInv'
  OBVIOUS
<1>1. ASSUME UNCHANGED <<interfaces, got, taken, sem, queue>> PROVE AddressInv'
  BY <1>1 DEF AddressInv, HadAddress
<1>2. ASSUME NEW what, NEW i, Take(what, i), UNCHANGED <<interfaces, got, taken, sem>>
      PROVE  AddressInv'
  <2>0. Len(queue) \in Nat /\ DOMAIN queue = 1..Len(queue) /\ DOMAIN queue' = 1..(Len(queue) - 1)
        /\ \A n \in DOMAIN queue' : queue'[n] = queue[n + 1]
    BY <1>2, TakeShape
  <2>1. \A n \in DOMAIN queue' : n + 1 \in DOMAIN queue /\ queue'[n] = queue[n + 1]
    BY <2>0
  <2>2. HadAddress' = HadAddress
    BY <1>2 DEF HadAddress
  <2>. QED  BY <1>2, <2>1, <2>2 DEF AddressInv
<1>3. ASSUME NEW what, NEW i, Post(what, i), UNCHANGED <<interfaces, taken, sem>>,
             HadAddress => HadAddress', what \in {"ip4", "ip6"} => HadAddress'
      PROVE  AddressInv'
  <2>1. \A n \in DOMAIN queue' : queue'[n].what = what \/ (n \in DOMAIN queue /\ queue'[n] = queue[n])
    <3>1. Len(queue) \in Nat
          /\ DOMAIN queue = 1..Len(queue) /\ DOMAIN queue' = 1..(Len(queue) + 1)
          /\ (\A n \in DOMAIN queue : queue'[n] = queue[n])
          /\ queue'[Len(queue) + 1] = [what |-> what, if |-> i]
      BY <1>3, PostShape
    <3>. QED  BY <3>1
  <2>. QED  BY <1>3, <2>1 DEF AddressInv
<1>4. ASSUME StartWifi \/ StartEthernet \/ RegisterShutdown \/ Connected \/ CreateCtrl \/ CtrlStart
      PROVE  AddressInv'
  BY <1>1, <1>4 DEF StartWifi, StartEthernet, RegisterShutdown, Connected, CreateCtrl, CtrlStart
<1>5. ASSUME CreateSemaphore PROVE AddressInv'
  BY <1>5 DEF CreateSemaphore, AddressInv, HadAddress, NoSemaphore
<1>6. ASSUME TakeSemaphore PROVE AddressInv'
  <2>1. HadAddress' = HadAddress /\ queue' = queue
    BY <1>6 DEF TakeSemaphore, HadAddress
  <2>2. CASE sem > 0
    BY <1>6, <2>1, <2>2 DEF TakeSemaphore, AddressInv
  <2>3. CASE ~(sem > 0)
    BY <1>6, <2>1, <2>3 DEF TakeSemaphore, AddressInv
  <2>. QED  BY <2>2, <2>3
<1>7. ASSUME OnWifiConnect \/ OnEthEvent \/ OnWifiDisconnect \/ EthernetDown PROVE AddressInv'
  <2>1. UNCHANGED <<interfaces, got, taken, sem>>
    BY <1>7 DEF OnWifiConnect, OnEthEvent, OnWifiDisconnect, EthernetDown
  <2>2. Take("up", "wifi") \/ Take("up", "eth") \/ Take("down", "wifi") \/ Take("down", "eth")
    BY <1>7 DEF OnWifiConnect, OnEthEvent, OnWifiDisconnect, EthernetDown
  <2>. QED  BY <1>2, <2>1, <2>2
<1>8. ASSUME NEW i \in interfaces, NEW k \in Kinds, HandleAddress(k, i) PROVE AddressInv'
  <2>0. /\ Len(queue) \in Nat \ {0}
        /\ DOMAIN queue = 1..Len(queue) /\ DOMAIN queue' = 1..(Len(queue) - 1)
        /\ \A n \in DOMAIN queue' : queue'[n] = queue[n + 1]
        /\ queue[1] = [what |-> k, if |-> i]
    BY <1>8, TakeShape DEF HandleAddress
  <2>1. \A n \in DOMAIN queue' : n + 1 \in DOMAIN queue /\ queue'[n] = queue[n + 1]
    BY <2>0
  <2>2. 1 \in DOMAIN queue /\ queue[1] = [what |-> k, if |-> i]
    BY <2>0
  <2>3. HadAddress
    BY <2>2 DEF AddressInv, Kinds
  <2>4. HadAddress' /\ taken' = taken
    BY <1>8, <2>3 DEF HandleAddress, HadAddress
  <2>. QED  BY <2>1, <2>4 DEF AddressInv
<1>9. ASSUME NEW i \in interfaces, LinkUp(i) \/ LinkDown(i) PROVE AddressInv'
  BY <1>3, <1>9 DEF LinkUp, LinkDown, HadAddress
<1>10. ASSUME NEW i \in interfaces, NEW k \in Kinds, Address(k, i) PROVE AddressInv'
  <2>1. got'[i] # {} /\ interfaces' = interfaces
    BY <1>10 DEF Address, TypeOK
  <2>2. HadAddress'
    BY <2>1 DEF HadAddress
  <2>. QED  BY <1>3, <1>10, <2>2 DEF Address
<1>11. ASSUME JoinFails PROVE AddressInv'
  BY <1>3, <1>11 DEF JoinFails, HadAddress
<1>12. ASSUME Reset PROVE AddressInv'
  BY <1>12 DEF Reset, AddressInv, NoSemaphore
<1>13. CASE UNCHANGED vars
  BY <1>1, <1>13 DEF vars
<1>. QED
  BY <1>4, <1>5, <1>6, <1>7, <1>8, <1>9, <1>10, <1>11, <1>12, <1>13 DEF Next, Tasks, Handlers

LEMMA NextIInv == IInv /\ [Next]_vars => IInv'
BY NextTypeOK, NextLinkInv, NextAddressInv DEF IInv

THEOREM Invariance == Spec => []IInv
<1>. QED  BY InitIInv, NextIInv, PTL DEF Spec

------------------------------------------------------------------------------
(* The addresses.  Without a lost link no address comes twice, so what the *)
(* main task has counted and what the semaphore still holds are different  *)
(* addresses that the interfaces have had.                                 *)

\* Only a failed attempt to join is queued more than once.
Distinct == \A m, n \in DOMAIN queue : m # n /\ queue[m] = queue[n] => queue[n].what = "down"

\* An interface asks for its addresses once, after its link has come up.
Fresh ==
  \A i \in interfaces :
    /\ link[i] # "up" => asking[i] = {} /\ got[i] = {} /\ ~Queued("up", i)
    /\ Queued("up", i) => asking[i] = {} /\ got[i] = {}
    /\ asking[i] \cap got[i] = {}
    /\ \A k \in {"ip4", "ip6"} : Queued(k, i) => k \in got[i]

CountInv ==
  /\ pc = "start" \/ sem = NoSemaphore => taken = 0
  /\ pc = "connected" => taken = ToWaitFor
  /\ ~lost => Distinct /\ Fresh /\ taken + sem <= Cardinality(Counted)

\* Taking an event removes no other.
LEMMA TakeOne ==
  ASSUME TypeOK, NEW what, NEW i, Take(what, i)
  PROVE  /\ Queued(what, i)
         /\ \A w, j : Queued(w, j)' => Queued(w, j)
         /\ \A w, j : Queued(w, j) => Queued(w, j)' \/ (w = what /\ j = i)
<1>1. /\ Len(queue) \in Nat \ {0} /\ DOMAIN queue = 1..Len(queue)
      /\ DOMAIN queue' = 1..(Len(queue) - 1)
      /\ \A n \in DOMAIN queue' : queue'[n] = queue[n + 1]
      /\ queue[1] = [what |-> what, if |-> i]
  BY TakeShape
<1>2. 1 \in DOMAIN queue /\ \A n \in DOMAIN queue' : n + 1 \in DOMAIN queue
  BY <1>1
<1>3. \A n \in DOMAIN queue : n = 1 \/ (n - 1 \in DOMAIN queue' /\ queue'[n - 1] = queue[n])
  BY <1>1
<1>4. \A w, j : Queued(w, j)' => Queued(w, j)
  BY <1>1, <1>2 DEF Queued
<1>5. \A w, j : Queued(w, j) => Queued(w, j)' \/ (w = what /\ j = i)
  <2>. SUFFICES ASSUME NEW w, NEW j, Queued(w, j)
                PROVE  Queued(w, j)' \/ (w = what /\ j = i)
    OBVIOUS
  <2>1. PICK n \in DOMAIN queue : queue[n] = [what |-> w, if |-> j]
    BY DEF Queued
  <2>2. CASE n = 1
    <3>1. [what |-> w, if |-> j] = [what |-> what, if |-> i]
      BY <1>1, <2>1, <2>2
    <3>2. [what |-> w, if |-> j].what = [what |-> what, if |-> i].what
          /\ [what |-> w, if |-> j].if = [what |-> what, if |-> i].if
      BY <3>1
    <3>. QED  BY <3>2
  <2>3. CASE n # 1
    BY <1>3, <2>1, <2>3 DEF Queued
  <2>. QED  BY <2>2, <2>3
<1>. QED  BY <1>1, <1>2, <1>4, <1>5 DEF Queued

\* If it was queued once, it is gone.
LEMMA TakeQueued ==
  ASSUME TypeOK, Distinct, NEW what, NEW i, Take(what, i)
  PROVE  /\ Distinct'
         /\ Queued(what, i)
         /\ what # "down" => ~Queued(what, i)'
         /\ \A w, j : Queued(w, j)' => Queued(w, j)
         /\ \A w, j : Queued(w, j) => Queued(w, j)' \/ (w = what /\ j = i)
<1>1. /\ Len(queue) \in Nat \ {0} /\ DOMAIN queue = 1..Len(queue)
      /\ DOMAIN queue' = 1..(Len(queue) - 1)
      /\ \A n \in DOMAIN queue' : queue'[n] = queue[n + 1]
      /\ queue[1] = [what |-> what, if |-> i]
  BY TakeShape
<1>2. 1 \in DOMAIN queue /\ \A n \in DOMAIN queue' : n + 1 \in DOMAIN queue /\ n + 1 # 1
  BY <1>1
<1>3. Distinct'
  <2>1. \A m, n \in DOMAIN queue' : m # n => m + 1 # n + 1
    BY <1>1
  <2>. QED  BY <1>1, <1>2, <2>1 DEF Distinct
<1>4. what # "down" => ~Queued(what, i)'
  BY <1>1, <1>2 DEF Distinct, Queued
<1>. QED  BY <1>3, <1>4, TakeOne

\* Posting an event adds it, and no other.
LEMMA PostQueued ==
  ASSUME TypeOK, NEW what, NEW i, Post(what, i)
  PROVE  /\ Distinct /\ (what = "down" \/ ~Queued(what, i)) => Distinct'
         /\ \A w, j : Queued(w, j) => Queued(w, j)'
         /\ \A w, j : Queued(w, j)' => Queued(w, j) \/ (w = what /\ j = i)
         /\ Queued(what, i)'
<1>1. /\ Len(queue) \in Nat /\ DOMAIN queue = 1..Len(queue)
      /\ DOMAIN queue' = 1..(Len(queue) + 1)
      /\ \A n \in DOMAIN queue : queue'[n] = queue[n]
      /\ queue'[Len(queue) + 1] = [what |-> what, if |-> i]
  BY PostShape
<1> DEFINE last == Len(queue) + 1
<1>2. /\ \A n \in DOMAIN queue' : n \in DOMAIN queue \/ n = last
      /\ \A n \in DOMAIN queue : n \in DOMAIN queue'
      /\ last \in DOMAIN queue' /\ queue'[last] = [what |-> what, if |-> i]
  BY <1>1
<1>3. \A n \in DOMAIN queue : queue'[n] = queue[n]
  BY <1>1
<1> HIDE DEF last
<1>4. [what |-> what, if |-> i].what = what
  OBVIOUS
<1>5. \A w, j : [what |-> w, if |-> j] = [what |-> what, if |-> i] => w = what /\ j = i
  <2>. SUFFICES ASSUME NEW w, NEW j, [what |-> w, if |-> j] = [what |-> what, if |-> i]
                PROVE  w = what /\ j = i
    OBVIOUS
  <2>1. [what |-> w, if |-> j].what = [what |-> what, if |-> i].what
        /\ [what |-> w, if |-> j].if = [what |-> what, if |-> i].if
    OBVIOUS
  <2>. QED  BY <2>1
<1>6. Distinct /\ (what = "down" \/ ~Queued(what, i)) => Distinct'
  BY <1>2, <1>3, <1>4 DEF Distinct, Queued
<1>. QED  BY <1>2, <1>3, <1>5, <1>6 DEF Queued

LEMMA CountedFinite ==
  ASSUME TypeOK
  PROVE  IsFiniteSet(interfaces \X Kinds) /\ IsFiniteSet(Counted) /\ Cardinality(Counted) \in Nat
         /\ Cardinality(interfaces \X Kinds) = ToWaitFor
<1>1. IsFiniteSet({"wifi"} \cup {"eth"}) /\ IsFiniteSet({"ip4"} \cup {"ip6"})
  BY FS_Singleton, FS_Union, Zenon
<1>2. interfaces \subseteq {"wifi"} \cup {"eth"} /\ Kinds \subseteq {"ip4"} \cup {"ip6"}
  BY ConfigAssumption DEF TypeOK, Kinds
<1>3. IsFiniteSet(interfaces) /\ IsFiniteSet(Kinds)
  BY <1>1, <1>2, FS_Subset
<1>4. Counted \subseteq interfaces \X Kinds
  BY DEF Counted
<1>5. IsFiniteSet(interfaces \X Kinds) /\ Cardinality(interfaces \X Kinds) = ToWaitFor
  BY <1>3, FS_Product DEF ToWaitFor
<1>. QED  BY <1>4, <1>5, FS_Subset, FS_CardinalityType

LEMMA InitCountInv == Init => CountInv
<1>. SUFFICES ASSUME Init PROVE CountInv
  OBVIOUS
<1>1. \A w, i : ~Queued(w, i)
  BY DEF Init, Queued
<1>2. Counted = {}
  BY DEF Init, Counted
<1>3. taken = 0 /\ sem = -1 /\ pc = "start" /\ Distinct
  BY DEF Init, NoSemaphore, Distinct
<1>4. Fresh
  BY <1>1 DEF Init, Fresh
<1>. QED  BY <1>2, <1>3, <1>4, FS_EmptySet DEF CountInv

\* A step of a task, which posts and takes no event.
LEMMA TaskCountInv ==
  ASSUME TypeOK, CountInv, UNCHANGED <<interfaces, queue, asking, got, lost>>,
         \A i \in interfaces : link'[i] = link[i] \/ (link[i] = "off" /\ link'[i] = "down"),
         pc' = "start" \/ sem' = NoSemaphore => taken' = 0,
         pc' = "connected" => taken' = ToWaitFor, taken' \in Int, sem' \in Int,
         taken' + sem' <= taken + sem \/ taken' + sem' <= 0
  PROVE  CountInv'
<1>1. Counted' = Counted /\ Distinct' = Distinct /\ \A w, i : Queued(w, i)' = Queued(w, i)
  BY DEF Counted, Distinct, Queued
<1>2. Fresh => Fresh'
  BY <1>1 DEF Fresh
<1>3. taken + sem <= Cardinality(Counted) => taken' + sem' <= Cardinality(Counted)
  <2>1. Cardinality(Counted) \in Nat /\ taken \in Int /\ sem \in Int
    BY CountedFinite, CountType DEF TypeOK, NoSemaphore
  <2>2. \A n \in Nat, a, b \in Int : a <= b \/ a <= 0 => (b <= n => a <= n)
    OBVIOUS
  <2>3. taken + sem \in Int /\ taken' + sem' \in Int
    BY <2>1
  <2>. QED  BY <2>1, <2>2, <2>3
<1>4. ToWaitFor' = ToWaitFor
  BY DEF ToWaitFor
<1>. QED  BY <1>1, <1>2, <1>3, <1>4 DEF CountInv

\* The handler of a link event.
LEMMA LinkEventCountInv ==
  ASSUME TypeOK, CountInv, NEW what \in {"up", "down"}, NEW i \in interfaces, Take(what, i),
         Ask(i, IF what = "up" THEN Kinds ELSE {}),
         UNCHANGED <<interfaces, pc, taken, sem, link, got, lost>>
  PROVE  CountInv'
<1>1. ToWaitFor' = ToWaitFor
  BY DEF ToWaitFor
<1>. SUFFICES ASSUME ~lost
              PROVE  Distinct' /\ Fresh' /\ Counted' = Counted
  BY <1>1 DEF CountInv
<1>2. Distinct /\ Fresh
  BY DEF CountInv
<1>3. /\ Distinct' /\ Queued(what, i)
      /\ what # "down" => ~Queued(what, i)'
      /\ \A w, j : Queued(w, j)' => Queued(w, j)
      /\ \A w, j : Queued(w, j) => Queued(w, j)' \/ (w = what /\ j = i)
  BY <1>2, TakeQueued
<1>4. Counted' = Counted
  <2>1. \A p \in interfaces \X Kinds : Queued(p[2], p[1])' <=> Queued(p[2], p[1])
    <3>1. \A p \in interfaces \X Kinds : p[2] \in {"ip4", "ip6"}
      BY DEF Kinds
    <3>. QED  BY <1>3, <3>1
  <2>. QED  BY <2>1 DEF Counted
<1>5. Fresh'
  <2>1. asking' = [asking EXCEPT ![i] = IF what = "up" THEN Kinds ELSE {}]
        /\ asking \in [interfaces -> SUBSET Kinds]
    BY DEF Ask, TypeOK
  <2>2. what = "up" => link[i] = "up" /\ got[i] = {} /\ ~Queued("up", i)'
    BY <1>2, <1>3 DEF Fresh
  <2>3. ASSUME NEW j \in interfaces
        PROVE  /\ link[j] # "up" => asking'[j] = {} /\ got[j] = {} /\ ~Queued("up", j)'
               /\ Queued("up", j)' => asking'[j] = {} /\ got[j] = {}
               /\ asking'[j] \cap got[j] = {}
               /\ \A k \in {"ip4", "ip6"} : Queued(k, j)' => k \in got[j]
    <3>1. /\ link[j] # "up" => asking[j] = {} /\ got[j] = {} /\ ~Queued("up", j)
          /\ Queued("up", j) => asking[j] = {} /\ got[j] = {}
          /\ asking[j] \cap got[j] = {}
          /\ \A k \in {"ip4", "ip6"} : Queued(k, j) => k \in got[j]
      BY <1>2 DEF Fresh
    <3>2. CASE j = i
      BY <1>3, <2>1, <2>2, <3>1, <3>2
    <3>3. CASE j # i
      <4>1. asking'[j] = asking[j]
        BY <2>1, <3>3
      <4>. QED  BY <1>3, <3>1, <4>1
    <3>. QED  BY <3>2, <3>3
  <2>. QED  BY <2>3 DEF Fresh
<1>. QED  BY <1>3, <1>4, <1>5

\* on_got_ip and on_got_ipv6 give the semaphore for an address not counted yet.
LEMMA AddressEventCountInv ==
  ASSUME TypeOK, CountInv, NEW k \in Kinds, NEW i \in interfaces, HandleAddress(k, i)
  PROVE  CountInv'
<1>1. /\ Take(k, i) /\ k \in {"ip4", "ip6"} /\ ToWaitFor' = ToWaitFor
      /\ UNCHANGED <<interfaces, pc, taken, link, asking, got, lost>>
  BY DEF HandleAddress, Kinds, ToWaitFor
<1>2. /\ sem \in Int /\ taken \in Int /\ Cardinality(Counted) \in Nat /\ IsFiniteSet(Counted)
      /\ sem' \in Int /\ sem' <= sem + 1 /\ (sem' = NoSemaphore => sem = NoSemaphore)
  BY CountType, CountedFinite DEF TypeOK, HandleAddress, Give, NoSemaphore
<1>3. ASSUME ~lost PROVE Distinct' /\ Fresh' /\ taken' + sem' <= Cardinality(Counted')
  <2>1. Distinct /\ Fresh /\ taken + sem <= Cardinality(Counted)
    BY <1>3 DEF CountInv
  <2>2. /\ Distinct' /\ Queued(k, i) /\ ~Queued(k, i)'
        /\ \A w, j : Queued(w, j)' => Queued(w, j)
        /\ \A w, j : Queued(w, j) => Queued(w, j)' \/ (w = k /\ j = i)
    BY <1>1, <2>1, TakeQueued
  <2>3. Fresh'
    BY <1>1, <2>1, <2>2 DEF Fresh
  <2>4. k \in got[i] /\ <<i, k>> \notin Counted
    BY <1>1, <2>1, <2>2 DEF Fresh, Counted
  <2>5. Counted' = Counted \cup {<<i, k>>}
    <3>1. \A p \in interfaces \X Kinds :
            ~Queued(p[2], p[1])' <=> ~Queued(p[2], p[1]) \/ p = <<i, k>>
      BY <2>2
    <3>. QED  BY <1>1, <2>4, <3>1 DEF Counted
  <2>6. Cardinality(Counted') = Cardinality(Counted) + 1
    BY <1>2, <2>4, <2>5, FS_AddElement
  <2>. QED  BY <1>1, <1>2, <2>1, <2>2, <2>3, <2>6
<1>. QED  BY <1>1, <1>2, <1>3 DEF CountInv

\* An address that is given is one the interface did not have.
LEMMA AddressCountInv ==
  ASSUME TypeOK, CountInv, NEW k \in Kinds, NEW i \in interfaces, Address(k, i)
  PROVE  CountInv'
<1>1. /\ Post(k, i) /\ k \in {"ip4", "ip6"} /\ ToWaitFor' = ToWaitFor
      /\ UNCHANGED <<interfaces, pc, taken, sem, link, lost>>
      /\ link[i] = "up" /\ k \in asking[i]
      /\ asking' = [asking EXCEPT ![i] = @ \ {k}] /\ got' = [got EXCEPT ![i] = @ \cup {k}]
  BY DEF Address, Kinds, ToWaitFor
<1>. SUFFICES ASSUME ~lost
              PROVE  Distinct' /\ Fresh' /\ Counted' = Counted
  BY <1>1 DEF CountInv
<1>2. Distinct /\ Fresh
  BY DEF CountInv
<1>3. k \notin got[i] /\ ~Queued(k, i) /\ ~Queued("up", i)
  BY <1>1, <1>2 DEF Fresh
<1>4. /\ Distinct' /\ Queued(k, i)'
      /\ \A w, j : Queued(w, j) => Queued(w, j)'
      /\ \A w, j : Queued(w, j)' => Queued(w, j) \/ (w = k /\ j = i)
  BY <1>1, <1>2, <1>3, PostQueued
<1>5. /\ asking'[i] = asking[i] \ {k} /\ got'[i] = got[i] \cup {k}
      /\ \A j \in interfaces \ {i} : asking'[j] = asking[j] /\ got'[j] = got[j]
  BY <1>1 DEF TypeOK
<1>6. Fresh'
  BY <1>1, <1>2, <1>3, <1>4, <1>5 DEF Fresh
<1>7. Counted' = Counted
  <2>1. ASSUME NEW p \in interfaces \X Kinds
        PROVE  p[2] \in got'[p[1]] /\ ~Queued(p[2], p[1])'
               <=> p[2] \in got[p[1]] /\ ~Queued(p[2], p[1])
    <3>1. CASE p[1] = i /\ p[2] = k
      BY <1>3, <1>4, <3>1
    <3>2. CASE ~(p[1] = i /\ p[2] = k)
      <4>1. p[1] \in interfaces
        OBVIOUS
      <4>2. p[2] \in got'[p[1]] <=> p[2] \in got[p[1]]
        BY <1>5, <3>2, <4>1
      <4>. QED  BY <1>4, <3>2, <4>2
    <3>. QED  BY <3>1, <3>2
  <2>. QED  BY <1>1, <2>1 DEF Counted
<1>. QED  BY <1>4, <1>6, <1>7

\* A link that comes up, or a failed attempt to join.
LEMMA LinkCountInv ==
  ASSUME TypeOK, CountInv, JoinFails \/ \E i \in interfaces : LinkUp(i)
  PROVE  CountInv'
<1>1. PICK what \in {"up", "down"}, i \in {"wifi", "eth"} :
        /\ Post(what, i)
        /\ what = "up" => link[i] = "down" /\ i \in interfaces /\ link' = [link EXCEPT ![i] = "up"]
        /\ what = "down" => link' = link
        /\ UNCHANGED <<interfaces, pc, taken, sem, asking, got, lost>>
  <2>1. CASE JoinFails
    BY <2>1 DEF JoinFails
  <2>2. CASE \E i \in interfaces : LinkUp(i)
    BY <2>2, ConfigAssumption DEF LinkUp, TypeOK
  <2>. QED  BY <2>1, <2>2
<1>2. ToWaitFor' = ToWaitFor
  BY <1>1 DEF ToWaitFor
<1>. SUFFICES ASSUME ~lost
              PROVE  Distinct' /\ Fresh' /\ Counted' = Counted
  BY <1>1, <1>2 DEF CountInv
<1>3. Distinct /\ Fresh
  BY DEF CountInv
<1>4. what = "up" => ~Queued("up", i) /\ asking[i] = {} /\ got[i] = {}
  BY <1>1, <1>3 DEF Fresh
<1>5. /\ Distinct'
      /\ \A w, j : Queued(w, j) => Queued(w, j)'
      /\ \A w, j : Queued(w, j)' => Queued(w, j) \/ (w = what /\ j = i)
  BY <1>1, <1>3, <1>4, PostQueued
<1>6. Counted' = Counted
  <2>1. \A p \in interfaces \X Kinds : p[2] \in {"ip4", "ip6"}
    BY DEF Kinds
  <2>2. \A p \in interfaces \X Kinds : Queued(p[2], p[1])' <=> Queued(p[2], p[1])
    BY <1>5, <2>1
  <2>. QED  BY <1>1, <2>2 DEF Counted
<1>7. \A j \in interfaces : link'[j] = link[j] \/ (what = "up" /\ j = i /\ link'[j] = "up")
  BY <1>1 DEF TypeOK
<1>8. Fresh'
  <2>1. ASSUME NEW j \in interfaces
        PROVE  /\ link'[j] # "up" => asking[j] = {} /\ got[j] = {} /\ ~Queued("up", j)'
               /\ Queued("up", j)' => asking[j] = {} /\ got[j] = {}
               /\ asking[j] \cap got[j] = {}
               /\ \A k \in {"ip4", "ip6"} : Queued(k, j)' => k \in got[j]
    <3>1. /\ link[j] # "up" => asking[j] = {} /\ got[j] = {} /\ ~Queued("up", j)
          /\ Queued("up", j) => asking[j] = {} /\ got[j] = {}
          /\ asking[j] \cap got[j] = {}
          /\ \A k \in {"ip4", "ip6"} : Queued(k, j) => k \in got[j]
      BY <1>3 DEF Fresh
    <3>2. Queued("up", j)' => Queued("up", j) \/ (what = "up" /\ j = i /\ link'[j] = "up")
      BY <1>1, <1>5 DEF TypeOK
    <3>3. \A k \in {"ip4", "ip6"} : Queued(k, j)' => Queued(k, j)
      BY <1>5
    <3>. QED  BY <1>4, <1>7, <3>1, <3>2, <3>3
  <2>. QED  BY <1>1, <2>1 DEF Fresh
<1>. QED  BY <1>5, <1>6, <1>8

LEMMA NextCountInv == TypeOK /\ CountInv /\ [Next]_vars => CountInv'
<1>. SUFFICES ASSUME TypeOK, CountInv, [Next]_vars PROVE CountInv'
  OBVIOUS
<1>1. ToWaitFor \in Nat /\ taken \in Int /\ sem \in Int /\ NoSemaphore = -1
      /\ link \in [interfaces -> {"off", "down", "up"}]
  BY CountType DEF TypeOK, NoSemaphore
<1>2. /\ pc = "start" \/ sem = NoSemaphore => taken = 0
      /\ pc = "connected" => taken = ToWaitFor
  BY DEF CountInv
<1>3. CASE StartWifi \/ StartEthernet
  <2>1. \A i \in interfaces : link'[i] = link[i] \/ (link[i] = "off" /\ link'[i] = "down")
    BY <1>1, <1>3 DEF StartWifi, StartEthernet, Started
  <2>2. UNCHANGED <<interfaces, pc, taken, sem, queue, asking, got, lost>>
    BY <1>3 DEF StartWifi, StartEthernet
  <2>. QED  BY <1>1, <1>2, <2>1, <2>2, TaskCountInv
<1>4. CASE CreateSemaphore
  <2>1. /\ taken' = 0 /\ (sem' = 0 \/ sem' = -1) /\ pc' = "register"
        /\ UNCHANGED <<interfaces, queue, link, asking, got, lost>>
    BY <1>1, <1>2, <1>4 DEF CreateSemaphore
  <2>2. \A b \in Int : b = 0 \/ b = -1 => 0 + b <= 0
    OBVIOUS
  <2>3. sem' \in Int /\ taken' \in Int
    BY <2>1
  <2>4. taken' + sem' <= 0
    BY <2>1, <2>2, <2>3, Zenon
  <2>. QED  BY <2>1, <2>3, <2>4, TaskCountInv
<1>5. CASE RegisterShutdown \/ Connected
  BY <1>1, <1>2, <1>5, TaskCountInv DEF RegisterShutdown, Connected
<1>6. CASE TakeSemaphore
  BY <1>1, <1>2, <1>6, TaskCountInv DEF TakeSemaphore
<1>7. CASE CreateCtrl \/ CtrlStart \/ UNCHANGED vars
  BY <1>1, <1>2, <1>7, TaskCountInv DEF CreateCtrl, CtrlStart, vars
<1>8. CASE OnWifiConnect \/ OnEthEvent \/ OnWifiDisconnect \/ EthernetDown
  <2>1. PICK what \in {"up", "down"}, i \in {"wifi", "eth"} :
          /\ Take(what, i) /\ Ask(i, IF what = "up" THEN Kinds ELSE {})
          /\ UNCHANGED <<interfaces, pc, taken, sem, link, got, lost>>
    BY <1>8 DEF OnWifiConnect, OnEthEvent, OnWifiDisconnect, EthernetDown
  <2>2. i \in interfaces
    <3>1. queue \in Seq(Event) /\ queue # <<>> /\ Head(queue) = [what |-> what, if |-> i]
      BY <2>1 DEF Take, TypeOK
    <3>2. Head(queue) \in Event
      BY <3>1
    <3>3. [what |-> what, if |-> i].if \in interfaces
      BY <3>1, <3>2 DEF Event
    <3>. QED  BY <3>3
  <2>. QED  BY <2>1, <2>2, LinkEventCountInv
<1>9. CASE \E i \in interfaces, k \in Kinds : HandleAddress(k, i)
  BY <1>9, AddressEventCountInv
<1>10. CASE JoinFails \/ \E i \in interfaces : LinkUp(i)
  BY <1>10, LinkCountInv
<1>11. CASE \E i \in interfaces : LinkDown(i)
  <2>1. lost' /\ UNCHANGED <<interfaces, pc, taken, sem>>
    BY <1>11 DEF LinkDown
  <2>2. ToWaitFor' = ToWaitFor
    BY <2>1 DEF ToWaitFor
  <2>. QED  BY <1>2, <2>1, <2>2 DEF CountInv
<1>12. CASE \E i \in interfaces, k \in Kinds : Address(k, i)
  BY <1>12, AddressCountInv
<1>13. CASE Reset
  <2>1. (\A w, i : ~Queued(w, i)') /\ Distinct'
    BY <1>13 DEF Reset, Queued, Distinct
  <2>2. Counted' = {}
    BY <1>13 DEF Reset, Counted
  <2>3. Fresh'
    BY <1>13, <2>1 DEF Reset, Fresh
  <2>4. taken' = 0 /\ sem' = -1 /\ pc' = "start"
    BY <1>1, <1>13 DEF Reset
  <2>. QED  BY <2>1, <2>2, <2>3, <2>4, FS_EmptySet DEF CountInv
<1>. QED
  BY <1>3, <1>4, <1>5, <1>6, <1>7, <1>8, <1>9, <1>10, <1>11, <1>12, <1>13 DEF Next, Tasks, Handlers

------------------------------------------------------------------------------
(* No address is lost to the main task, with links that are lost as well.  *)

CoverInv ==
  /\ EveryAddressCounts
  /\ pc = "start" \/ sem = NoSemaphore => taken = 0
  /\ pc = "start" => sem = NoSemaphore

\* Nothing but the handler of an address adds to the addresses that count.
LEMMA FewerCounted ==
  ASSUME TypeOK, EveryAddressCounts, ~Panicked' => ~Panicked,
         Counted' \subseteq Counted,
         \/ sem' = sem /\ taken' = taken
         \/ sem = NoSemaphore /\ sem' \in {0, NoSemaphore} /\ taken' = 0
         \/ sem > 0 /\ sem' = sem - 1 /\ taken' = taken + 1
  PROVE  EveryAddressCounts'
<1>. SUFFICES ASSUME ~Panicked'
              PROVE  Cardinality(Counted') <= IF sem' = NoSemaphore THEN 0 ELSE sem' + taken'
  BY DEF EveryAddressCounts
<1>1. /\ Cardinality(Counted) \in Nat /\ Cardinality(Counted') \in Nat
      /\ Cardinality(Counted') <= Cardinality(Counted)
  BY CountedFinite, FS_Subset, FS_CardinalityType
<1>2. Cardinality(Counted) <= IF sem = NoSemaphore THEN 0 ELSE sem + taken
  BY DEF EveryAddressCounts
<1>3. ToWaitFor \in Nat /\ taken \in Nat /\ sem \in Int /\ sem >= -1 /\ NoSemaphore = -1
  BY CountType DEF TypeOK, NoSemaphore
<1>4. CASE sem' = sem /\ taken' = taken
  BY <1>1, <1>2, <1>3, <1>4
<1>5. CASE sem = NoSemaphore /\ sem' \in {0, NoSemaphore} /\ taken' = 0
  <2>1. Cardinality(Counted') <= 0
    BY <1>1, <1>2, <1>5
  <2>. QED  BY <1>3, <1>5, <2>1
<1>6. CASE sem > 0 /\ sem' = sem - 1 /\ taken' = taken + 1
  BY <1>1, <1>2, <1>3, <1>6
<1>. QED  BY <1>4, <1>5, <1>6

\* The handler gives the semaphore for each, as long as one is not counted yet.
LEMMA GiveCounts ==
  ASSUME TypeOK, EveryAddressCounts, NEW k \in Kinds, NEW i \in interfaces, HandleAddress(k, i)
  PROVE  EveryAddressCounts'
<1>1. /\ Take(k, i) /\ Give /\ ~Panicked
      /\ UNCHANGED <<interfaces, taken, got>>
  BY DEF HandleAddress, Take
<1>. SUFFICES ASSUME ~Panicked'
              PROVE  Cardinality(Counted') <= IF sem' = NoSemaphore THEN 0 ELSE sem' + taken'
  BY DEF EveryAddressCounts
<1>2. sem # NoSemaphore /\ sem' = IF sem < ToWaitFor THEN sem + 1 ELSE sem
  BY <1>1 DEF Give, Panicked
<1>3. /\ ToWaitFor \in Nat /\ taken \in Nat /\ sem \in Nat /\ sem <= ToWaitFor
      /\ NoSemaphore = -1
  BY <1>2, CountType DEF TypeOK, NoSemaphore
<1>4. Counted' \subseteq Counted \cup {<<i, k>>}
  BY <1>1, TakeOne DEF Counted
<1>5. /\ IsFiniteSet(Counted) /\ IsFiniteSet(Counted \cup {<<i, k>>})
      /\ Cardinality(Counted) \in Nat
      /\ Cardinality(Counted \cup {<<i, k>>}) <= Cardinality(Counted) + 1
      /\ Cardinality(Counted \cup {<<i, k>>}) \in Nat
  <2>1. IsFiniteSet(Counted) /\ Cardinality(Counted) \in Nat
    BY CountedFinite
  <2>2. /\ IsFiniteSet(Counted \cup {<<i, k>>})
        /\ \/ Cardinality(Counted \cup {<<i, k>>}) = Cardinality(Counted)
           \/ Cardinality(Counted \cup {<<i, k>>}) = Cardinality(Counted) + 1
    BY <2>1, FS_AddElement
  <2>. QED  BY <2>1, <2>2
<1>6. /\ Cardinality(Counted') \in Nat
      /\ Cardinality(Counted') <= Cardinality(Counted \cup {<<i, k>>})
  BY <1>4, <1>5, FS_Subset, FS_CardinalityType
<1>7. Cardinality(Counted) <= sem + taken
  BY <1>1, <1>2 DEF EveryAddressCounts
<1>8. Cardinality(Counted') <= ToWaitFor
  <2>1. Counted' \subseteq interfaces \X Kinds
    BY <1>1 DEF Counted
  <2>. QED  BY <2>1, CountedFinite, FS_Subset
<1>. QED  BY <1>1, <1>2, <1>3, <1>5, <1>6, <1>7, <1>8

LEMMA InitCoverInv == Init => CoverInv
<1>. SUFFICES ASSUME Init PROVE CoverInv
  OBVIOUS
<1>1. Counted = {}
  BY DEF Init, Counted
<1>. QED  BY <1>1, FS_EmptySet DEF Init, CoverInv, EveryAddressCounts

LEMMA NextCoverInv == TypeOK /\ CoverInv /\ [Next]_vars => CoverInv'
<1>. SUFFICES ASSUME TypeOK, CoverInv, [Next]_vars PROVE CoverInv'
  OBVIOUS
<1>1. ToWaitFor \in Nat /\ taken \in Nat /\ sem \in Int /\ sem >= -1 /\ NoSemaphore = -1
  BY CountType DEF TypeOK, NoSemaphore
<1>2. \A k \in Kinds : k \in {"ip4", "ip6"}
  BY DEF Kinds
<1>3. ASSUME UNCHANGED <<interfaces, queue, got>> PROVE Counted' = Counted
  BY <1>3 DEF Counted, Queued
<1>4. ASSUME NEW what \in {"up", "down"}, NEW i, Take(what, i) \/ Post(what, i),
             UNCHANGED <<interfaces, got>>
      PROVE  Counted' = Counted
  <2>1. \A w, j : w \in {"ip4", "ip6"} => (Queued(w, j)' <=> Queued(w, j))
    BY <1>4, TakeOne, PostQueued
  <2>. QED  BY <1>2, <1>4, <2>1 DEF Counted
<1>5. ASSUME StartWifi \/ StartEthernet \/ RegisterShutdown \/ Connected \/ CreateCtrl \/ CtrlStart
             \/ UNCHANGED vars
      PROVE  CoverInv'
  <2>1. UNCHANGED <<interfaces, queue, got, taken, sem>> /\ (~Panicked' => ~Panicked)
        /\ (pc' = "start" => pc = "start")
    BY <1>5 DEF StartWifi, StartEthernet, RegisterShutdown, Connected, CreateCtrl, CtrlStart,
                vars, Panicked
  <2>2. EveryAddressCounts /\ Counted' \subseteq Counted
    BY <1>3, <2>1 DEF CoverInv
  <2>3. EveryAddressCounts'
    BY <2>1, <2>2, FewerCounted
  <2>. QED  BY <2>1, <2>3 DEF CoverInv
<1>6. CASE CreateSemaphore
  <2>1. /\ UNCHANGED <<interfaces, queue, got>> /\ (~Panicked' => ~Panicked)
        /\ sem = NoSemaphore /\ sem' \in {0, NoSemaphore} /\ taken = 0 /\ taken' = 0
        /\ pc' = "register"
    BY <1>6 DEF CreateSemaphore, Panicked, CoverInv
  <2>2. EveryAddressCounts /\ Counted' \subseteq Counted
    BY <1>3, <2>1 DEF CoverInv
  <2>3. EveryAddressCounts'
    BY <2>1, <2>2, FewerCounted
  <2>. QED  BY <2>1, <2>3 DEF CoverInv
<1>7. CASE TakeSemaphore
  <2>1. /\ UNCHANGED <<interfaces, queue, got, pc>> /\ (~Panicked' => ~Panicked) /\ pc = "wait"
        /\ \/ sem > 0 /\ sem' = sem - 1 /\ taken' = taken + 1
           \/ sem = NoSemaphore /\ sem' = sem /\ taken' = taken
    BY <1>7 DEF TakeSemaphore, Panicked
  <2>2. sem' = NoSemaphore => taken' = 0
    BY <1>1, <2>1 DEF CoverInv
  <2>3. EveryAddressCounts /\ Counted' \subseteq Counted
    BY <1>3, <2>1 DEF CoverInv
  <2>4. EveryAddressCounts'
    BY <2>1, <2>3, FewerCounted
  <2>. QED  BY <2>1, <2>2, <2>4 DEF CoverInv
<1>8. ASSUME OnWifiConnect \/ OnEthEvent \/ OnWifiDisconnect \/ EthernetDown
      PROVE  CoverInv'
  <2>1. /\ UNCHANGED <<interfaces, got, taken, sem, pc>> /\ ~Panicked
        /\ \E what \in {"up", "down"}, i \in {"wifi", "eth"} : Take(what, i)
    BY <1>8 DEF OnWifiConnect, OnEthEvent, OnWifiDisconnect, EthernetDown, Take
  <2>2. EveryAddressCounts /\ Counted' \subseteq Counted
    BY <1>4, <2>1 DEF CoverInv
  <2>3. EveryAddressCounts'
    BY <2>1, <2>2, FewerCounted
  <2>. QED  BY <2>1, <2>3 DEF CoverInv
<1>9. ASSUME NEW i \in interfaces, NEW k \in Kinds, HandleAddress(k, i) PROVE CoverInv'
  <2>1. pc' = pc /\ taken' = taken /\ (sem = NoSemaphore <=> sem' = NoSemaphore)
    BY <1>1, <1>9 DEF HandleAddress, Give
  <2>. QED  BY <1>9, <2>1, GiveCounts DEF CoverInv
<1>10. ASSUME JoinFails \/ \E i \in interfaces : LinkUp(i) \/ LinkDown(i) PROVE CoverInv'
  <2>1. /\ UNCHANGED <<interfaces, got, taken, sem, pc, panic>>
        /\ \E what \in {"up", "down"} : Post(what, "wifi") \/ \E i \in interfaces : Post(what, i)
    BY <1>10 DEF JoinFails, LinkUp, LinkDown
  <2>2. EveryAddressCounts /\ Counted' \subseteq Counted
    BY <1>4, <2>1 DEF CoverInv
  <2>3. EveryAddressCounts'
    BY <2>1, <2>2, FewerCounted DEF Panicked
  <2>. QED  BY <2>1, <2>3 DEF CoverInv
<1>11. ASSUME NEW i \in interfaces, NEW k \in Kinds, Address(k, i) PROVE CoverInv'
  <2>1. /\ UNCHANGED <<interfaces, taken, sem, pc, panic>> /\ Post(k, i)
        /\ got' = [got EXCEPT ![i] = @ \cup {k}] /\ got \in [interfaces -> SUBSET Kinds]
    BY <1>11 DEF Address, TypeOK
  <2>2. Queued(k, i)' /\ \A w, j : Queued(w, j) => Queued(w, j)'
    BY <2>1, PostQueued
  <2>3. Counted' \subseteq Counted
    <3>1. ASSUME NEW p \in interfaces \X Kinds, p[2] \in got'[p[1]], ~Queued(p[2], p[1])'
          PROVE  p[2] \in got[p[1]] /\ ~Queued(p[2], p[1])
      <4>1. ~(p[1] = i /\ p[2] = k)
        BY <2>2, <3>1
      <4>. QED  BY <2>1, <2>2, <3>1, <4>1
    <3>. QED  BY <2>1, <3>1 DEF Counted
  <2>4. EveryAddressCounts'
    BY <2>1, <2>3, FewerCounted DEF CoverInv, Panicked
  <2>. QED  BY <2>1, <2>4 DEF CoverInv
<1>12. CASE Reset
  <2>1. Counted' = {}
    BY <1>12 DEF Reset, Counted
  <2>. QED  BY <1>12, <2>1, FS_EmptySet DEF Reset, CoverInv, EveryAddressCounts
<1>. QED
  BY <1>5, <1>6, <1>7, <1>8, <1>9, <1>10, <1>11, <1>12 DEF Next, Tasks, Handlers

------------------------------------------------------------------------------
(* The theorems.                                                           *)

\* Once the handlers have caught up, wifi_connect is the state of the link.
THEOREM FlagTheorem == Spec => []FlagFollowsLink
<1>1. IInv => FlagFollowsLink
  BY DEF IInv, LinkInv, FlagTellsLink, FlagFollowsLink, LinkEvent
<1>. QED  BY <1>1, Invariance, PTL

\* A link that is down is joined again, exactly unless a join was refused silently.
THEOREM RejoinTheorem == Spec => []RejoinsUnlessRefused
<1>1. IInv => RejoinsUnlessRefused
  <2>. SUFFICES ASSUME IInv, "wifi" \in interfaces, ~Panicked
                PROVE  refused <=> link["wifi"] = "down" /\ ~joining /\ ~Queued("down", "wifi")
    BY DEF RejoinsUnlessRefused
  <2>1. RefusedDown /\ LossAnswered
    BY DEF IInv, LinkInv
  <2>. QED  BY <2>1 DEF RefusedDown, LossAnswered
<1>. QED  BY <1>1, Invariance, PTL

\* For any configuration and queue length: the main task can take, or has taken, the
\* semaphore for every address whose event was handled, with links that were lost too.
THEOREM CoverTheorem == Spec => []EveryAddressCounts
<1>1. CoverInv => EveryAddressCounts
  BY DEF CoverInv
<1>. QED  BY <1>1, InitCoverInv, NextCoverInv, TypeCorrect, PTL DEF Spec

\* Unless a link was lost, the main task goes on only with every address of every interface.
THEOREM AddressTheorem == Spec => []AddressedUnlessLost
<1>1. TypeOK /\ CountInv => AddressedUnlessLost
  <2>. SUFFICES ASSUME TypeOK, CountInv, pc = "connected", ~lost, NEW i \in interfaces
                PROVE  got[i] = Kinds
    BY DEF AddressedUnlessLost
  <2>1. ToWaitFor \in Nat /\ ToWaitFor > 0 /\ taken = ToWaitFor /\ sem \in Nat
        /\ taken + sem <= Cardinality(Counted)
    BY CountType DEF CountInv, TypeOK
  <2>2. Counted \subseteq interfaces \X Kinds
    BY DEF Counted
  <2>3. Cardinality(Counted) = Cardinality(interfaces \X Kinds)
    BY <2>1, <2>2, CountedFinite, FS_Subset
  <2>4. Counted = interfaces \X Kinds
    BY <2>2, <2>3, CountedFinite, FS_Subset
  <2>5. \A k \in Kinds : <<i, k>> \in Counted
    BY <2>4
  <2>6. \A k \in Kinds : k \in got[i]
    BY <2>5 DEF Counted
  <2>. QED  BY <2>6 DEF TypeOK
<1>. QED  BY <1>1, InitCountInv, NextCountInv, TypeCorrect, PTL DEF Spec

------------------------------------------------------------------------------
(* The handlers and the tasks implement the promise of the module Network. *)

LEMMA InitNetwork == Init => Net!Init
BY DEF Init, Net!Init, stage, addressed, Panicked

\* A step that writes the flag, or nothing the promise is about, or panics.
LEMMA FlagSteps ==
  ASSUME TypeOK, TypeOK', ~Panicked, UNCHANGED <<interfaces, pc, got>>
  PROVE  [Net!Next]_Net!vars
<1>1. addressed' = addressed /\ stage # "panic" /\ wifi_connect' \in BOOLEAN
  BY DEF addressed, stage, TypeOK
<1>2. stage' = stage \/ stage' = "panic"
  BY DEF stage, Panicked
<1>. QED  BY <1>1, <1>2 DEF Net!Next, Net!Flag, Net!Panic

LEMMA NextNetwork == IInv /\ IInv' /\ [Next]_vars => [Net!Next]_Net!vars
<1>. SUFFICES ASSUME TypeOK, TypeOK', AddressInv, [Next]_vars PROVE [Net!Next]_Net!vars
  BY DEF IInv
<1>1. ASSUME StartWifi \/ StartEthernet \/ TakeSemaphore \/ CreateCtrl \/ CtrlStart
             \/ OnWifiConnect \/ OnEthEvent \/ OnWifiDisconnect \/ EthernetDown
             \/ \E i \in interfaces, k \in Kinds : HandleAddress(k, i)
      PROVE  [Net!Next]_Net!vars
  BY <1>1, FlagSteps
  DEF StartWifi, StartEthernet, TakeSemaphore, CreateCtrl, CtrlStart, OnWifiConnect,
      OnEthEvent, OnWifiDisconnect, EthernetDown, HandleAddress, Take
<1>2. ASSUME UNCHANGED <<interfaces, pc, panic, got, wifi_connect>>
      PROVE  [Net!Next]_Net!vars
  BY <1>2 DEF Net!vars, stage, addressed, Panicked
<1>3. ASSUME CreateSemaphore PROVE [Net!Next]_Net!vars
  BY <1>3 DEF CreateSemaphore, Net!vars, stage, addressed, Panicked
<1>4. ASSUME RegisterShutdown PROVE [Net!Next]_Net!vars
  <2>1. CASE panic' = panic
    BY <1>4, <2>1 DEF RegisterShutdown, Net!vars, stage, addressed, Panicked
  <2>2. CASE pc' = pc
    BY <1>4, <2>2, FlagSteps DEF RegisterShutdown
  <2>. QED  BY <1>4, <2>1, <2>2 DEF RegisterShutdown
<1>5. ASSUME Connected PROVE [Net!Next]_Net!vars
  <2>1. CASE pc' = "connected" /\ panic' = panic
    <3>1. taken > 0
      BY <1>5, CountType DEF Connected, TypeOK
    <3>2. addressed # {}
      BY <3>1 DEF AddressInv, HadAddress, addressed
    <3>3. stage = "connecting" /\ stage' = "connected"
      BY <1>5, <2>1 DEF Connected, stage, Panicked
    <3>4. addressed' = addressed /\ wifi_connect' = wifi_connect
      BY <1>5 DEF Connected, addressed
    <3>. QED  BY <3>2, <3>3, <3>4 DEF Net!Next, Net!Connect
  <2>2. CASE pc' = pc
    BY <1>5, <2>2, FlagSteps DEF Connected
  <2>. QED  BY <1>5, <2>1, <2>2 DEF Connected
<1>6. ASSUME NEW i \in interfaces, NEW k \in Kinds, Address(k, i) PROVE [Net!Next]_Net!vars
  <2>1. got' = [got EXCEPT ![i] = @ \cup {k}] /\ interfaces' = interfaces
    BY <1>6 DEF Address
  <2>2. addressed' = addressed \cup {i}
    BY <2>1 DEF addressed, TypeOK
  <2>3. stage' = stage /\ wifi_connect' = wifi_connect
    BY <1>6 DEF Address, stage, Panicked
  <2>4. i \in {"wifi", "eth"}
    BY ConfigAssumption DEF TypeOK
  <2>. QED  BY <2>2, <2>3, <2>4 DEF Net!Next, Net!Addressed
<1>7. ASSUME JoinFails \/ \E i \in interfaces : LinkUp(i) \/ LinkDown(i)
      PROVE  [Net!Next]_Net!vars
  BY <1>2, <1>7 DEF JoinFails, LinkUp, LinkDown
<1>8. ASSUME Reset PROVE [Net!Next]_Net!vars
  <2>1. stage = "panic" /\ stage' = "connecting" /\ wifi_connect' = FALSE
    BY <1>8 DEF Reset, stage, Panicked
  <2>2. addressed' = {}
    BY <1>8 DEF Reset, addressed
  <2>. QED  BY <2>1, <2>2 DEF Net!Next, Net!Reset
<1>9. CASE UNCHANGED vars
  BY <1>2, <1>9 DEF vars
<1>. QED
  BY <1>1, <1>3, <1>4, <1>5, <1>6, <1>7, <1>8, <1>9 DEF Next, Tasks, Handlers

\* The network side keeps the promise of Network for every configuration: the boot goes
\* on only after an address, and only a failed check takes the flag's steps out of turn.
THEOREM NetworkTheorem == Spec => ImplementsNetwork
<1>. QED  BY InitNetwork, NextNetwork, Invariance, PTL DEF Spec, ImplementsNetwork, Net!Spec
==============================================================================
