----------------------------- MODULE WifiConnect -----------------------------
(***************************************************************************)
(* The network side of the boot (WifiConnect.c): the main task starts the  *)
(* configured interfaces, makes a counting semaphore and takes it once per *)
(* address; the event task runs the handlers of the events that the WiFi   *)
(* driver, the Ethernet driver and the tcpip thread queue.  ctrl_tsk, made *)
(* when the boot is over, waits for the flag wifi_connect.                 *)
(*                                                                         *)
(* A queued event is one a handler acts on: an address of another netif or *)
(* of an IPv6 type that is not the preferred one is ignored, and not       *)
(* queued here.                                                            *)
(***************************************************************************)
EXTENDS Integers, Sequences, FiniteSets

CONSTANTS
  Configurations,  \* choices of interfaces: CONFIG_EXAMPLE_CONNECT_WIFI and _ETHERNET
  Ipv6,            \* CONFIG_EXAMPLE_CONNECT_IPV6
  QueueMax         \* bound: the length of the event queue (32 in the program)

ASSUME ConfigAssumption ==
  /\ Configurations \subseteq SUBSET {"wifi", "eth"} /\ {} \notin Configurations
  /\ Ipv6 \in BOOLEAN
  /\ QueueMax \in Nat \ {0}

VARIABLES
  interfaces,   \* the configuration of this program
  pc,           \* where the main task stands
  taken,        \* the addresses the main task has waited for
  sem,          \* s_semph_get_ip_addrs: its count, or NoSemaphore
  wifi_connect, \* WifiConnect.c:31
  ctrl,         \* ctrl_tsk, up to the start of the MQTT session
  panic,        \* a failed assertion or ESP_ERROR_CHECK: a reset is due
  queue,        \* the queue of the default event loop
  link,         \* external: the state of each interface
  joining,      \* external: the WiFi driver was told to connect
  asking,       \* external: the kinds of address each interface asks for
  got,          \* history: the kinds of address each interface had
  lost,         \* history: a link was lost after it was up
  refused       \* history: an esp_wifi_connect was refused, and nothing came of it

vars == <<interfaces, pc, taken, sem, wifi_connect, ctrl, panic,
          queue, link, joining, asking, got, lost, refused>>

device  == <<interfaces, pc, taken, sem, wifi_connect, ctrl, panic>>
network == <<link, joining, asking, got, lost, refused>>

NoSemaphore == -1   \* the null handle

Kinds == IF Ipv6 THEN {"ip4", "ip6"} ELSE {"ip4"}
Panicked == panic # "none"

Event == [what : {"up", "down", "ip4", "ip6"}, if : interfaces]

\* NR_OF_IP_ADDRESSES_TO_WAIT_FOR.
ToWaitFor == Cardinality(interfaces) * Cardinality(Kinds)

TypeOK ==
  /\ interfaces \in Configurations
  /\ pc \in {"start", "register", "wait", "connected"}
  /\ taken \in 0..ToWaitFor
  /\ sem \in {NoSemaphore} \cup 0..ToWaitFor
  /\ wifi_connect \in BOOLEAN
  /\ ctrl \in {"none", "waiting", "started"}
  /\ panic \in {"none", "assert", "error"}
  /\ queue \in Seq(Event) /\ Len(queue) <= QueueMax
  /\ link \in [interfaces -> {"off", "down", "up"}]
  /\ joining \in BOOLEAN /\ (joining => "wifi" \in interfaces)
  /\ asking \in [interfaces -> SUBSET Kinds]
  /\ got \in [interfaces -> SUBSET Kinds]
  /\ lost \in BOOLEAN
  /\ refused \in BOOLEAN

Init ==
  /\ interfaces \in Configurations
  /\ pc = "start" /\ taken = 0 /\ sem = NoSemaphore
  /\ wifi_connect = FALSE
  /\ ctrl = "none"
  /\ panic = "none"
  /\ queue = <<>>
  /\ link = [i \in interfaces |-> "off"]
  /\ joining = FALSE
  /\ asking = [i \in interfaces |-> {}]
  /\ got = [i \in interfaces |-> {}]
  /\ lost = FALSE /\ refused = FALSE

------------------------------------------------------------------------------
(* The main task: start, fisi_example_connect, the end of app_main.        *)

Started(i) == link[i] # "off"

\* wifi_start: the handlers are registered, the driver is started and told to
\* connect, and the result of that is not looked at.  Every other step is checked.
StartWifi ==
  /\ pc = "start" /\ ~Panicked
  /\ "wifi" \in interfaces /\ ~Started("wifi")
  /\ \/ /\ link' = [link EXCEPT !["wifi"] = "down"]
        /\ joining' \in BOOLEAN
        /\ refused' = ~joining'
        /\ UNCHANGED panic
     \/ panic' = "error" /\ UNCHANGED <<link, joining, refused>>
  /\ UNCHANGED <<interfaces, pc, taken, sem, wifi_connect, ctrl, queue, asking, got, lost>>

\* eth_start, after it.
StartEthernet ==
  /\ pc = "start" /\ ~Panicked
  /\ "eth" \in interfaces /\ ~Started("eth")
  /\ "wifi" \in interfaces => Started("wifi")
  /\ \/ link' = [link EXCEPT !["eth"] = "down"] /\ UNCHANGED panic
     \/ panic' = "error" /\ UNCHANGED link
  /\ UNCHANGED <<interfaces, pc, taken, sem, wifi_connect, ctrl, queue, joining, asking, got, lost, refused>>

\* s_semph_get_ip_addrs = xSemaphoreCreateCounting(...), at the end of start; it
\* is NULL if there is no memory.
CreateSemaphore ==
  /\ pc = "start" /\ ~Panicked
  /\ \A i \in interfaces : Started(i)
  /\ pc' = "register"
  /\ sem' \in {0, NoSemaphore}
  /\ UNCHANGED <<interfaces, taken, wifi_connect, ctrl, panic, queue, network>>

\* ESP_ERROR_CHECK(esp_register_shutdown_handler(&stop)).
RegisterShutdown ==
  /\ pc = "register" /\ ~Panicked
  /\ \/ pc' = "wait" /\ UNCHANGED panic
     \/ panic' = "error" /\ UNCHANGED pc
  /\ UNCHANGED <<interfaces, taken, sem, wifi_connect, ctrl, queue, network>>

\* Mutant: a take that times out counts as an address.
TakeSemaphore_TimesOut ==
  /\ pc = "wait" /\ ~Panicked /\ taken < ToWaitFor /\ sem # NoSemaphore
  /\ sem' = IF sem > 0 THEN sem - 1 ELSE 0
  /\ taken' = taken + 1
  /\ UNCHANGED <<interfaces, pc, wifi_connect, ctrl, panic, queue, network>>

\* A turn of the loop over the addresses, and its end.
TakeSemaphore ==
  /\ pc = "wait" /\ ~Panicked
  /\ taken < ToWaitFor
  /\ \/ sem > 0 /\ sem' = sem - 1 /\ taken' = taken + 1 /\ UNCHANGED panic
     \/ sem = NoSemaphore /\ panic' = "assert" /\ UNCHANGED <<sem, taken>>
  /\ UNCHANGED <<interfaces, pc, wifi_connect, ctrl, queue, network>>

\* Mutant: the loop stops one address early.
Connected_OneEarly ==
  /\ pc = "wait" /\ ~Panicked /\ taken + 1 = ToWaitFor /\ pc' = "connected"
  /\ UNCHANGED <<interfaces, taken, sem, wifi_connect, ctrl, panic, queue, network>>

\* The addresses are printed, which is checked too.
Connected ==
  /\ pc = "wait" /\ ~Panicked
  /\ taken = ToWaitFor
  /\ \/ pc' = "connected" /\ UNCHANGED panic
     \/ panic' = "error" /\ UNCHANGED pc
  /\ UNCHANGED <<interfaces, taken, sem, wifi_connect, ctrl, queue, network>>

\* xTaskCreatePinnedToCore(ctrl_tsk), once the time is known.
CreateCtrl ==
  /\ pc = "connected" /\ ~Panicked
  /\ ctrl = "none"
  /\ ctrl' = "waiting"
  /\ UNCHANGED <<interfaces, pc, taken, sem, wifi_connect, panic, queue, network>>

\* ctrl_tsk, out of while(wifi_connect == false), into mqtt_app_start_main.
CtrlStart ==
  /\ ctrl = "waiting" /\ ~Panicked
  /\ wifi_connect
  /\ ctrl' = "started"
  /\ UNCHANGED <<interfaces, pc, taken, sem, wifi_connect, panic, queue, network>>

Tasks == StartWifi \/ StartEthernet \/ CreateSemaphore \/ RegisterShutdown \/ TakeSemaphore
         \/ Connected \/ CreateCtrl \/ CtrlStart

------------------------------------------------------------------------------
(* The event task: the handlers, in the order of the queue.  Before ours,  *)
(* the default handlers start and stop DHCP.                               *)

Take(what, i) ==
  /\ ~Panicked
  /\ queue # <<>>
  /\ Head(queue) = [what |-> what, if |-> i]
  /\ queue' = Tail(queue)

Ask(i, kinds) == asking' = [asking EXCEPT ![i] = kinds]

\* Mutant: wifi_connect is not set.
OnWifiConnect_NoFlag ==
  /\ Take("up", "wifi")
  /\ Ask("wifi", Kinds)
  /\ UNCHANGED <<device, link, joining, got, lost, refused>>

\* on_wifi_connect, registered with IPv6 only, asks for the link-local address.
OnWifiConnect ==
  /\ Take("up", "wifi")
  /\ wifi_connect' = (wifi_connect \/ Ipv6)
  /\ Ask("wifi", Kinds)
  /\ UNCHANGED <<interfaces, pc, taken, sem, ctrl, panic, link, joining, got, lost, refused>>

\* on_eth_event, likewise: it takes an error for fatal, and leaves wifi_connect alone.
OnEthEvent ==
  /\ Take("up", "eth")
  /\ panic' \in {"none"} \cup {e \in {"error"} : Ipv6}
  /\ Ask("eth", Kinds)
  /\ UNCHANGED <<interfaces, pc, taken, sem, wifi_connect, ctrl, link, joining, got, lost, refused>>

\* The answers of the driver to the handler: it joins, it has an error, or it is not
\* started.  In this program nothing stops it before the handlers are unregistered
\* (wifi_stop); what it answers is its own affair all the same.
Joins       == joining' = TRUE /\ UNCHANGED <<panic, refused>>
JoinError   == panic' = "error" /\ UNCHANGED <<joining, refused>>
JoinRefused == refused' = TRUE /\ UNCHANGED <<panic, joining>>

\* Mutant: wifi_connect is not cleared.
OnWifiDisconnect_NoFlag ==
  /\ Take("down", "wifi")
  /\ Joins \/ JoinError \/ JoinRefused
  /\ Ask("wifi", {})
  /\ UNCHANGED <<interfaces, pc, taken, sem, wifi_connect, ctrl, link, got, lost>>

\* Mutant: the driver is not told to connect again.
OnWifiDisconnect_NoRejoin ==
  /\ Take("down", "wifi")
  /\ wifi_connect' = FALSE
  /\ Ask("wifi", {})
  /\ UNCHANGED <<interfaces, pc, taken, sem, ctrl, panic, link, joining, got, lost, refused>>

\* on_wifi_disconnect tells the driver to connect again; it takes an error for fatal,
\* but returns without a word from a driver that is not started.
OnWifiDisconnect ==
  /\ Take("down", "wifi")
  /\ wifi_connect' = FALSE
  /\ Joins \/ JoinError \/ JoinRefused
  /\ Ask("wifi", {})
  /\ UNCHANGED <<interfaces, pc, taken, sem, ctrl, link, got, lost>>

\* External: the default handler alone.
EthernetDown ==
  /\ Take("down", "eth")
  /\ Ask("eth", {})
  /\ UNCHANGED <<device, link, joining, got, lost, refused>>

\* Mutant: the semaphore has no maximum.
Give_Unbounded ==
  \/ sem = NoSemaphore /\ panic' = "assert" /\ UNCHANGED sem
  \/ sem # NoSemaphore /\ sem' = sem + 1 /\ UNCHANGED panic

\* Mutant: without a semaphore the handler does nothing.
Give_IgnoresNull ==
  /\ sem' = IF sem \in 0..(ToWaitFor - 1) THEN sem + 1 ELSE sem
  /\ UNCHANGED panic

\* xSemaphoreGive: a full semaphore refuses, a null one fails the assertion.
Give ==
  \/ sem = NoSemaphore /\ panic' = "assert" /\ UNCHANGED sem
  \/ /\ sem # NoSemaphore
     /\ sem' = IF sem < ToWaitFor THEN sem + 1 ELSE sem
     /\ UNCHANGED panic

\* on_got_ip and on_got_ipv6.
HandleAddress(what, i) ==
  /\ Take(what, i)
  /\ Give
  /\ UNCHANGED <<interfaces, pc, taken, wifi_connect, ctrl, network>>

Handlers == OnWifiConnect \/ OnEthEvent \/ OnWifiDisconnect \/ EthernetDown
            \/ \E i \in interfaces, k \in Kinds : HandleAddress(k, i)

------------------------------------------------------------------------------
(* External: the drivers and the tcpip thread.  They wait for room in the  *)
(* event queue.                                                            *)

Post(what, i) ==
  /\ Len(queue) < QueueMax
  /\ queue' = Append(queue, [what |-> what, if |-> i])

LinkUp(i) ==
  /\ link[i] = "down"
  /\ i = "wifi" => joining
  /\ Post("up", i)
  /\ link' = [link EXCEPT ![i] = "up"]
  /\ joining' = (joining /\ i # "wifi")
  /\ UNCHANGED <<device, asking, got, lost, refused>>

LinkDown(i) ==
  /\ link[i] = "up"
  /\ Post("down", i)
  /\ link' = [link EXCEPT ![i] = "down"]
  /\ lost' = TRUE
  /\ UNCHANGED <<device, joining, asking, got, refused>>

\* The driver reports a failed attempt as a disconnection.
JoinFails ==
  /\ joining
  /\ Post("down", "wifi")
  /\ joining' = FALSE
  /\ UNCHANGED <<device, link, asking, got, lost, refused>>

Address(k, i) ==
  /\ link[i] = "up" /\ k \in asking[i]
  /\ Post(k, i)
  /\ asking' = [asking EXCEPT ![i] = @ \ {k}]
  /\ got' = [got EXCEPT ![i] = @ \cup {k}]
  /\ UNCHANGED <<device, link, joining, lost, refused>>

\* The reset after a panic.
Reset ==
  /\ Panicked
  /\ pc' = "start" /\ taken' = 0 /\ sem' = NoSemaphore
  /\ wifi_connect' = FALSE /\ ctrl' = "none" /\ panic' = "none"
  /\ queue' = <<>>
  /\ link' = [i \in interfaces |-> "off"] /\ joining' = FALSE
  /\ asking' = [i \in interfaces |-> {}] /\ got' = [i \in interfaces |-> {}]
  /\ lost' = FALSE /\ refused' = FALSE
  /\ UNCHANGED interfaces

Next ==
  \/ Tasks
  \/ Handlers
  \/ \E i \in interfaces : LinkUp(i) \/ LinkDown(i) \/ \E k \in Kinds : Address(k, i)
  \/ JoinFails
  \/ Reset

Spec == Init /\ [][Next]_vars

(* Every task runs.  Addresses that are asked for on a link that stays up  *)
(* are given.                                                              *)
Fairness ==
  /\ WF_vars(StartWifi) /\ WF_vars(StartEthernet) /\ WF_vars(CreateSemaphore)
  /\ WF_vars(RegisterShutdown) /\ WF_vars(TakeSemaphore) /\ WF_vars(Connected)
  /\ WF_vars(CreateCtrl) /\ WF_vars(CtrlStart)
  /\ WF_vars(Handlers)
  /\ \A i \in {"wifi", "eth"}, k \in Kinds : WF_vars(i \in interfaces /\ Address(k, i))
  /\ WF_vars(Reset)

FairSpec == Spec /\ Fairness

------------------------------------------------------------------------------
(* Properties.                                                             *)

\* Once the handlers have caught up with the driver, wifi_connect is the state of
\* the link, however often it came and went (esp_restart is decided by it).
FlagFollowsLink ==
  "wifi" \in interfaces /\ Ipv6 /\ queue = <<>> /\ ~Panicked
    => (wifi_connect <=> link["wifi"] = "up")

Queued(what, i) == \E n \in DOMAIN queue : queue[n] = [what |-> what, if |-> i]

\* The addresses the interfaces had whose events the handlers have come to.
Counted == {p \in interfaces \X Kinds : p[2] \in got[p[1]] /\ ~Queued(p[2], p[1])}

\* No address is lost to the main task, however links come and go: what it has taken
\* and what it can still take covers every address whose event was handled, so it does
\* not wait once all are there.  The maximum of the semaphore is high enough for that;
\* and the event that comes before the semaphore is made, when its handler is already
\* registered, fails an assertion, which resets the device, but is not passed over.
EveryAddressCounts ==
  ~Panicked => Cardinality(Counted) <= IF sem = NoSemaphore THEN 0 ELSE sem + taken

\* Unless a link was lost on the way, the main task goes on only when every
\* interface has had an address of every kind: the count is right then.
AddressedUnlessLost ==
  pc = "connected" /\ ~lost => \A i \in interfaces : got[i] = Kinds

\* A WiFi link that is down is being joined, or will be when the handlers come to its
\* loss in the queue, unless a join was refused and nobody was told: at the end of
\* wifi_start (WifiConnect.c:316), or in the handler (:260).  Then it stays down.
RejoinsUnlessRefused ==
  "wifi" \in interfaces /\ ~Panicked
    => (refused <=> link["wifi"] = "down" /\ ~joining /\ ~Queued("down", "wifi"))

\* What the boot and ctrl_tsk rely on: the module Network.
stage == IF Panicked THEN "panic" ELSE IF pc = "connected" THEN "connected" ELSE "connecting"
addressed == {i \in interfaces : got[i] # {}}

Net == INSTANCE Network WITH Interfaces <- {"wifi", "eth"}

ImplementsNetwork == Net!Spec

\* With links that stay up, ctrl_tsk starts the MQTT session.  README.md:19,
\* "Configure Wi-Fi or Ethernet", leaves the choice of the interface; without WiFi,
\* or without IPv6, nothing sets wifi_connect.
StartsWhenLinksStay ==
  <>[](\A i \in interfaces : link[i] = "up") => <>(ctrl = "started")

==============================================================================
