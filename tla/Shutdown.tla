------------------------------ MODULE Shutdown ------------------------------
(***************************************************************************)
(* The shutdown handler of the network side: stop and wifi_stop, the last  *)
(* part of esp_restart, in the task that called it.  Nothing keeps a       *)
(* second task out, and the event task goes on delivering events to the    *)
(* handlers that are registered.  WiFi with IPv6 only, the configuration   *)
(* that ships, which has one netif.                                        *)
(*                                                                         *)
(* External (ESP-IDF): the event task holds the mutex of the event loop    *)
(* while a handler runs, and esp_event_handler_unregister takes it; a      *)
(* handler that is not registered is unregistered without an error.        *)
(***************************************************************************)

CONSTANT Task   \* the tasks that may call esp_restart

VARIABLES
  at,          \* where each task stands in stop; "out": not in it
  found,       \* the tasks whose wifi_netif is not NULL
  registered,  \* the handlers of WifiConnect.c that are registered
  running,     \* the one the event task is in, or "none"
  driver,      \* external: the WiFi driver
  netif        \* external: is the netif of wifi_start alive?

vars == <<at, found, registered, running, driver, netif>>

Handler == {"disconnect", "got_ip", "got_ip6", "connect"}

\* What is checked by ESP_ERROR_CHECK.
Checked == Handler \cup {"stop", "deinit", "clear"}
Place == {"out", "look", "compare", "destroy", "reset"} \cup Checked

TypeOK ==
  /\ at \in [Task -> Place]
  /\ found \subseteq Task
  /\ registered \subseteq Handler
  /\ running \in Handler \cup {"none"}
  /\ driver \in {"off", "started", "stopped"}
  /\ netif \in BOOLEAN

Init ==
  /\ at = [t \in Task |-> "out"]
  /\ found = {} /\ registered = {}
  /\ running = "none"
  /\ driver = "off" /\ netif = FALSE

Move(t, from, to) == at[t] = from /\ at' = [at EXCEPT ![t] = to]

\* wifi_start, when none of its checks fails.
Start ==
  /\ registered' = Handler
  /\ driver' = "started" /\ netif' = TRUE
  /\ UNCHANGED <<at, found, running>>

------------------------------------------------------------------------------
(* The event task.                                                         *)

Begin(h) ==
  /\ running = "none" /\ h \in registered
  /\ running' = h
  /\ UNCHANGED <<at, found, registered, driver, netif>>

End ==
  /\ running # "none"
  /\ running' = "none"
  /\ UNCHANGED <<at, found, registered, driver, netif>>

------------------------------------------------------------------------------
(* A task in stop.                                                         *)

Enter(t) ==
  /\ Move(t, "out", "look")
  /\ UNCHANGED <<found, registered, running, driver, netif>>

\* get_example_netif_from_desc: esp_netif_next, and then the comparison of the
\* description, after the list of the netifs has been unlocked.
Look(t) ==
  /\ IF netif THEN Move(t, "look", "compare") ELSE Move(t, "look", "disconnect")
  /\ UNCHANGED <<found, registered, running, driver, netif>>

\* Mutant: every search for the next netif begins at the first one.
Compare_FromTheFirst(t) ==
  /\ Move(t, "compare", "look")
  /\ UNCHANGED <<found, registered, running, driver, netif>>

\* The other task may have destroyed the netif since: any outcome (or Abort).
Compare(t) ==
  /\ Move(t, "compare", "disconnect")
  /\ found' = found \cup {t} \/ (~netif /\ UNCHANGED found)
  /\ UNCHANGED <<registered, running, driver, netif>>

After == [disconnect |-> "got_ip", got_ip |-> "got_ip6", got_ip6 |-> "connect", connect |-> "stop"]

\* esp_event_handler_unregister: it waits for the handler that is running.
Unregister(t) ==
  /\ at[t] \in Handler /\ running = "none"
  /\ registered' = registered \ {at[t]}
  /\ Move(t, at[t], After[at[t]])
  /\ UNCHANGED <<found, running, driver, netif>>

\* esp_wifi_stop; ESP_ERR_WIFI_NOT_INIT returns from stop.
StopDriver(t) ==
  /\ \/ driver # "off" /\ Move(t, "stop", "deinit") /\ driver' = "stopped"
     \/ driver = "off" /\ Move(t, "stop", "reset") /\ UNCHANGED driver
  /\ UNCHANGED <<found, registered, running, netif>>

\* Mutant: the result of esp_wifi_deinit is not checked.
Deinit_Unchecked(t) ==
  /\ Move(t, "deinit", "clear")
  /\ driver' = "off"
  /\ UNCHANGED <<found, registered, running, netif>>

\* esp_wifi_deinit, which fails (Abort) if the other task has done it.
Deinit(t) ==
  /\ driver = "stopped"
  /\ Move(t, "deinit", "clear")
  /\ driver' = "off"
  /\ UNCHANGED <<found, registered, running, netif>>

\* esp_wifi_clear_default_wifi_driver_and_handlers; NULL is an error (Abort).
Clear(t) ==
  /\ t \in found
  /\ Move(t, "clear", "destroy")
  /\ UNCHANGED <<found, registered, running, driver, netif>>

Destroy(t) ==
  /\ Move(t, "destroy", "reset")
  /\ netif' = FALSE
  /\ UNCHANGED <<found, registered, running, driver>>

\* A check failed, or a netif was compared after its end.
Abort(t) ==
  /\ at[t] \in Checked \/ (at[t] = "compare" /\ ~netif)
  /\ Move(t, at[t], "reset")
  /\ UNCHANGED <<found, registered, running, driver, netif>>

Step(t) ==
  \/ Look(t) \/ Compare(t) \/ Unregister(t) \/ StopDriver(t) \/ Deinit(t) \/ Clear(t)
  \/ Destroy(t) \/ Abort(t)

------------------------------------------------------------------------------
\* However two tasks meet in stop and whatever the event task delivers: no handler runs
\* once the driver was stopped, and the netif is taken apart by one task, which holds
\* it, while it is alive and has no driver any more.
OrderlyTeardown ==
  /\ driver # "started" => running = "none"
  /\ \A t \in Task : at[t] \in {"clear", "destroy"} =>
       /\ t \in found /\ netif /\ driver = "off"
       /\ \A u \in Task \ {t} : at[u] \notin {"clear", "destroy"}
==============================================================================
