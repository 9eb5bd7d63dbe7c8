------------------------------- MODULE Network -------------------------------
(***************************************************************************)
(* What the network side of the boot (fisi_example_connect and its         *)
(* handlers) promises to the rest of the device: the call returns once,    *)
(* after an interface had an address; the flag wifi_connect is false after *)
(* a reset and then rises and falls with the link, before and after the    *)
(* call returns; a failed check resets the device.                         *)
(***************************************************************************)

CONSTANT Interfaces   \* those a configuration may have

VARIABLES
  stage,        \* of the call: "connecting", "connected", or "panic"
  addressed,    \* the interfaces that had an address since the boot
  wifi_connect

vars == <<stage, addressed, wifi_connect>>

Init ==
  /\ stage = "connecting"
  /\ addressed = {}
  /\ wifi_connect = FALSE

Flag ==
  /\ stage # "panic"
  /\ wifi_connect' \in BOOLEAN
  /\ UNCHANGED <<stage, addressed>>

\* An address.  Addresses may still come to a device that is about to reset.
Addressed(i) ==
  /\ addressed' = addressed \cup {i}
  /\ UNCHANGED <<stage, wifi_connect>>

Connect ==
  /\ stage = "connecting"
  /\ addressed # {}
  /\ stage' = "connected"
  /\ UNCHANGED <<addressed, wifi_connect>>

\* ESP_ERROR_CHECK or an assertion, in the call or in a handler, which may have
\* written the flag before.
Panic ==
  /\ stage # "panic"
  /\ stage' = "panic"
  /\ wifi_connect' \in BOOLEAN
  /\ UNCHANGED addressed

Reset ==
  /\ stage = "panic"
  /\ stage' = "connecting"
  /\ addressed' = {}
  /\ wifi_connect' = FALSE

Next ==
  \/ Flag \/ Connect \/ Panic \/ Reset
  \/ \E i \in Interfaces : Addressed(i)

Spec == Init /\ [][Next]_vars
==============================================================================
