----------------------------- MODULE TimeService -----------------------------
(***************************************************************************)
(* What the recovery of the time (the loop over sntp_init_time) promises   *)
(* to the rest of the boot: it ends only with a clock that is set, which   *)
(* stays set; until then an answer may be thrown away by the next attempt. *)
(***************************************************************************)

VARIABLES
  stage,   \* of the loop: "recovering" or "done"
  known    \* is the clock set?

vars == <<stage, known>>

Init ==
  /\ stage = "recovering"
  /\ known \in BOOLEAN   \* the time may outlive a reset of the chip

\* An answer of a server.
Learn ==
  /\ stage = "recovering"
  /\ known' = TRUE
  /\ UNCHANGED stage

\* The next call of sntp_init_time sets the clock back to 0.
Discard ==
  /\ stage = "recovering"
  /\ known' = FALSE
  /\ UNCHANGED stage

Done ==
  /\ stage = "recovering"
  /\ known
  /\ stage' = "done"
  /\ UNCHANGED known

Next == Learn \/ Discard \/ Done

Spec == Init /\ [][Next]_vars
==============================================================================
