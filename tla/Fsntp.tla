-------------------------------- MODULE Fsntp --------------------------------
(***************************************************************************)
(* The recovery of the time at boot: app_main calls sntp_init_time         *)
(* (fsntp.c) until it returns 0.  sntp_init_time polls the clock and       *)
(* time_sync_flag; the SNTP client, in the tcpip thread, sets the clock    *)
(* and only then calls time_sync_notification_cb, which sets the flag.     *)
(*                                                                         *)
(* The clock counts polls, that is delays of 2 s.  Once it shows 2016 or   *)
(* later only that matters, and it is not advanced any more; before, it    *)
(* is not advanced past ClockCap (after a reset it would take decades).    *)
(***************************************************************************)
EXTENDS Naturals

CONSTANTS
  Tmout,        \* tmout_s, in polls
  ClockCap,     \* bound: where the clock that was never set is held
  Y2016,        \* the beginning of 2016
  ServerTimes   \* the times a server may answer with

ASSUME TimeAssumption ==
  /\ Tmout \in Nat /\ ClockCap \in Nat /\ Y2016 \in Nat
  /\ Tmout + 1 < ClockCap /\ ClockCap < Y2016
ASSUME ServerAssumption == ServerTimes \subseteq {w \in Nat : w >= Y2016}

VARIABLES
  pc,             \* where the main task stands in sntp_init_time
  clock,          \* the system time
  t, now,         \* locals: the time at the call, the time last read
  time_sync_flag, \* fsntp.c:23
  sntp,           \* external: is the SNTP client running?
  reply,          \* external: "set" when the clock is set and the callback is due
  waited,         \* history: the delays of this call of sntp_init_time
  spurious        \* history: the calls that timed out when the clock was set

vars == <<pc, clock, t, now, time_sync_flag, sntp, reply, waited, spurious>>

Places == {"call", "init", "delay", "read", "flag", "elapsed", "test", "returned"}

TypeOK ==
  /\ pc \in Places
  /\ clock \in Nat /\ t \in Nat /\ now \in Nat
  /\ time_sync_flag \in {0, 1}
  /\ sntp \in {"off", "on"}
  /\ reply \in {"none", "set"}
  /\ waited \in 0..ClockCap
  /\ spurious \in Nat

IsSet(c) == c >= Y2016

\* A poll later, by the clock.
Tick(c) == IF IsSet(c) \/ c >= ClockCap THEN c ELSE c + 1

Init ==
  /\ pc = "call"
  /\ clock \in {0} \cup ServerTimes   \* the time may outlive a reset of the chip
  /\ t = 0 /\ now = 0
  /\ time_sync_flag = 0
  /\ sntp = "off"
  /\ reply = "none"
  /\ waited = 0
  /\ spurious = 0

------------------------------------------------------------------------------
(* The main task.                                                          *)

\* Mutant: a call begins with a flag of its own.
ResetClock_ResetsFlag ==
  /\ pc = "call" /\ pc' = "init"
  /\ clock' = 0 /\ now' = 0 /\ waited' = 0 /\ time_sync_flag' = 0
  /\ UNCHANGED <<t, sntp, reply, spurious>>

\* set_curtimestamp(0).
ResetClock ==
  /\ pc = "call"
  /\ pc' = "init"
  /\ clock' = 0 /\ now' = 0 /\ waited' = 0
  /\ UNCHANGED <<t, time_sync_flag, sntp, reply, spurious>>

\* Mutant: the client is not started.
InitSntp_NotStarted ==
  /\ pc = "init" /\ pc' = "delay" /\ t' = clock
  /\ UNCHANGED <<clock, now, time_sync_flag, sntp, reply, waited, spurious>>

\* t = get_curtimestamp() and initialize_sntp.
InitSntp ==
  /\ pc = "init"
  /\ pc' = "delay"
  /\ t' = clock
  /\ sntp' = "on"
  /\ UNCHANGED <<clock, now, time_sync_flag, reply, waited, spurious>>

\* vTaskDelay(2000 / portTICK_PERIOD_MS).
Delay ==
  /\ pc = "delay"
  /\ pc' = "read"
  /\ clock' = Tick(clock)
  /\ waited' = IF waited < ClockCap THEN waited + 1 ELSE waited
  /\ UNCHANGED <<t, now, time_sync_flag, sntp, reply, spurious>>

\* time(&now).
ReadTime ==
  /\ pc = "read"
  /\ pc' = "flag"
  /\ now' = clock
  /\ UNCHANGED <<clock, t, time_sync_flag, sntp, reply, waited, spurious>>

\* time_sync_flag == 0, the first half of the test for the timeout.
TestFlag ==
  /\ pc = "flag"
  /\ pc' = IF time_sync_flag = 0 THEN "elapsed" ELSE "test"
  /\ UNCHANGED <<clock, t, now, time_sync_flag, sntp, reply, waited, spurious>>

\* Mutant: >= tmt + 2 for > tmt.
TestElapsed_OnePollLate ==
  /\ pc = "elapsed"
  /\ \/ clock <= t + Tmout + 1 /\ pc' = "test" /\ UNCHANGED <<sntp, spurious>>
     \/ /\ clock > t + Tmout + 1 /\ pc' = "call" /\ sntp' = "off"
        /\ spurious' = IF IsSet(clock) THEN spurious + 1 ELSE spurious
  /\ UNCHANGED <<clock, t, now, time_sync_flag, reply, waited>>

\* get_curtimestamp()-t > tmt, its second half; sntp_stop, return -2, and the
\* next call by app_main.
TestElapsed ==
  /\ pc = "elapsed"
  /\ \/ /\ clock <= t + Tmout
        /\ pc' = "test"
        /\ UNCHANGED <<sntp, spurious>>
     \/ /\ clock > t + Tmout
        /\ pc' = "call"
        /\ sntp' = "off"
        /\ spurious' = IF IsSet(clock) THEN spurious + 1 ELSE spurious
  /\ UNCHANGED <<clock, t, now, time_sync_flag, reply, waited>>

\* Mutant: the loop waits for the flag, which a retry finds set.
TestYear_ByFlag ==
  /\ pc = "test"
  /\ pc' = IF time_sync_flag = 1 THEN "returned" ELSE "delay"
  /\ UNCHANGED <<clock, t, now, time_sync_flag, sntp, reply, waited, spurious>>

\* The condition of the loop, on the time that was read before the tests.
TestYear ==
  /\ pc = "test"
  /\ pc' = IF IsSet(now) THEN "returned" ELSE "delay"
  /\ UNCHANGED <<clock, t, now, time_sync_flag, sntp, reply, waited, spurious>>

Main == ResetClock \/ InitSntp \/ Delay \/ ReadTime \/ TestFlag \/ TestElapsed \/ TestYear

------------------------------------------------------------------------------
(* The tcpip thread.  External up to the callback: an answer, which may    *)
(* never come, sets the clock; the callback may come after sntp_stop.      *)

Answer ==
  /\ sntp = "on" /\ reply = "none"
  /\ reply' = "set"
  /\ clock' \in ServerTimes
  /\ UNCHANGED <<pc, t, now, time_sync_flag, sntp, waited, spurious>>

\* Mutant: the flag counts.
Notify_Counts ==
  /\ reply = "set" /\ reply' = "none" /\ time_sync_flag' = time_sync_flag + 1
  /\ UNCHANGED <<pc, clock, t, now, sntp, waited, spurious>>

\* time_sync_notification_cb.
Notify ==
  /\ reply = "set"
  /\ reply' = "none"
  /\ time_sync_flag' = 1
  /\ UNCHANGED <<pc, clock, t, now, sntp, waited, spurious>>

Next == Main \/ Answer \/ Notify

Spec == Init /\ [][Next]_vars

(* The tasks run; a server that is asked again and again answers.          *)
Fairness == WF_vars(Main) /\ WF_vars(Notify) /\ SF_vars(Answer)

FairSpec == Spec /\ Fairness

------------------------------------------------------------------------------
(* Properties.                                                             *)

\* app_main goes on to ctrl_tsk, whose tokens carry the time, only with a clock
\* that is set, although every retry set it back to 0.
ReturnsWithTime == pc = "returned" => IsSet(clock)

\* A timeout may throw away a time just recovered: the clock was set between the
\* delay and the tests, and the callback had not run.  It happens once for that
\* answer, and once more if a call had read the flag before the late callback.
SpuriousBounded == spurious <= 2

\* While no callback has run, the timeout ends every call, one poll late at most.
TimeoutWorksUnsynced == time_sync_flag = 0 => waited <= Tmout + 1

\* What the rest of the boot relies on: the module TimeService.
stage == IF pc = "returned" THEN "done" ELSE "recovering"
known == IsSet(clock)

Service == INSTANCE TimeService

\* The loop ends with a time that is kept, whatever the retries throw away before.
ImplementsTimeService == Service!Spec

\* As long as a server answers now and then, app_main gets out of its loop.
BootGetsTime == <>(pc = "returned")

\* fsntp.h:32, "Blocks till time has been recovered or specified timeout occurs":
\* a call that is blocked for longer than the timeout has recovered the time.
BlocksUntilTimeout == waited > Tmout + 1 => IsSet(clock)

==============================================================================
