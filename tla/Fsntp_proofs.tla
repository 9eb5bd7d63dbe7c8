---------------------------- MODULE Fsntp_proofs ----------------------------
(***************************************************************************)
(* Proofs about Fsntp, for every timeout and every set of server times.    *)
(***************************************************************************)
EXTENDS Fsntp, TLAPS

(* The inductive invariant.  In a call that began, an unset clock shows    *)
(* the polls of the call; a clock that is set was set by an answer whose   *)
(* callback is due or has run.                                             *)

ClockInCall ==
  /\ pc \in {"call", "init"} => sntp = "off"
  /\ pc = "init" => clock = 0 /\ waited = 0
  /\ pc \notin {"call", "init"} => t = 0
  /\ pc # "call" /\ ~IsSet(clock) => clock = waited
  /\ IsSet(now) => IsSet(clock)
  /\ pc = "returned" => IsSet(now)

WaitedUnsynced ==
  time_sync_flag = 0 =>
    /\ waited <= Tmout + 1
    /\ pc \in {"test", "delay"} => waited <= Tmout

SpuriousCount ==
  /\ spurious <= 2
  /\ spurious = 2 => time_sync_flag = 1 /\ pc # "elapsed"
  /\ time_sync_flag = 0 /\ spurious = 1 => reply = "set"
  /\ time_sync_flag = 0 /\ spurious = 1 /\ pc # "call" => ~IsSet(clock)
  /\ time_sync_flag = 0 /\ pc # "call" /\ IsSet(clock) => reply = "set"

IInv == TypeOK /\ ClockInCall /\ WaitedUnsynced /\ SpuriousCount

\* The invariant holds initially.
LEMMA InitIInv == Init => IInv
<1> SUFFICES ASSUME Init PROVE IInv  OBVIOUS
<1>1. clock \in Nat /\ ~IsSet(now) /\ Tmout + 1 \in Nat /\ 0 <= Tmout + 1
  BY TimeAssumption, ServerAssumption DEF Init, IsSet
<1>2. TypeOK
  BY <1>1, TimeAssumption DEF Init, TypeOK, Places
<1>. QED
  BY <1>1, <1>2 DEF Init, IInv, ClockInCall, WaitedUnsynced, SpuriousCount

\* Every step keeps it.
LEMMA NextIInv == IInv /\ [Next]_vars => IInv'
<1> SUFFICES ASSUME IInv, [Next]_vars PROVE IInv'  OBVIOUS
<1> USE TimeAssumption, ServerAssumption
    DEF IInv, TypeOK, Places, ClockInCall, WaitedUnsynced, SpuriousCount, IsSet
<1>1. CASE ResetClock  BY <1>1 DEF ResetClock
<1>2. CASE InitSntp    BY <1>2 DEF InitSntp
<1>3. CASE Delay       BY <1>3 DEF Delay, Tick
<1>4. CASE ReadTime    BY <1>4 DEF ReadTime
<1>5. CASE TestFlag    BY <1>5 DEF TestFlag
<1>6. CASE TestElapsed
  <2>1. pc = "elapsed" /\ t = 0 /\ UNCHANGED <<clock, t, now, time_sync_flag, reply, waited>>
    BY <1>6 DEF TestElapsed
  <2>2. CASE clock <= Tmout
    <3>1. pc' = "test" /\ UNCHANGED <<sntp, spurious>>
      BY <1>6, <2>1, <2>2 DEF TestElapsed
    <3>. QED  BY <2>1, <2>2, <3>1
  <2>3. CASE clock > Tmout
    <3>1. /\ pc' = "call" /\ sntp' = "off"
          /\ spurious' = IF IsSet(clock) THEN spurious + 1 ELSE spurious
      BY <1>6, <2>1, <2>3 DEF TestElapsed
    <3>2. TypeOK' /\ ClockInCall'  BY <2>1, <3>1
    <3>3. WaitedUnsynced'          BY <2>1, <3>1
    <3>4. SpuriousCount'           BY <2>1, <3>1
    <3>. QED  BY <3>2, <3>3, <3>4
  <2>. QED  BY <2>2, <2>3
<1>7. CASE TestYear    BY <1>7 DEF TestYear
<1>8. CASE Answer      BY <1>8 DEF Answer
<1>9. CASE Notify      BY <1>9 DEF Notify
<1>10. CASE UNCHANGED vars  BY <1>10 DEF vars
<1>. QED
  BY <1>1, <1>2, <1>3, <1>4, <1>5, <1>6, <1>7, <1>8, <1>9, <1>10 DEF Next, Main

\* The invariant holds in every reachable state.
THEOREM Invariance == Spec => []IInv
  BY InitIInv, NextIInv, PTL DEF Spec

\* app_main goes on to ctrl_tsk only with a clock that is set.
THEOREM TimeIsSet == Spec => []ReturnsWithTime
<1>1. IInv => ReturnsWithTime  BY DEF IInv, ClockInCall, ReturnsWithTime
<1>. QED  BY <1>1, Invariance, PTL

\* At most two timeouts throw away a time that was recovered.
THEOREM FewSpurious == Spec => []SpuriousBounded
<1>1. IInv => SpuriousBounded  BY DEF IInv, SpuriousCount, SpuriousBounded
<1>. QED  BY <1>1, Invariance, PTL

\* Until the first callback, a call lasts one poll more than the timeout at most.
THEOREM TimeoutUnsynced == Spec => []TimeoutWorksUnsynced
<1>1. IInv => TimeoutWorksUnsynced  BY DEF IInv, WaitedUnsynced, TimeoutWorksUnsynced
<1>. QED  BY <1>1, Invariance, PTL

------------------------------------------------------------------------------
(* The loop implements the promise of the module TimeService.              *)

LEMMA InitService == Init => Service!Init
BY DEF Init, Service!Init, stage, known, IsSet

LEMMA NextService == IInv /\ IInv' /\ [Next]_vars => [Service!Next]_Service!vars
<1>. SUFFICES ASSUME IInv, IInv', [Next]_vars PROVE [Service!Next]_Service!vars
  OBVIOUS
<1>. USE DEF Service!Next, Service!Learn, Service!Discard, Service!Done, Service!vars, stage, known
<1>1. CASE ResetClock
  <2>1. ~IsSet(0)
    BY TimeAssumption DEF IsSet
  <2>. QED  BY <1>1, <2>1 DEF ResetClock
<1>2. CASE InitSntp \/ ReadTime \/ TestFlag \/ TestElapsed
  BY <1>2 DEF InitSntp, ReadTime, TestFlag, TestElapsed
<1>3. CASE Delay
  <2>1. IsSet(Tick(clock)) <=> IsSet(clock)
    BY TimeAssumption DEF IInv, TypeOK, Tick, IsSet
  <2>. QED  BY <1>3, <2>1 DEF Delay
<1>4. CASE TestYear
  <2>1. IsSet(now) => IsSet(clock)
    BY DEF IInv, ClockInCall
  <2>. QED  BY <1>4, <2>1 DEF TestYear
<1>5. CASE Answer
  <2>1. IsSet(clock')
    BY <1>5, ServerAssumption, TimeAssumption DEF Answer, IsSet
  <2>2. pc = "returned" => IsSet(clock)
    BY DEF IInv, ClockInCall
  <2>3. pc' = pc
    BY <1>5 DEF Answer
  <2>4. CASE pc = "returned"
    BY <2>1, <2>2, <2>3, <2>4
  <2>5. CASE pc # "returned"
    BY <2>1, <2>3, <2>5
  <2>. QED  BY <2>4, <2>5
<1>6. CASE Notify
  BY <1>6 DEF Notify
<1>7. CASE UNCHANGED vars
  BY <1>7 DEF vars
<1>. QED
  BY <1>1, <1>2, <1>3, <1>4, <1>5, <1>6, <1>7 DEF Next, Main

\* For every timeout and every server, the boot goes on once, with a time that stays.
THEOREM ServiceTheorem == Spec => ImplementsTimeService
<1>. QED  BY InitService, NextService, Invariance, PTL DEF Spec, ImplementsTimeService, Service!Spec

\* The types of the state.
THEOREM TypeCorrect == Spec => []TypeOK
<1>1. IInv => TypeOK  BY DEF IInv
<1>. QED  BY <1>1, Invariance, PTL
==============================================================================
