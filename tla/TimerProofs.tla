---------------------------- MODULE TimerProofs -----------------------------
(***************************************************************************)
(* Proofs about Timer.tla, for every number of devices N and every bound   *)
(* MaxTime: the safety properties of the timer and that it implements the  *)
(* slot barrier.                                                           *)
(***************************************************************************)
EXTENDS Timer, TLAPS

\* The positions of a device that waits for the next slot.
Waiting == {"t_lock", "t_test", "t_sleep", "t_wake"}

\* main: no thread exists before start_timer, the list is complete while a
\* thread uses it, and every device has exited before the timer is stopped.
MainInv ==
  /\ mpc = "attach" => tpc = "off" /\ \A d \in Devices : dpc[d] = "off"
  /\ mpc \in {"create", "stop", "join"} => dev_list = N
  /\ mpc \in {"stop", "join", "end"} => \A d \in Devices : dpc[d] = "exit"
  /\ mpc = "end" => tpc = "exit"

\* The timer's cursor is on a container when it is used, and event counts the
\* containers already passed.
CursorInv ==
  /\ tpc \in {"w_test", "w_sleep", "w_wake", "r_clear"} => temp # NULL
  /\ tpc \in {"w_lock", "w_test", "w_sleep", "w_wake"} =>
       nevent = N - temp /\ nfsh <= nevent

\* Who holds a mutex is between its lock and its unlock.
LockInv ==
  \A d \in Devices :
    /\ event_lock[d] = "timer" <=> tpc = "w_test" /\ temp = d
    /\ event_lock[d] = "dev" <=> dpc[d] \in {"e_set", "x_set"}
    /\ timer_lock[d] = "timer" <=> tpc = "r_clear" /\ temp = d
    /\ timer_lock[d] = "dev" <=> dpc[d] = "t_test"

\* What the position of a device says of its flags, and nobody sleeps on a
\* condition that holds.
FlagInv ==
  /\ \A d \in Devices :
       /\ dpc[d] \in {"off", "work", "e_set", "x_set"} => ~done[d] /\ ~fsh[d]
       /\ dpc[d] \in Waiting => ~fsh[d]
       /\ dpc[d] = "exit" => ~done[d] /\ fsh[d]
       /\ dpc[d] = "t_sleep" => done[d]
  /\ tpc = "w_sleep" => ~done[temp] /\ ~fsh[temp]

\* The timer has counted device d in this slot and has not released it yet.
Counted(d) == \/ tpc \in {"w_lock", "w_test", "w_sleep", "w_wake"} /\ temp < d
              \/ Releasing(d)

\* A counted device is held in next_slot, or has exited: this is what orders
\* its write of done under event_lock before the timer's under timer_lock.
CountInv == \A d \in Devices :
              Counted(d) => (done[d] /\ dpc[d] \in Waiting) \/ dpc[d] = "exit"

IInv == TypeOK /\ MainInv /\ CursorInv /\ LockInv /\ FlagInv /\ CountInv

-----------------------------------------------------------------------------
\* The invariant holds before main attaches the first device.
LEMMA InitIInv == Init => IInv
<1> SUFFICES ASSUME Init PROVE IInv
  OBVIOUS
<1> USE NAssumption, TimerMaxTimeAssumption
<1>1. TypeOK
  <2>1. done \in [Devices -> BOOLEAN] /\ fsh \in [Devices -> BOOLEAN]
    BY Zenon DEF Init
  <2>2. /\ event_lock \in [Devices -> Owner] /\ timer_lock \in [Devices -> Owner]
        /\ dpc \in [Devices -> DevPC]
    BY DEF Init, Owner, DevPC
  <2>3. timer_started \in BOOLEAN /\ timer_stop \in BOOLEAN
    BY DEF Init
  <2>4. /\ dev_list \in 0 .. N /\ temp \in 0 .. N
        /\ nfsh \in 0 .. N /\ nevent \in 0 .. N /\ time \in 0 .. MaxTime
    BY DEF Init, NULL
  <2>5. QED
    BY <2>1, <2>2, <2>3, <2>4 DEF Init, TypeOK, TimerPC, MainPC
<1>2. MainInv /\ CursorInv /\ FlagInv
  BY DEF Init, MainInv, CursorInv, FlagInv, Waiting
<1>3. LockInv
  BY DEF Init, LockInv
<1>4. CountInv
  BY DEF Init, CountInv, Counted, Releasing
<1>5. QED
  BY <1>1, <1>2, <1>3, <1>4 DEF IInv

\* Every step of main, the timer and a device preserves the invariant.
LEMMA NextIInv == IInv /\ [Next]_vars => IInv'
<1> SUFFICES ASSUME IInv, [Next]_vars PROVE IInv'
  OBVIOUS
<1> USE NAssumption, TimerMaxTimeAssumption
<1> USE DEF IInv, TypeOK, MainInv, CursorInv, LockInv, FlagInv, CountInv,
            Counted, Releasing, Waiting, Devices, NULL, TimerPC, DevPC, MainPC,
            Owner, mainVars, flagVars, lockVars, loopVars,
            Lock, Unlock, Goto, SignalEvent, SignalTimer
<1>1. CASE attach_event
  BY <1>1 DEF attach_event
<1>2. CASE start_timer
  BY <1>2 DEF start_timer
<1>3. ASSUME NEW d \in Devices, create_device(d) PROVE IInv'
  BY <1>3 DEF create_device
<1>4. CASE join_devices
  BY <1>4 DEF join_devices
<1>5. CASE stop_timer
  BY <1>5 DEF stop_timer
<1>6. CASE stop_timer_free
  BY <1>6 DEF stop_timer_free
<1>7. CASE timer_loop
  BY <1>7 DEF timer_loop
<1>8. CASE wait_lock
  BY <1>8 DEF wait_lock
<1>9. CASE wait_sleep
  BY <1>9 DEF wait_sleep
<1>10. CASE wait_count
  BY <1>10 DEF wait_count
<1>11. CASE advance_time
  BY <1>11 DEF advance_time
<1>12. CASE release_lock
  BY <1>12 DEF release_lock
<1>13. CASE release_clear
  BY <1>13 DEF release_clear
<1>14. CASE timer_check
  BY <1>14 DEF timer_check
<1>15. ASSUME NEW d \in Devices, next_slot_lock(d) PROVE IInv'
  BY <1>15 DEF next_slot_lock
<1>16. ASSUME NEW d \in Devices, next_slot_done(d) PROVE IInv'
  BY <1>16 DEF next_slot_done
<1>17. ASSUME NEW d \in Devices, next_slot_wait(d) PROVE IInv'
  BY <1>17 DEF next_slot_wait
<1>18. ASSUME NEW d \in Devices, next_slot_test(d) PROVE IInv'
  BY <1>18 DEF next_slot_test
<1>19. ASSUME NEW d \in Devices, detach_lock(d) PROVE IInv'
  BY <1>19 DEF detach_lock
<1>20. ASSUME NEW d \in Devices, detach_event(d) PROVE IInv'
  BY <1>20 DEF detach_event
<1>21. CASE spurious_timer
  BY <1>21 DEF spurious_timer
<1>22. ASSUME NEW d \in Devices, spurious_device(d) PROVE IInv'
  BY <1>22 DEF spurious_device
<1>23. CASE UNCHANGED vars
  BY <1>23 DEF vars
<1>24. QED
  BY <1>1, <1>2, <1>3, <1>4, <1>5, <1>6, <1>7, <1>8, <1>9, <1>10, <1>11, <1>12, <1>13, <1>14, <1>15, <1>16, <1>17, <1>18, <1>19, <1>20, <1>21, <1>22, <1>23
     DEF Next, main, timer_routine, device, Terminated

\* The inductive invariant holds in every reachable state of the timer and the
\* devices, whatever the interleaving and the spurious wake-ups.
THEOREM Invariance == Spec => []IInv
  BY InitIInv, NextIInv, PTL DEF Spec

-----------------------------------------------------------------------------
\* Every variable keeps its type: in particular timer_routine never counts more
\* events than there are containers in dev_list.
THEOREM TypeCorrect == Spec => []TypeOK
<1>1. IInv => TypeOK
  BY DEF IInv
<1>2. QED
  BY <1>1, Invariance, PTL

\* The unprotected flag done of timer.c is free of data races.
THEOREM RaceFree == Spec => []DoneRaceFree
<1>1. IInv => DoneRaceFree
  <2> SUFFICES ASSUME IInv, NEW d \in Devices, temp = d
               PROVE  /\ ~(tpc = "w_test" /\ dpc[d] \in {"e_set", "x_set"})
                      /\ ~(tpc = "r_clear" /\ dpc[d] \in {"e_set", "t_test"})
    BY DEF DoneRaceFree
  <2>1. ~(tpc = "w_test" /\ dpc[d] \in {"e_set", "x_set"})
    BY DEF IInv, LockInv
  <2>2. ~(tpc = "r_clear" /\ dpc[d] = "t_test")
    BY DEF IInv, LockInv
  <2>3. ~(tpc = "r_clear" /\ dpc[d] = "e_set")
    BY NAssumption DEF IInv, CountInv, Counted, Releasing, Waiting, Devices
  <2>4. QED
    BY <2>1, <2>2, <2>3
<1>2. QED
  BY <1>1, Invariance, PTL

\* No thread of timer.c sleeps on a condition that already holds.
THEOREM WakeupsKept == Spec => []NoLostWakeup
<1>1. IInv => NoLostWakeup
  BY DEF IInv, FlagInv, NoLostWakeup
<1>2. QED
  BY <1>1, Invariance, PTL

\* stop_timer frees no container a thread still uses.
THEOREM FreeSafe == Spec => []NoUseAfterFree
<1>1. IInv => NoUseAfterFree
  <2> SUFFICES ASSUME IInv PROVE NoUseAfterFree
    OBVIOUS
  <2>1. ASSUME NEW d \in Devices, dpc[d] \notin {"off", "exit"}
        PROVE  d <= dev_list
    BY <2>1, NAssumption DEF IInv, TypeOK, MainInv, MainPC, Devices
  <2>2. tpc \notin {"off", "exit"} => dev_list = N
    BY DEF IInv, TypeOK, MainInv, MainPC
  <2>3. QED
    BY <2>1, <2>2 DEF NoUseAfterFree
<1>2. QED
  BY <1>1, Invariance, PTL

-----------------------------------------------------------------------------
(* The timer implements the slot barrier.                                   *)

Phases == [d \in Devices |-> PhaseOf(d)]

\* Initially every device is inside slot 0.
LEMMA BarrierInit == Init => Barrier!Init
<1> SUFFICES ASSUME Init PROVE Barrier!Init
  OBVIOUS
<1>1. \A d \in Devices : PhaseOf(d) = "work"
  BY DEF Init, PhaseOf
<1>2. QED
  BY <1>1 DEF Init, Barrier!Init

\* A step that changes neither the clock nor the phase of any device stutters.
LEMMA SamePhases ==
  ASSUME time' = time, \A e \in Devices : PhaseOf(e)' = PhaseOf(e)
  PROVE  UNCHANGED Barrier!vars
  BY DEF Barrier!vars

\* A step that changes the phase of one device only changes Phases at one point.
LEMMA OnePhase ==
  ASSUME NEW d \in Devices,
         \A e \in Devices : e # d => PhaseOf(e)' = PhaseOf(e)
  PROVE  Phases' = [Phases EXCEPT ![d] = PhaseOf(d)']
  BY DEF Phases

\* These steps are not visible through the barrier: taking and releasing mutexes,
\* sleeping and waking, counting, and clearing one done flag after the other.
LEMMA SilentSteps ==
  ASSUME IInv,
         \/ attach_event \/ start_timer \/ join_devices \/ stop_timer
         \/ stop_timer_free \/ timer_loop \/ wait_lock \/ wait_sleep
         \/ wait_count \/ release_lock \/ release_clear \/ timer_check
         \/ spurious_timer
         \/ \E d \in Devices : \/ create_device(d) \/ next_slot_lock(d)
                              \/ next_slot_wait(d) \/ detach_lock(d)
                              \/ spurious_device(d)
  PROVE  UNCHANGED Barrier!vars
<1> USE NAssumption
<1> USE DEF IInv, TypeOK, Devices, NULL, DevPC, PhaseOf, Releasing,
            mainVars, flagVars, lockVars, loopVars, Lock, Unlock, Goto
<1>1. ASSUME attach_event PROVE UNCHANGED Barrier!vars
  BY <1>1, SamePhases DEF attach_event, MainInv, FlagInv
<1>2. ASSUME start_timer PROVE UNCHANGED Barrier!vars
  BY <1>2, SamePhases DEF start_timer, MainInv
<1>3. ASSUME NEW d \in Devices, create_device(d) PROVE UNCHANGED Barrier!vars
  BY <1>3, SamePhases DEF create_device
<1>4. ASSUME join_devices PROVE UNCHANGED Barrier!vars
  BY <1>4, SamePhases DEF join_devices
<1>5. ASSUME stop_timer PROVE UNCHANGED Barrier!vars
  BY <1>5, SamePhases DEF stop_timer
<1>6. ASSUME stop_timer_free PROVE UNCHANGED Barrier!vars
  BY <1>6, SamePhases DEF stop_timer_free
<1>7. ASSUME timer_loop PROVE UNCHANGED Barrier!vars
  BY <1>7, SamePhases DEF timer_loop
<1>8. ASSUME wait_lock PROVE UNCHANGED Barrier!vars
  BY <1>8, SamePhases DEF wait_lock
<1>9. ASSUME wait_sleep PROVE UNCHANGED Barrier!vars
  BY <1>9, SamePhases DEF wait_sleep
<1>10. ASSUME wait_count PROVE UNCHANGED Barrier!vars
  BY <1>10, SamePhases DEF wait_count
<1>11. ASSUME release_lock PROVE UNCHANGED Barrier!vars
  BY <1>11, SamePhases DEF release_lock
<1>12. ASSUME release_clear PROVE UNCHANGED Barrier!vars
  BY <1>12, SamePhases DEF release_clear, CountInv, Counted, Waiting, SignalTimer
<1>13. ASSUME timer_check PROVE UNCHANGED Barrier!vars
  BY <1>13, SamePhases DEF timer_check
<1>14. ASSUME NEW d \in Devices, next_slot_lock(d) PROVE UNCHANGED Barrier!vars
  BY <1>14, SamePhases DEF next_slot_lock
<1>15. ASSUME NEW d \in Devices, next_slot_wait(d) PROVE UNCHANGED Barrier!vars
  BY <1>15, SamePhases DEF next_slot_wait
<1>16. ASSUME NEW d \in Devices, detach_lock(d) PROVE UNCHANGED Barrier!vars
  BY <1>16, SamePhases DEF detach_lock
<1>17. ASSUME spurious_timer PROVE UNCHANGED Barrier!vars
  BY <1>17, SamePhases DEF spurious_timer
<1>18. ASSUME NEW d \in Devices, spurious_device(d) PROVE UNCHANGED Barrier!vars
  BY <1>18, SamePhases DEF spurious_device
<1>19. QED
  BY <1>1, <1>2, <1>3, <1>4, <1>5, <1>6, <1>7, <1>8, <1>9, <1>10, <1>11, <1>12, <1>13, <1>14, <1>15, <1>16, <1>17, <1>18

\* _time++ is the barrier's tick: every device has been counted.
LEMMA TickStep == IInv /\ advance_time => Barrier!Tick
<1> SUFFICES ASSUME IInv, advance_time PROVE Barrier!Tick
  OBVIOUS
<1> USE NAssumption
<1>1. \A d \in Devices : (done[d] /\ dpc[d] \in Waiting) \/ dpc[d] = "exit"
  BY DEF IInv, CountInv, Counted, advance_time, NULL, Devices
<1>2. \A d \in Devices : PhaseOf(d) = IF dpc[d] = "exit" THEN "out" ELSE "wait"
  BY <1>1 DEF PhaseOf, Releasing, Waiting, advance_time
<1>3. dev_list = N
  BY DEF IInv, MainInv, TypeOK, MainPC, advance_time
<1>4. \A d \in Devices : PhaseOf(d)' = IF dpc[d] = "exit" THEN "out" ELSE "free"
  BY <1>1, <1>3 DEF PhaseOf, Releasing, Waiting, advance_time, Devices, flagVars
<1>5. QED
  BY <1>2, <1>4 DEF Barrier!Tick, advance_time

\* The first half of next_slot is the barrier's arrival.
LEMMA ArriveStep ==
  ASSUME IInv, NEW d \in Devices, next_slot_done(d)
  PROVE  Barrier!Arrive(d)
<1> USE DEF next_slot_done, SignalEvent, Goto, loopVars
<1>1. ~Counted(d)
  BY DEF IInv, CountInv, Waiting
<1>2. PhaseOf(d) = "work" /\ PhaseOf(d)' = "wait"
  <2>1. tpc' \in {"r_lock", "r_clear"} <=> tpc \in {"r_lock", "r_clear"}
    OBVIOUS
  <2>2. QED
    BY <1>1, <2>1 DEF PhaseOf, Counted, Releasing, IInv, TypeOK
<1>3. ASSUME NEW e \in Devices, e # d PROVE PhaseOf(e)' = PhaseOf(e)
  BY <1>3 DEF PhaseOf, Releasing, IInv, TypeOK
<1>4. QED
  BY <1>2, <1>3, OnePhase DEF Phases, Barrier!Arrive

\* The second half of next_slot is the barrier's release, or goes back to sleep.
LEMMA ReleaseStep ==
  ASSUME IInv, NEW d \in Devices, next_slot_test(d)
  PROVE  Barrier!Release(d) \/ UNCHANGED Barrier!vars
<1> USE DEF next_slot_test, Goto, flagVars, loopVars
<1>1. ASSUME NEW e \in Devices, e # d PROVE PhaseOf(e)' = PhaseOf(e)
  BY <1>1 DEF PhaseOf, Releasing, IInv, TypeOK
<1>2. CASE done[d]
  <2>1. PhaseOf(d)' = PhaseOf(d)
    BY <1>2 DEF PhaseOf, Releasing, IInv, TypeOK
  <2>2. QED
    BY <1>1, <2>1, SamePhases
<1>3. CASE ~done[d]
  <2>1. PhaseOf(d) = "free" /\ PhaseOf(d)' = "work"
    BY <1>3 DEF PhaseOf, IInv, TypeOK
  <2>2. QED
    BY <1>1, <2>1, OnePhase DEF Phases, Barrier!Release
<1>4. QED
  BY <1>2, <1>3

\* detach_event is the barrier's departure.
LEMMA LeaveStep ==
  ASSUME IInv, NEW d \in Devices, detach_event(d)
  PROVE  Barrier!Leave(d)
<1> USE DEF detach_event, SignalEvent, Goto, loopVars
<1>1. PhaseOf(d) = "work" /\ PhaseOf(d)' = "out"
  BY DEF PhaseOf, IInv, TypeOK
<1>2. ASSUME NEW e \in Devices, e # d PROVE PhaseOf(e)' = PhaseOf(e)
  BY <1>2 DEF PhaseOf, Releasing, IInv, TypeOK
<1>3. QED
  BY <1>1, <1>2, OnePhase DEF Phases, Barrier!Leave

\* src/timer.c implements the slot barrier for any number of devices: the clock
\* advances only when every device that has not detached is held in next_slot,
\* and next_slot returns only after the clock has advanced.
THEOREM Refinement == Spec => ImplementsBarrier
<1>1. Init => Barrier!Init
  BY BarrierInit
<1>2. IInv /\ [Next]_vars => [Barrier!Next]_(Barrier!vars)
  <2> SUFFICES ASSUME IInv, [Next]_vars PROVE [Barrier!Next]_(Barrier!vars)
    OBVIOUS
  <2>1. CASE advance_time
    BY <2>1, TickStep DEF Barrier!Next
  <2>2. ASSUME NEW d \in Devices, next_slot_done(d) PROVE Barrier!Next
    BY <2>2, ArriveStep DEF Barrier!Next
  <2>3. ASSUME NEW d \in Devices, next_slot_test(d)
        PROVE  [Barrier!Next]_(Barrier!vars)
    BY <2>3, ReleaseStep DEF Barrier!Next
  <2>4. ASSUME NEW d \in Devices, detach_event(d) PROVE Barrier!Next
    BY <2>4, LeaveStep DEF Barrier!Next
  <2>5. CASE UNCHANGED vars
    BY <2>5, SamePhases
       DEF vars, mainVars, flagVars, lockVars, loopVars, PhaseOf, Releasing
  <2>6. QED
    BY <2>1, <2>2, <2>3, <2>4, <2>5, SilentSteps
       DEF Next, main, timer_routine, device, Terminated
<1>3. QED
  BY <1>1, <1>2, Invariance, PTL DEF Spec, ImplementsBarrier, Barrier!Spec
=============================================================================
