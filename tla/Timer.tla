-------------------------------- MODULE Timer --------------------------------
(***************************************************************************)
(* src/timer.c: the thread that advances simulated time, and the devices   *)
(* (CPU and loader threads) it synchronizes through two mutexes and two    *)
(* condition variables per device; and the part of main that attaches the  *)
(* devices, creates and joins the threads and stops the timer.             *)
(*                                                                         *)
(* The flag done is written under event_lock by the device and under       *)
(* timer_lock by the timer, so no single mutex protects it: taking a mutex *)
(* and the access it is taken for are separate actions.  The access, the   *)
(* signal and the unlock that follow it are one action; DoneRaceFree, below,*)
(* is what makes that sound.                                               *)
(***************************************************************************)
EXTENDS Naturals

CONSTANTS N,        \* number of attach_event calls: num_cpus + 1
          MaxTime   \* bound: the clock saturates here (it is only compared)

ASSUME NAssumption == N \in Nat \ {0}
ASSUME TimerMaxTimeAssumption == MaxTime \in Nat

\* Devices are numbered in the order of attach_event.  A new container is
\* pushed on the front of dev_list, so the list is N, N-1, ..., 1, the next
\* pointer of container d is d - 1, and NULL is 0.
Devices == 1 .. N
NULL == 0

VARIABLES
  dev_list,       \* head of the list of containers; 1..dev_list are allocated
  timer_started, timer_stop,
  mpc,            \* the position of main
  time,           \* _time
  done, fsh,      \* the flags of a timer_id_t
  event_lock, timer_lock,  \* the owner of each mutex of a timer_id_t
  tpc,            \* the timer thread's position in timer_routine
  temp,           \* its list cursor
  nfsh, nevent,   \* its counters fsh and event
  dpc             \* dpc[d]: the position of device d in next_slot/detach_event

mainVars  == <<dev_list, timer_started, timer_stop, mpc>>
flagVars  == <<done, fsh>>
lockVars  == <<event_lock, timer_lock>>
loopVars  == <<temp, nfsh, nevent>>
vars == <<mainVars, time, flagVars, lockVars, tpc, loopVars, dpc>>

TimerPC == {"off", "loop", "w_lock", "w_test", "w_sleep", "w_wake",
            "r_lock", "r_clear", "exit"}
DevPC == {"off", "work", "e_set", "t_lock", "t_test", "t_sleep", "t_wake",
          "x_set", "exit"}
MainPC == {"attach", "create", "stop", "join", "end"}
Owner == {"free", "timer", "dev"}

TypeOK ==
  /\ dev_list \in 0 .. N /\ mpc \in MainPC
  /\ timer_started \in BOOLEAN /\ timer_stop \in BOOLEAN
  /\ time \in 0 .. MaxTime
  /\ done \in [Devices -> BOOLEAN] /\ fsh \in [Devices -> BOOLEAN]
  /\ event_lock \in [Devices -> Owner] /\ timer_lock \in [Devices -> Owner]
  /\ tpc \in TimerPC /\ temp \in 0 .. N
  /\ nfsh \in 0 .. N /\ nevent \in 0 .. N
  /\ dpc \in [Devices -> DevPC]

Init ==
  /\ dev_list = NULL /\ mpc = "attach"
  /\ timer_started = FALSE /\ timer_stop = FALSE
  /\ time = 0
  /\ done = [d \in Devices |-> FALSE] /\ fsh = [d \in Devices |-> FALSE]
  /\ event_lock = [d \in Devices |-> "free"]
  /\ timer_lock = [d \in Devices |-> "free"]
  /\ tpc = "off" /\ temp = NULL /\ nfsh = 0 /\ nevent = 0
  /\ dpc = [d \in Devices |-> "off"]

-----------------------------------------------------------------------------
(* pthread primitives (external): a mutex has one owner; a signal moves the *)
(* waiter, if there is one, from its sleep to the reacquisition of its      *)
(* mutex, and is lost otherwise.                                            *)

Lock(m, d, me) == m[d] = "free" /\ m' = [m EXCEPT ![d] = me]
Unlock(m, d) == m' = [m EXCEPT ![d] = "free"]

\* pthread_cond_signal(&d.event_cond): only the timer ever waits on it.
SignalEvent(d) == tpc' = IF tpc = "w_sleep" /\ temp = d THEN "w_wake" ELSE tpc

\* pthread_cond_signal(&d.timer_cond): only device d ever waits on it.
SignalTimer(d) ==
  dpc' = IF dpc[d] = "t_sleep" THEN [dpc EXCEPT ![d] = "t_wake"] ELSE dpc

Goto(d, l) == dpc' = [dpc EXCEPT ![d] = l]

-----------------------------------------------------------------------------
(* main                                                                     *)

attach_event ==
  /\ mpc = "attach" /\ ~timer_started /\ dev_list < N
  /\ dev_list' = dev_list + 1
  /\ done' = [done EXCEPT ![dev_list + 1] = FALSE]
  /\ fsh' = [fsh EXCEPT ![dev_list + 1] = FALSE]
  /\ UNCHANGED <<timer_started, timer_stop, mpc, time, lockVars, tpc, loopVars, dpc>>

start_timer ==
  /\ mpc = "attach" /\ dev_list = N
  /\ timer_started' = TRUE /\ tpc' = "loop" /\ mpc' = "create"
  /\ UNCHANGED <<dev_list, timer_stop, time, flagVars, lockVars, loopVars, dpc>>

\* pthread_create: first the loader (the last device attached), then the CPUs.
create_device(d) ==
  /\ mpc = "create" /\ dpc[d] = "off"
  /\ d # N => dpc[N] # "off" /\ (d # 1 => dpc[d - 1] # "off")
  /\ Goto(d, "work")
  /\ UNCHANGED <<mainVars, time, flagVars, lockVars, tpc, loopVars>>

\* pthread_join of every CPU and of the loader.
join_devices ==
  /\ mpc = "create" /\ \A d \in Devices : dpc[d] = "exit"
  /\ mpc' = "stop"
  /\ UNCHANGED <<dev_list, timer_started, timer_stop, time, flagVars, lockVars,
                 tpc, loopVars, dpc>>

\* stop_timer: raise the flag, then join the timer and free the containers.
stop_timer ==
  /\ mpc = "stop"
  /\ timer_stop' = TRUE /\ mpc' = "join"
  /\ UNCHANGED <<dev_list, timer_started, time, flagVars, lockVars, tpc, loopVars, dpc>>

\* Bug variant: the containers are freed without joining the timer thread.
stop_timer_free_NoJoin ==
  /\ mpc = "join"
  /\ dev_list' = NULL /\ mpc' = "end"
  /\ UNCHANGED <<timer_started, timer_stop, time, flagVars, lockVars, tpc, loopVars, dpc>>

stop_timer_free ==
  /\ mpc = "join" /\ tpc = "exit"
  /\ dev_list' = NULL /\ mpc' = "end"
  /\ UNCHANGED <<timer_started, timer_stop, time, flagVars, lockVars, tpc, loopVars, dpc>>

main == \/ attach_event \/ start_timer \/ \E d \in Devices : create_device(d)
        \/ join_devices \/ stop_timer \/ stop_timer_free

-----------------------------------------------------------------------------
(* timer_routine                                                            *)

\* Bug variant: fsh and event are not reset in each slot.
timer_loop_NoReset ==
  /\ tpc = "loop"
  /\ IF timer_stop
       THEN tpc' = "exit" /\ UNCHANGED temp
       ELSE tpc' = "w_lock" /\ temp' = dev_list
  /\ UNCHANGED <<mainVars, time, flagVars, lockVars, nfsh, nevent, dpc>>

\* The loop test reads timer_stop without a lock.
timer_loop ==
  /\ tpc = "loop"
  /\ IF timer_stop
       THEN tpc' = "exit" /\ UNCHANGED loopVars
       ELSE tpc' = "w_lock" /\ temp' = dev_list /\ nfsh' = 0 /\ nevent' = 0
  /\ UNCHANGED <<mainVars, time, flagVars, lockVars, dpc>>

\* Bug variant: "if" instead of "while", the device is counted after any wake-up.
wait_lock_If ==
  /\ tpc \in {"w_lock", "w_wake"} /\ temp # NULL
  /\ event_lock[temp] = "free"
  /\ IF tpc = "w_wake"
       THEN /\ nevent' = nevent + 1 /\ temp' = temp - 1 /\ tpc' = "w_lock"
            /\ UNCHANGED event_lock
       ELSE /\ event_lock' = [event_lock EXCEPT ![temp] = "timer"]
            /\ tpc' = "w_test" /\ UNCHANGED <<nevent, temp>>
  /\ UNCHANGED <<mainVars, time, flagVars, timer_lock, nfsh, dpc>>

\* pthread_mutex_lock, or pthread_cond_wait taking the mutex back.
wait_lock ==
  /\ tpc \in {"w_lock", "w_wake"} /\ temp # NULL
  /\ Lock(event_lock, temp, "timer")
  /\ tpc' = "w_test"
  /\ UNCHANGED <<mainVars, time, flagVars, timer_lock, loopVars, dpc>>

\* while (!done && !fsh) pthread_cond_wait: the timer sleeps ...
wait_sleep ==
  /\ tpc = "w_test" /\ ~done[temp] /\ ~fsh[temp]
  /\ Unlock(event_lock, temp)
  /\ tpc' = "w_sleep"
  /\ UNCHANGED <<mainVars, time, flagVars, timer_lock, loopVars, dpc>>

\* ... or the device is done or gone and is counted.
wait_count ==
  /\ tpc = "w_test" /\ (done[temp] \/ fsh[temp])
  /\ nfsh' = IF fsh[temp] THEN nfsh + 1 ELSE nfsh
  /\ nevent' = nevent + 1
  /\ Unlock(event_lock, temp)
  /\ temp' = temp - 1 /\ tpc' = "w_lock"
  /\ UNCHANGED <<mainVars, time, flagVars, timer_lock, dpc>>

\* The end of the list: _time++, and the release loop starts at its head.
advance_time ==
  /\ tpc = "w_lock" /\ temp = NULL
  /\ time' = IF time < MaxTime THEN time + 1 ELSE time
  /\ temp' = dev_list /\ tpc' = "r_lock"
  /\ UNCHANGED <<mainVars, flagVars, lockVars, nfsh, nevent, dpc>>

release_lock ==
  /\ tpc = "r_lock" /\ temp # NULL
  /\ Lock(timer_lock, temp, "timer")
  /\ tpc' = "r_clear"
  /\ UNCHANGED <<mainVars, time, flagVars, event_lock, loopVars, dpc>>

\* Bug variant: the device is not signalled.
release_clear_NoSignal ==
  /\ tpc = "r_clear"
  /\ done' = [done EXCEPT ![temp] = FALSE]
  /\ Unlock(timer_lock, temp)
  /\ temp' = temp - 1 /\ tpc' = "r_lock"
  /\ UNCHANGED <<mainVars, time, fsh, event_lock, nfsh, nevent, dpc>>

release_clear ==
  /\ tpc = "r_clear"
  /\ done' = [done EXCEPT ![temp] = FALSE]
  /\ SignalTimer(temp)
  /\ Unlock(timer_lock, temp)
  /\ temp' = temp - 1 /\ tpc' = "r_lock"
  /\ UNCHANGED <<mainVars, time, fsh, event_lock, nfsh, nevent>>

\* if (fsh == event) break
timer_check ==
  /\ tpc = "r_lock" /\ temp = NULL
  /\ tpc' = IF nfsh = nevent THEN "exit" ELSE "loop"
  /\ UNCHANGED <<mainVars, time, flagVars, lockVars, loopVars, dpc>>

timer_routine ==
  \/ timer_loop \/ wait_lock \/ wait_sleep \/ wait_count \/ advance_time
  \/ release_lock \/ release_clear \/ timer_check

-----------------------------------------------------------------------------
(* next_slot and detach_event, called by device d                           *)

next_slot_lock(d) ==
  /\ dpc[d] = "work"
  /\ Lock(event_lock, d, "dev")
  /\ Goto(d, "e_set")
  /\ UNCHANGED <<mainVars, time, flagVars, timer_lock, tpc, loopVars>>

\* Bug variant: the timer is not signalled.
next_slot_done_NoSignal(d) ==
  /\ dpc[d] = "e_set"
  /\ done' = [done EXCEPT ![d] = TRUE]
  /\ Unlock(event_lock, d)
  /\ Goto(d, "t_lock")
  /\ UNCHANGED <<mainVars, time, fsh, timer_lock, tpc, loopVars>>

next_slot_done(d) ==
  /\ dpc[d] = "e_set"
  /\ done' = [done EXCEPT ![d] = TRUE]
  /\ SignalEvent(d)
  /\ Unlock(event_lock, d)
  /\ Goto(d, "t_lock")
  /\ UNCHANGED <<mainVars, time, fsh, timer_lock, loopVars>>

\* Bug variant: "if" instead of "while", next_slot returns after any wake-up.
next_slot_wait_If(d) ==
  /\ dpc[d] \in {"t_lock", "t_wake"} /\ timer_lock[d] = "free"
  /\ timer_lock' = [timer_lock EXCEPT ![d] = IF dpc[d] = "t_wake" THEN @ ELSE "dev"]
  /\ Goto(d, IF dpc[d] = "t_wake" THEN "work" ELSE "t_test")
  /\ UNCHANGED <<mainVars, time, flagVars, event_lock, tpc, loopVars>>

\* pthread_mutex_lock, or pthread_cond_wait taking the mutex back.
next_slot_wait(d) ==
  /\ dpc[d] \in {"t_lock", "t_wake"}
  /\ Lock(timer_lock, d, "dev")
  /\ Goto(d, "t_test")
  /\ UNCHANGED <<mainVars, time, flagVars, event_lock, tpc, loopVars>>

\* while (done) pthread_cond_wait; otherwise unlock and return.
next_slot_test(d) ==
  /\ dpc[d] = "t_test"
  /\ Unlock(timer_lock, d)
  /\ Goto(d, IF done[d] THEN "t_sleep" ELSE "work")
  /\ UNCHANGED <<mainVars, time, flagVars, event_lock, tpc, loopVars>>

detach_lock(d) ==
  /\ dpc[d] = "work"
  /\ Lock(event_lock, d, "dev")
  /\ Goto(d, "x_set")
  /\ UNCHANGED <<mainVars, time, flagVars, timer_lock, tpc, loopVars>>

\* Bug variant: the timer is not signalled.
detach_event_NoSignal(d) ==
  /\ dpc[d] = "x_set"
  /\ fsh' = [fsh EXCEPT ![d] = TRUE]
  /\ Unlock(event_lock, d)
  /\ Goto(d, "exit")
  /\ UNCHANGED <<mainVars, time, done, timer_lock, tpc, loopVars>>

detach_event(d) ==
  /\ dpc[d] = "x_set"
  /\ fsh' = [fsh EXCEPT ![d] = TRUE]
  /\ SignalEvent(d)
  /\ Unlock(event_lock, d)
  /\ Goto(d, "exit")
  /\ UNCHANGED <<mainVars, time, done, timer_lock, loopVars>>

device(d) == \/ next_slot_lock(d) \/ next_slot_done(d) \/ next_slot_wait(d)
             \/ next_slot_test(d) \/ detach_lock(d) \/ detach_event(d)

-----------------------------------------------------------------------------
\* pthread_cond_wait may return although nobody signalled (external).
spurious_timer ==
  /\ tpc = "w_sleep" /\ tpc' = "w_wake"
  /\ UNCHANGED <<mainVars, time, flagVars, lockVars, loopVars, dpc>>

spurious_device(d) ==
  /\ dpc[d] = "t_sleep" /\ Goto(d, "t_wake")
  /\ UNCHANGED <<mainVars, time, flagVars, lockVars, tpc, loopVars>>

\* The simulation has ended; the process is gone.
Terminated == mpc = "end" /\ UNCHANGED vars

Next == \/ main \/ timer_routine \/ spurious_timer \/ Terminated
        \/ \E d \in Devices : device(d) \/ spurious_device(d)

\* Every thread that can run is eventually run, and a thread is not woken
\* without a signal for ever.  Nothing is assumed of how a device chooses
\* between next_slot and detach_event.
spurious == spurious_timer \/ \E d \in Devices : spurious_device(d)
Fairness == /\ WF_vars(main) /\ WF_vars(timer_routine)
            /\ \A d \in Devices : WF_vars(device(d))
            /\ <>[][~spurious]_vars

Spec == Init /\ [][Next]_vars
FairSpec == Spec /\ Fairness

-----------------------------------------------------------------------------
(* Properties                                                               *)

\* The accesses to done[d] (and fsh[d]) of the timer and of device d never
\* meet, although next_slot writes done under event_lock and timer_routine
\* clears it under timer_lock: the slot protocol orders them.
DoneRaceFree ==
  \A d \in Devices : temp = d =>
    /\ ~(tpc = "w_test" /\ dpc[d] \in {"e_set", "x_set"})
    /\ ~(tpc = "r_clear" /\ dpc[d] \in {"e_set", "t_test"})

\* Nobody sleeps on a condition variable whose condition holds: the timer is
\* not left asleep on a device that is done or detached, a device is not left
\* asleep in next_slot once the timer has let it continue.
NoLostWakeup ==
  /\ tpc = "w_sleep" => ~done[temp] /\ ~fsh[temp]
  /\ \A d \in Devices : dpc[d] = "t_sleep" => done[d]

\* stop_timer frees the containers only when no thread will use one again,
\* and no thread uses a container before attach_event has allocated it.
NoUseAfterFree ==
  /\ \A d \in Devices : dpc[d] \notin {"off", "exit"} => d <= dev_list
  /\ tpc \notin {"off", "exit"} => dev_list = N

\* The timer implements the slot barrier of include/timer.h.  A device is
\* "free" from the moment the clock advances, although the timer clears the
\* done flags one after the other.
Releasing(d) == tpc \in {"r_lock", "r_clear"} /\ d <= temp

PhaseOf(d) ==
  CASE dpc[d] \in {"off", "work", "e_set", "x_set"} -> "work"
    [] dpc[d] = "exit" -> "out"
    [] OTHER -> IF done[d] /\ ~Releasing(d) THEN "wait" ELSE "free"

Barrier == INSTANCE SlotBarrier WITH phase <- [d \in Devices |-> PhaseOf(d)]

\* No step of any thread is a step the barrier does not allow: the clock
\* advances only when every device that has not detached is held in
\* next_slot, and next_slot returns only after it has advanced.
ImplementsBarrier == Barrier!Spec

\* Every call of next_slot returns: the timer and the devices never wait for
\* each other for ever, whatever the others do between two calls.
NextSlotReturns == \A d \in Devices : dpc[d] = "e_set" ~> dpc[d] = "work"

\* Once every device has detached, the timer stops and main returns, both when
\* the timer notices that all are gone and when it sees timer_stop first.
Shutdown == (\A d \in Devices : dpc[d] = "exit") ~> mpc = "end"
=============================================================================
