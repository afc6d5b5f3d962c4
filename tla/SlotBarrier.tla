----------------------------- MODULE SlotBarrier -----------------------------
(***************************************************************************)
(* What include/timer.h promises to the devices of the simulation (the     *)
(* CPUs and the loader): time advances in slots, and every device works    *)
(* once in each slot.  A device that is done calls next_slot and is held   *)
(* until the clock has advanced; a device that leaves calls detach_event.  *)
(*                                                                         *)
(* This is the abstract specification.  Timer.tla is the detailed one,     *)
(* with the mutexes and condition variables of src/timer.c, and is shown   *)
(* to implement this one; Os.tla composes the scheduler with this one.     *)
(***************************************************************************)
EXTENDS Naturals

CONSTANTS Devices,  \* the attached devices
          MaxTime   \* the clock is read only up to this slot: it saturates

VARIABLES time,     \* the current slot, as current_time() returns it
          phase     \* phase[d]: where device d stands in the current slot

vars == <<time, phase>>

\* "work": inside the slot.  "wait": the work of the slot is done.
\* "free": the clock has advanced, next_slot is about to return.
\* "out":  detached.
Phase == {"work", "wait", "free", "out"}

TypeOK == /\ time \in 0 .. MaxTime
          /\ phase \in [Devices -> Phase]

Init == /\ time = 0
        /\ phase = [d \in Devices |-> "work"]

\* next_slot, first half: tell the timer that the slot's work is done.
Arrive(d) == /\ phase[d] = "work"
             /\ phase' = [phase EXCEPT ![d] = "wait"]
             /\ UNCHANGED time

\* The clock advances once no device is working any more.
Tick == /\ \A d \in Devices : phase[d] \in {"wait", "out"}
        /\ time' = IF time < MaxTime THEN time + 1 ELSE time
        /\ phase' = [d \in Devices |->
                       IF phase[d] = "wait" THEN "free" ELSE phase[d]]

\* next_slot, second half: return into the new slot.
Release(d) == /\ phase[d] = "free"
              /\ phase' = [phase EXCEPT ![d] = "work"]
              /\ UNCHANGED time

\* detach_event: the device leaves; the timer stops waiting for it.
Leave(d) == /\ phase[d] = "work"
            /\ phase' = [phase EXCEPT ![d] = "out"]
            /\ UNCHANGED time

Next == \/ Tick
        \/ \E d \in Devices : Arrive(d) \/ Release(d) \/ Leave(d)

Spec == Init /\ [][Next]_vars
=============================================================================
