---------------------------- MODULE ProbeSchedule ----------------------------
(***************************************************************************)
(* When a probe process samples its plugin, and the timestamps it puts on  *)
(* the reports (ProbeManager::run, scheduleNextProbe).                     *)
(*                                                                         *)
(* Each sample is scheduled for the next multiple of the probe rate on the *)
(* wall clock (CLOCK_REALTIME), with an absolute one-shot timer, and its   *)
(* reports carry the scheduled time.  probe() may take any time.           *)
(***************************************************************************)
EXTENDS Integers

CONSTANTS
    Rate,       \* probe rate in seconds, an unsigned short from the configuration
    MaxBack,    \* bound on the seconds the wall clock is set back, in total
    MaxTime     \* bound on the wall clock

ASSUME RateAssumption == Rate \in Nat \ {0}
ASSUME MaxBackAssumption == MaxBack \in Nat
ASSUME MaxTimeAssumption == MaxTime \in Nat

VARIABLES
    now,     \* the wall clock, in whole seconds
    back,    \* the seconds it has been set back so far
    phase,   \* "stopped", "waiting" on the timer, or "probing"
    slot,    \* i64Timestamp: the time the timer is, or was, set for
    stamp    \* timestamp of the reports published last, 0 before the first

vars == <<now, back, phase, slot, stamp>>

\* Mutant: the remainder is not taken off, so that samples drift from the grid.
NextSlotFromNow(t) == t + Rate

\* Mutant: a time on the grid is its own next slot.
NextSlotAtOrAfter(t) == IF t % Rate = 0 THEN t ELSE t + (Rate - (t % Rate))

\* Mutant: the slot after the next.
NextSlotSkipping(t) == t + (2 * Rate - (t % Rate))

\* scheduleNextProbe: the first multiple of the rate after t.
NextSlot(t) == t + (Rate - (t % Rate))

Init ==
    /\ now \in 0..Rate
    /\ back = 0
    /\ phase = "stopped"
    /\ slot = 0
    /\ stamp = 0

\* START was answered: run() sets the timer for the first time.
Start ==
    /\ phase = "stopped"
    /\ phase' = "waiting"
    /\ slot' = NextSlot(now)
    /\ UNCHANGED <<now, back, stamp>>

\* Mutant: a relative timer, which a backward step of the clock does not delay.
FireAnyTime == phase = "waiting"

\* The absolute timer has expired.
Fires == phase = "waiting" /\ now >= slot

\* run() reads the timer and calls probe().
Fire ==
    /\ Fires
    /\ phase' = "probing"
    /\ UNCHANGED <<now, back, slot, stamp>>

\* probe() returned: its reports are published under the scheduled time, and
\* the next sample is scheduled from the time it is now.
Publish ==
    /\ phase = "probing"
    /\ phase' = "waiting"
    /\ stamp' = slot
    /\ slot' = NextSlot(now)
    /\ UNCHANGED <<now, back>>

\* probe() threw: nothing is published, the next sample is scheduled all the same.
Fail ==
    /\ phase = "probing"
    /\ phase' = "waiting"
    /\ slot' = NextSlot(now)
    /\ UNCHANGED <<now, back, stamp>>

\* The wall clock advances; an adjustment may set it forward too.
Tick ==
    /\ \E d \in 1..(2 * Rate) : now' = now + d /\ now' <= MaxTime
    /\ UNCHANGED <<back, phase, slot, stamp>>

\* An adjustment (settimeofday, a time daemon's step) sets the clock back.
SetBack ==
    /\ \E d \in 1..(MaxBack - back) :
           now' = now - d /\ now' >= 0 /\ back' = back + d
    /\ UNCHANGED <<phase, slot, stamp>>

Next ==
    \/ Start
    \/ Fire
    \/ Publish
    \/ Fail
    \/ Tick
    \/ SetBack

Spec == Init /\ [][Next]_vars

-----------------------------------------------------------------------------
TypeOK ==
    /\ now \in Nat
    /\ back \in 0..MaxBack
    /\ phase \in {"stopped", "waiting", "probing"}
    /\ slot \in Nat
    /\ stamp \in Nat

\* Every sample is scheduled on the grid of the rate, whenever the probe was
\* started and however long probe() takes: probes of the same rate, on any host
\* with the right time, label their reports with the same times.
OnGrid == slot % Rate = 0 /\ stamp % Rate = 0

\* A report is ahead of the time it is labelled with, and the wait for the next
\* sample longer than the rate, by no more than the clock has been set back, not
\* even after a slow probe(): with a good clock, what is published last was sampled
\* at or after the time of its label, and a sample comes in every rate.
ScheduleFollowsClock ==
    /\ stamp <= now + back
    /\ phase = "waiting" => slot <= now + Rate + back

\* The time of a sample is used once: a slow probe() skips the slots it missed,
\* and two rounds of reports share a timestamp only by as much as the clock has
\* been set back.
StampsIncrease ==
    [][phase = "probing" /\ phase' = "waiting" => slot' + back > slot]_vars

\* A probe() that returns before the next slot costs no sample: the next one is
\* exactly one rate later.
PromptSampleKeepsPace ==
    [][phase = "probing" /\ phase' = "waiting" /\ slot <= now
           /\ now < slot + Rate => slot' = slot + Rate]_vars
=============================================================================
