------------------------- MODULE ProbeSchedule_proofs -------------------------
(***************************************************************************)
(* Proofs about ProbeSchedule for every rate and every bound on the clock. *)
(***************************************************************************)
EXTENDS ProbeSchedule, TLAPS

\* The remainder of a time by the rate is below the rate.
LEMMA Remainder ==
    ASSUME NEW t \in Nat
    PROVE  t % Rate \in 0..(Rate - 1)
BY RateAssumption

\* The next slot comes after t, at most one rate later (scheduleNextProbe).
LEMMA NextSlotBounds ==
    ASSUME NEW t \in Nat
    PROVE  /\ NextSlot(t) \in Nat
           /\ t < NextSlot(t)
           /\ NextSlot(t) <= t + Rate
BY Remainder, RateAssumption DEF NextSlot

\* The next slot is on the grid.
LEMMA NextSlotOnGrid ==
    ASSUME NEW t \in Nat
    PROVE  NextSlot(t) % Rate = 0
<1>1. Rate \in Nat /\ Rate > 0
  BY RateAssumption
<1>2. t = Rate * (t \div Rate) + (t % Rate)
  BY <1>1
<1>3. NextSlot(t) = Rate * (t \div Rate + 1)
  BY <1>1, <1>2 DEF NextSlot
<1>4. t \div Rate + 1 \in Nat
  BY <1>1
<1>. QED
  BY <1>1, <1>3, <1>4

\* Between two multiples of the rate the next slot is the upper one.
LEMMA NextSlotUnique ==
    ASSUME NEW s \in Nat, s % Rate = 0, NEW t \in Nat, s <= t, t < s + Rate
    PROVE  NextSlot(t) = s + Rate
<1>1. Rate \in Nat /\ Rate > 0
  BY RateAssumption
<1>2. PICK q \in Nat : s = Rate * q
  <2>1. s = Rate * (s \div Rate) + (s % Rate)
    BY <1>1
  <2>2. s \div Rate \in Nat /\ s = Rate * (s \div Rate)
    BY <1>1, <2>1
  <2>. QED
    BY <2>2
<1>3. PICK e \in 0..(Rate - 1) : t = Rate * q + e
  BY <1>1, <1>2
<1>4. t % Rate = e
  BY <1>1, <1>3
<1>. QED
  BY <1>1, <1>2, <1>3, <1>4 DEF NextSlot

\* Zero, the label before the first report, is on the grid.
LEMMA ZeroOnGrid == 0 % Rate = 0
BY RateAssumption

-----------------------------------------------------------------------------
\* The type invariant holds initially.
LEMMA InitType == Init => TypeOK
BY RateAssumption, MaxBackAssumption DEF Init, TypeOK

\* Every step keeps the types: the clock stays a natural number.
LEMMA NextType == TypeOK /\ [Next]_vars => TypeOK'
<1> SUFFICES ASSUME TypeOK, [Next]_vars PROVE TypeOK'
  OBVIOUS
<1>. USE DEF TypeOK
<1>1. CASE Start \/ Publish \/ Fail
  BY <1>1, NextSlotBounds DEF Start, Publish, Fail
<1>2. CASE Fire
  BY <1>2 DEF Fire
<1>3. CASE Tick
  BY <1>3, RateAssumption DEF Tick
<1>4. CASE SetBack
  BY <1>4, MaxBackAssumption DEF SetBack
<1>5. CASE UNCHANGED vars
  BY <1>5 DEF vars
<1>. QED
  BY <1>1, <1>2, <1>3, <1>4, <1>5 DEF Next

\* The variables keep their types for every rate.
THEOREM TypeCorrect == Spec => []TypeOK
BY InitType, NextType, PTL DEF Spec

\* Every sample is scheduled, and every report labelled, with a multiple of the
\* rate, even on a clock that is set back.
THEOREM AlwaysOnGrid == Spec => []OnGrid
<1>1. Init => OnGrid
  BY ZeroOnGrid DEF Init, OnGrid
<1>2. TypeOK /\ OnGrid /\ [Next]_vars => OnGrid'
  <2> SUFFICES ASSUME TypeOK, OnGrid, [Next]_vars PROVE OnGrid'
    OBVIOUS
  <2>1. CASE Start \/ Publish \/ Fail
    BY <2>1, NextSlotOnGrid DEF TypeOK, OnGrid, Start, Publish, Fail
  <2>2. CASE Fire \/ Tick \/ SetBack \/ UNCHANGED vars
    BY <2>2 DEF OnGrid, Fire, Tick, SetBack, vars
  <2>. QED
    BY <2>1, <2>2 DEF Next
<1>. QED
  BY <1>1, <1>2, TypeCorrect, PTL DEF Spec

-----------------------------------------------------------------------------
(* Bounds by the seconds the clock has been set back.                      *)

\* A sample under way is not ahead of the clock, and the next one is near.
ClockInv ==
    /\ ScheduleFollowsClock
    /\ phase = "probing" => slot <= now + back

\* Every step preserves the relation between the clock and the schedule.
LEMMA NextClock == TypeOK /\ ClockInv /\ [Next]_vars => ClockInv'
<1> SUFFICES ASSUME TypeOK, ClockInv, [Next]_vars PROVE ClockInv'
  OBVIOUS
<1>. USE DEF TypeOK, ClockInv, ScheduleFollowsClock
<1>0. back \in Nat
  BY MaxBackAssumption
<1>1. CASE Start \/ Publish \/ Fail
  <2>1. NextSlot(now) \in Nat /\ NextSlot(now) <= now + Rate
    BY NextSlotBounds
  <2>2. phase' = "waiting" /\ slot' = NextSlot(now) /\ UNCHANGED <<now, back>>
    BY <1>1 DEF Start, Publish, Fail
  <2>3. stamp' <= now + back
    BY <1>0, <1>1 DEF Start, Publish, Fail
  <2>. QED
    BY <1>0, <2>1, <2>2, <2>3, RateAssumption
<1>2. CASE Fire
  BY <1>0, <1>2 DEF Fire, Fires
<1>3. CASE Tick
  BY <1>0, <1>3, RateAssumption DEF Tick
<1>4. CASE SetBack
  <2>1. PICK d \in 1..(MaxBack - back) : now' = now - d /\ back' = back + d
    BY <1>4 DEF SetBack
  <2>2. now' + back' = now + back /\ UNCHANGED <<phase, slot, stamp>>
    BY <1>0, <1>4, <2>1, MaxBackAssumption DEF SetBack
  <2>. QED
    BY <1>0, <2>1, <2>2, MaxBackAssumption, RateAssumption
<1>5. CASE UNCHANGED vars
  BY <1>5 DEF vars
<1>. QED
  BY <1>1, <1>2, <1>3, <1>4, <1>5 DEF Next

\* A report is ahead of its label, and the next sample more than one rate away,
\* by no more than the clock has been set back.
THEOREM ClockBounds == Spec => []ScheduleFollowsClock
<1>1. Init => ClockInv
  BY RateAssumption DEF Init, ClockInv, ScheduleFollowsClock
<1>2. TypeOK /\ ClockInv /\ [Next]_vars => ClockInv'
  BY NextClock
<1>3. ClockInv => ScheduleFollowsClock
  BY DEF ClockInv
<1>. QED
  BY <1>1, <1>2, <1>3, TypeCorrect, PTL DEF Spec

\* Each round of samples is scheduled after the last, but for what the clock has
\* been set back, whatever the rate and however long probe() takes.
THEOREM StampsAlwaysIncrease == Spec => StampsIncrease
<1>1. Init => ClockInv
  BY RateAssumption DEF Init, ClockInv, ScheduleFollowsClock
<1>2. TypeOK /\ ClockInv /\ [Next]_vars => ClockInv'
  BY NextClock
<1>3. TypeOK /\ ClockInv /\ [Next]_vars
        => [phase = "probing" /\ phase' = "waiting" => slot' + back > slot]_vars
  <2> SUFFICES ASSUME TypeOK, ClockInv, Next, phase = "probing", phase' = "waiting"
               PROVE  slot' + back > slot
    OBVIOUS
  <2>1. CASE Publish \/ Fail
    BY <2>1, NextSlotBounds DEF TypeOK, ClockInv, Publish, Fail
  <2>2. CASE Start \/ Fire \/ Tick \/ SetBack
    BY <2>2 DEF Start, Fire, Tick, SetBack
  <2>. QED
    BY <2>1, <2>2 DEF Next
<1>. QED
  BY <1>1, <1>2, <1>3, TypeCorrect, PTL DEF Spec, StampsIncrease

\* A prompt probe() loses no slot, for any rate, even on a clock set back.
THEOREM PromptKeepsPace == Spec => PromptSampleKeepsPace
<1>1. TypeOK /\ OnGrid /\ [Next]_vars
        => [phase = "probing" /\ phase' = "waiting" /\ slot <= now
              /\ now < slot + Rate => slot' = slot + Rate]_vars
  <2> SUFFICES ASSUME TypeOK, OnGrid, Next, phase = "probing",
                      phase' = "waiting", slot <= now, now < slot + Rate
               PROVE  slot' = slot + Rate
    OBVIOUS
  <2>1. CASE Publish \/ Fail
    BY <2>1, NextSlotUnique DEF TypeOK, OnGrid, Publish, Fail
  <2>2. CASE Start \/ Fire \/ Tick \/ SetBack
    BY <2>2 DEF Start, Fire, Tick, SetBack
  <2>. QED
    BY <2>1, <2>2 DEF Next
<1>. QED
  BY <1>1, TypeCorrect, AlwaysOnGrid, PTL DEF Spec, PromptSampleKeepsPace
===============================================================================
