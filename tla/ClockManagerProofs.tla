------------------------- MODULE ClockManagerProofs -------------------------
(***************************************************************************)
(* The safety of the clock arbiter for every set of clients, clock table   *)
(* and window length.  FloorHonoured and PinnedClock are inductive         *)
(* together with the types and the fact that requests are table entries.   *)
(***************************************************************************)
EXTENDS ClockManager, TLAPS

\* Requests and pins are table entries (or 0), and an idle pin is no pin.
Requests ==
  /\ \A n \in Names : items[n] \in Table \cup {0}
  /\ locker.freq \in Table \cup {0}

IInv == TypeOK /\ Requests /\ FloorHonoured /\ PinnedClock

\* The frequency the chip is capped to is a frequency no larger than asked.
LEMMA CappedFacts ==
  ASSUME NEW f \in Nat
  PROVE  /\ Capped(f) \in Nat
         /\ Capped(f) <= MaxFreq
         /\ f <= MaxFreq => Capped(f) = f
BY ClockAssumption DEF Capped

\* Capping keeps the order of two frequencies.
LEMMA CappedMonotone ==
  ASSUME NEW f \in Nat, NEW g \in Nat, f <= g
  PROVE  Capped(f) <= Capped(g)
BY ClockAssumption DEF Capped

\* A refurbish puts the clock at full speed, which honours every request
\* and is one of the values a pinned clock may have.
LEMMA RefurbishSafe ==
  ASSUME refurbish, items' \in [Names -> Nat]
  PROVE  FloorHonoured' /\ PinnedClock'
<1>1. \A n \in Names : items'[n] \in Nat
  OBVIOUS
<1>2. \A n \in Names : Capped(items'[n]) <= MaxFreq
  BY <1>1, CappedFacts
<1>3. sysClk' = MaxFreq /\ MaxFreq \in Nat
  BY ClockAssumption DEF refurbish
<1>4. FloorHonoured'
  BY <1>1, <1>2, <1>3, ClockAssumption DEF FloorHonoured, Capped
<1>5. PinnedClock'
  BY <1>3 DEF PinnedClock
<1> QED BY <1>4, <1>5

\* A calibration keeps the floor when nobody pins the clock and goes to the
\* pinned frequency when somebody does.
LEMMA CalibrationSafe ==
  ASSUME IInv, clk_ref_cal, UNCHANGED <<items, locker>>
  PROVE  FloorHonoured' /\ PinnedClock' /\ sysClk' \in Nat /\ step' \in 0 .. 2
<1>1. PICK floor \in {MinFreq} \cup {items[n] : n \in Names},
           dest \in Table \cup {sysClk} :
        /\ IsFloor(floor)
        /\ Adjust(dest)
        /\ sysClk' = Capped(IF Locked THEN locker.freq
                            ELSE IF dest < floor THEN floor ELSE dest)
  BY DEF clk_ref_cal
<1>2. floor \in Nat /\ dest \in Nat /\ locker.freq \in Nat
  BY ClockAssumption DEF IInv, TypeOK
<1>3. step' \in 0 .. 2
  BY <1>1 DEF Adjust
<1>4. CASE Locked
  <2>1. sysClk' = Capped(locker.freq)
    BY <1>1, <1>4
  <2>2. sysClk' \in Nat
    BY <2>1, <1>2, CappedFacts
  <2>3. PinnedClock' /\ FloorHonoured'
    BY <2>1, <1>4 DEF PinnedClock, FloorHonoured, Locked, Capped
  <2> QED BY <1>3, <2>2, <2>3
<1>5. CASE ~Locked
  <2> DEFINE d == IF dest < floor THEN floor ELSE dest
  <2>1. d \in Nat /\ floor <= d
    BY <1>2
  <2>2. sysClk' = Capped(d)
    BY <1>1, <1>5
  <2> HIDE DEF d
  <2>3. sysClk' \in Nat
    BY <2>1, <2>2, CappedFacts
  <2>4. ASSUME NEW n \in Names PROVE sysClk' >= Capped(items[n])
    <3>1. items[n] \in Nat
      BY DEF IInv, TypeOK
    <3>2. items[n] <= d
      BY <3>1, <2>1, <1>1, <1>2 DEF IsFloor
    <3>3. Capped(items[n]) <= Capped(d)
      BY <3>1, <3>2, <2>1, CappedMonotone
    <3> QED BY <3>1, <3>3, <2>1, <2>2, CappedFacts
  <2>5. FloorHonoured'
    BY <2>4 DEF FloorHonoured, Capped
  <2>6. PinnedClock'
    BY <1>5 DEF PinnedClock, Locked
  <2> QED BY <1>3, <2>3, <2>5, <2>6
<1> QED BY <1>4, <1>5

\* Nobody has asked for anything yet.
LEMMA InitIInv == Init => IInv
<1> SUFFICES ASSUME Init PROVE IInv
  OBVIOUS
<1>1. sysClk \in Nat /\ Table \subseteq Nat /\ MaxFreq \in Nat /\ Periods \in Nat
  BY ClockAssumption DEF Init
<1>2. TypeOK
  <2>1. items \in [Names -> Nat]
    BY DEF Init
  <2>2. locker \in [freq : Nat, name : Names \cup {NoName}]
    BY DEF Init
  <2>3. refCnt \in 0 .. Periods /\ step \in 0 .. 2 /\ posted \in 0 .. MaxPosted
    BY <1>1, ClockAssumption DEF Init
  <2> QED BY <1>1, <2>1, <2>2, <2>3 DEF Init, TypeOK
<1>3. Requests /\ ~Locked
  BY DEF Init, Requests, Locked
<1>4. Capped(0) = 0
  BY <1>1 DEF Capped
<1>5. FloorHonoured
  <2> SUFFICES ASSUME NEW n \in Names PROVE sysClk >= Capped(items[n])
    BY DEF FloorHonoured
  <2>1. items[n] = 0
    BY DEF Init
  <2> QED BY <1>1, <1>4, <2>1
<1> QED BY <1>2, <1>3, <1>5 DEF IInv, PinnedClock


\* Every operation preserves the invariant.
LEMMA StepIInv == IInv /\ [Next]_vars => IInv'
<1> SUFFICES ASSUME IInv, [Next]_vars PROVE IInv'
  OBVIOUS
<1> USE ClockAssumption
<1>1. ASSUME NEW n \in Names, NEW f \in Table, clock_alloc(n, f) PROVE IInv'
  <2>1. TypeOK' /\ Requests'
    BY <1>1 DEF IInv, TypeOK, Requests, clock_alloc, refurbish
  <2> QED BY <1>1, <2>1, RefurbishSafe DEF IInv, TypeOK, clock_alloc
<1>2. ASSUME NEW n \in Names, NEW f \in Table, clock_lock(n, f) PROVE IInv'
  <2>1. TypeOK' /\ Requests'
    BY <1>2 DEF IInv, TypeOK, Requests, clock_lock
  <2>2. locker'.freq = f /\ sysClk' = f /\ f # 0
    BY <1>2 DEF clock_lock
  <2>3. FloorHonoured' /\ PinnedClock'
    BY <2>2 DEF FloorHonoured, PinnedClock, Locked
  <2> QED BY <2>1, <2>3 DEF IInv
<1>3. ASSUME NEW n \in Names, clock_free(n) PROVE IInv'
  <2>1. TypeOK' /\ Requests'
    BY <1>3 DEF IInv, TypeOK, Requests, clock_free, refurbish
  <2> QED BY <1>3, <2>1, RefurbishSafe DEF IInv, TypeOK, clock_free
<1>4. ASSUME NEW n \in Names, clock_unlock(n) PROVE IInv'
  <2>1. TypeOK' /\ Requests'
    BY <1>4 DEF IInv, TypeOK, Requests, clock_unlock, refurbish
  <2> QED BY <1>4, <2>1, RefurbishSafe DEF IInv, TypeOK, clock_unlock
<1>5. ASSUME clock_refurbish_task \/ RunPosted PROVE IInv'
  <2>1. refurbish /\ UNCHANGED <<items, locker>>
    BY <1>5 DEF clock_refurbish_task, RunPosted
  <2>2. posted' \in 0 .. MaxPosted
    BY <1>5 DEF IInv, TypeOK, clock_refurbish_task, RunPosted
  <2>3. TypeOK' /\ Requests'
    BY <2>1, <2>2 DEF IInv, TypeOK, Requests, refurbish
  <2> QED BY <2>1, <2>3, RefurbishSafe DEF IInv, TypeOK
<1>6. ASSUME clock_refurbish_irq PROVE IInv'
  BY <1>6 DEF clock_refurbish_irq, IInv, TypeOK, Requests,
              FloorHonoured, PinnedClock, Locked, Capped
<1>7. ASSUME clk_ref_fun PROVE IInv'
  <2>0. UNCHANGED <<items, locker, posted>> /\ timer' \in BOOLEAN
    BY <1>7 DEF clk_ref_fun, IInv, TypeOK
  <2>1. refCnt' \in 0 .. Periods
    <3>1. Periods \in Nat /\ refCnt \in 0 .. Periods
      BY DEF IInv, TypeOK
    <3>2. CASE refCnt < Periods /\ refCnt' = refCnt + 1
      BY <3>1, <3>2
    <3>3. CASE refCnt' = refCnt
      BY <3>1, <3>3
    <3> QED BY <1>7, <3>2, <3>3 DEF clk_ref_fun
  <2>2. CASE clk_ref_cal
    BY <2>0, <2>1, <2>2, CalibrationSafe DEF IInv, TypeOK, Requests
  <2>3. CASE UNCHANGED <<sysClk, step>>
    BY <2>0, <2>1, <2>3
       DEF IInv, TypeOK, Requests, FloorHonoured, PinnedClock, Locked, Capped
  <2> QED BY <1>7, <2>2, <2>3 DEF clk_ref_fun, UsageUnknown
<1>8. CASE UNCHANGED vars
  BY <1>8 DEF vars, IInv, TypeOK, Requests, FloorHonoured, PinnedClock, Locked, Capped
<1> QED
  BY <1>1, <1>2, <1>3, <1>4, <1>5, <1>6, <1>7, <1>8 DEF Next

\* Requests, pin, calibration and posted calls keep their types for any clients and table:
\* the counters of clk_ref_fun and the bound of the posted calls in particular.
THEOREM ClockTypes == Spec => []TypeOK
<1>1. IInv => TypeOK
  BY DEF IInv
<1> QED BY InitIInv, StepIInv, <1>1, PTL DEF Spec

\* In every reachable state the clock honours each client's request, and a
\* pinned clock is at its owner's frequency or at full speed.
THEOREM ClockSafety == Spec => []SpeedHonoured
<1>1. IInv => SpeedHonoured
  BY DEF IInv, SpeedHonoured
<1> QED BY InitIInv, StepIInv, <1>1, PTL DEF Spec

\* No step hands a pinned clock to another owner or another frequency.
THEOREM PinIsNotStolen == Spec => PinNotStolen
<1>1. IInv /\ Next => (Locked /\ Locked' => locker' = locker)
  <2> SUFFICES ASSUME IInv, Next, Locked, Locked' PROVE locker' = locker
    OBVIOUS
  <2>1. ASSUME NEW n \in Names, clock_unlock(n) PROVE FALSE
    BY <2>1 DEF clock_unlock, Locked, IInv, TypeOK
  <2>2. ASSUME NEW n \in Names, NEW f \in Table, clock_lock(n, f) PROVE FALSE
    BY <2>2 DEF clock_lock
  <2> QED
    BY <2>1, <2>2 DEF Next, clock_alloc, clock_free, clock_refurbish_task,
                      clock_refurbish_irq, RunPosted, clk_ref_fun
<1>2. IInv /\ [Next]_vars => [Locked /\ Locked' => locker' = locker]_vars
  BY <1>1
<1> QED BY InitIInv, StepIInv, <1>2, PTL DEF Spec, PinNotStolen
=============================================================================
