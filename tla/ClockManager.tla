---------------------------- MODULE ClockManager ----------------------------
(***************************************************************************)
(* The system clock arbiter (apps/common/clock_manager/clock_manager.c).   *)
(* Clients register the frequency they need, one owner may pin the clock,  *)
(* and a periodic timer re-calibrates the clock for a bounded number of    *)
(* periods after every change.  Every entry point runs under clk_mutex,    *)
(* so each is one atomic action; only clock_refurbish may be deferred,     *)
(* through the message queue of app_core, when interrupts are off.         *)
(***************************************************************************)
EXTENDS Naturals

CONSTANTS
  Names,      \* client names (their JBHash)
  Table,      \* clock_table: the frequencies the PLL can be asked for
  MinFreq,    \* CLOCK_MINIMUM_FREQ
  MaxFreq,    \* CLOCK_MAXIMUM_FREQ = clk_get_max_frequency()
  Periods,    \* CLOCK_DETECT_COUNTER
  MaxPosted,  \* bound: callbacks waiting in the queue of app_core
  NoName      \* owner recorded before the first lock

ASSUME ClockAssumption ==
  /\ Table \subseteq Nat \ {0}
  /\ MinFreq \in Table /\ MaxFreq \in Table /\ MinFreq <= MaxFreq
  /\ Periods \in Nat \ {0}
  /\ MaxPosted \in Nat
  /\ NoName \notin Names

VARIABLES
  items,    \* clk_mgr_head: frequency asked for by each name, 0 if not listed
  locker,   \* clk_locker: freq 0 means unlocked
  sysClk,   \* what clk_set_api("sys", _) last set
  refCnt,   \* ref_cnt: calibrations done since the last refurbish
  step,     \* clk_adjust_step
  timer,    \* clk_ref_timer armed
  posted    \* clock_refurbish callbacks queued for app_core

vars == <<items, locker, sysClk, refCnt, step, timer, posted>>

Capped(f) == IF f > MaxFreq THEN MaxFreq ELSE f

Locked == locker.freq # 0

Init ==
  /\ items = [n \in Names |-> 0]
  /\ locker = [freq |-> 0, name |-> NoName]
  /\ sysClk \in Table
  /\ refCnt = 0 /\ step = 0 /\ timer = FALSE /\ posted = 0

\* clock_refurbish in task context: full speed, then a fresh calibration window.
refurbish ==
  /\ sysClk' = MaxFreq
  /\ refCnt' = 0
  /\ step' = 0
  /\ timer' = TRUE

clock_alloc(n, f) ==
  /\ items[n] = 0
  /\ items' = [items EXCEPT ![n] = f]
  /\ refurbish
  /\ UNCHANGED <<locker, posted>>

\* Freeing a name that is not listed still refurbishes.
clock_free(n) ==
  /\ items' = [items EXCEPT ![n] = 0]
  /\ refurbish
  /\ UNCHANGED <<locker, posted>>

\* Mutant: a second client may lock over the first.
clock_lock_Steals(n, f) ==
  /\ locker' = [freq |-> f, name |-> n]
  /\ sysClk' = f
  /\ UNCHANGED <<items, refCnt, step, timer, posted>>

clock_lock(n, f) ==
  /\ ~Locked
  /\ locker' = [freq |-> f, name |-> n]
  /\ sysClk' = f
  /\ UNCHANGED <<items, refCnt, step, timer, posted>>

\* clk_locker.name survives the unlock; only freq says that it is held.
clock_unlock(n) ==
  /\ Locked
  /\ locker.name = n
  /\ locker' = [locker EXCEPT !.freq = 0]
  /\ refurbish
  /\ UNCHANGED <<items, posted>>

clock_refurbish_task ==
  /\ refurbish
  /\ UNCHANGED <<items, locker, posted>>

\* With interrupts off the call only queues itself on app_core.
clock_refurbish_irq ==
  /\ posted < MaxPosted
  /\ posted' = posted + 1
  /\ UNCHANGED <<items, locker, sysClk, refCnt, step, timer>>

RunPosted ==
  /\ posted > 0
  /\ posted' = posted - 1
  /\ refurbish
  /\ UNCHANGED <<items, locker>>

\* clock_list_sum: the largest request, never below the minimum.
IsFloor(f) ==
  /\ f \in {MinFreq} \cup {items[n] : n \in Names}
  /\ f >= MinFreq
  /\ \A n \in Names : items[n] <= f

\* clk_adjust_step and the frequency the measured load asks for: any table
\* entry when the load is outside the band, the present clock inside it.
Adjust(dest) ==
  \/ step = 0 /\ dest \in Table /\ step' = 1
  \/ step = 1 /\ dest \in Table /\ step' = 1
  \/ step = 1 /\ dest = sysClk /\ step' = 2
  \/ step = 2 /\ dest = sysClk /\ step' = 2
  \/ step = 2 /\ dest \in Table /\ step' = 1

\* Mutants: the clients' floor, or the owner's pin, is not looked at.
clk_ref_cal_NoFloor ==
  \E dest \in Table \cup {sysClk} :
    Adjust(dest) /\ sysClk' = Capped(IF Locked THEN locker.freq ELSE dest)
clk_ref_cal ==
  \E floor \in {MinFreq} \cup {items[n] : n \in Names}, dest \in Table \cup {sysClk} :
    /\ IsFloor(floor)
    /\ Adjust(dest)
    /\ sysClk' = Capped(IF Locked THEN locker.freq
                        ELSE IF dest < floor THEN floor ELSE dest)

\* os_cpu_usage may fail: the period is counted but nothing is calibrated.
UsageUnknown == UNCHANGED <<sysClk, step>>

\* Mutants: one period too many; the timer is never deleted.
clk_ref_fun_OneMore ==
  /\ timer
  /\ \/ /\ refCnt <= Periods /\ refCnt' = refCnt + 1 /\ timer' = timer
        /\ clk_ref_cal \/ UsageUnknown
     \/ refCnt > Periods /\ timer' = FALSE /\ UNCHANGED <<sysClk, step, refCnt>>
  /\ UNCHANGED <<items, locker, posted>>
clk_ref_fun_NeverStops ==
  /\ timer
  /\ refCnt' = IF refCnt < Periods THEN refCnt + 1 ELSE refCnt
  /\ clk_ref_cal \/ UsageUnknown
  /\ UNCHANGED <<items, locker, timer, posted>>

clk_ref_fun ==
  /\ timer
  /\ \/ /\ refCnt < Periods
        /\ refCnt' = refCnt + 1
        /\ clk_ref_cal \/ UsageUnknown
        /\ timer' = timer
     \/ /\ refCnt >= Periods
        /\ timer' = FALSE
        /\ UNCHANGED <<sysClk, step, refCnt>>
  /\ UNCHANGED <<items, locker, posted>>

Next ==
  \/ \E n \in Names, f \in Table : clock_alloc(n, f) \/ clock_lock(n, f)
  \/ \E n \in Names : clock_free(n) \/ clock_unlock(n)
  \/ clock_refurbish_task
  \/ clock_refurbish_irq
  \/ RunPosted
  \/ clk_ref_fun

\* app_core drains its queue and the system timer task keeps running.
Fairness == WF_vars(RunPosted) /\ WF_vars(clk_ref_fun)

Spec == Init /\ [][Next]_vars /\ Fairness

-----------------------------------------------------------------------------
TypeOK ==
  /\ items \in [Names -> Nat]
  /\ locker \in [freq : Nat, name : Names \cup {NoName}]
  /\ sysClk \in Nat
  /\ refCnt \in 0 .. Periods
  /\ step \in 0 .. 2
  /\ timer \in BOOLEAN
  /\ posted \in 0 .. MaxPosted

\* The clock never runs below what a registered client asked for, as far as
\* the chip can go, unless an owner has pinned it (clock_alloc, clk_ref_cal).
FloorHonoured ==
  ~Locked => \A n \in Names : sysClk >= Capped(items[n])

\* While it is pinned the clock is at the owner's frequency, or at full speed
\* after a client changed the load and until the next calibration.
PinnedClock ==
  Locked => sysClk \in {locker.freq, Capped(locker.freq), MaxFreq}

\* Both together: the speed is what the clients, or the owner of the pin, may rely on.
SpeedHonoured == FloorHonoured /\ PinnedClock

\* A pinned clock is released by its owner only: nobody takes it over
\* (clock_lock and clock_unlock).
PinNotStolen ==
  [][Locked /\ Locked' => locker' = locker]_vars

\* The calibration timer does not run for ever: unless clients keep changing
\* the load it deletes itself (clk_ref_fun, ref_cnt).
CalibrationEnds ==
  ([]<><<refCnt' = 0>>_vars) \/ ([]<>~timer)
=============================================================================
