----------------------------- MODULE BudCharge -----------------------------
(***************************************************************************)
(* One earbud and its charging case: the charger driver (cpu/br52/charge/  *)
(* charge.c), what the application does with its events (earphone/battery/ *)
(* charge.c), the watch on the battery (battery_level.c), and how these    *)
(* decide with start-up (app_main.c, power_on.c), soft power-off (tws_     *)
(* poweroff.c, in detail in TwsPoweroff) and the idle mode (idle.c)        *)
(* whether the bud plays, charges or is off.  CHARGE_POWERON_EN = 0,       *)
(* CHARGE_OFF_POWERON_EN = 1, no charge store: the build of sdk_config.h.  *)
(*                                                                         *)
(* The timers of the driver and of the battery run beside app_core, which  *)
(* handles their messages one at a time.                                   *)
(***************************************************************************)
EXTENDS Naturals, Sequences, SequencesExt

CONSTANTS
  Filter,      \* ticks a level of the line must be seen: on, keep, off + 20
  LowLimit,    \* readings below the limit before power-off: 6 in the code
  Happenings,  \* which of the rarer events may occur
  MaxQueue     \* bound: messages waiting when a timer posts another one

\* LDOIN above the battery; between 0.6 V and the battery; below 0.6 V.
Lines == {"in", "keep", "off"}

ASSUME ChargeAssumption ==
  /\ Filter \in [Lines -> Nat]
  /\ LowLimit \in Nat /\ MaxQueue \in Nat
  /\ Happenings \subseteq {"key", "keep", "boot", "late", "stuck", "again"}

VARIABLES
  line,  \* LVCMP_DET and LDO5V_DET
  edge,  \* an edge of the line is on its way through the 16 ms port filter
  cell,  \* what the ADC and the full-charge comparator say of the battery
  pinr,  \* level of LDO5V_DET that resets the chip after 8 s, in the P33 domain
  s      \* the program, see Program

vars == <<line, edge, cell, pinr, s>>

Reasons == {"NORMAL", "RESET", "POWER_KEEP"}
Waits == {"wait_tws_detach_handler", "wait_exit_btstack_flag"}
Timer(cb, why) == [cb |-> cb, why |-> why]
Messages == {"IN", "KEEP", "OFF", "FULL", "LOW", "GOTO_IDLE", "GOTO_BT", "SOFT_POWEROFF"}

Program ==
  [power : {"off", "booting", "on"},
   why : {"soft", "line", "key", "pinr"},  \* what started the chip
   mode : {"poweron", "bt", "idle"},
   flag : BOOLEAN,                         \* goto_poweroff_flag
   detach : Seq([cb : Waits, why : Reasons]), \* timers of power-offs, as they were armed
   handle : BOOLEAN,                       \* g_bt_detach_timer names the last of them
   retried : BOOLEAN,                      \* an exit of Bluetooth mode or a power cut was put off
   tone : {"none", "power_on", "power_off"},
   charge_event_flag : BOOLEAN, charge_online_flag : BOOLEAN,
   charge_flag : Lines \cup {"none"}, ldo5v_timer : BOOLEAN,
   cnt : [Lines -> Nat],                   \* ldo5v_on_cnt, ldo5v_keep_cnt, ldo5v_off_cnt
   charging : BOOLEAN,                     \* CHARGE_EN
   chgfl : BOOLEAN,                        \* IO_CHGFL_DET wakes
   charge_timer : BOOLEAN, cc_timer : BOOLEAN, charge_full_flag : BOOLEAN,
   slow : BOOLEAN, fast : BOOLEAN,         \* vbat_slow_timer, vbat_fast_timer
   low_power_cnt : Nat, lowpower : BOOLEAN, \* cur_bat_st = VBAT_LOWPOWER
   low : BOOLEAN,                          \* cur_battery_voltage, as last measured
   pulled : BOOLEAN,                       \* history: the charger left during a power-off
   lost : BOOLEAN,                         \* history: idle mode threw an event of the line away
   queue : Seq(Messages)]

TypeOK ==
  /\ line \in Lines /\ edge \in BOOLEAN /\ cell \in {"low", "good", "full"}
  /\ pinr \in BOOLEAN /\ s \in Program

\* RAM after a reset, bss cleared.
Blank ==
  [power |-> "off", why |-> "soft", mode |-> "poweron", flag |-> FALSE, detach |-> << >>,
   handle |-> FALSE, retried |-> FALSE, tone |-> "none", charge_event_flag |-> FALSE,
   charge_online_flag |-> FALSE, charge_flag |-> "none", ldo5v_timer |-> FALSE,
   cnt |-> [l \in Lines |-> 0], charging |-> FALSE, chgfl |-> FALSE, charge_timer |-> FALSE,
   cc_timer |-> FALSE, charge_full_flag |-> FALSE, slow |-> FALSE, fast |-> FALSE,
   low_power_cnt |-> 0, lowpower |-> FALSE, low |-> FALSE, pulled |-> FALSE, lost |-> FALSE,
   queue |-> << >>]

get_lvcmp_det == line = "in"
get_ldo5v_online_hw == line # "off"

post(t, m) == [t EXCEPT !.queue = Append(@, m)]
Room == Len(s.queue) < MaxQueue

-----------------------------------------------------------------------------
(* Reset, power cut and start-up. *)

\* power_early_flowing re-arms the long-press reset; charge_init reads the line.
Boot(why) ==
  /\ pinr' = TRUE /\ edge' = FALSE
  /\ s' = [Blank EXCEPT !.power = "booting", !.why = why,
             !.charge_online_flag = get_ldo5v_online_hw,
             !.ldo5v_timer = get_ldo5v_online_hw,
             !.charge_flag = IF get_ldo5v_online_hw THEN "none" ELSE "off"]
  /\ UNCHANGED <<line, cell>>

cpu_reset == Boot("soft")

\* The level of the long-press reset and an edge not yet through survive.
power_set_soft_poweroff(level) ==
  /\ s' = [Blank EXCEPT !.lost = s.lost] /\ pinr' = level
  /\ UNCHANGED <<line, edge, cell>>

PowerKey == "key" \in Happenings /\ s.power = "off" /\ Boot("key")

vbat_check_init(t) == [t EXCEPT !.slow = TRUE, !.fast = TRUE]
vbat_timer_delete(t) == [t EXCEPT !.slow = FALSE, !.fast = FALSE]

\* app_task_init: check_power_on_voltage, app_poweron_check; the power-on tone.
AppTaskInit ==
  /\ s.power = "booting"
  /\ LET up == vbat_check_init([s EXCEPT !.power = "on", !.why = "soft",
                                       !.charge_event_flag = TRUE]) IN
     \/ /\ s.charge_online_flag
        /\ s' = [up EXCEPT !.mode = "idle"]
        /\ UNCHANGED <<line, edge, cell, pinr>>
     \/ /\ ~s.charge_online_flag /\ cell # "low" /\ s.why # "pinr"
        /\ s' = [up EXCEPT !.mode = "poweron", !.tone = "power_on"]
        /\ UNCHANGED <<line, edge, cell, pinr>>
     \/ /\ ~s.charge_online_flag
        /\ cell = "low" \/ s.why \in {"key", "pinr"}  \* a key released too soon, or none
        /\ power_set_soft_poweroff(pinr)

-----------------------------------------------------------------------------
(* Soft power-off of this bud. *)

\* sys_enter_soft_poweroff, which overwrites the handle of a timer still armed.
Enter(t, why) ==
  IF t.flag THEN t
  ELSE [t EXCEPT !.flag = TRUE, !.detach = Append(@, Timer("wait_tws_detach_handler", why)),
                      !.handle = TRUE]

PowerOffKey ==
  /\ "key" \in Happenings /\ s.power = "on" /\ s.mode = "bt" /\ ~s.flag
  /\ s.pulled => "again" \in Happenings /\ Len(s.detach) < 2  \* bound
  /\ s' = Enter(s, "NORMAL")
  /\ UNCHANGED <<line, edge, cell, pinr>>

\* Power is cut only if the case still holds the line between its levels.
app_charge_power_off_keep_mode(level) ==
  IF ~get_lvcmp_det /\ get_ldo5v_online_hw /\ s.charge_online_flag
  THEN power_set_soft_poweroff(level)
  ELSE cpu_reset

\* sys_timer_del(g_bt_detach_timer), whichever timer calls it.
DropHandle == IF s.handle THEN [s EXCEPT !.detach = Front(@), !.handle = FALSE] ELSE s

wait_tws_detach_handler(why) ==
  /\ s' = [DropHandle EXCEPT !.detach = Append(@, Timer("wait_exit_btstack_flag", why)),
                             !.handle = TRUE]
  /\ UNCHANGED <<line, edge, cell, pinr>>

wait_exit_btstack_flag(why) ==
  CASE why = "NORMAL" -> /\ Room
                         /\ s' = post(DropHandle, "GOTO_IDLE")
                         /\ UNCHANGED <<line, edge, cell, pinr>>
    [] why = "RESET" -> cpu_reset
    [] why = "POWER_KEEP" -> app_charge_power_off_keep_mode(pinr)

DetachStep ==
  /\ s.power = "on"
  /\ \E i \in DOMAIN s.detach :
       LET t == s.detach[i] IN
       IF t.cb = "wait_tws_detach_handler" THEN wait_tws_detach_handler(t.why)
       ELSE wait_exit_btstack_flag(t.why)

\* goto_poweroff_cnt runs out.
DetachTimeout == "stuck" \in Happenings /\ s.power = "on" /\ s.detach # << >> /\ cpu_reset

-----------------------------------------------------------------------------
(* The line and the battery. *)

LineMoves ==
  /\ \E l \in Lines \ {line} :
       /\ l = "keep" => "keep" \in Happenings
       /\ line' = l
  /\ s.power = "booting" => "boot" \in Happenings
  /\ s.pulled => "again" \in Happenings /\ Len(s.detach) < 2  \* bound
  /\ edge' = TRUE
  /\ UNCHANGED <<cell, pinr, s>>

\* ldoin_wakeup_isr; while the power is cut the edge starts the chip.
LineWakes ==
  /\ edge
  /\ IF s.power = "off" THEN Boot("line")
     ELSE /\ edge' = FALSE
          /\ s' = [s EXCEPT !.ldo5v_timer = TRUE]
          /\ UNCHANGED <<line, cell, pinr>>

LineEvents == {"IN", "KEEP", "OFF"}
Waiting(m) == \E i \in DOMAIN s.queue : s.queue[i] = m

\* The long-press reset, eight seconds after the level was reached: later than the filters.
PinrReset ==
  /\ pinr = get_ldo5v_online_hw /\ ~edge
  /\ \/ s.power = "off"
     \/ s.power = "on" /\ ~s.ldo5v_timer /\ \A m \in LineEvents : ~Waiting(m)
  /\ Boot("pinr")

\* In hours: not while an event of the line or a full battery is on its way.
CellFalls ==
  /\ s.power = "on" /\ ~(s.charging /\ line = "in")
  /\ ~edge /\ ~s.ldo5v_timer /\ s.queue = << >> /\ ~s.charge_full_flag
  /\ \/ cell = "full" /\ line # "in" /\ cell' = "good"
     \/ cell = "good" /\ cell' = "low"
  /\ UNCHANGED <<line, edge, pinr, s>>

CellRises ==
  /\ s.power = "on" /\ s.charging /\ line = "in"
  /\ \/ cell = "low" /\ cell' = "good"
     \/ cell = "good" /\ cell' = "full"
  /\ UNCHANGED <<line, edge, pinr, s>>

-----------------------------------------------------------------------------
(* Timers of the driver. *)

\* Mutant: the level itself for a message.
Event_Raw(l) == l

Event(l) == CASE l = "in" -> "IN" [] l = "keep" -> "KEEP" [] l = "off" -> "OFF"

\* Mutant: charge_flag is not written.
Accept_NoFlag(t, l) ==
  LET seen == [t EXCEPT !.charge_online_flag = l # "off",
                        !.cnt = [k \in Lines |-> IF k = l THEN t.cnt[l] ELSE 0]]
  IN  IF ~t.charge_event_flag THEN seen
      ELSE IF t.charge_flag = l THEN [seen EXCEPT !.cnt[l] = 0, !.ldo5v_timer = FALSE]
      ELSE post([seen EXCEPT !.cnt[l] = 0, !.ldo5v_timer = FALSE], Event(l))

\* The filter of level l has run out: the counters of the others start again, its own
\* only when the application takes events.
Accept(t, l) ==
  LET seen == [t EXCEPT !.charge_online_flag = l # "off",
                        !.cnt = [k \in Lines |-> IF k = l THEN t.cnt[l] ELSE 0]]
      told == [seen EXCEPT !.cnt[l] = 0, !.ldo5v_timer = FALSE, !.charge_flag = l]
  IN  IF ~t.charge_event_flag THEN seen
      ELSE IF t.charge_flag = l THEN told ELSE post(told, Event(l))

ldo5v_detect ==
  /\ s.power \in {"booting", "on"} /\ s.ldo5v_timer
  /\ Room
  /\ line = "in" /\ s.cnt[line] >= Filter[line] /\ Waiting("OFF") => "late" \in Happenings
  /\ s' = IF s.cnt[line] < Filter[line] THEN [s EXCEPT !.cnt[line] = @ + 1] ELSE Accept(s, line)
  /\ UNCHANGED <<line, edge, cell, pinr>>

Full == s.charging /\ line = "in" /\ cell = "full"

\* charge_wakeup_isr
FullEdge ==
  /\ s.power = "on" /\ s.chgfl /\ Full
  /\ s' = [s EXCEPT !.charge_timer = TRUE]
  /\ UNCHANGED <<line, edge, cell, pinr>>

charge_full_detect ==
  /\ s.power = "on" /\ s.charge_timer
  /\ LET done == [s EXCEPT !.charge_timer = FALSE] IN
     IF Full THEN /\ Room
                  /\ Waiting("OFF") => "late" \in Happenings
                  /\ s' = post([done EXCEPT !.chgfl = FALSE], "FULL")
     ELSE s' = done
  /\ UNCHANGED <<line, edge, cell, pinr>>

charge_cc_check ==
  /\ s.power = "on" /\ s.cc_timer /\ cell # "low"
  /\ s' = [s EXCEPT !.cc_timer = FALSE, !.chgfl = TRUE, !.charge_timer = TRUE]
  /\ UNCHANGED <<line, edge, cell, pinr>>

charge_start(t) ==
  [t EXCEPT !.charging = TRUE, !.charge_timer = cell = "full" /\ line = "in",
            !.chgfl = @ \/ cell # "low", !.cc_timer = @ \/ cell = "low"]

charge_close(t) ==
  [t EXCEPT !.charging = FALSE, !.chgfl = FALSE, !.charge_timer = FALSE, !.cc_timer = FALSE]

-----------------------------------------------------------------------------
(* The watch on the battery. *)

vbat_check_slow ==
  /\ s.power = "on" /\ s.slow /\ ~s.fast
  /\ s' = [s EXCEPT !.fast = TRUE]
  /\ UNCHANGED <<line, edge, cell, pinr>>

\* One average of six measurements.  A battery that recovers counts as normal only after
\* three of them, so lowpower may stay.
vbat_check ==
  /\ s.power = "on" /\ s.fast /\ Room
  /\ LET t == [s EXCEPT !.low = cell = "low"]
         slower(r) == [r EXCEPT !.fast = r.lowpower]
         count == s.low_power_cnt + 1
     IN  IF s.charge_online_flag THEN s' = slower(t)
         ELSE IF cell # "low"
              THEN \E l \in {s.lowpower, FALSE} :
                     s' = slower([t EXCEPT !.low_power_cnt = 0, !.lowpower = l])
         ELSE IF count > LowLimit
              THEN s' = post([t EXCEPT !.low_power_cnt = 0, !.lowpower = TRUE, !.fast = FALSE], "LOW")
         ELSE s' = [t EXCEPT !.low_power_cnt = count, !.lowpower = TRUE]
  /\ UNCHANGED <<line, edge, cell, pinr>>

-----------------------------------------------------------------------------
(* Messages of app_core. *)

Took(m) == s.power = "on" /\ s.queue # << >> /\ Head(s.queue) = m
Rest == [s EXCEPT !.queue = Tail(@)]

\* Mutant: charging starts in any mode.
LineIn_AnyMode ==
  /\ Took("IN")
  /\ LET t == charge_start([Rest EXCEPT !.charge_full_flag = FALSE]) IN
     IF s.mode = "idle" /\ s.flag THEN cpu_reset
     ELSE /\ pinr' = FALSE
          /\ s' = IF s.mode = "idle" THEN t ELSE Enter(t, "RESET")
          /\ UNCHANGED <<line, edge, cell>>

\* charge_ldo5v_in_deal
LineIn ==
  /\ Took("IN")
  /\ LET t == [Rest EXCEPT !.charge_full_flag = FALSE] IN
     IF s.mode = "idle" /\ s.flag THEN cpu_reset
     ELSE /\ pinr' = FALSE
          /\ s' = IF s.mode = "idle" THEN charge_start(t) ELSE Enter(t, "RESET")
          /\ UNCHANGED <<line, edge, cell>>

\* Mutant: Bluetooth mode is not entered.
LineOff_Stays ==
  /\ Took("OFF")
  /\ LET t == vbat_check_init(charge_close([Rest EXCEPT !.charge_full_flag = FALSE]))
         on == [t EXCEPT !.flag = FALSE, !.pulled = @ \/ s.flag]
     IN  IF ~s.flag /\ s.mode # "bt" /\ (s.low \/ cell = "low")
         THEN power_set_soft_poweroff(TRUE)
         ELSE /\ s' = on
              /\ pinr' = TRUE
              /\ UNCHANGED <<line, edge, cell>>

\* Mutant: the watch on the battery is not started again.
LineOff_Unwatched ==
  /\ Took("OFF")
  /\ LET t == charge_close([Rest EXCEPT !.charge_full_flag = FALSE])
         on == [t EXCEPT !.flag = FALSE, !.pulled = @ \/ s.flag]
     IN  IF ~s.flag /\ s.mode # "bt" /\ (s.low \/ cell = "low")
         THEN power_set_soft_poweroff(TRUE)
         ELSE /\ s' = IF s.mode = "idle" THEN post(on, "GOTO_BT") ELSE on
              /\ pinr' = TRUE
              /\ UNCHANGED <<line, edge, cell>>

\* charge_ldo5v_off_deal, and app_power_event_handler of the same message.
LineOff ==
  /\ Took("OFF")
  /\ LET t == vbat_check_init(charge_close([Rest EXCEPT !.charge_full_flag = FALSE]))
         on == [t EXCEPT !.flag = FALSE, !.pulled = @ \/ s.flag]
     IN  IF ~s.flag /\ s.mode # "bt" /\ (s.low \/ cell = "low")
         THEN power_set_soft_poweroff(TRUE)
         ELSE /\ s' = IF s.mode = "idle" THEN post(on, "GOTO_BT") ELSE on
              /\ pinr' = TRUE
              /\ UNCHANGED <<line, edge, cell>>

\* ldo5v_keep_deal
LineKeep ==
  /\ Took("KEEP")
  /\ IF s.mode = "idle" THEN app_charge_power_off_keep_mode(FALSE)
     ELSE /\ s' = Enter(charge_close(Rest), "POWER_KEEP")
          /\ pinr' = FALSE
          /\ UNCHANGED <<line, edge, cell>>

\* charge_full_deal
ChargeFull ==
  /\ Took("FULL")
  /\ s' = vbat_timer_delete(charge_close([Rest EXCEPT !.charge_full_flag = TRUE]))
  /\ UNCHANGED <<line, edge, cell, pinr>>

\* POWER_EVENT_POWER_LOW
PowerLow ==
  /\ Took("LOW")
  /\ IF s.mode = "idle" THEN power_set_soft_poweroff(pinr)
     ELSE /\ s' = Enter(vbat_timer_delete(Rest), "NORMAL")
          /\ UNCHANGED <<line, edge, cell, pinr>>

\* The idle mode with the flag set throws away the messages that wait.  Bluetooth mode may
\* put its exit off (TwsPoweroff), here once.
GotoIdle ==
  /\ Took("GOTO_IDLE")
  /\ LET idle == [Rest EXCEPT !.mode = "idle", !.retried = FALSE] IN
     \/ s.mode = "idle" /\ s' = Rest
     \/ s.mode # "idle" /\ s' = IF s.flag THEN [idle EXCEPT !.queue = << >>, !.tone = "power_off",
                                          !.lost = \E m \in LineEvents : Waiting(m)]
                                ELSE idle
     \/ s.mode = "bt" /\ ~s.retried /\ s' = post([Rest EXCEPT !.retried = TRUE], "GOTO_IDLE")
  /\ UNCHANGED <<line, edge, cell, pinr>>

GotoBt ==
  /\ Took("GOTO_BT")
  /\ s' = [Rest EXCEPT !.mode = "bt"]
  /\ UNCHANGED <<line, edge, cell, pinr>>

ToneEnds ==
  /\ s.power = "on" /\ s.tone # "none" /\ Room
  /\ LET t == [s EXCEPT !.tone = "none"] IN
     s' = CASE s.tone = "power_off" -> post(t, "SOFT_POWEROFF")
            [] s.tone = "power_on" -> IF s.mode = "poweron" THEN post(t, "GOTO_BT") ELSE t
  /\ UNCHANGED <<line, edge, cell, pinr>>

\* Mutant: power is cut without a look at the line.
SoftPoweroff_Blind ==
  /\ Took("SOFT_POWEROFF")
  /\ IF ~(s.mode = "idle" /\ s.flag) THEN s' = Rest /\ UNCHANGED <<line, edge, cell, pinr>>
     ELSE \/ power_set_soft_poweroff(pinr)
          \/ /\ ~s.retried
             /\ s' = [Rest EXCEPT !.tone = "power_off", !.retried = TRUE]
             /\ UNCHANGED <<line, edge, cell, pinr>>

\* app_idle_enter_softoff; while the LED still shows something it is tried again
\* (for ten seconds at most, here once).
SoftPoweroff ==
  /\ Took("SOFT_POWEROFF")
  /\ IF ~(s.mode = "idle" /\ s.flag) THEN s' = Rest /\ UNCHANGED <<line, edge, cell, pinr>>
     ELSE IF get_lvcmp_det /\ ~s.charge_full_flag THEN cpu_reset
     ELSE \/ power_set_soft_poweroff(pinr)
          \/ /\ ~s.retried
             /\ s' = [Rest EXCEPT !.tone = "power_off", !.retried = TRUE]
             /\ UNCHANGED <<line, edge, cell, pinr>>

\* eSystemConfirmStopStatus: no task has anything to do.
FullSleeps ==
  /\ s.power = "on" /\ s.charge_full_flag /\ s.queue = << >>
  /\ power_set_soft_poweroff(pinr)

-----------------------------------------------------------------------------
Init ==
  /\ line = "off" /\ edge = FALSE /\ cell = "good" /\ pinr = TRUE
  /\ s = Blank

Works ==
  \/ AppTaskInit \/ LineWakes \/ ldo5v_detect \/ FullEdge \/ charge_full_detect
  \/ charge_cc_check \/ vbat_check_slow \/ vbat_check \/ DetachStep
  \/ LineIn \/ LineOff \/ LineKeep \/ ChargeFull \/ PowerLow \/ GotoIdle \/ GotoBt
  \/ ToneEnds \/ SoftPoweroff \/ FullSleeps

Next ==
  \/ Works
  \/ PowerKey \/ PowerOffKey \/ DetachTimeout
  \/ LineMoves \/ PinrReset \/ CellFalls \/ CellRises

Spec == Init /\ [][Next]_vars

\* Timers fire, messages are handled, a tone ends, the chip resets and starts, and a
\* battery that charges fills up.  Pressing keys, moving the line and running the battery
\* down are free, and nothing relies on the time-out of the detach (DetachTimeout).
Handlers == LineIn \/ LineOff \/ LineKeep \/ ChargeFull \/ PowerLow \/ GotoIdle \/ GotoBt
            \/ SoftPoweroff
Fairness ==
  /\ WF_vars(AppTaskInit) /\ WF_vars(LineWakes) /\ WF_vars(PinrReset) /\ WF_vars(FullEdge)
  /\ WF_vars(charge_cc_check) /\ WF_vars(vbat_check_slow) /\ WF_vars(FullSleeps)
  /\ WF_vars(Handlers) /\ WF_vars(CellRises)
  /\ WF_vars(ldo5v_detect) /\ WF_vars(charge_full_detect) /\ WF_vars(vbat_check)
  /\ WF_vars(DetachStep) /\ WF_vars(ToneEnds)

FairSpec == Spec /\ Fairness

-----------------------------------------------------------------------------
(* Properties. *)

\* Nothing of the line, of a mode switch or of a power-off is on its way.
Quiet ==
  /\ s.power = "on" /\ ~edge /\ ~s.ldo5v_timer /\ s.queue = << >>
  /\ s.tone = "none" /\ s.detach = << >>

\* Once quiet, what driver and application believe of the line is what it is, however it
\* bounced while the filters counted: the last event told (charge_flag, ldo5v_detect), the
\* online flag every module asks, and the level of the long-press reset, which would
\* otherwise restart a bud that plays or leave one that hangs in its case without a rescue.
\* The charger is never on without a supply, and a bud out of its case has the timer that
\* reads its battery, which a full charge and a low battery both delete.
ViewFollows ==
  Quiet => /\ s.charge_flag = line
           /\ s.charge_online_flag = get_ldo5v_online_hw
           /\ pinr = ~get_ldo5v_online_hw
           /\ s.charging => line = "in"
           /\ line = "off" => s.slow

\* Once quiet, a bud out of its case is in Bluetooth mode, a bud in its case charges or is
\* full in idle mode, none is left between two levels of the line, and no power-off is
\* half done: whatever order the plug, the key, a low battery, the power-off's timers and
\* the mode switch came in.  It does not hold when the charger was pulled during a
\* power-off, since charge_ldo5v_off_deal clears goto_poweroff_flag.
RightPlace ==
  Quiet /\ ~s.pulled =>
    /\ ~s.flag
    /\ line = "off" => s.mode = "bt"
    /\ line = "in" => s.mode = "idle" /\ (s.charging \/ s.charge_full_flag)
    /\ line # "keep"

\* The charger is on in idle mode only: charging with Bluetooth on would heat the cell and
\* keep the bud connected in a closed case.  Every way from idle mode to Bluetooth mode,
\* the message posted by an earlier removal included, has closed the charger before.
ChargesOnlyIdle == s.charging /\ ~s.pulled => s.mode = "idle"

\* A bud that stays in its case ends up charging, and if it is off then because it is full.
\* A power-off that was under way when it was put in must find the supply and start again
\* (app_idle_enter_softoff, app_charge_power_off_keep_mode), or an edge must wake the chip.
\* It does not hold where idle mode threw the event of the line away (os_taskq_flush).
InCaseCharges ==
  <>[](line = "in" /\ ~s.pulled /\ ~s.lost) =>
    []<>(\/ s.power = "on" /\ s.mode = "idle" /\ s.charging
         \/ s.power = "off" /\ cell = "full")

\* A bud out of its case with a low battery does not stay on: the readings are counted and
\* the power-off they ask for ends, also after a charge deleted the timers.
LowEnds == <>[](line = "off" /\ cell = "low" /\ ~s.pulled) => []<>(s.power = "off")
=============================================================================
