---------------------------- MODULE TwsPoweroff ----------------------------
(***************************************************************************)
(* Soft power-off of a pair of earbuds (apps/earphone/mode/bt/             *)
(* tws_poweroff.c), from the auto-off timer or the key to the moment when  *)
(* each bud cuts its power: the synchronous call that starts it on both    *)
(* buds, the 50 ms timer that waits for the phones, the sibling and the    *)
(* players, the tone both buds play together, the mode switch to idle with *)
(* its retries (app_main.c, earphone.c) and the idle mode (idle.c).        *)
(*                                                                         *)
(* Handlers and timers of one bud run in its task app_core, one at a time; *)
(* the two buds run side by side.                                          *)
(***************************************************************************)
EXTENDS Naturals, Sequences, FiniteSets, SequencesExt

CONSTANTS
  Buds,         \* the two earbuds
  BusyLimit,    \* ticks a power-off waits for the players: 200 in the code
  DetachLimit,  \* ticks it waits for the sibling to detach: 300 in the code
  Happenings,   \* which of the rarer events may occur
  MaxQueue      \* bound: messages waiting in one app_core

ASSUME PoweroffAssumption ==
  /\ \E l, r \in Buds : l # r /\ Buds = {l, r}
  /\ BusyLimit \in Nat /\ DetachLimit \in Nat /\ MaxQueue \in Nat
  /\ Happenings \subseteq 
       {"key", "lowpower", "charger", "roles", "alone", "audio"}

VARIABLES
  bud,     \* what the program of each bud keeps, see Bud
  linked,  \* TWS_STA_SIBLING_CONNECTED
  master,  \* the master of the pair while linked
  phone,   \* TWS_STA_PHONE_CONNECTED, as each bud sees it
  due      \* <<c, b>>: the synchronous call of c has still to run on b

vars == <<bud, linked, master, phone, due>>

Partner(b) == CHOOSE c \in Buds : c # b
IsMaster(b) == ~linked \/ master = b

Reasons == {"NORMAL", "NORMAL_TWS", "RESET", "POWER_KEEP"}
Waits == {"power_off_at_same_time", "wait_tws_detach_handler", "wait_exit_btstack_flag"}

Gotos == {"PLAY_POWEROFF", "POWEROFF"}
Msg(ev, phoneOn) == [ev |-> ev, phone |-> phoneOn]
Messages == [ev : Gotos \cup {"SOFT_POWEROFF", "FIRST_CONNECTED", "MONITOR_START",
                              "TWS_CONNECTED", "IN_PAIRING_MODE"}, phone : BOOLEAN]

Bud == [mode : {"bt", "idle", "off", "reset"},  \* current mode; power cut; rebooted
        reason : Reasons \cup {"none"},         \* goto_poweroff_flag and why it is set
        auto : {"none", "armed", "stale"},      \* g_poweroff_timer
        detach : Waits \cup {"none"},           \* callback of g_bt_detach_timer
        cnt : Nat,                              \* goto_poweroff_cnt
        fallback : BOOLEAN,                     \* tws_slave_power_off is armed
        tone : BOOLEAN,                         \* the synchronous power-off tone is on
        goodbye : BOOLEAN,                      \* the power-off tone of the idle mode is on
        wait_exit : 0 .. 4, exiting : BOOLEAN,  \* g_bt_hdl
        retries : Nat,                          \* retry_goto_mode timers armed
        retryMsg : {"none", "PLAY_POWEROFF", "POWEROFF"},  \* g_mode_switch_msg
        playing : BOOLEAN,                      \* a2dp_player_runing() or esco_player_runing()
        busy : BOOLEAN,                         \* a call or Siri: bt_app_exit_check() = 0
        queue : Seq(Messages)]                  \* app_core messages not handled yet

goto_poweroff_flag(s) == s.reason # "none"
Running(s) == s.mode \in {"bt", "idle"}

app_send_message(s, m) == [s EXCEPT !.queue = Append(@, m)]

\* APP_MSG_GOTO_MODE to the idle mode, which plays the tone itself or not.
GotoIdle(s, arg) == app_send_message(s, Msg(arg, FALSE))
SendSoftPoweroff(s) == app_send_message(s, Msg("SOFT_POWEROFF", FALSE))

On == [mode |-> "bt", reason |-> "none", auto |-> "armed", detach |-> "none", cnt |-> 0,
       fallback |-> FALSE, tone |-> FALSE, goodbye |-> FALSE, wait_exit |-> 0,
       exiting |-> FALSE, retries |-> 0, retryMsg |-> "none", playing |-> FALSE, busy |-> FALSE,
       queue |-> << >>]

\* All that the program kept is gone.
cpu_reset(s) == [On EXCEPT !.mode = "reset", !.auto = "none"]
power_set_soft_poweroff(s) == [On EXCEPT !.mode = "off", !.auto = "none"]

-----------------------------------------------------------------------------
(* Auto power-off. *)

sys_auto_shut_down_disable(s) == [s EXCEPT !.auto = "none"]

\* A handle that is not zero, even of a timer that has fired, is not replaced.
sys_auto_shut_down_enable(s) == [s EXCEPT !.auto = IF @ = "none" THEN "armed" ELSE @]

\* Mutant: MONITOR_START, the slave's sign of a phone, is not looked at.
AutoOffMsg_NoMonitor(s, m) ==
  CASE m.ev = "IN_PAIRING_MODE" -> IF m.phone THEN s ELSE sys_auto_shut_down_enable(s)
    [] m.ev = "FIRST_CONNECTED" -> sys_auto_shut_down_disable(s)
    [] m.ev = "TWS_CONNECTED" ->
         IF m.phone THEN s ELSE sys_auto_shut_down_enable(sys_auto_shut_down_disable(s))
    [] OTHER -> s

\* poweroff_app_event_handler, poweroff_btstack_event_handler, poweroff_tws_event_handler
AutoOffMsg(s, m) ==
  CASE m.ev = "IN_PAIRING_MODE" -> IF m.phone THEN s ELSE sys_auto_shut_down_enable(s)
    [] m.ev \in {"FIRST_CONNECTED", "MONITOR_START"} -> sys_auto_shut_down_disable(s)
    [] m.ev = "TWS_CONNECTED" ->
         IF m.phone THEN s ELSE sys_auto_shut_down_enable(sys_auto_shut_down_disable(s))
    [] OTHER -> s

\* sys_enter_soft_poweroff, once per power-on.
Enter(s, why) ==
  IF goto_poweroff_flag(s) THEN s
  ELSE [s EXCEPT !.reason = why, !.cnt = 0, !.auto = "none",
                 !.detach = IF why = "NORMAL_TWS" THEN "power_off_at_same_time"
                            ELSE "wait_tws_detach_handler"]

\* Mutant: the sibling is not told.
CallBoth_Local(b) == {<<b, b>>}

\* tws_api_sync_call_by_uuid: accepted only while linked, it runs on both buds.
CallBoth(b) == {<<b, b>>, <<b, Partner(b)>>}

\* sys_auto_shut_down_deal, for `s' what bud b keeps.
Deal(b, s) ==
  \/ linked /\ due' = due \cup CallBoth(b) /\ bud' = [bud EXCEPT ![b] = s]
  \/ bud' = [bud EXCEPT ![b] = Enter(s, "NORMAL")] /\ UNCHANGED due

AutoOff(b) ==
  /\ Running(bud[b]) /\ bud[b].auto = "armed"
  /\ Deal(b, [bud[b] EXCEPT !.auto = "stale"])
  /\ UNCHANGED <<linked, master, phone>>

\* APP_MSG_TWS_POWER_OFF
KeyPowerOff(b) ==
  /\ "key" \in Happenings
  /\ bud[b].mode = "bt" /\ bud[b].wait_exit = 0
  /\ ~goto_poweroff_flag(bud[b])
  /\ Deal(b, bud[b])
  /\ UNCHANGED <<linked, master, phone>>

SyncCall(c, b) ==
  /\ <<c, b>> \in due
  /\ due' = due \ {<<c, b>>}
  /\ bud' = IF Running(bud[b]) THEN [bud EXCEPT ![b] = Enter(@, "NORMAL_TWS")] ELSE bud
  /\ UNCHANGED <<linked, master, phone>>

\* Power-offs of one bud: the battery is low; it is put on the charger, or the
\* charger's voltage falls; a factory reset, which unpairs the buds first.
Alone(b) ==
  /\ bud[b].mode = "bt" /\ ~goto_poweroff_flag(bud[b])
  /\ \/ "lowpower" \in Happenings /\ bud' = [bud EXCEPT ![b] = Enter(@, "NORMAL")]
     \/ /\ "charger" \in Happenings
        /\ \E why \in {"RESET", "POWER_KEEP"} : bud' = [bud EXCEPT ![b] = Enter(@, why)]
     \/ /\ "alone" \in Happenings /\ ~linked
        /\ bud' = [bud EXCEPT ![b] = Enter(@, "NORMAL_TWS")]
  /\ UNCHANGED <<linked, master, phone, due>>

-----------------------------------------------------------------------------
(* The 50 ms timer. *)

\* Mutant: a power-off waits for the players for ever.
Impatient_Never(s, limit) == s

\* Count a tick of waiting; past the limit the bud reboots.
Impatient(s, limit) ==
  IF s.cnt >= limit THEN cpu_reset(s) ELSE [s EXCEPT !.cnt = @ + 1]

Stop(s) == [s EXCEPT !.detach = "none"]

\* Mutants: the slave arms no timer of its own; nobody waits for the phone.
SlaveWaits_NoFallback(s) == Stop(s)
\* "So that a slave powers off although TWS broke off": three seconds.
SlaveWaits(s) == [Stop(s) EXCEPT !.fallback = TRUE]

PhoneGone(b) == ~phone[b]

\* The tone of the master; whether it reaches the sibling is not known.
PlayTogether(b) ==
  \E reached \in BOOLEAN :
    bud' = [c \in Buds |->
              CASE c = b -> [Stop(bud[c]) EXCEPT !.tone = TRUE]
                [] c # b /\ Running(bud[c]) /\ reached -> [bud[c] EXCEPT !.tone = TRUE]
                [] OTHER -> bud[c]]

\* A tick comes 50 ms after the synchronous call ran on both buds.  With a
\* phone still connected it only repeats lmp_hci_reset, see PhoneLost.
power_off_at_same_time(b) ==
  LET s == bud[b] IN
  /\ Running(s) /\ s.detach = "power_off_at_same_time"
  /\ \A c \in Buds : <<c, Partner(b)>> \notin due
  /\ \/ s.playing /\ bud' = [bud EXCEPT ![b] = Impatient(s, BusyLimit)]
     \/ ~s.playing /\ PhoneGone(b) /\ linked /\ master = b /\ PlayTogether(b)
     \/ ~s.playing /\ PhoneGone(b) /\ linked /\ master # b
          /\ bud' = [bud EXCEPT ![b] = SlaveWaits(s)]
     \/ ~s.playing /\ PhoneGone(b) /\ ~linked
          /\ bud' = [bud EXCEPT ![b] = GotoIdle(Stop(s), "PLAY_POWEROFF")]
  /\ UNCHANGED <<linked, master, phone, due>>

wait_tws_detach_handler(b) ==
  LET s == bud[b] IN
  /\ Running(s) /\ s.detach = "wait_tws_detach_handler"
  /\ bud' = [bud EXCEPT ![b] =
               IF linked THEN Impatient(s, DetachLimit)
               ELSE [s EXCEPT !.cnt = 0, !.detach = "wait_exit_btstack_flag"]]
  /\ UNCHANGED <<linked, master, phone, due>>

\* What a bud does once its stack is reset; kept on the charger it sleeps or reboots.
Finishes(s) ==
  CASE s.reason = "NORMAL" -> {GotoIdle(s, "PLAY_POWEROFF")}
    [] s.reason = "RESET" -> {cpu_reset(s)}
    [] s.reason = "POWER_KEEP" -> {cpu_reset(s), power_set_soft_poweroff(s)}

\* lmp_hci_reset ends every link of the bud, and a call with it.
wait_exit_btstack_flag(b) ==
  LET s == bud[b] IN
  /\ Running(s) /\ s.detach = "wait_exit_btstack_flag"
  /\ \/ /\ s.playing
        /\ bud' = [bud EXCEPT ![b] = Impatient(s, BusyLimit)]
        /\ UNCHANGED phone
     \/ /\ ~s.playing
        /\ phone' = [phone EXCEPT ![b] = FALSE]
        /\ \E t \in Finishes([Stop(s) EXCEPT !.busy = FALSE]) : bud' = [bud EXCEPT ![b] = t]
  /\ UNCHANGED <<linked, master, due>>

tws_slave_power_off(b) ==
  /\ Running(bud[b]) /\ bud[b].fallback
  /\ bud' = [bud EXCEPT ![b] = GotoIdle([@ EXCEPT !.fallback = FALSE], "PLAY_POWEROFF")]
  /\ UNCHANGED <<linked, master, phone, due>>

\* tws_poweroff_tone_callback, STREAM_EVENT_STOP
ToneStops(b) ==
  /\ Running(bud[b]) /\ bud[b].tone
  /\ bud' = [bud EXCEPT ![b] = GotoIdle([@ EXCEPT !.tone = FALSE], "POWEROFF")]
  /\ UNCHANGED <<linked, master, phone, due>>

-----------------------------------------------------------------------------
(* Leaving Bluetooth mode for the idle mode. *)

\* bt_mode_try_exit: EBUSY until the stack has exited and three more rounds passed.
TryExit(s) ==
  CASE s.wait_exit = 0 -> [s EXCEPT !.wait_exit = 1, !.exiting = TRUE, !.auto = "none"]
    [] s.wait_exit # 0 /\ s.exiting -> s
    [] s.wait_exit # 0 /\ ~s.exiting -> [s EXCEPT !.wait_exit = @ + 1]

\* Mutant: a mode switch refused with EBUSY is tried again without its message.
Retry_NoMessage(s, arg) == [s EXCEPT !.retries = @ + 1]

Retry(s, arg) == [s EXCEPT !.retries = @ + 1, !.retryMsg = arg]

\* idle_mode_enter flushes the queue; the tone of the idle mode may not start.
idle_mode_enter(s, arg) ==
  LET flushed == [s EXCEPT !.mode = "idle", !.queue = << >>] IN
  CASE ~goto_poweroff_flag(s) -> {[s EXCEPT !.mode = "idle"]}
    [] goto_poweroff_flag(s) /\ arg = "POWEROFF" -> {SendSoftPoweroff(flushed)}
    [] goto_poweroff_flag(s) /\ arg = "PLAY_POWEROFF" ->
         {[flushed EXCEPT !.goodbye = TRUE], SendSoftPoweroff(flushed)}

\* app_mode_switch_handler and app_goto_mode.  A bud in a call, or already in
\* the idle mode, ignores the message.
SwitchMode(s, arg) ==
  LET t == TryExit(s) IN
  CASE s.mode = "idle" \/ s.busy -> {s}
    [] ~(s.mode = "idle" \/ s.busy) /\ t.wait_exit <= 3 -> {Retry(t, arg)}
    [] ~(s.mode = "idle" \/ s.busy) /\ t.wait_exit > 3 -> idle_mode_enter(t, arg)

\* idle_app_msg_handler: the power is cut, or the bud reboots on the charger.
SoftPoweroff(s) ==
  IF s.mode = "idle" /\ goto_poweroff_flag(s) THEN {power_set_soft_poweroff(s), cpu_reset(s)}
  ELSE {s}

HandleMsg(b) ==
  LET s == [bud[b] EXCEPT !.queue = Tail(@)]
      m == Head(bud[b].queue)
  IN
  /\ Running(bud[b]) /\ bud[b].queue # << >>
  /\ \/ /\ m.ev \in Gotos
        /\ \E t \in SwitchMode(s, m.ev) : bud' = [bud EXCEPT ![b] = t]
     \/ /\ m.ev = "SOFT_POWEROFF"
        /\ \E t \in SoftPoweroff(s) : bud' = [bud EXCEPT ![b] = t]
     \/ /\ m.ev \notin Gotos \cup {"SOFT_POWEROFF"}
        /\ bud' = [bud EXCEPT ![b] = AutoOffMsg(s, m)]
  /\ UNCHANGED <<linked, master, phone, due>>

retry_goto_mode(b) ==
  LET s == bud[b] IN
  /\ Running(s) /\ s.retries > 0
  /\ bud' = [bud EXCEPT ![b] = GotoIdle([s EXCEPT !.retries = @ - 1], s.retryMsg)]
  /\ UNCHANGED <<linked, master, phone, due>>

\* The stack exits once no player runs; every link of the bud is gone.
bt_no_background_exit_check(b) ==
  /\ bud[b].mode = "bt" /\ bud[b].exiting /\ ~bud[b].playing
  /\ bud' = [bud EXCEPT ![b].exiting = FALSE, ![b].busy = FALSE]
  /\ linked' = FALSE
  /\ phone' = [c \in Buds |-> phone[c] /\ c # b /\ IsMaster(c)]
  /\ due' = {d \in due : d[1] = d[2]}
  /\ UNCHANGED master

\* app_power_off_tone_cb
GoodbyeEnds(b) ==
  /\ Running(bud[b]) /\ bud[b].goodbye
  /\ bud' = [bud EXCEPT ![b] = SendSoftPoweroff([@ EXCEPT !.goodbye = FALSE])]
  /\ UNCHANGED <<linked, master, phone, due>>

-----------------------------------------------------------------------------
(* The phones, the players and the link between the buds. *)

\* A bud that is not leaving: it still scans, pages and answers its sibling.
Open(b) == bud[b].mode = "bt" /\ bud[b].wait_exit = 0 /\ ~goto_poweroff_flag(bud[b])

PhoneConnects(b) ==
  /\ Open(b) /\ IsMaster(b) /\ ~phone[b]
  /\ phone' = [c \in Buds |-> phone[c] \/ c = b \/ linked]
  /\ bud' = [c \in Buds |->
               CASE c = b -> app_send_message(bud[c], Msg("FIRST_CONNECTED", TRUE))
                 [] c # b /\ linked /\ Running(bud[c]) ->
                      app_send_message(bud[c], Msg("MONITOR_START", TRUE))
                 [] OTHER -> bud[c]]
  /\ UNCHANGED <<linked, master, due>>

PhoneLost(b) ==
  /\ phone[b] /\ IsMaster(b)
  /\ phone' = [c \in Buds |-> phone[c] /\ c # b /\ ~linked]
  /\ bud' = [c \in Buds |-> IF c = b \/ linked THEN [bud[c] EXCEPT !.busy = FALSE] ELSE bud[c]]
  /\ UNCHANGED <<linked, master, due>>

\* The page engine of the master opens the scans and says so.
OpenScan(b) ==
  /\ Open(b) /\ IsMaster(b)
  /\ bud' = [bud EXCEPT ![b] = app_send_message(@, Msg("IN_PAIRING_MODE", phone[b]))]
  /\ UNCHANGED <<linked, master, phone, due>>

\* Music, a call or Siri, on a bud that has a phone; a call needs no player.
AudioStarts(b) ==
  /\ "audio" \in Happenings
  /\ phone[b] /\ bud[b].mode = "bt" /\ bud[b].wait_exit = 0
  /\ \E p, c \in BOOLEAN : bud' = [bud EXCEPT ![b].playing = p, ![b].busy = c]
  /\ UNCHANGED <<linked, master, phone, due>>

PlayerStops(b) ==
  /\ bud[b].playing
  /\ bud' = [bud EXCEPT ![b].playing = FALSE]
  /\ UNCHANGED <<linked, master, phone, due>>

\* The master is the bud with the phone.  A link takes longer to form than a
\* synchronous call to run.
LinkForms ==
  /\ ~linked /\ due = {} /\ \A b \in Buds : Open(b)
  /\ \E b \in Buds :
       /\ ~phone[Partner(b)]
       /\ linked' = TRUE /\ master' = b
       /\ phone' = [c \in Buds |-> phone[b]]
       /\ bud' = [c \in Buds |->
            LET s == app_send_message(bud[c], Msg("TWS_CONNECTED", phone[b])) IN
            IF c # b /\ phone[b] THEN app_send_message(s, Msg("MONITOR_START", TRUE)) ELSE s]
  /\ UNCHANGED due

\* A slave alone has no phone; a call that had not crossed yet never runs there.
LinkDrops ==
  /\ linked
  /\ linked' = FALSE
  /\ phone' = [c \in Buds |-> phone[c] /\ c = master]
  /\ bud' = [c \in Buds |-> IF c = master THEN bud[c] ELSE [bud[c] EXCEPT !.busy = FALSE]]
  /\ due' \in {due, {d \in due : d[1] = d[2]}}
  /\ UNCHANGED master

RolesSwitch ==
  /\ linked /\ "roles" \in Happenings
  /\ master' = Partner(master)
  /\ UNCHANGED <<bud, linked, phone, due>>

\* Two buds that are on: apart, or linked, with or without a phone.
Init ==
  /\ linked \in BOOLEAN /\ master \in Buds
  /\ phone \in [Buds -> BOOLEAN]
  /\ linked => \A b \in Buds : phone[b] = phone[master]
  /\ bud = [b \in Buds |-> [On EXCEPT !.auto = IF phone[b] THEN "none" ELSE "armed"]]
  /\ due = {}

Timers(b) ==
  \/ power_off_at_same_time(b) \/ wait_tws_detach_handler(b) \/ wait_exit_btstack_flag(b)

Program(b) ==
  \/ HandleMsg(b) \/ Timers(b)
  \/ tws_slave_power_off(b) \/ ToneStops(b) \/ GoodbyeEnds(b)
  \/ retry_goto_mode(b) \/ bt_no_background_exit_check(b)
  \/ \E c \in Buds : SyncCall(c, b)

\* The bound on the queues only holds the surroundings back.
World ==
  /\ \/ \E b \in Buds :
          \/ AutoOff(b) \/ KeyPowerOff(b) \/ Alone(b)
          \/ PhoneConnects(b) \/ PhoneLost(b) \/ OpenScan(b) \/ AudioStarts(b) \/ PlayerStops(b)
     \/ LinkForms \/ LinkDrops \/ RolesSwitch
  /\ \A b \in Buds : Len(bud'[b].queue) <= MaxQueue \/ bud'[b].queue = bud[b].queue

Next == (\E b \in Buds : Program(b)) \/ World

Spec == Init /\ [][Next]_vars

\* Messages are handled and timers fire; tones end; the players of a bud stop
\* when its phone is gone; lmp_hci_reset, repeated at each tick, does
\* disconnect the phone.
Fairness ==
  \A b \in Buds :
    /\ WF_vars(HandleMsg(b)) /\ WF_vars(Timers(b)) /\ WF_vars(tws_slave_power_off(b))
    /\ WF_vars(ToneStops(b)) /\ WF_vars(GoodbyeEnds(b))
    /\ WF_vars(retry_goto_mode(b)) /\ WF_vars(bt_no_background_exit_check(b))
    /\ \A c \in Buds : WF_vars(SyncCall(c, b))
    /\ WF_vars(~phone[b] /\ PlayerStops(b))
    /\ WF_vars(bud[b].detach = "power_off_at_same_time"
                 /\ PhoneLost(IF linked THEN master ELSE b))

FairSpec == Spec /\ Fairness

-----------------------------------------------------------------------------
TypeOK ==
  /\ bud \in [Buds -> Bud]
  /\ linked \in BOOLEAN /\ master \in Buds
  /\ phone \in [Buds -> BOOLEAN]
  /\ due \subseteq Buds \X Buds

Ended(b) == ~Running(bud[b])

\* A power-off that has begun ends with the power cut or a reboot, whatever the
\* phone, the sibling and the players do meanwhile (the two tick limits, the
\* slave's own timer, the retries of the mode switch).
PowerOffEnds == \A b \in Buds : goto_poweroff_flag(bud[b]) ~> Ended(b)

\* Until then something is always pending that carries it on.
SomethingPending(b) ==
  LET s == bud[b] IN
  \/ s.detach # "none" \/ s.fallback \/ s.tone \/ s.goodbye \/ s.retries > 0
  \/ \E i \in DOMAIN s.queue : s.queue[i].ev \in Gotos \cup {"SOFT_POWEROFF"}
NeverAbandoned ==
  \A b \in Buds : Running(bud[b]) /\ goto_poweroff_flag(bud[b]) => SomethingPending(b)

\* A bud does not end in the idle mode unless it is powering off: nothing would
\* wake it there (idle_mode_enter does nothing without goto_poweroff_flag).
NeverParked == \A b \in Buds : bud[b].mode = "idle" => goto_poweroff_flag(bud[b])

\* The buds say goodbye together, after the phones: the tone sounds on no bud that has a
\* phone, and while the buds are linked only if both of them are powering off, whichever
\* of them began and whatever role each had at its ticks.
SameTime ==
  \A b \in Buds : bud[b].tone =>
    /\ ~phone[b]
    /\ linked => \A c \in Buds : Running(bud[c]) => goto_poweroff_flag(bud[c])

\* A bud that has a phone, its own or its master's, does not count down to an
\* automatic power-off once it has handled its messages.
AutoOffSpares ==
  \A b \in Buds :
    Running(bud[b]) /\ phone[b] /\ bud[b].queue = << >> => bud[b].auto # "armed"
=============================================================================
