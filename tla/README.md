# Verification of the JL709N earphone firmware

TLA+ models of the control logic of the JieLi JL709N (br52) firmware: the
program of a pair of true-wireless (TWS) Bluetooth earbuds. The modules model
what `src/SDK/apps/earphone` and `src/SDK/apps/common` decide: which phone is
paged, which scans are open, which phone is heard, when a bud charges, plays or
powers off, how fast the clock runs.
The Bluetooth stacks, the TWS library, the timers and the stream engine are
closed archives; they appear as the environment, modelled from how the sources
use them.

The configuration is that of `src/SDK/apps/earphone/board/br52/sdk_config.h`:
TWS with automatic pairing, two phones at once, A2DP preemption, charger on, no
charging-case protocol, test box on, LE audio off, Bluetooth the only
application mode besides idle.

## How the program runs

Each bud runs the same program. One task, `app_core`, takes messages from a
queue: key presses and application messages, events of the Bluetooth stack
(`BT_STATUS_*`), of the controller (`HCI_EVENT_*`), of the TWS library
(`TWS_EVENT_*`), and calls posted with `os_taskq_post_type`. `sys_timeout`
callbacks run in the task that armed them (`src/SDK/interface/system/timer.h`),
so everything a component does in `app_core` is atomic. What is hard is
elsewhere:

- a message is handled later than the event it tells of, and the handler mixes
  what the message says (the role *then*) with what the stack answers *now*;
- the two buds are concurrent, their link may break between any two steps, and
  the roles may be switched;
- timers are kept in plain handles that several functions share;
- a procedure that must end (a power-off, a page) is carried from step to step
  by timers and messages, and one that is dropped is never seen again;
- Bluetooth mode may be left while messages and timers of it are pending.

## Components

Status and reasons are in `PROJECT.json`; this is what each keeps and does, and
what makes it correct.

| component | state | operations | correct when | hard because |
|---|---|---|---|---|
| **reconnection engine**, `mode/bt/tws_dual_conn.c` | page list with a timer per phone, one main timer handle, phones on record, scan mode, page and TWS procedure under way | handlers of stack, HCI, TWS and application messages; seven timer callbacks; relay of the list to the sibling | the slave is quiet, a listed phone is paged until given up, a bud without phone can be found, no timer is orphaned | ordering, stale role, shared handle, two buds |
| **soft power-off**, `mode/bt/tws_poweroff.c`, with `app_main.c`, `earphone.c`, `idle.c` | flag and reason, auto-off timer, 50 ms timer, tick count, wait flags | auto-off start and stop, start on both buds, wait for players, phones and sibling, common tone, mode switch with retry, power cut | once begun it ends; the tone sounds on two buds that both power off; a bud with a phone does not count down | two buds tick by themselves, link and roles change, EBUSY retries |
| **clock manager**, `common/clock_manager` | requests by name, lock, calibration timer | alloc, free, lock, unlock, refurbish, calibrate | never slower than requested, the lock is not stolen, calibration ends | deferred refurbish, calibration against requests |
| **application modes**, `common/app_mode_manager`, `app_main.c` | mode stack | goto, next, push, try-exit, retry | a mode is left before the next is entered; a refused switch is retried or reported | a switch is refused while another is pending |
| **TWS glue**, `mode/bt/bt_tws.c` | pairing state, role and channel in flash | pairing, connection, role switch, monitor start, synchronous calls | both buds agree on role and phones when quiet | two buds, relay order |
| **music of two phones**, `mode/bt/dual_a2dp_play.c`, `bt_slience_detect.c`, `a2dp_player.c` | the player, the phones that wait in the background with a silence detector, six addresses the handlers leave each other | media start and stop, preemption, suspension by a call, resumption, commands to both buds | both ears hear the same phone, unmuted; one that plays alone is heard | only the master decides, its commands take time, the link and the roles change meanwhile |
| **calls**, `mode/bt/tws_phone_call.c`, `dual_phone_call.c` | call per phone, ring and number announcement | incoming, outgoing, active, hang-up, second call | ring stops when the call does; a call beats music | ring tone callbacks on two buds |
| **tone players**, `audio/interface/player` | list of tones, player, callbacks | play, preempt, stop, synchronous start | each tone's callback fires once with start and stop | stream callbacks in another task |
| **low latency, sniff, in-ear, volume** | timers and flags | enter and leave, relay | both buds agree | two buds |
| **battery and charger**, `battery/`, `cpu/br52/charge` | filters of the line, charger, full-charge detection, timers of the battery watch | plug, unplug, low case, full, low battery; start-up, power cut, reset | a bud is where its case says: it charges in idle mode inside, plays and watches its battery outside | a line that bounces, timers beside `app_core`, a power-off at any of its steps |
| **LED interface**, `ui/led`, `common/ui/pwm_led` | stack of effects | push, pop, timeout, TWS sync | the effect on top is displayed | sync with the sibling |
| **key driver**, `common/device/key` | filter, click and hold counters | scan every 10 ms | clicks are counted once | boundaries of counters |
| **device manager, music player** | list of devices, breakpoint | add, remove, next, previous | a removed device is not used | reference counts, other tasks |
| **update, RCSP** | transfer state | commands, blocks, two-bud handshake | both buds update or none | lost blocks, link loss |
| **USB classes, audio sources, ANC, production tools, sensors, vendor profiles** | | | | registers, signal processing or vendored code |

Interaction: `earphone.c` initialises the stack and hands every stack event to
the handlers registered by the components; the engine commands scans and pages
(its `close` is called first by the power-off), the power-off asks the mode
switch to leave Bluetooth, which calls back into `earphone.c` until the stack is
gone; every component raises the clock through the clock manager; music, calls
and tones decide whether `a2dp_player_runing` and `esco_player_runing` hold,
which the engine and the power-off read.

## Plan

Written so far, in this order: `TwsDualConn` (the largest hand-written state
machine of the product, and the one whose failure makes an earbud
unreachable), `ClockManager`, `TwsPoweroff`, `TwsTone` with its abstract
specification `ToneQueue`, `DualA2dp` over `A2dpBud`, and `BudCharge`, which
meets the power-off of `TwsPoweroff` from the side of the charger.

Next, each with its MC module, runs and mutants:

1. `TwsPageSync`, two instances of the engine's role handling with the relay
   between them in place of the relayed environment of `TwsDualConn`: the two
   lists converge, and `AbstractPager` (the set of phones wanted, at most one
   bud scanning) implemented by it through a refinement mapping.
2. `DualCall`: two calls at a time (`dual_phone_call.c`), composed with
   `DualA2dp`.
3. `AppModes`: `app_goto_mode` with try-exit and retry; abstract specification
   "a switch that was accepted takes place, in order".
4. `LedUi`, `KeyDriver` (bounded-input comparison with a reference definition),
   `Sniff`, `DevManager`, `TwsUpdate`, `A2dpStream`, `UsbMsd`, RCSP transfer.

All the safety invariants and action properties of the runs are proved; a proof
still worth having is a refinement of the pager, which has no abstract
specification yet.

## Modules and the code

### ClockManager

Every entry point of `clock_manager.c` takes `clk_mutex`, so each is an action.
`items` is the list of requests, `locker` is `clk_locker` (whose name survives
an unlock), `timer`, `refCnt` and `step` are the calibration. The measured load
is a free choice of the frequency it would ask for; a failing `os_cpu_usage`
counts a period and changes nothing. `clock_refurbish` with interrupts off only
posts itself to `app_core` (`posted`).

### TwsDualConn

The engine of one bud. `bud` is what the file keeps in `g_dual_conn` and what it
commands; the functions of the file are operators from one value of `bud` to the
next, under their own names, so a handler reads like its C function.
`queue` is the message queue of `app_core`; `acl`, `conn`, `link`, `role` are
what the stack answers, changed by environment actions that also queue the
event. `timer = "stale"` is the handle that
`tws_wait_conn_timeout` leaves behind; `loose` are armed timers no handle names.

`Happenings` switches rarer events on: leaving and re-entering Bluetooth mode,
power-off, the remote test box, pairs removed and re-paired by key,
`ACL_CONNECTION_ALREADY_EXISTS`, and the 120 s inquiry window.

Taken from the library's contract: phones and the bud connect only when it
scans, pages, or runs a TWS procedure that opens the scans; the bud with a phone
stays master; the bud that becomes slave relays its list unless the link breaks
first; events are queued in order. A slave sees its master's phones.

Left out: messages no code of this build sends (`APP_MSG_BT_PAGE_DEVICE`,
`APP_MSG_TWS_WAIT_PAIR`, `_WAIT_CONN`, `_START_CONN`,
`_START_PAIR_AND_CONN_PROCESS`), changing the dual-connection configuration at
run time, the third phone and the LE-audio branches (compiled out), the
scan write of `low_latency.c`, and `TWS_DETACH_BY_TESTBOX_CON`.

### TwsPoweroff

Both buds at once: `bud[b]` is what the program of bud `b` keeps (the flag and
reason, the timers of `tws_poweroff.c`, the wait flags of `g_bt_hdl`, the
retry timers of `app_main.c`, its queue). `linked`, `master` and `phone` are
what the stacks of the two buds answer, `due` the calls of
`tws_api_sync_call_by_uuid` that have not run yet. The actions bear the names of
the functions: `power_off_at_same_time`, `wait_tws_detach_handler`,
`wait_exit_btstack_flag`, `tws_slave_power_off`, `retry_goto_mode`,
`bt_no_background_exit_check`. `cpu_reset` and `power_set_soft_poweroff` end a
bud. What the charger does to a power-off is in `BudCharge`.

Taken from the libraries: an accepted synchronous call runs on the bud that made
it, and is lost on the sibling only when the link drops; a link takes longer to
form than a call to run; the first 50 ms tick comes after the call ran on both
buds; a call or Siri ends with the phone's link; the tone of the master starts
(the code does not look at the result: see the hazards).

Left out: callers in the update and test-box code, `g_user_wait_timer`, which
nothing in this build sets.

### TwsTone and ToneQueue

`TwsTone` is `tone_player.c` and `tws_tone_player.c` on two buds. `bud[b]` holds
the list `g_head`, the next `player_id`, `g_tws_tone_adding`, the timers of tones
put off before they were sent (`tries`) and held back after they arrived
(`held`), the stream events and received tones that `app_core` has not handled
(`queue`), and what the callback of each tone has been told (`heard`).
`tone_player_add`, `tone_player_stop`, `tone_player_callback` and
`tws_tone_play_in_task` are operators under their own names; those that depend
on a file, on memory or on the stream give the set of outcomes. `air` carries
the requests that `tws_api_send_data_to_sibling` accepted.

`ToneQueue` is what `tone_player.h` promises: tones do not preempt each other,
they queue. Its state is, for each bud, the tones in line and those that are
over; `TonesQueue` says that `TwsTone` implements it, with the players of
`g_head` for the line and the tones whose callback heard `STOP` for the others.

`Happenings` switches on missing files, refused sends, tones silenced by the
program, preemptive requests and lists of two files. Each tone is asked for at
most once, so that its callback identifies it.

Taken from the libraries: stream events are posted to `app_core`, which started
the stream, and those already posted survive `jlstream_release`; a request that
was accepted always arrives at the bud that sent it, and at the sibling unless
the link drops. Callbacks of tones post messages and play no tone themselves.
Left out: the ring player (which repeats one file), timestamps, the key tone.

### A2dpBud and DualA2dp

`A2dpBud` is what one bud makes of one command: `player` is `g_a2dp_player`,
`detect`, `slot0`, `live` and `dual` are the silence detectors of
`bt_slience_detect.c`, `muted` and `started` the flags of the stack, and the
addresses `preempted`, `energy`, `drop`, `play` and `slience` are the ones
`dual_a2dp_play.c` keeps between its handlers. Each branch of
`tws_a2dp_play_in_task` is an operator from one value of the bud to the next,
as are the opening and closing of a call's sound (`tws_phone_call.c`).

`DualA2dp` puts two buds and two phones around it: the events of the stack, which
only the master answers; `Sends`, which is `tws_a2dp_play_send_cmd` with its
`tx_do_action`; the queues of the two `app_core`; the 500 ms timer
`try_play_preempted_a2dp`; role switches, the loss of either link and the slave
that begins to listen. A phone obeys, or ignores, the AVRCP commands in `told`.

Named simplifications. One call at a time (the arbitration of two is
`dual_phone_call.c`), and its sound is not delayed by a tone; a stream that
cannot be created, volume, low latency and the power-off flag are left out; the
slave does not track the `MEDIA` events it ignores; packets of a muted phone do
not reach the detector (comment at `dual_a2dp_play.c:866`); a media file opens
exactly on the bud whose stack receives the phone's link; an AVRCP command
repeated counts once. `"overtakes"` in `Happenings` names windows no run opens:
music that starts, or a call that ends, before the command that opens the call's
sound has run, and roles or links that change while commands are on their way.
The code covers two of these windows (`g_play_addr`, `g_slience_addr`), and the
properties do not hold in the others: see the hazards.

### BudCharge

One bud and the line of its case. `line` is the level of LDOIN, `edge` one that
the port filter has not reported yet, `cell` the battery, `pinr` the level of the
long-press reset, which like an edge survives a power cut; `s` is the program: the
driver (`charge_var`, the three counters of `ldo5v_detect`, its timers), the
watch on the battery (`battery_level.c`), the flag and the timers of the
power-off, the mode, the tone, and the queue of `app_core`. `pulled` and `lost`
are history that only properties read.

The timers of the driver and of the battery run beside `app_core`, so an event
of the line is posted, handled later, and refused, thrown away
(`os_taskq_flush` in `idle_mode_enter`) or acted on according to the mode and
the flag it finds. `Boot`, `cpu_reset` and `power_set_soft_poweroff` are what
start-up and the two ends of the program leave.

Named simplifications. The waits of the power-off for phones, players and sibling
are one step each (in detail in `TwsPoweroff`); Bluetooth mode puts its exit
off once, and the LED the power cut once; the low-power warning counts as a good
battery; percentages, the sibling's battery, the power mode, the messages START
and CLOSE, OTG, the charge store and the test box are left out; which wake-up
reason `is_ldo5v_wakeup` and the key report is a free choice. The battery runs
down in hours and the long-press reset takes eight seconds, so neither happens
while an event of the line is on its way. After a power-off was withdrawn
(`pulled`) the surroundings stay still until the bud has reset.

## Runs

| run | question | bounds | distinct states |
|---|---|---|---|
| `clock` | requests, pin and lock honoured; calibration ends | 2 clients, 4 frequencies of which one is beyond the chip, 3 periods, 2 posted calls | 13 803 |
| `dual_conn` | two phones, every order of connections, losses, page failures, link events and role switches | 2 phones (symmetric), 2 queued messages | 1 985 783 |
| `dual_conn_rare` | the rarer events with single connection, the 120 s window, ended here or by the sibling, power-off with the exit of the mode | 1 phone, 2 messages | 5 366 084 |
| `dual_conn_off` | leaving and re-entering the mode; listed phones are given up | 1 phone, 2 messages, 2 inquiry timers, fair | 886 370 |
| `poweroff` | power-offs by timer, by key and alone, against phones, players, link and roles | 2 buds, tick limits 1, 1 queued message of the surroundings | 2 097 272 |
| `poweroff_live` | a power-off ends, also one by low battery or the charger | same, no queued surroundings | 66 240 |
| `tone` | lists of two buds: missing files, refused sends, lists of files, tones silenced and preempted, late stream events | 2 tones, each asked for once on either bud, 4 identifiers | 2 889 822 |
| `tone_live` | the lists are queues; each tone ends, a common one on both | same, fair, none of the rarer events | 128 578 |
| `tone_cut` | lists as the header promises them | same | violated |
| `a2dp` | music and a call of two phones on two buds: starts, stops, preemption, deaf phones, silence, role switches, both links lost | 3 acts of the users or the surroundings, an event comes while fewer than 3 commands wait | 1 009 705 |
| `a2dp_live` | a phone that plays on alone is heard | 4 acts, 2 commands, no calls, silence or deaf phones, fair | 281 842 |
| `charge` | a bud and its case: plug, bounce, keys, battery, power-off, in any order | one tick of each filter, 2 low readings, 2 waiting messages when a timer posts another, fair | 335 131 |

Why the bounds are enough. The engine compares at most two phones: the list is
rotated, its head is paged, and the second connection closes the scans; with
two phones every branch is taken. Two queued messages are what one event of the
stack posts at once and what makes one handler run after the state has moved on
twice. The tick limits of the power-off (200 and 300 ticks) separate "waits" and
"has waited too long"; one tick shows both, and nothing depends on
the number. Its queue bound holds back only the surroundings, never the
program's own messages. Two tones are one that sounds and one that
waits, is late, or is held back; the buds ask for them in every combination.
The identifiers start just before they wrap. Three acts are enough for one phone
to play, the other to interrupt it, and the call, the link or the roles to
change between the two; the program's own steps are not bounded by them. Of the
filters (50, 220 and 120 ticks) one tick each separates "bounced" from "seen
long enough", and the counters of two levels can be part of the way at once.
`SYMMETRY` is used in safety runs only.

What a run leaves out, because the code does not promise it:

- `NeverStalls` and `SecondCanReturn` are checked without the removal of pairs:
  `TWS_EVENT_CONNECTION_DETACH` with `TWS_DETACH_BY_REMOVE_PAIRS` deletes the
  main timer and returns, leaving a listed phone unpaged until the next event.
- `EveryToneEnds` is checked without missing files (a tone that arrives and
  cannot be created tells nobody), `BothHear` while the link holds.
- `NoForgottenTimer` is checked without leaving the mode: an exit between
  `BT_STATUS_INIT_OK` and the first pairing message, then a new entry, leaves a
  timer no handle names.
- `SameMusic` asks for the same music only while no link has been lost, and until
  the phone that is heard has fallen silent if there has been a call (`past`): the
  master alone starts, or frees, detectors under a call, and the next `SWITCH` asks
  each bud for its own. TLC finds the buds on different phones with four acts; with
  either calls or silence it finds none, and none in 650 million states of random
  behaviours of eight acts with the exemption.
- `HeardInTheEnd` exempts a phone whose detector lost `g_dual_detect` to a
  command for the other one (`Orphan`); it is checked without calls, after which
  the addresses of `dual_a2dp_play.c` keep naming phones that have stopped.
- `RightPlace`, `ChargesOnlyIdle`, `InCaseCharges` and `LowEnds` exempt a power-off
  withdrawn by the removal of the charger (`charge.c:310` clears the flag, the
  timers run on): the bud may be left in idle mode out of its case.
  `InCaseCharges` also exempts an event that `os_taskq_flush` threw away: if a
  low-battery message is then handled in idle mode, power is cut without a look
  at the line.
- `charge` excludes a contact that is touched during start-up (`"boot"`: the
  online flag rises before events are taken, and the bud waits in idle mode for
  an event that never comes), an OFF handled later than the on-filter
  (`"late"`: it sends the bud to Bluetooth mode after the next charge has begun)
  and a second power-off on top of one withdrawn (`"again"`: the timers delete
  each other's handle). With the first two the properties do not hold; the third
  is left out for its size, and the safety properties are proved with it.
- `ConnectedNotListed` is checked without `ACL_CONNECTION_ALREADY_EXISTS`, whose
  handler lists a connected phone.
- `GivesUp` assumes that the environment falls silent; every call of the state
  handler re-arms the wait, so events faster than six seconds apart postpone
  paging for ever.

`CHECK_DEADLOCK FALSE` stands in the runs of the power-off, whose end is two
buds that are off, and in those of the engine with a power-off or an exit of the
mode, for the same reason; in those of the tones, where every tone has been asked
for; in those of the music, where the acts of the users are used up; and in that
of the charger, where a full bud is off in its case.

### The finding

`tws_tone_player.h` says of a list of files that it is played on both buds, as
the announcement of a caller's number needs. `__tws_play_tone_file` puts every
request off while a tone runs or is on its way, and keeps one file of it:
`tone_cut` shows a list that waits without its second file. The same lines take
the preemption from a preemptive request, which the header promises to stop the
tone being played; no code of this build makes such requests.

## Fairness

`app_core` drains its queue and armed timers fire: the message loop and the
timer task have no other work to wait for. In the engine, a page timer of a phone
whose `info->timeout` has passed fires in the end (`jiffies` grows); how often
one fires before that is left open. In the power-off, tones end, the players of a bud whose phone
is gone stop, and `lmp_hci_reset`, repeated at each 50 ms tick, does disconnect
the phone. Of the tones, a file that plays comes to its end and the link
hands over what it has accepted. Of the music, the stack delivers its events, a
phone answers what it is told (obeying or not), a call ends, and a phone that
streams is heard by its detector. Of the charger, the line's edges arrive, a
charging battery fills up and the long-press reset happens; nothing relies on
the time-out of the detach. No fairness is assumed of the surroundings:
phones, keys, the links, the roles, the case and the discharge of the battery.
`InCaseCharges` and `LowEnds` are stated for a line that has come to rest.

## Proofs

`ClockManagerProofs` proves `ClockTypes` and `ClockSafety`: type correctness, and
`SpeedHonoured` (`FloorHonoured` and `PinnedClock`) for any clients, any table
and any period. The invariant is inductive as it stands once the types are
conjoined; the calibration is the only action with work in it: what it computes
is at least the floor, and the floor at least every request. `PinIsNotStolen`
proves `PinNotStolen` action by action.

`TwsDualConnProofs` proves `TypesKept` and `PhoneListedOnce` for any set of
phones, any configuration and any queue bound. Neither is inductive alone:
a list also arrives by message, so that the uniqueness of the list rests on what
is queued, and the type of the queue on what is connected (a phone that has
connected may be listed by the events that tell of it). The inductive invariant
is `Inv`, the conjunction of the two with `conn` within `acl`. `GoodBud` is the
set of well-formed values of `bud`: the right type, and no phone listed twice.
Each lemma says of one operator that it maps `GoodBud` into itself, from taking
an entry out of the list, through the state handler and the timer callbacks, to
the message handlers, in the order in which they call each other; the step of
the specification then has one proof step per action, for the program
(`EngineInv`) and for its surroundings (`EnvironmentInv`).

`TwsDualConnHandlerProofs` and `TwsDualConnQueueProofs` prove the other six safety
properties of the engine. Each speaks of a bud whose queue is empty, and none is
inductive: a handler reads the role, the link and the phones as they are *now*,
so while messages wait it may leave the engine in any state. `QueueInv` has a
conjunct for each property, in two halves. `Woken`: the bud is as it should be,
or a message that puts it right is waiting. `Followed`: each waiting message
that may put it wrong has one that puts it right behind it. `Silenced` is that
invariant for a slave (a `DETACH` opens its scans, the event that tells of its
role closes them), `Unlisted` for a connected phone (a timed-out page or the
sibling's list brings it back on the list, its `CONNECTED` takes it off),
`Reached` for a master (a `CONNECTED` as slave or a removal of pairs stops it,
any loss or failed page wakes it). `Booting` keeps the first two messages of a
start in front, `Plain` and `Kept` follow the test box and the timers no handle
names. `TwsDualConnHandlerProofs` has the lemmas, one per operator and one per
handler: `Served` is what each does to a quiet slave, `Tended` which phones it
may list and which timers it may arm or forget, and `Reach` what
`tws_dual_conn_state_handler` and the pairing procedure establish for a master,
whatever the state they find. `TwsDualConnQueueProofs` then needs one lemma for
all of the surroundings (`Outside`, `Posting`), one for the timers (`Timed`) and
one for the messages (`Handles`).

`SlaveIsQuiet` and `AlwaysHeard` hold for all `Happenings`. The others name the
events they exclude, and TLC shows that each is needed: `ConnectedUnlisted`
excludes `"exists"`, `ReconnectionGoesOn` and `SecondPhoneReturns` the test box and
the removal of pairs (either stops the engine by intention), `HandleKept` a second
entry into Bluetooth mode. The proof corrected a property: `NeverStalls` asks for
room for a phone (`Connected < 2`), because with a third phone on record
`tws_dual_conn_state_handler` arms nothing for a listed one while two are
connected; the runs, with two phones, cannot show that.

`TwsPoweroffProofs` proves all the safety properties of `poweroff` for any tick
limits, any queues and any of the rarer events. The inductive invariant `IInv`
has three parts. `Sound` is about one bud: each waiting timer belongs to its
reason, only a power-off leaves Bluetooth mode, and each stage hands over to the
next (`PoweroffNeverAbandoned`, `PoweroffNeverParked`). `Spared` reads the queue:
every message that would start the auto-off timer of a bud with a phone is
followed by one that stops it (`PoweroffAutoOffSpares`). `PairOK` and `PhoneOK`
are about the two buds: linked buds see the same phone, and a power-off that has
begun on one of them has reached, or will reach, the other
(`PoweroffSameTime`).

`TwsToneProofs` proves the refinement: `ToneRefines` says that `TwsTone`
implements `ToneQueue`, for any set of tones and any span of identifiers. The
abstract step needs the tone that joins a list to be a new one, which no part
of the program checks: it follows from the invariant that a tone has one place
on each bud. `Place` counts the requests that are put off, on the air, waiting,
held back or in the list, `Adds` and `Mine` say whose request
`g_tws_tone_adding` stands for, and `BudOK` what one bud's list looks like. Each
operator of the players is shown once to be a move of the abstract line (`Moves`)
and to keep the places; `ToneHeadSounds` and `ToneAddingEnds` are read off the
same invariant.

`ToneStopIsLast` and `ToneLateEvents` are about the identifiers by which an event
finds its player, a byte that wraps. `IdsFresh` says that the next one is on no
player, held player or waiting event of the bud. While it holds, one identifier
names one tone (`SameIds`), a callback has heard `STOP` at most once and then
nothing (`Once`, `Closed`; the three are `Ordered`), and an event that is handled
late finds its own tone or none (`Late`). Each move of a bud hands an identifier
to a new tone only and forgets none (`Handed`). `IdsFresh` is itself proved where
there are fewer tones than identifiers (`ToneIdsFresh`): the players a bud has
created number `IdSpan - 1`, 0, 1, ..., at most as many as the tones it keeps
(`Counted`). The code has 256 identifiers and no bound on the tones, but an event
would have to wait in `app_core`, or a held player survive, while 256 tones are
created on the bud.

`BudChargeProofs` proves all the safety properties of `charge` for any length of
the filters, any limit of low readings and any bound on the queue. The invariant
follows the last event of the line: `Seen` and `Fresh` from the filters of the
driver to the queue, `Follows` through the queue of `app_core` to the charger and
the level of the long-press reset, `Carried` past the stages of a power-off,
`Watched`, `IdleCharge` and `Placed` to the battery watch and the mode. None of
the properties is inductive: each speaks of a quiet bud, and whether it holds
then depends on the order of the messages that wait before (no `IN` or `FULL`
may be handled after an `OFF` they preceded). Two of the events that the run
leaves out break it, and the theorems say which: `NoLate` (no event of the line
is handled later than the next filter runs out) for `ChargeViewFollows` and
`ChargeOnlyIdle`, with `NoBoot` (the line rests while the bud starts) for
`ChargeRightPlace`. A second power-off on top of one that was withdrawn
(`"again"`), which the run leaves out too, breaks none of them.

`DualA2dpProofs` proves all the safety properties of `a2dp` for any
number of acts and any queues. `A2dpTypes` needs nothing; the others are stated
without the windows of `"overtakes"` (`ASSUME ~Overtakes`), in which TLC finds
`FrontNotDetected` and `NotMuted` violated as well as `NoMix`. `A2dpInv` follows a
call through both queues. `Sane` is what each command of `A2dpBud` keeps of one
bud (the phone that is heard is neither detected nor muted, and no call sounds
beside it), provided `PLAY` is run while no call sounds; `Hushed` says that under
a call no detector of the master reports music, which would bring it to the
front. That proviso is about the commands that wait: `CallQueue` says of the queue
of one bud that nothing that sounds waits behind an `OPEN_ESCO` (`OpensLast`),
that what sounds comes behind the end of the call (`SoundsAfter`), that a bud
sounds the call it receives or will (`Joins`) and stops the one that is over or
whose phone it has lost (`Leaves`); the slave alone is told of a lost phone, in
front of all else (`DetachFirst`). The lemmas on queues append, run or lose a
message; `Good` is the invariant for the work a handler of the master has done so
far, kept by `Sends` whether the sibling is there or not; then each handler has
one lemma. Losing the link of the buds (`LostQueue`) keeps the messages that had
arrived, in order. `SameCallHeard` is read off two empty queues.

`SameMusicHeard` is about two buds that run one sequence of commands at different
times. An induction over that sequence is out of the prover's reach; the invariant
carries the sequence of states instead. `Line` says that there is a function
which gives, for each waiting command, what the bud will be before and after it,
and where it ends; a command that is sent adds a value to it, one that is run
takes the first away. `Together` says that the lines of both buds end alike. What
is compared (`View`) depends on the history. Without silence it is the player
alone, which each command but `SWITCH` determines (`PlayerRuns`: a call that is
opened closes the player of either bud, since `A2dpInv` has its SCO link up).
Without a call it is the player and the detectors, on which a command depends
and on nothing else (`EarRuns`). Under a call the master alone detects, hence the
exemption where both have been.

Each inductive invariant was checked by TLC on a run before it was proved.

Proved from the named assumptions on the constants only (`ClockAssumption`,
`DualConnAssumption`, `PoweroffAssumption`, `ToneAssumption`,
`ChargeAssumption`, `A2dpAssumption`).

Only model-checked: everything about liveness (`GivesUp`, `PowerOffEnds`,
`CalibrationEnds`, `EveryToneEnds`, `BothHear`, `HeardInTheEnd`, `InCaseCharges`,
`LowEnds`), which the prover does not reach.

## Not modelled

The components listed as `not_modelled`, with the reason of each; time, beyond
the order of events (a timer that is armed may fire at any moment; where the code
relies on one wait being much longer than another, the module says so); failure of
memory allocation; the contents of messages to phones; the wording, the LEDs and
the sound itself.
