------------------------------ MODULE DualA2dp ------------------------------
(***************************************************************************)
(* Which of two phones is heard on two earbuds (apps/earphone/mode/bt/     *)
(* dual_a2dp_play.c with TCFG_A2DP_PREEMPTED_ENABLE), and what a call of   *)
(* one phone does to the music of the other.  Both buds receive the events *)
(* of the stack; only the master answers them, with commands that both     *)
(* buds queue in app_core and run one after the other (A2dpBud).           *)
(***************************************************************************)
EXTENDS A2dpBud

CONSTANTS
  Buds,        \* the two earbuds
  Happenings,  \* what may happen besides music
  MaxEvents,   \* bound: acts of the users of the phones
  MaxQueue     \* bound: commands waiting in one app_core when an event comes

ASSUME A2dpAssumption ==
  /\ IsFiniteSet(Phones) /\ Cardinality(Phones) = 2
  /\ IsFiniteSet(Buds) /\ Cardinality(Buds) = 2
  /\ None \notin Phones
  /\ Happenings \subseteq {"calls", "roles", "tws", "links", "silence", "deaf", "overtakes"}
  /\ MaxEvents \in Nat /\ MaxQueue \in Nat

VARIABLES
  bud,     \* what the program of each bud keeps, see A2dpBud
  queue,   \* commands and messages each app_core has not run yet
  timers,  \* try_play_preempted_a2dp timers armed on each bud
  phone,   \* the phones, see Phone
  halted,  \* phones whose MEDIA_STOP the master has still to handle
  master,  \* the bud with TWS_ROLE_MASTER
  tws,     \* the buds are connected
  monitor, \* phones the slave listens to
  past,    \* history: what has happened so far, of Happened
  acts     \* acts of the users so far

vars == <<bud, queue, timers, phone, halted, master, tws, monitor, past, acts>>

\* A call has been asked for, the phone that is heard fell silent for five seconds, a link
\* of a phone, or of the buds, has been lost.
Happened == {"call", "silence", "link"}

\* call: the SCO link; bye: events of its end that are still to come;
\* told: AVRCP commands the buds sent and the phone has not obeyed.
Phone == [link : BOOLEAN, on : BOOLEAN, call : {"none", "asked", "up"},
          bye : SUBSET {"hangup", "discon"}, told : Seq({"play", "pause"})]

Other(p) == CHOOSE o \in Phones : o # p
Slave == CHOOSE b \in Buds : b # master

\* Whether one more event, or act, is within the bounds.
Room == \A b \in Buds : Len(queue[b]) < MaxQueue
MayAct == acts < MaxEvents /\ Room

\* The stack of b receives the packets of p.
Receives(b, p) == phone[p].link /\ (b = master \/ p \in monitor)

Links(b) == {p \in Phones : Receives(b, p)}
EscoLink(b) == \E p \in Links(b) : phone[p].call = "up"

TypeOK ==
  /\ bud \in [Buds -> Bud]
  /\ queue \in [Buds -> Seq(Cmds)]
  /\ timers \in [Buds -> Nat]
  /\ phone \in [Phones -> Phone]
  /\ halted \subseteq Phones
  /\ master \in Buds /\ tws \in BOOLEAN /\ monitor \subseteq Phones
  /\ past \subseteq Happened /\ acts \in 0 .. MaxEvents

Init ==
  /\ bud = [b \in Buds |-> Idle]
  /\ queue = [b \in Buds |-> << >>]
  /\ timers = [b \in Buds |-> 0]
  /\ phone = [p \in Phones |-> [link |-> TRUE, on |-> FALSE, call |-> "none",
                                bye |-> {}, told |-> << >>]]
  /\ halted = {}
  /\ master \in Buds
  /\ tws = TRUE
  /\ monitor = Phones
  /\ past = {}
  /\ acts = 0

----------------------------------------------------------------------------
(* Sending and running commands.                                           *)

\* A command or message of one of these kinds is on its way to bud b.
Pending(b, cmds) == \E i \in DOMAIN queue[b] : queue[b][i].cmd \in cmds

\* "overtakes": events come while commands of earlier ones are still on their
\* way: music starts, or a call ends, before the command that opens the sound of
\* the call has been run, the slave begins to listen, the roles change,
\* a link is lost.
Overtakes == "overtakes" \in Happenings
CallIsOpen(b) == Overtakes \/ ~Pending(b, {"OPEN_ESCO"})
Settled(b) == Overtakes \/ queue[b] = << >>

\* tws_a2dp_play_send_cmd and tws_phone_call_send_cmd: bud b, whose handler has
\* made w of its own state and of the queues, sends the command c.  Without
\* a sibling it runs at once, whatever tx_do_action says (and OPEN_ESCO is sent
\* by the event of the SCO link).
Sends(b, w, c) ==
  IF tws
  THEN [s |-> Remember(w.s, c),
        q |-> [x \in Buds |-> IF x # b \/ c.both THEN Append(w.q[x], c) ELSE w.q[x]]]
  ELSE [s |-> InTask(w.s, c, Links(b), TRUE), q |-> w.q]

With(t, q) == [s |-> t, q |-> q]
Now(t) == With(t, queue)

\* The handler returns.
Returns(b, w) == bud' = [bud EXCEPT ![b] = w.s] /\ queue' = w.q

\* A message bud b sends to its own task.
Post(b, t, c) ==
  /\ bud' = [bud EXCEPT ![b] = t]
  /\ queue' = [queue EXCEPT ![b] = Append(@, c)]

\* btstack_device_control(device, USER_CTRL_AVCTP_OPID_PLAY or _PAUSE)
\* (the same one twice counts once).
Tell(p, what) ==
  IF ~phone[p].link \/ (phone[p].told # << >> /\ Last(phone[p].told) = what) THEN phone
  ELSE [phone EXCEPT ![p].told = Append(@, what)]

Popped(b) == [queue EXCEPT ![b] = Tail(@)]

\* The command or message at the head of the queue of b.
Heads(b, cmds) == queue[b] # << >> /\ Head(queue[b]).cmd \in cmds

RunCommand(b) ==
  /\ Heads(b, SharedCmds)
  /\ bud' = [bud EXCEPT ![b] = InTask(@, Head(queue[b]), Links(b), EscoLink(b))]
  /\ queue' = Popped(b)
  /\ UNCHANGED <<timers, phone, halted, master, tws, monitor, past, acts>>

\* Mutant: MUTE is sent with tx_do_action 0.
A2dpStart_OthersMute(b) ==
  /\ Heads(b, {"A2DP_START"})
  /\ LET p == Head(queue[b]).addr
         x == bud[b].player
         w == With(bud[b], Popped(b))
     IN  /\ Returns(b, Sends(b, IF x = None THEN w ELSE Sends(b, w, ToSibling("MUTE", x)),
                             Cmd("PLAY", p)))
         /\ phone' = IF x = None THEN phone ELSE Tell(x, "pause")
  /\ UNCHANGED <<timers, halted, master, tws, monitor, past, acts>>

\* A phone in the background is heard instead of the one in front.
A2dpStart(b) ==
  /\ Heads(b, {"A2DP_START"})
  /\ LET p == Head(queue[b]).addr
         x == bud[b].player
         w == With(bud[b], Popped(b))
     IN  \/ /\ x = None
            /\ Returns(b, Sends(b, w, Cmd("PLAY", p)))
            /\ UNCHANGED phone
         \/ /\ x # None
            /\ Returns(b, Sends(b, Sends(b, w, Cmd("MUTE", x)), Cmd("PLAY", p)))
            /\ phone' = Tell(x, "pause")
  /\ UNCHANGED <<timers, halted, master, tws, monitor, past, acts>>

A2dpNoEnergy(b) ==
  /\ Heads(b, {"NO_ENERGY"})
  /\ LET p == Head(queue[b]).addr
         w == With(bud[b], Popped(b))
     IN  Returns(b, IF b = master /\ bud[b].player = p THEN Sends(b, w, Cmd("SWITCH", p)) ELSE w)
  /\ UNCHANGED <<timers, phone, halted, master, tws, monitor, past, acts>>

SendPlayCmd(b) ==
  /\ Heads(b, {"SEND_PLAY_CMD"})
  /\ phone' = IF b = master THEN Tell(Head(queue[b]).addr, "play") ELSE phone
  /\ queue' = Popped(b)
  /\ UNCHANGED <<bud, timers, halted, master, tws, monitor, past, acts>>

LinkDetach(b) ==
  /\ Heads(b, {"LINK_DETACH"})
  /\ LET p == Head(queue[b]).addr
     IN  bud' = [bud EXCEPT ![b] = bt_phone_esco_stop(tws_a2dp_player_close(@, p), p)]
  /\ queue' = Popped(b)
  /\ UNCHANGED <<timers, phone, halted, master, tws, monitor, past, acts>>

----------------------------------------------------------------------------
(* Events of the stack.                                                    *)

\* The phone that takes part in nothing but the stopping of p's music: both
\* play, or the other one is remembered as interrupted.
Dropped(t, p) ==
  /\ t.drop = p /\ phone[Other(p)].link
  /\ Other(p) \in {t.energy, t.preempted}

StartedInCall(t, p) ==
  /\ Returns(master, Now(bt_start_a2dp_slience_detect(
                           a2dp_media_mute(t, p, Links(master)), p, Links(master))))
  /\ phone' = Tell(p, "pause")

StartedAlone(t, p) ==
  /\ UNCHANGED phone
  /\ \/ /\ Dropped(t, p)
        /\ Returns(master, Sends(master, Now(t), Cmd("MUTE", p)))
     \/ /\ ~Dropped(t, p)
        /\ Returns(master,
                   Sends(master, Now([t EXCEPT !.drop = Without(@, p)]),
                         Cmd(IF t.player \in {None, p} THEN "PLAY" ELSE "SLIENCE_DETECT", p)))

\* BT_STATUS_A2DP_MEDIA_START, which the slave ignores.  `esco' is the phone
\* whose esco status is OPEN; the stream of that one is closed again.
MediaStart(p) ==
  /\ Room
  /\ phone[p].on /\ p \notin bud[master].started \cup halted
  /\ CallIsOpen(master)
  /\ LET t == [bud[master] EXCEPT !.started = @ \cup {p}]
     IN  \/ phone[Other(p)].link /\ t.esco = Other(p) /\ StartedInCall(t, p)
         \/ t.esco = None /\ StartedAlone(t, p)
  /\ UNCHANGED <<timers, halted, master, tws, monitor, past, acts>>

\* BT_STATUS_A2DP_MEDIA_STOP, which the slave ignores.
MediaStop(p) ==
  /\ Room
  /\ p \in halted
  /\ halted' = halted \ {p}
  /\ LET t == [bud[master] EXCEPT !.started = @ \ {p}]
     IN  \/ /\ t.energy # p
            /\ Returns(master, Sends(master, Now(t), Cmd("CLOSE", p)))
            /\ UNCHANGED timers
         \/ /\ t.energy = p
            /\ Returns(master, Sends(master, Now([t EXCEPT !.preempted = p, !.energy = None]),
                                     Cmd("CLOSE", p)))
            /\ timers' = [timers EXCEPT ![master] = @ + 1]
  /\ UNCHANGED <<phone, master, tws, monitor, past, acts>>

\* a2dp_suspend_by_call: the music of p gives way to the call of the other.
Suspends(t, p) == phone[p].link /\ t.player = p
Suspended(t, p) ==
  IF Suspends(t, p)
  THEN Sends(master, Now([t EXCEPT !.preempted = p, !.energy = None]), Cmd("MUTE_BY_CALL", p))
  ELSE Now(t)
SuspendTold(t, p) == IF Suspends(t, p) THEN Tell(p, "pause") ELSE phone

\* BT_STATUS_SCO_CONNECTION_REQ
ScoConnectionReq(p) ==
  /\ "calls" \in Happenings /\ MayAct
  /\ phone[p].link /\ phone[p].bye = {} /\ \A x \in Phones : phone[x].call = "none"
  /\ LET t == bud[master] o == Other(p)
     IN  /\ Returns(master, Suspended(t, o))
         /\ phone' = [SuspendTold(t, o) EXCEPT ![p].call = "asked"]
  /\ acts' = acts + 1
  /\ past' = past \cup {"call"}
  /\ UNCHANGED <<timers, halted, master, tws, monitor>>

\* BT_STATUS_SCO_STATUS_CHANGE: the SCO link is up; first the handler of
\* dual_a2dp_play.c, then the one of tws_phone_call.c.
ScoUp(p) ==
  /\ Room
  /\ phone[p].call = "asked"
  /\ Overtakes \/ ~Pending(master, {"A2DP_START"})
  /\ LET t == bud[master] o == Other(p)
     IN  /\ Returns(master, Sends(master, Suspended(t, o), Cmd("OPEN_ESCO", p)))
         /\ phone' = [SuspendTold(t, o) EXCEPT ![p].call = "up"]
  /\ UNCHANGED <<timers, halted, master, tws, monitor, past, acts>>

\* BT_STATUS_SCO_STATUS_CHANGE with 0xff: the SCO link is gone.
ScoDown(p) ==
  /\ Room
  /\ phone[p].call = "up" /\ \A b \in Buds : CallIsOpen(b)
  /\ LET w == Now(bud[master])
     IN  Returns(master, IF w.s.esco \in {None, p} THEN Sends(master, w, Cmd("CLOSE_ESCO", p)) ELSE w)
  /\ phone' = [phone EXCEPT ![p].call = "none", ![p].bye = {"hangup", "discon"}]
  /\ UNCHANGED <<timers, halted, master, tws, monitor, past, acts>>

\* BT_STATUS_PHONE_HANGUP and BT_STATUS_SCO_DISCON: the other phone's music
\* comes back, at once if it still sends, else 500 ms later by a PLAY command.
PhoneHangup(p, ev) ==
  /\ Room
  /\ ev \in phone[p].bye \cap {"hangup", "discon"}
  /\ LET t == bud[master]
         o == Other(p)
         free == phone[o].link /\ phone[o].call = "none"
         waits == free /\ t.preempted = o
         closed == a2dp_media_close(a2dp_media_unmute(t, o), o)
         later == [timers EXCEPT ![master] = @ + 1]
     IN  \/ /\ waits /\ o \in t.muted
            /\ Returns(master, Now([closed EXCEPT !.energy = o, !.preempted = None, !.drop = p]))
            /\ UNCHANGED timers
         \/ /\ waits /\ o \notin t.muted
            /\ Returns(master, Now([t EXCEPT !.drop = p]))
            /\ timers' = later
         \/ /\ ~waits
            /\ Returns(master, Now(IF free /\ o \in t.muted THEN Release(t, o) ELSE t))
            /\ timers' = IF t.preempted = p THEN later ELSE timers
  /\ phone' = [phone EXCEPT ![p].bye = @ \ {ev}]
  /\ UNCHANGED <<halted, master, tws, monitor, past, acts>>

\* try_play_preempted_a2dp: it asks no role.
TryPlayPreempted(b) ==
  /\ Room
  /\ timers[b] > 0
  /\ LET t == bud[b]
         p == t.preempted
         gone == p = None \/ ~phone[p].link
         busy == ~gone /\ t.esco # None
         plays == ~gone /\ t.player = p
     IN  /\ ~busy  \* the timer is armed again
         /\ Returns(b, Now(IF plays THEN t ELSE [t EXCEPT !.preempted = None]))
         /\ phone' = IF gone \/ plays THEN phone ELSE Tell(p, "play")
  /\ timers' = [timers EXCEPT ![b] = @ - 1]
  /\ UNCHANGED <<halted, master, tws, monitor, past, acts>>

\* HCI_EVENT_DISCONNECTION_COMPLETE at the master, TWS_EVENT_PHONE_LINK_DETACH
\* at the slave.
Disconnected(p) ==
  /\ "links" \in Happenings /\ MayAct
  /\ phone[p].link /\ phone[p].call = "none" /\ phone[p].bye = {}
  /\ \A b \in Buds : Settled(b)
  /\ phone' = [phone EXCEPT ![p] = [@ EXCEPT !.link = FALSE, !.on = FALSE, !.told = << >>]]
  /\ bud' = [bud EXCEPT ![master] = tws_a2dp_player_close(@, p)]
  /\ queue' = IF p \in monitor
              THEN [queue EXCEPT ![Slave] = Append(@, Cmd("LINK_DETACH", p))] ELSE queue
  /\ halted' \in {halted \ {p}, halted \cup {p}}  \* a MEDIA_STOP may follow
  /\ monitor' = monitor \ {p}
  /\ acts' = acts + 1
  /\ past' = past \cup {"link"}
  /\ UNCHANGED <<timers, master, tws>>

\* BT_STATUS_FIRST_CONNECTED or BT_STATUS_SECOND_CONNECTED
Connected(p) ==
  /\ ~phone[p].link /\ \A b \in Buds : queue[b] = << >>  \* paging takes seconds
  /\ phone' = [phone EXCEPT ![p].link = TRUE]
  /\ bud' = [bud EXCEPT ![master].preempted = Without(@, p)]
  /\ UNCHANGED <<queue, timers, halted, master, tws, monitor, past, acts>>
----------------------------------------------------------------------------
(* Energy detection: of a phone in the background (a2dp_slience_detect, a  *)
(* timer that does nothing on the slave) and of the phone that is heard    *)
(* (a2dp_energy_detect_handler).                                           *)

\* Packets of a muted phone do not reach the detector.  It listens for most of
\* a second, so the events of the stream it hears have been handled.
BackgroundEnergy(p) ==
  /\ Room
  /\ CallIsOpen(master)
  /\ p \in bud[master].live /\ bud[master].dual
  /\ phone[p].on /\ p \notin bud[master].muted
  /\ p \in bud[master].started \ halted
  /\ Post(master, [bud[master] EXCEPT !.live = @ \ {p}], Cmd("A2DP_START", p))
  /\ UNCHANGED <<timers, phone, halted, master, tws, monitor, past, acts>>

\* Mutant: the address is cleared before it is copied into the message.
ResumedEnergy_ClearedFirst(b) ==
  /\ Room
  /\ bud[b].energy # None /\ bud[b].player = bud[b].energy
  /\ LET t == [bud[b] EXCEPT !.energy = None]
     IN  Returns(b, Now(t)) \/ Post(b, t, Cmd("SEND_PLAY_CMD", t.energy))
  /\ UNCHANGED <<timers, phone, halted, master, tws, monitor, past, acts>>

\* The first 100 ms of music that a call had interrupted: silence means the
\* phone's player has paused.
ResumedEnergy(b) ==
  /\ Room
  /\ bud[b].energy # None /\ bud[b].player = bud[b].energy
  /\ LET t == [bud[b] EXCEPT !.energy = None]
     IN  \/ Returns(b, Now(t))
         \/ Post(b, t, Cmd("SEND_PLAY_CMD", bud[b].energy))
  /\ UNCHANGED <<timers, phone, halted, master, tws, monitor, past, acts>>

\* Five seconds of silence from the phone that is heard.
NoEnergy(b) ==
  /\ "silence" \in Happenings /\ MayAct
  /\ bud[b].player # None /\ ~bud[b].switched
  /\ Post(b, [bud[b] EXCEPT !.switched = TRUE], Cmd("NO_ENERGY", bud[b].player))
  /\ acts' = acts + 1
  /\ past' = past \cup {"silence"}
  /\ UNCHANGED <<timers, phone, halted, master, tws, monitor>>

----------------------------------------------------------------------------
(* The pair of buds.                                                       *)

ReleaseAll(t) ==
  [t EXCEPT !.detect = {}, !.slot0 = None, !.live = {}, !.dual = @ /\ t.detect = {},
            !.muted = @ \ t.detect, !.started = @ \ t.detect]

\* TWS_EVENT_ROLE_SWITCH
RoleSwitch ==
  /\ "roles" \in Happenings /\ MayAct
  /\ tws /\ monitor = {p \in Phones : phone[p].link}
  /\ \A b \in Buds : Settled(b)
  /\ master' = Slave
  /\ \E hs \in SUBSET halted, ss \in SUBSET {p \in Phones : phone[p].on} :
       \* Each bud handles events in the role it has then.
       /\ ~Overtakes => hs = halted /\ ss = bud[master].started
       /\ halted' = hs
       /\ bud' = [b \in Buds |->
                    ReleaseAll([bud[b] EXCEPT !.started = IF b = master THEN {} ELSE ss])]
  /\ acts' = acts + 1
  /\ UNCHANGED <<queue, timers, phone, tws, monitor, past>>

\* What is left of q when the messages at the positions of I alone survive.
Survivors(q, I) ==
  {[k \in DOMAIN f |-> q[f[k]]] :
     f \in {g \in Bijection(1 .. Cardinality(I), I) : \A j, k \in DOMAIN g : j < k => g[j] < g[k]}}

\* A LINK_DETACH for each phone the slave listened to, in any order.
Detachments == Bijection(1 .. Cardinality(monitor), {Cmd("LINK_DETACH", p) : p \in monitor})

\* The link of the buds is lost, and with it what the slave had not received.
TwsLost ==
  /\ "tws" \in Happenings /\ MayAct
  /\ tws /\ Settled(master)
  /\ tws' = FALSE /\ monitor' = {}
  /\ \E n \in 0 .. Len(queue[Slave]), gone \in Detachments :
       LET here == {i \in DOMAIN queue[Slave] : i <= n \/ queue[Slave][i].cmd \in LocalCmds}
       IN  \E q \in Survivors(queue[Slave], here) : queue' = [queue EXCEPT ![Slave] = q \o gone]
  /\ acts' = acts + 1
  /\ past' = past \cup {"link"}
  /\ UNCHANGED <<bud, timers, phone, halted, master>>

TwsConnected ==
  /\ ~tws /\ \A b \in Buds : queue[b] = << >>  \* pairing takes seconds
  /\ tws' = TRUE
  /\ UNCHANGED <<bud, queue, timers, phone, halted, master, monitor, past, acts>>

\* TWS_EVENT_MONITOR_START: the slave begins to listen to p.
Informed(w, p) ==
  CASE w.s.player = p /\ w.s.slience # p -> Sends(master, w, ToSibling("PLAY", p))
    [] w.s.player # p /\ p \in w.s.detect /\ w.s.play # p ->
         Sends(master, w, ToSibling("SLIENCE_DETECT", p))
    [] OTHER -> w

\* Commands to both buds that bud b has not run.
Unrun(b) ==
  Cardinality({i \in DOMAIN queue[b] : queue[b][i].cmd \in SharedCmds /\ queue[b][i].both})

\* Mutant: the slave that joins in the middle of a call is not told of it.
MonitorStart_NoCall(p) ==
  /\ Room
  /\ tws /\ phone[p].link /\ p \notin monitor
  /\ Unrun(master) <= Unrun(Slave)
  /\ CallIsOpen(master)
  /\ Overtakes \/ \A i \in DOMAIN queue[master] :
       queue[master][i].addr = p => queue[master][i].cmd \in {"PLAY", "SLIENCE_DETECT", "MUTE"}
  /\ monitor' = monitor \cup {p}
  /\ Returns(master, Informed(Now(bud[master]), p))
  /\ UNCHANGED <<timers, phone, halted, master, tws, past, acts>>

\* The event overtakes only commands that are still on their way to both.
MonitorStart(p) ==
  /\ Room
  /\ tws /\ phone[p].link /\ p \notin monitor
  /\ Unrun(master) <= Unrun(Slave)
  /\ CallIsOpen(master)
  /\ Overtakes \/ \A i \in DOMAIN queue[master] :
       queue[master][i].addr = p => queue[master][i].cmd \in {"PLAY", "SLIENCE_DETECT", "MUTE"}
  /\ monitor' = monitor \cup {p}
  /\ LET joins == IF phone[p].call = "up"  \* TWS_EVENT_MONITOR_S_START_ENTER_ESCO
                 THEN [queue EXCEPT ![Slave] = Append(@, Cmd("OPEN_ESCO", p))] ELSE queue
     IN  Returns(master, Informed(With(bud[master], joins), p))
  /\ UNCHANGED <<timers, phone, halted, master, tws, past, acts>>

----------------------------------------------------------------------------
(* The phones.                                                             *)

\* The stream of p ends, with BT_STATUS_AVDTP_SUSPEND or without.
StreamEnds(p) ==
  /\ halted' = halted \cup {p}
  /\ \E suspend \in BOOLEAN :
       bud' = [b \in Buds |-> IF suspend /\ Receives(b, p) THEN a2dp_media_unmute(bud[b], p)
                              ELSE bud[b]]

\* With BT_STATUS_AVRCP_INCOME_OPID before it, or without (some phones).
UserPlays(p) ==
  /\ MayAct
  /\ phone[p].link /\ ~phone[p].on
  /\ LET t == bud[master] o == Other(p)
     IN  \/ /\ phone[o].link /\ t.esco = o
            /\ Returns(master, Now([a2dp_media_mute(t, p, Links(master))
                                      EXCEPT !.preempted = Without(@, p)]))
            /\ phone' = [Tell(p, "pause") EXCEPT ![p].on = TRUE]
         \/ /\ phone' = [phone EXCEPT ![p].on = TRUE]
            /\ UNCHANGED <<bud, queue>>
  /\ acts' = acts + 1
  /\ UNCHANGED <<timers, halted, master, tws, monitor, past>>

UserStops(p) ==
  /\ MayAct
  /\ phone[p].on
  /\ phone' = [phone EXCEPT ![p].on = FALSE]
  /\ StreamEnds(p)
  /\ acts' = acts + 1
  /\ UNCHANGED <<queue, timers, master, tws, monitor, past>>

Obeys(p) ==
  /\ phone[p].told # << >>
  /\ LET what == Head(phone[p].told)
     IN  /\ phone' = [phone EXCEPT ![p].told = Tail(@), ![p].on = what = "play"]
         /\ IF phone[p].on /\ what = "pause" THEN StreamEnds(p) ELSE UNCHANGED <<bud, halted>>
  /\ UNCHANGED <<queue, timers, master, tws, monitor, past, acts>>

\* A player that cannot be paused, or that has been closed.
Ignores(p) ==
  /\ "deaf" \in Happenings /\ phone[p].told # << >>
  /\ phone' = [phone EXCEPT ![p].told = Tail(@)]
  /\ UNCHANGED <<bud, queue, timers, halted, master, tws, monitor, past, acts>>

----------------------------------------------------------------------------
OfBud(b) ==
  \/ RunCommand(b) \/ A2dpStart(b) \/ A2dpNoEnergy(b) \/ SendPlayCmd(b) \/ LinkDetach(b)
  \/ TryPlayPreempted(b) \/ ResumedEnergy(b) \/ NoEnergy(b)

OfPhone(p) ==
  \/ MediaStart(p) \/ MediaStop(p) \/ BackgroundEnergy(p)
  \/ ScoConnectionReq(p) \/ ScoUp(p) \/ ScoDown(p)
  \/ \E ev \in {"hangup", "discon"} : PhoneHangup(p, ev)
  \/ Disconnected(p) \/ Connected(p) \/ MonitorStart(p)
  \/ UserPlays(p) \/ UserStops(p) \/ Obeys(p) \/ Ignores(p)

Next ==
  \/ \E b \in Buds : OfBud(b)
  \/ \E p \in Phones : OfPhone(p)
  \/ RoleSwitch \/ TwsLost \/ TwsConnected

Spec == Init /\ [][Next]_vars

\* app_core runs its queue, timers fire, the stack delivers its events, a
\* phone answers, a call ends; a phone that streams has sound.
Fairness ==
  /\ \A b \in Buds :
       /\ WF_vars(RunCommand(b) \/ A2dpStart(b) \/ A2dpNoEnergy(b) \/ SendPlayCmd(b)
                  \/ LinkDetach(b))
       /\ WF_vars(TryPlayPreempted(b)) /\ WF_vars(ResumedEnergy(b))
  /\ \A p \in Phones :
       /\ WF_vars(MediaStart(p)) /\ WF_vars(MediaStop(p)) /\ WF_vars(BackgroundEnergy(p))
       /\ WF_vars(ScoUp(p)) /\ WF_vars(ScoDown(p)) /\ WF_vars(Obeys(p))
       /\ \A ev \in {"hangup", "discon"} : WF_vars(PhoneHangup(p, ev))

FairSpec == Spec /\ Fairness

----------------------------------------------------------------------------
(* Properties.                                                             *)

\* Every command has been run and every event of the stack handled; the slave
\* listens to the same phones as the master.
Quiet ==
  /\ tws /\ monitor = {p \in Phones : phone[p].link}
  /\ \A b \in Buds : queue[b] = << >>
  /\ halted = {}
  /\ \A p \in Phones : phone[p].on => p \in bud[master].started
  /\ \A p \in Phones : phone[p].bye = {} /\ phone[p].call # "asked"

\* The phone that is heard is not dropped packet by packet by a silence detector
\* as well: a2dp_player_close, bt_start_a2dp_slience_detect and a2dp_player_open
\* take turns on one media file.
FrontNotDetected ==
  \A b \in Buds : bud[b].player = None \/ bud[b].player \notin bud[b].detect

\* No bud plays music and the sound of a call at the same time, whichever of
\* dual_a2dp_play.c and tws_phone_call.c acted last.
NoMix == \A b \in Buds : bud[b].player = None \/ bud[b].esco = None

\* Both ears hear the same call once the commands have been run, although the master
\* alone decides: also when the slave joined in the middle of it, the roles were switched
\* or a link went and came back.
SameCall == Quiet => \A b, c \in Buds : bud[b].esco = bud[c].esco

\* Both ears hear the music of the same phone once the commands have been run, although
\* some handlers act on the master only, as long as no link has been lost.  What the
\* handlers of a call leave on the master alone (it detects, or releases, the other phone)
\* comes to the ears when the phone that is heard falls silent: not both.
SameMusic ==
  Quiet /\ "link" \notin past /\ ~({"call", "silence"} \subseteq past) =>
    \A b, c \in Buds : bud[b].player = bud[c].player

\* The phone that is heard is not muted in the stack: a command that mutes it closes its
\* player too, and the handlers that mute on the master alone do so under a call.
NotMuted == \A b \in Buds : bud[b].player \notin bud[b].muted

\* Only the music of p is on.
Alone(p) ==
  phone[p].on /\ \A o \in Phones : phone[o].call = "none" /\ (o = p \/ ~phone[o].on)

\* The detector of p has lost g_dual_detect, which a command for the other phone
\* freed: its energy counts no more.
Orphan(p) == p \in bud[master].live /\ ~bud[master].dual

\* A phone that goes on playing alone is heard in the end, whatever was played,
\* stopped, lost and interrupted before ("turned to the foreground", comment of
\* APP_MSG_BT_A2DP_START), unless its detector has become an orphan.
HeardInTheEnd ==
  \A p \in Phones : <>[](Alone(p) /\ ~Orphan(p)) => []<>(bud[master].player = p)
=============================================================================
