------------------------------ MODULE A2dpBud ------------------------------
(***************************************************************************)
(* What one earbud keeps about the music of its phones, and what each      *)
(* command of tws_a2dp_play_in_task (dual_a2dp_play.c) and the two ESCO    *)
(* commands of tws_esco_play_in_task (tws_phone_call.c) make of it: the    *)
(* player (a2dp_player.c), the silence detectors of the phones in the      *)
(* background (bt_slience_detect.c) and the mute flags of the stack.       *)
(* `links' is the phones whose packets the stack of this bud receives: it  *)
(* has a media file to open for these only.                                *)
(* No variables: DualA2dp holds the state.                                 *)
(***************************************************************************)
EXTENDS Naturals, Sequences, FiniteSets, SequencesExt

CONSTANTS
  Phones,  \* the phones that may be connected
  None     \* an address of six 0xff, no player, no call

\* Commands sent to both buds, and what a bud posts to its own task.
SharedCmds == {"PLAY", "SLIENCE_DETECT", "CLOSE", "SWITCH", "MUTE", "MUTE_BY_CALL",
               "OPEN_ESCO", "CLOSE_ESCO"}
LocalCmds == {"A2DP_START", "NO_ENERGY", "SEND_PLAY_CMD", "LINK_DETACH"}
Cmds == [cmd : SharedCmds \cup LocalCmds, addr : Phones, both : BOOLEAN]
Cmd(c, p) == [cmd |-> c, addr |-> p, both |-> TRUE]
ToSibling(c, p) == [cmd |-> c, addr |-> p, both |-> FALSE]

Addr == Phones \cup {None}

Bud == [player : Addr,           \* g_a2dp_player->bt_addr
        esco : Addr,             \* g_esco_player; its phone's esco status is OPEN
        started : SUBSET Phones, \* the stack's MEDIA_START state
        muted : SUBSET Phones,   \* a2dp_media_mute
        detect : SUBSET Phones,  \* g_detect_hdl
        slot0 : Addr,            \* g_detect_hdl[0]
        live : SUBSET Phones,    \* those whose slience_timer still runs
        dual : BOOLEAN,          \* g_dual_detect is allocated
        switched : BOOLEAN,      \* g_a2dp_slience_detect = 2
        preempted : Addr,        \* a2dp_preempted_addr
        energy : Addr,           \* a2dp_energy_detect_addr
        drop : Addr,             \* a2dp_drop_packet_detect_addr
        play : Addr,             \* g_play_addr
        slience : Addr]          \* g_slience_addr

Idle == [player |-> None, esco |-> None, started |-> {}, muted |-> {}, detect |-> {},
         slot0 |-> None, live |-> {}, dual |-> FALSE, switched |-> FALSE, preempted |-> None,
         energy |-> None, drop |-> None, play |-> None, slience |-> None]

Without(a, p) == IF a = p THEN None ELSE a

a2dp_player_close(t, p) == [t EXCEPT !.player = Without(@, p)]
a2dp_media_mute(t, p, links) == [t EXCEPT !.muted = @ \cup ({p} \cap links)]
a2dp_media_unmute(t, p) == [t EXCEPT !.muted = @ \ {p}]
a2dp_media_close(t, p) == [t EXCEPT !.started = @ \ {p}]

bt_start_a2dp_slience_detect(t, p, links) ==
  IF p \notin links THEN t  \* no media file
  ELSE [t EXCEPT !.detect = @ \cup {p}, !.live = @ \cup {p}, !.dual = TRUE,
                 !.slot0 = IF @ = None /\ p \notin t.detect THEN p ELSE @]

\* Frees g_dual_detect whether a detector of p was running or not.
bt_stop_a2dp_slience_detect(t, p) ==
  [t EXCEPT !.detect = @ \ {p}, !.live = @ \ {p}, !.dual = FALSE, !.slot0 = Without(@, p)]

\* Mutant: the caller forgets the phone that finds the player busy.
a2dp_player_open_BusyDropped(t, p, links) ==
  IF t.player = None /\ p \in links THEN [t EXCEPT !.player = p] ELSE t

\* -EBUSY when the stream of another phone is open: the caller detects p instead.
a2dp_player_open(t, p, links) ==
  CASE t.player \notin {None, p} -> bt_start_a2dp_slience_detect(t, p, links)
    [] t.player = None /\ p \in links -> [t EXCEPT !.player = p]
    [] OTHER -> t

tws_a2dp_player_close(t, p) ==
  a2dp_media_close(a2dp_media_unmute(bt_stop_a2dp_slience_detect(a2dp_player_close(t, p), p), p), p)

\* The phone of the first detector of g_detect_hdl; None without one.
DetectAddr(t) ==
  IF t.slot0 # None \/ t.detect = {} THEN t.slot0 ELSE CHOOSE x \in t.detect : TRUE

\* Nothing more is kept from p: the stack reports its MEDIA_START again.
Release(t, p) ==
  a2dp_media_close(a2dp_media_unmute(bt_stop_a2dp_slience_detect(t, p), p), p)

\* Mutant: the detector of the phone goes on.
PlayCmd_Detecting(t, p, links) ==
  [a2dp_player_open([a2dp_media_unmute(t, p) EXCEPT !.preempted = Without(@, p),
                       !.drop = Without(@, p), !.switched = FALSE], p, links)
     EXCEPT !.play = None]

\* Mutant: the phone stays muted in the stack.
PlayCmd_Muted(t, p, links) ==
  [a2dp_player_open([bt_stop_a2dp_slience_detect(t, p) EXCEPT !.preempted = Without(@, p),
                       !.drop = Without(@, p), !.switched = FALSE], p, links)
     EXCEPT !.play = None]

PlayCmd(t, p, links) ==
  LET quiet == bt_stop_a2dp_slience_detect(a2dp_media_unmute(t, p), p)
      clean == [quiet EXCEPT !.preempted = Without(@, p), !.drop = Without(@, p),
                             !.switched = FALSE]
  IN  [a2dp_player_open(clean, p, links) EXCEPT !.play = None]

SlienceCmd(t, p, links) ==
  [bt_start_a2dp_slience_detect(a2dp_player_close(t, p), p, links) EXCEPT !.slience = None]

Background(t, p, links) ==
  bt_start_a2dp_slience_detect(a2dp_media_mute(a2dp_player_close(t, p), p, links), p, links)

MuteCmd(t, p, links) == [Background(t, p, links) EXCEPT !.slience = None]

MuteByCallCmd(t, p, links) ==
  [Background(t, p, links) EXCEPT !.preempted = p, !.energy = None]

\* A phone that waits in the background is let go as well.
CloseCmd(t, p) ==
  LET closed == tws_a2dp_player_close(t, p)
      other == DetectAddr(closed)
  IN  IF other = None THEN closed ELSE Release(closed, other)

SwitchCmd(t, p, links) ==
  LET other == DetectAddr(t)
  IN  IF other = None THEN t ELSE Release(Background(t, p, links), other)

\* Mutant: the music goes on under the call.
bt_phone_esco_play_Mixes(t, p, sco) ==
  IF t.esco # None \/ ~sco THEN t
  ELSE [a2dp_media_close(bt_stop_a2dp_slience_detect(t, p), p) EXCEPT !.esco = p]

\* `sco' is lmp_get_esco_link_addr() # NULL.
bt_phone_esco_play(t, p, sco) ==
  LET x == t.player
      stopped == IF x = None THEN t ELSE a2dp_media_close(a2dp_player_close(t, x), x)
      freed == a2dp_media_close(bt_stop_a2dp_slience_detect(stopped, p), p)
  IN  IF t.esco # None \/ ~sco THEN t ELSE [freed EXCEPT !.esco = p]

bt_phone_esco_stop(t, p) == [t EXCEPT !.esco = Without(@, p)]

\* One command of tws_a2dp_play_in_task or tws_esco_play_in_task.
InTask(t, c, links, sco) ==
  CASE c.cmd = "PLAY" -> PlayCmd(t, c.addr, links)
    [] c.cmd = "SLIENCE_DETECT" -> SlienceCmd(t, c.addr, links)
    [] c.cmd = "CLOSE" -> CloseCmd(t, c.addr)
    [] c.cmd = "SWITCH" -> SwitchCmd(t, c.addr, links)
    [] c.cmd = "MUTE" -> MuteCmd(t, c.addr, links)
    [] c.cmd = "MUTE_BY_CALL" -> MuteByCallCmd(t, c.addr, links)
    [] c.cmd = "OPEN_ESCO" -> bt_phone_esco_play(t, c.addr, sco)
    [] c.cmd = "CLOSE_ESCO" -> bt_phone_esco_stop(t, c.addr)

\* What the sender of a command remembers until its own task has run it.
Remember(t, c) ==
  CASE c.cmd = "PLAY" -> [t EXCEPT !.play = c.addr]
    [] c.cmd \in {"SLIENCE_DETECT", "MUTE"} -> [t EXCEPT !.slience = c.addr]
    [] OTHER -> t
=============================================================================
