--------------------------- MODULE DualA2dpProofs ---------------------------
(***************************************************************************)
(* Proofs about DualA2dp: the types, and what music and calls of two       *)
(* phones may never do to each other on two buds.  The commands are        *)
(* followed first (what each makes of one bud), then the calls through     *)
(* the queues of both buds, then the two together, then the music through  *)
(* both queues.                                                            *)
(***************************************************************************)
EXTENDS DualA2dp, TLAPS, FiniteSetTheorems, SequenceTheorems

-----------------------------------------------------------------------------
(* What the operators of A2dpBud do to a bud. *)

LEMMA NoneIsNoPhone == None \notin Phones
BY A2dpAssumption

LEMMA PlayerCloseFields ==
  ASSUME NEW t \in Bud, NEW p \in Phones
  PROVE  LET u == a2dp_player_close(t, p)
         IN  /\ u \in Bud /\ u.player = Without(t.player, p) /\ u.esco = t.esco
             /\ u.muted = t.muted /\ u.started = t.started /\ u.detect = t.detect
             /\ u.live = t.live /\ u.dual = t.dual
BY DEF Bud, Addr, a2dp_player_close, Without

LEMMA MuteFields ==
  ASSUME NEW t \in Bud, NEW p \in Phones, NEW links \in SUBSET Phones
  PROVE  LET u == a2dp_media_mute(t, p, links)
         IN  /\ u \in Bud /\ u.player = t.player /\ u.esco = t.esco
             /\ u.muted = t.muted \cup ({p} \cap links) /\ u.started = t.started
             /\ u.detect = t.detect /\ u.live = t.live /\ u.dual = t.dual
BY DEF Bud, a2dp_media_mute

LEMMA UnmuteFields ==
  ASSUME NEW t \in Bud, NEW p \in Phones
  PROVE  LET u == a2dp_media_unmute(t, p)
         IN  /\ u \in Bud /\ u.player = t.player /\ u.esco = t.esco
             /\ u.muted = t.muted \ {p} /\ u.started = t.started /\ u.detect = t.detect
             /\ u.live = t.live /\ u.dual = t.dual
BY DEF Bud, a2dp_media_unmute

LEMMA MediaCloseFields ==
  ASSUME NEW t \in Bud, NEW p \in Phones
  PROVE  LET u == a2dp_media_close(t, p)
         IN  /\ u \in Bud /\ u.player = t.player /\ u.esco = t.esco
             /\ u.muted = t.muted /\ u.started = t.started \ {p} /\ u.detect = t.detect
             /\ u.live = t.live /\ u.dual = t.dual
BY DEF Bud, a2dp_media_close

LEMMA StopFields ==
  ASSUME NEW t \in Bud, NEW p \in Phones
  PROVE  LET u == bt_stop_a2dp_slience_detect(t, p)
         IN  /\ u \in Bud /\ u.player = t.player /\ u.esco = t.esco
             /\ u.muted = t.muted /\ u.started = t.started /\ u.detect = t.detect \ {p}
             /\ u.live = t.live \ {p} /\ u.dual = FALSE
BY DEF Bud, Addr, bt_stop_a2dp_slience_detect, Without

LEMMA StartFields ==
  ASSUME NEW t \in Bud, NEW p \in Phones, NEW links \in SUBSET Phones
  PROVE  LET u == bt_start_a2dp_slience_detect(t, p, links)
             more == {p} \cap links
         IN  /\ u \in Bud /\ u.player = t.player /\ u.esco = t.esco
             /\ u.muted = t.muted /\ u.started = t.started /\ u.detect = t.detect \cup more
             /\ u.live = t.live \cup more /\ u.dual \in BOOLEAN
             /\ u.dual => t.dual \/ p \in links
<1>1. CASE p \in links
  <2> DEFINE a == IF t.slot0 = None /\ p \notin t.detect THEN p ELSE t.slot0
             u == [t EXCEPT !.detect = @ \cup {p}, !.live = @ \cup {p}, !.dual = TRUE, !.slot0 = a]
  <2>1. bt_start_a2dp_slience_detect(t, p, links) = u
    BY <1>1 DEF bt_start_a2dp_slience_detect
  <2>2. a \in Addr
    BY DEF Bud, Addr
  <2> HIDE DEF a
  <2>3. /\ u \in Bud /\ u.player = t.player /\ u.esco = t.esco
        /\ u.muted = t.muted /\ u.started = t.started /\ u.detect = t.detect \cup {p}
        /\ u.live = t.live \cup {p} /\ u.dual = TRUE
    BY <2>2 DEF Bud
  <2>4. {p} \cap links = {p}
    BY <1>1
  <2> HIDE DEF u
  <2> QED BY <1>1, <2>1, <2>3, <2>4
<1>2. CASE p \notin links
  BY <1>2 DEF Bud, bt_start_a2dp_slience_detect
<1> QED BY <1>1, <1>2

LEMMA PlayerOpenFields ==
  ASSUME NEW t \in Bud, NEW p \in Phones, NEW links \in SUBSET Phones
  PROVE  LET u == a2dp_player_open(t, p, links)
         IN  /\ u \in Bud /\ u.esco = t.esco /\ u.muted = t.muted
             /\ \/ u.player = t.player /\ u.detect = t.detect
                \/ u.player = t.player /\ t.player \notin {None, p} /\ u.detect = t.detect \cup {p}
                \/ u.player = p /\ t.player = None /\ u.detect = t.detect
<1>1. CASE t.player \notin {None, p}
  <2>1. a2dp_player_open(t, p, links) = bt_start_a2dp_slience_detect(t, p, links)
    BY <1>1 DEF a2dp_player_open
  <2> DEFINE u == bt_start_a2dp_slience_detect(t, p, links)
  <2>2. /\ u \in Bud /\ u.player = t.player /\ u.esco = t.esco /\ u.muted = t.muted
        /\ u.detect = t.detect \cup ({p} \cap links)
    BY StartFields DEF u
  <2> HIDE DEF u
  <2>3. u.detect = t.detect \/ u.detect = t.detect \cup {p}
    BY <2>2
  <2> QED BY <1>1, <2>1, <2>2, <2>3 DEF u
<1>2. CASE t.player = None /\ p \in links
  BY <1>2, NoneIsNoPhone DEF a2dp_player_open, Bud, Addr
<1>3. CASE t.player \in {None, p} /\ ~(t.player = None /\ p \in links)
  BY <1>3 DEF a2dp_player_open
<1> QED BY <1>1, <1>2, <1>3

-----------------------------------------------------------------------------
(* The commands. *)

\* The phone that is heard is neither detected nor muted, and no call sounds beside it.
Sane(t) ==
  /\ t \in Bud
  /\ t.player \notin t.detect /\ t.player \notin t.muted
  /\ t.esco = None \/ t.player = None

\* Under a call no detector reports energy: the phone of the call has no stream, and that
\* of the other one is muted, or over (h: the phones whose end the master has still to
\* handle), or g_dual_detect has been freed.
Hushed(t, h) ==
  t.esco # None =>
    /\ t.esco \notin t.started
    /\ t.dual => \A p \in t.live : p \in t.muted \/ p \notin t.started \/ p \in h

LEMMA ReleaseFields ==
  ASSUME NEW t \in Bud, NEW p \in Phones
  PROVE  LET u == Release(t, p)
         IN  /\ u \in Bud /\ u.player = t.player /\ u.esco = t.esco
             /\ u.muted = t.muted \ {p} /\ u.started = t.started \ {p}
             /\ u.detect = t.detect \ {p} /\ u.dual = FALSE
<1> DEFINE v == bt_stop_a2dp_slience_detect(t, p)
           w == a2dp_media_unmute(v, p)
<1>1. /\ v \in Bud /\ v.player = t.player /\ v.esco = t.esco
      /\ v.muted = t.muted /\ v.started = t.started /\ v.detect = t.detect \ {p}
      /\ v.dual = FALSE
  BY StopFields DEF v
<1> HIDE DEF v
<1>2. /\ w \in Bud /\ w.player = t.player /\ w.esco = t.esco
      /\ w.muted = t.muted \ {p} /\ w.started = t.started /\ w.detect = t.detect \ {p}
      /\ w.dual = FALSE
  BY <1>1, UnmuteFields DEF w
<1> HIDE DEF w
<1>3. Release(t, p) = a2dp_media_close(w, p)
  BY DEF Release, v, w
<1> QED BY <1>2, <1>3, MediaCloseFields

LEMMA PlayerCloseAllFields ==
  ASSUME NEW t \in Bud, NEW p \in Phones
  PROVE  LET u == tws_a2dp_player_close(t, p)
         IN  /\ u \in Bud /\ u.player = Without(t.player, p) /\ u.esco = t.esco
             /\ u.muted = t.muted \ {p} /\ u.started = t.started \ {p}
             /\ u.detect = t.detect \ {p} /\ u.dual = FALSE
<1> DEFINE v == a2dp_player_close(t, p)
<1>1. /\ v \in Bud /\ v.player = Without(t.player, p) /\ v.esco = t.esco
      /\ v.muted = t.muted /\ v.started = t.started /\ v.detect = t.detect
  BY PlayerCloseFields DEF v
<1> HIDE DEF v
<1> DEFINE w == Release(v, p)
<1>2. /\ w \in Bud /\ w.player = v.player /\ w.esco = v.esco
      /\ w.muted = v.muted \ {p} /\ w.started = v.started \ {p}
      /\ w.detect = v.detect \ {p} /\ w.dual = FALSE
  BY <1>1, ReleaseFields DEF w
<1>3. tws_a2dp_player_close(t, p) = w
  BY DEF tws_a2dp_player_close, Release, v, w
<1> HIDE DEF w
<1> QED BY <1>1, <1>2, <1>3

\* PLAY is the one command that opens the player.
LEMMA PlayCmdSane ==
  ASSUME NEW t, Sane(t), t.esco = None, NEW p \in Phones, NEW links \in SUBSET Phones
  PROVE  Sane(PlayCmd(t, p, links)) /\ PlayCmd(t, p, links).esco = None
<1> DEFINE m == a2dp_media_unmute(t, p)
           quiet == bt_stop_a2dp_slience_detect(m, p)
           clean == [quiet EXCEPT !.preempted = Without(@, p), !.drop = Without(@, p),
                                  !.switched = FALSE]
           open == a2dp_player_open(clean, p, links)
           u == [open EXCEPT !.play = None]
<1>0. t \in Bud /\ t.player \notin t.detect /\ t.player \notin t.muted /\ t.player \in Addr
  BY DEF Sane, Bud
<1>1. /\ m \in Bud /\ m.player = t.player /\ m.esco = None
      /\ m.muted = t.muted \ {p} /\ m.detect = t.detect
  BY <1>0, UnmuteFields DEF m
<1> HIDE DEF m
<1>2. /\ quiet \in Bud /\ quiet.player = t.player /\ quiet.esco = None
      /\ quiet.muted = t.muted \ {p} /\ quiet.detect = t.detect \ {p}
  BY <1>1, StopFields, ZenonT(40) DEF quiet
<1> HIDE DEF quiet
<1>3. /\ clean \in Bud /\ clean.player = t.player /\ clean.esco = None
      /\ clean.muted = t.muted \ {p} /\ clean.detect = t.detect \ {p}
  <2> DEFINE c1 == [quiet EXCEPT !.preempted = Without(@, p)]
             c2 == [c1 EXCEPT !.drop = Without(@, p)]
  <2>1. /\ c1 \in Bud /\ c1.player = t.player /\ c1.esco = None
        /\ c1.muted = t.muted \ {p} /\ c1.detect = t.detect \ {p}
    BY <1>2 DEF c1, Bud, Addr, Without
  <2>2. /\ c2 \in Bud /\ c2.player = t.player /\ c2.esco = None
        /\ c2.muted = t.muted \ {p} /\ c2.detect = t.detect \ {p}
    <3> HIDE DEF c1
    <3> QED BY <2>1 DEF c2, Bud, Addr, Without
  <2>3. clean = [c2 EXCEPT !.switched = FALSE]
    BY DEF clean, c2, c1
  <2> HIDE DEF c1, c2
  <2> QED BY <2>2, <2>3 DEF Bud
<1> HIDE DEF clean
<1>4. /\ open \in Bud /\ open.esco = None /\ open.muted = t.muted \ {p}
      /\ open.player \notin open.detect /\ open.player \notin open.muted
  <2>1. \/ open.player = t.player /\ open.detect = t.detect \ {p}
        \/ open.player = t.player /\ t.player \notin {None, p} /\ open.detect = (t.detect \ {p}) \cup {p}
        \/ open.player = p /\ open.detect = t.detect \ {p}
    BY <1>3, PlayerOpenFields DEF open
  <2>2. open \in Bud /\ open.esco = None /\ open.muted = t.muted \ {p}
    BY <1>3, PlayerOpenFields DEF open
  <2> HIDE DEF open
  <2> QED BY <1>0, <2>1, <2>2
<1> HIDE DEF open
<1>5. u \in Bud /\ u.player = open.player /\ u.esco = None /\ u.muted = open.muted
      /\ u.detect = open.detect
  BY <1>4 DEF u, Bud, Addr
<1>6. PlayCmd(t, p, links) = u
  BY DEF PlayCmd, u, open, clean, quiet, m
<1> HIDE DEF u
<1> QED BY <1>4, <1>5, <1>6 DEF Sane

LEMMA BackgroundSane ==
  ASSUME NEW t, Sane(t), NEW p \in Phones, NEW links \in SUBSET Phones
  PROVE  /\ Sane(Background(t, p, links))
         /\ Background(t, p, links).esco = t.esco
         /\ Background(t, p, links).started = t.started
<1> DEFINE v == a2dp_player_close(t, p)
           w == a2dp_media_mute(v, p, links)
           u == bt_start_a2dp_slience_detect(w, p, links)
<1>0. t \in Bud /\ t.player \in Addr /\ t.player \notin t.detect /\ t.player \notin t.muted
  BY DEF Sane, Bud
<1>1. /\ v \in Bud /\ v.player = Without(t.player, p) /\ v.esco = t.esco
      /\ v.muted = t.muted /\ v.started = t.started /\ v.detect = t.detect
  BY <1>0, PlayerCloseFields DEF v
<1> HIDE DEF v
<1>2. /\ w \in Bud /\ w.player = v.player /\ w.esco = t.esco
      /\ w.muted = t.muted \cup ({p} \cap links) /\ w.started = t.started
      /\ w.detect = t.detect
  BY <1>1, MuteFields DEF w
<1> HIDE DEF w
<1>3. /\ u \in Bud /\ u.player = v.player /\ u.esco = t.esco
      /\ u.muted = t.muted \cup ({p} \cap links) /\ u.started = t.started
      /\ u.detect = t.detect \cup ({p} \cap links)
  BY <1>2, StartFields DEF u
<1> HIDE DEF u
<1>4. v.player # p /\ v.player \in {None, t.player}
  BY <1>0, <1>1, NoneIsNoPhone DEF Without
<1>5. None \notin t.detect /\ None \notin t.muted
  BY <1>0, NoneIsNoPhone DEF Bud
<1>6. Sane(u)
  BY <1>0, <1>3, <1>4, <1>5 DEF Sane
<1>7. Background(t, p, links) = u
  BY DEF Background, u, w, v
<1> QED BY <1>3, <1>6, <1>7

LEMMA SlienceCmdSane ==
  ASSUME NEW t, Sane(t), NEW p \in Phones, NEW links \in SUBSET Phones
  PROVE  Sane(SlienceCmd(t, p, links)) /\ SlienceCmd(t, p, links).esco = t.esco
<1> DEFINE v == a2dp_player_close(t, p)
           w == bt_start_a2dp_slience_detect(v, p, links)
           u == [w EXCEPT !.slience = None]
<1>0. t \in Bud /\ t.player \in Addr /\ t.player \notin t.detect /\ t.player \notin t.muted
  BY DEF Sane, Bud
<1>1. /\ v \in Bud /\ v.player = Without(t.player, p) /\ v.esco = t.esco
      /\ v.muted = t.muted /\ v.detect = t.detect
  BY <1>0, PlayerCloseFields DEF v
<1> HIDE DEF v
<1>2. /\ w \in Bud /\ w.player = v.player /\ w.esco = t.esco
      /\ w.muted = t.muted /\ w.detect = t.detect \cup ({p} \cap links)
  BY <1>1, StartFields DEF w
<1> HIDE DEF w
<1>3. /\ u \in Bud /\ u.player = v.player /\ u.esco = t.esco
      /\ u.muted = t.muted /\ u.detect = t.detect \cup ({p} \cap links)
  BY <1>2 DEF u, Bud, Addr
<1> HIDE DEF u
<1>4. v.player # p /\ v.player \in {None, t.player}
  BY <1>0, <1>1, NoneIsNoPhone DEF Without
<1>5. None \notin t.detect /\ None \notin t.muted
  BY <1>0, NoneIsNoPhone DEF Bud
<1>6. Sane(u)
  BY <1>0, <1>3, <1>4, <1>5 DEF Sane
<1>7. SlienceCmd(t, p, links) = u
  BY DEF SlienceCmd, u, w, v
<1> QED BY <1>3, <1>6, <1>7

LEMMA MuteCmdSane ==
  ASSUME NEW t, Sane(t), NEW p \in Phones, NEW links \in SUBSET Phones
  PROVE  /\ Sane(MuteCmd(t, p, links)) /\ MuteCmd(t, p, links).esco = t.esco
         /\ Sane(MuteByCallCmd(t, p, links)) /\ MuteByCallCmd(t, p, links).esco = t.esco
<1> DEFINE w == Background(t, p, links)
<1>1. w \in Bud /\ Sane(w) /\ w.esco = t.esco
  BY BackgroundSane DEF Sane
<1>2. MuteCmd(t, p, links) = [w EXCEPT !.slience = None]
  BY DEF MuteCmd
<1>3. MuteByCallCmd(t, p, links) = [w EXCEPT !.preempted = p, !.energy = None]
  BY DEF MuteByCallCmd
<1> HIDE DEF w
<1> DEFINE u == [w EXCEPT !.slience = None]
           v == [w EXCEPT !.preempted = p, !.energy = None]
<1>4. /\ u \in Bud /\ u.player = w.player /\ u.esco = w.esco /\ u.muted = w.muted
      /\ u.detect = w.detect
  BY <1>1 DEF u, Bud, Addr
<1>5. /\ v \in Bud /\ v.player = w.player /\ v.esco = w.esco /\ v.muted = w.muted
      /\ v.detect = w.detect
  BY <1>1 DEF v, Bud, Addr
<1> HIDE DEF u, v
<1> QED BY <1>1, <1>2, <1>3, <1>4, <1>5 DEF Sane, u, v

\* Release forgets a phone in the background: it touches no player and no call.
LEMMA ReleaseSane ==
  ASSUME NEW t, Sane(t), NEW p \in Phones
  PROVE  /\ Sane(Release(t, p)) /\ Release(t, p).esco = t.esco
         /\ Release(t, p).dual = FALSE /\ Release(t, p).started \subseteq t.started
<1> DEFINE u == Release(t, p)
<1>1. /\ u \in Bud /\ u.player = t.player /\ u.esco = t.esco
      /\ u.muted = t.muted \ {p} /\ u.started = t.started \ {p}
      /\ u.detect = t.detect \ {p} /\ u.dual = FALSE
  BY ReleaseFields DEF u, Sane
<1> HIDE DEF u
<1> QED BY <1>1 DEF Sane, u

LEMMA PlayerCloseSane ==
  ASSUME NEW t, Sane(t), NEW p \in Phones
  PROVE  LET u == tws_a2dp_player_close(t, p)
         IN  /\ Sane(u) /\ u.esco = t.esco /\ u.dual = FALSE
             /\ u.started = t.started \ {p}
<1> DEFINE u == tws_a2dp_player_close(t, p)
<1>0. t \in Bud /\ t.player \in Addr /\ t.player \notin t.detect /\ t.player \notin t.muted
  BY DEF Sane, Bud
<1>1. /\ u \in Bud /\ u.player = Without(t.player, p) /\ u.esco = t.esco
      /\ u.muted = t.muted \ {p} /\ u.started = t.started \ {p}
      /\ u.detect = t.detect \ {p} /\ u.dual = FALSE
  BY <1>0, PlayerCloseAllFields DEF u
<1> HIDE DEF u
<1>2. u.player \in {None, t.player}
  BY <1>1 DEF Without
<1>3. None \notin t.detect /\ None \notin t.muted
  BY <1>0, NoneIsNoPhone DEF Bud
<1> QED BY <1>0, <1>1, <1>2, <1>3 DEF Sane, u

LEMMA DetectAddrType ==
  ASSUME NEW t \in Bud
  PROVE  DetectAddr(t) \in Addr
BY DEF DetectAddr, Bud, Addr

LEMMA CloseCmdSane ==
  ASSUME NEW t, Sane(t), NEW p \in Phones
  PROVE  LET u == CloseCmd(t, p)
         IN  /\ Sane(u) /\ u.esco = t.esco /\ u.dual = FALSE
             /\ u.started \subseteq t.started
<1> DEFINE v == tws_a2dp_player_close(t, p)
           other == DetectAddr(v)
<1>1. Sane(v) /\ v.esco = t.esco /\ v.dual = FALSE /\ v.started \subseteq t.started
  BY PlayerCloseSane
<1>2. CloseCmd(t, p) = IF other = None THEN v ELSE Release(v, other)
  BY DEF CloseCmd
<1> HIDE DEF v
<1>3. other \in Addr
  BY <1>1, DetectAddrType DEF Sane
<1> HIDE DEF other
<1>4. CASE other = None
  BY <1>1, <1>2, <1>4
<1>5. CASE other # None
  <2>1. other \in Phones
    BY <1>3, <1>5 DEF Addr
  <2> QED BY <1>1, <1>2, <1>5, <2>1, ReleaseSane
<1> QED BY <1>4, <1>5

LEMMA SwitchCmdSane ==
  ASSUME NEW t, Sane(t), NEW p \in Phones, NEW links \in SUBSET Phones
  PROVE  LET u == SwitchCmd(t, p, links)
         IN  /\ Sane(u) /\ u.esco = t.esco
             /\ u = t \/ (u.dual = FALSE /\ u.started \subseteq t.started)
<1> DEFINE other == DetectAddr(t)
           w == Background(t, p, links)
<1>1. SwitchCmd(t, p, links) = IF other = None THEN t ELSE Release(w, other)
  BY DEF SwitchCmd
<1>2. Sane(w) /\ w.esco = t.esco /\ w.started = t.started
  BY BackgroundSane
<1>3. other \in Addr
  BY DetectAddrType DEF Sane
<1> HIDE DEF other, w
<1>4. CASE other = None
  BY <1>1, <1>4
<1>5. CASE other # None
  <2>1. other \in Phones
    BY <1>3, <1>5 DEF Addr
  <2> DEFINE u == Release(w, other)
  <2>2. /\ Sane(u) /\ u.esco = w.esco /\ u.dual = FALSE /\ u.started \subseteq w.started
    BY <1>2, <2>1, ReleaseSane DEF u
  <2>3. SwitchCmd(t, p, links) = u
    BY <1>1, <1>5 DEF u
  <2> HIDE DEF u
  <2> QED BY <1>2, <2>2, <2>3
<1> QED BY <1>4, <1>5

\* The sound of a call: music stops, and the detectors lose g_dual_detect.
LEMMA EscoPlaySane ==
  ASSUME NEW t, Sane(t), NEW p \in Phones, NEW sco \in BOOLEAN
  PROVE  LET u == bt_phone_esco_play(t, p, sco)
         IN  /\ Sane(u)
             /\ \/ (t.esco # None \/ ~sco) /\ u = t
                \/ /\ t.esco = None /\ sco /\ u.esco = p
                   /\ p \notin u.started /\ u.dual = FALSE
<1> DEFINE x == t.player
           c == a2dp_player_close(t, x)
           m == a2dp_media_close(c, x)
           stopped == IF x = None THEN t ELSE m
           f == bt_stop_a2dp_slience_detect(stopped, p)
           freed == a2dp_media_close(f, p)
           u == [freed EXCEPT !.esco = p]
<1>0. t \in Bud /\ x \in Addr /\ None \notin t.detect /\ None \notin t.muted
  BY NoneIsNoPhone DEF Sane, Bud
<1>1. CASE t.esco # None \/ ~sco
  BY <1>1 DEF bt_phone_esco_play
<1>2. CASE t.esco = None /\ sco
  <2>1. stopped \in Bud /\ stopped.player = None /\ stopped.detect = t.detect
        /\ stopped.muted = t.muted
    <3>1. CASE x = None
      BY <1>0, <3>1
    <3>2. CASE x # None
      <4>0. x \in Phones
        BY <1>0, <3>2 DEF Addr
      <4>1. c \in Bud /\ c.player = Without(x, x) /\ c.muted = t.muted /\ c.detect = t.detect
        BY <1>0, <4>0, PlayerCloseFields DEF c
      <4> HIDE DEF c
      <4>2. m \in Bud /\ m.player = c.player /\ m.muted = t.muted /\ m.detect = t.detect
        BY <4>0, <4>1, MediaCloseFields DEF m
      <4> HIDE DEF m
      <4> QED BY <3>2, <4>1, <4>2 DEF Without
    <3> QED BY <3>1, <3>2
  <2>2. bt_phone_esco_play(t, p, sco) = u
    BY <1>2 DEF bt_phone_esco_play
  <2> HIDE DEF stopped
  <2>3. f \in Bud /\ f.player = None /\ f.detect = t.detect \ {p} /\ f.muted = t.muted
        /\ f.dual = FALSE
    BY <2>1, StopFields, ZenonT(40) DEF f
  <2> HIDE DEF f
  <2>4. freed \in Bud /\ freed.player = None /\ freed.detect = t.detect \ {p}
        /\ freed.muted = t.muted /\ freed.dual = FALSE /\ p \notin freed.started
    BY <2>3, MediaCloseFields DEF freed
  <2> HIDE DEF freed
  <2>5. u \in Bud /\ u.player = None /\ u.detect = t.detect \ {p}
        /\ u.muted = t.muted /\ u.dual = FALSE /\ p \notin u.started /\ u.esco = p
    BY <2>4 DEF u, Bud, Addr
  <2> HIDE DEF u
  <2> QED BY <1>0, <1>2, <2>2, <2>5 DEF Sane
<1> QED BY <1>1, <1>2

LEMMA EscoStopSane ==
  ASSUME NEW t, Sane(t), NEW p \in Phones
  PROVE  LET u == bt_phone_esco_stop(t, p)
         IN  /\ Sane(u) /\ u.esco = Without(t.esco, p) /\ u.started = t.started
             /\ u.live = t.live /\ u.dual = t.dual /\ u.muted = t.muted
<1> DEFINE u == bt_phone_esco_stop(t, p)
<1>0. t \in Bud
  BY DEF Sane
<1>1. /\ u \in Bud /\ u.esco = Without(t.esco, p) /\ u.started = t.started
      /\ u.live = t.live /\ u.dual = t.dual /\ u.muted = t.muted
      /\ u.player = t.player /\ u.detect = t.detect
  BY <1>0 DEF u, bt_phone_esco_stop, Bud, Addr, Without
<1> HIDE DEF u
<1> QED BY <1>1 DEF Sane, u, Without

\* The commands that leave a detector to report energy, or a player that sounds: none of
\* them may run on the master under a call, nor PLAY on either bud.
Sounding(lead) == IF lead THEN {"PLAY", "SLIENCE_DETECT", "MUTE", "MUTE_BY_CALL"} ELSE {"PLAY"}

\* What a message makes of the call of a bud.
EscoAfter(e, c, sco) ==
  CASE c.cmd = "OPEN_ESCO" -> IF e # None \/ ~sco THEN e ELSE c.addr
    [] c.cmd \in {"CLOSE_ESCO", "LINK_DETACH"} -> Without(e, c.addr)
    [] OTHER -> e

\* Every command, for a slave.
LEMMA CommandSane ==
  ASSUME NEW t, Sane(t), NEW c \in Cmds, c.cmd \in SharedCmds,
         NEW links \in SUBSET Phones, NEW sco \in BOOLEAN,
         c.cmd = "PLAY" => t.esco = None
  PROVE  LET u == InTask(t, c, links, sco)
         IN  Sane(u) /\ u.esco = EscoAfter(t.esco, c, sco)
<1>0. c.addr \in Phones
  BY DEF Cmds
<1> DEFINE p == c.addr
<1> HIDE DEF p
<1>1. CASE c.cmd = "PLAY"
  <2>1. InTask(t, c, links, sco) = PlayCmd(t, p, links)
    BY <1>1 DEF InTask, p
  <2> QED BY <1>0, <1>1, <2>1, PlayCmdSane DEF EscoAfter, p
<1>2. CASE c.cmd = "SLIENCE_DETECT"
  <2>1. InTask(t, c, links, sco) = SlienceCmd(t, p, links)
    BY <1>2 DEF InTask, p
  <2> QED BY <1>0, <1>2, <2>1, SlienceCmdSane DEF EscoAfter, p
<1>3. CASE c.cmd = "CLOSE"
  <2>1. InTask(t, c, links, sco) = CloseCmd(t, p)
    BY <1>3 DEF InTask, p
  <2> QED BY <1>0, <1>3, <2>1, CloseCmdSane DEF EscoAfter, p
<1>4. CASE c.cmd = "SWITCH"
  <2>1. InTask(t, c, links, sco) = SwitchCmd(t, p, links)
    BY <1>4 DEF InTask, p
  <2>2. p \in Phones
    BY <1>0 DEF p
  <2>3. Sane(SwitchCmd(t, p, links)) /\ SwitchCmd(t, p, links).esco = t.esco
    BY <2>2, SwitchCmdSane
  <2> QED BY <1>4, <2>1, <2>3 DEF EscoAfter
<1>5. CASE c.cmd = "MUTE"
  <2>1. InTask(t, c, links, sco) = MuteCmd(t, p, links)
    BY <1>5 DEF InTask, p
  <2> QED BY <1>0, <1>5, <2>1, MuteCmdSane DEF EscoAfter, p
<1>6. CASE c.cmd = "MUTE_BY_CALL"
  <2>1. InTask(t, c, links, sco) = MuteByCallCmd(t, p, links)
    BY <1>6 DEF InTask, p
  <2> QED BY <1>0, <1>6, <2>1, MuteCmdSane DEF EscoAfter, p
<1>7. CASE c.cmd = "OPEN_ESCO"
  <2>1. InTask(t, c, links, sco) = bt_phone_esco_play(t, p, sco)
    BY <1>7 DEF InTask, p
  <2> DEFINE u == bt_phone_esco_play(t, p, sco)
  <2>2. p \in Phones
    BY <1>0 DEF p
  <2>3. Sane(u) /\ (((t.esco # None \/ ~sco) /\ u = t) \/ (t.esco = None /\ sco /\ u.esco = p))
    BY <2>2, EscoPlaySane DEF u
  <2>4. u.esco = EscoAfter(t.esco, c, sco)
    <3> HIDE DEF u
    <3> QED BY <1>7, <2>3 DEF EscoAfter, p
  <2> QED BY <2>1, <2>3, <2>4
<1>8. CASE c.cmd = "CLOSE_ESCO"
  <2>1. InTask(t, c, links, sco) = bt_phone_esco_stop(t, p)
    BY <1>8 DEF InTask, p
  <2> QED BY <1>0, <1>8, <2>1, EscoStopSane DEF EscoAfter, p
<1> QED BY <1>1, <1>2, <1>3, <1>4, <1>5, <1>6, <1>7, <1>8 DEF SharedCmds

\* Every command, for the master.
LEMMA CommandHushed ==
  ASSUME NEW t, Sane(t), NEW c \in Cmds, c.cmd \in SharedCmds,
         NEW links \in SUBSET Phones, NEW sco \in BOOLEAN, NEW h,
         c.cmd \in Sounding(TRUE) => t.esco = None, Hushed(t, h)
  PROVE  Hushed(InTask(t, c, links, sco), h)
<1> DEFINE u == InTask(t, c, links, sco)
<1>0. c.addr \in Phones
  BY DEF Cmds
<1> DEFINE p == c.addr
<1>1. CASE c.cmd \in Sounding(TRUE)
  <2>1. u.esco = EscoAfter(t.esco, c, sco)
    BY <1>1, CommandSane DEF Sounding
  <2>2. u.esco = None
    BY <1>1, <2>1 DEF EscoAfter, Sounding
  <2> QED BY <2>2 DEF Hushed
<1> HIDE DEF p
<1>2. CASE c.cmd = "CLOSE"
  <2>1. u = CloseCmd(t, p)
    BY <1>2 DEF InTask, p
  <2>2. u.esco = t.esco /\ u.dual = FALSE /\ u.started \subseteq t.started
    BY <1>0, <2>1, CloseCmdSane DEF p
  <2> QED BY <2>2 DEF Hushed
<1>3. CASE c.cmd = "SWITCH"
  <2>1. u = SwitchCmd(t, p, links)
    BY <1>3 DEF InTask, p
  <2> DEFINE w == SwitchCmd(t, p, links)
  <2>0. p \in Phones
    BY <1>0 DEF p
  <2>5. w.esco = t.esco /\ (w = t \/ (w.dual = FALSE /\ w.started \subseteq t.started))
    BY <2>0, SwitchCmdSane DEF w
  <2> HIDE DEF w
  <2>2. u = t \/ (u.esco = t.esco /\ u.dual = FALSE /\ u.started \subseteq t.started)
    BY <2>1, <2>5 DEF w
  <2> HIDE DEF u
  <2>3. CASE u = t
    BY <2>3 DEF u
  <2>4. CASE u.esco = t.esco /\ u.dual = FALSE /\ u.started \subseteq t.started
    BY <2>4 DEF Hushed, u
  <2> QED BY <2>2, <2>3, <2>4
<1>4. CASE c.cmd = "OPEN_ESCO"
  <2>1. u = bt_phone_esco_play(t, p, sco)
    BY <1>4 DEF InTask, p
  <2> DEFINE w == bt_phone_esco_play(t, p, sco)
  <2>0. p \in Phones
    BY <1>0 DEF p
  <2>5. w = t \/ (w.esco = p /\ p \notin w.started /\ w.dual = FALSE)
    BY <2>0, EscoPlaySane DEF w
  <2> HIDE DEF w
  <2>2. u = t \/ (u.esco = p /\ p \notin u.started /\ u.dual = FALSE)
    BY <2>1, <2>5 DEF w
  <2> HIDE DEF u
  <2>3. CASE u = t
    BY <2>3 DEF u
  <2>4. CASE u.esco = p /\ p \notin u.started /\ u.dual = FALSE
    BY <2>4 DEF Hushed, u
  <2> QED BY <2>2, <2>3, <2>4
<1>5. CASE c.cmd = "CLOSE_ESCO"
  <2>1. u = bt_phone_esco_stop(t, p)
    BY <1>5 DEF InTask, p
  <2>2. /\ u.esco \in {None, t.esco} /\ u.started = t.started
        /\ u.live = t.live /\ u.dual = t.dual /\ u.muted = t.muted
    BY <1>0, <2>1, EscoStopSane DEF p, Without
  <2> QED BY <2>2 DEF Hushed
<1> QED BY <1>1, <1>2, <1>3, <1>4, <1>5 DEF SharedCmds, Sounding

\* What a sender remembers of its command.
LEMMA RememberFields ==
  ASSUME NEW t \in Bud, NEW c \in Cmds
  PROVE  LET u == Remember(t, c)
         IN  /\ u \in Bud /\ u.player = t.player /\ u.esco = t.esco /\ u.muted = t.muted
             /\ u.started = t.started /\ u.detect = t.detect /\ u.live = t.live
             /\ u.dual = t.dual
<1>0. c.addr \in Phones
  BY DEF Cmds
<1>1. CASE c.cmd = "PLAY"
  BY <1>0, <1>1 DEF Remember, Bud, Addr
<1>2. CASE c.cmd \in {"SLIENCE_DETECT", "MUTE"}
  BY <1>0, <1>2 DEF Remember, Bud, Addr
<1>3. CASE c.cmd \notin {"PLAY", "SLIENCE_DETECT", "MUTE"}
  BY <1>3 DEF Remember
<1> QED BY <1>1, <1>2, <1>3

LEMMA BackgroundType ==
  ASSUME NEW t \in Bud, NEW p \in Phones, NEW links \in SUBSET Phones
  PROVE  Background(t, p, links) \in Bud
<1> DEFINE v == a2dp_player_close(t, p)
           w == a2dp_media_mute(v, p, links)
<1>1. v \in Bud
  BY PlayerCloseFields
<1> HIDE DEF v
<1>2. w \in Bud
  BY <1>1, MuteFields
<1>3. Background(t, p, links) = bt_start_a2dp_slience_detect(w, p, links)
  BY DEF Background, v
<1> HIDE DEF w
<1> QED BY <1>2, <1>3, StartFields

LEMMA PlayCmdType ==
  ASSUME NEW t \in Bud, NEW p \in Phones, NEW links \in SUBSET Phones
  PROVE  PlayCmd(t, p, links) \in Bud
<1> DEFINE m == a2dp_media_unmute(t, p)
           quiet == bt_stop_a2dp_slience_detect(m, p)
           clean == [quiet EXCEPT !.preempted = Without(@, p), !.drop = Without(@, p),
                                  !.switched = FALSE]
           open == a2dp_player_open(clean, p, links)
<1>1. m \in Bud
  BY UnmuteFields
<1> HIDE DEF m
<1>2. quiet \in Bud
  BY <1>1, StopFields
<1> HIDE DEF quiet
<1>3. clean \in Bud
  <2> DEFINE c1 == [quiet EXCEPT !.preempted = Without(@, p)]
             c2 == [c1 EXCEPT !.drop = Without(@, p)]
  <2>1. c1 \in Bud
    BY <1>2 DEF Bud, Addr, Without
  <2>2. c2 \in Bud
    <3> HIDE DEF c1
    <3> QED BY <2>1 DEF Bud, Addr, Without
  <2>3. clean = [c2 EXCEPT !.switched = FALSE]
    BY DEF clean, c2, c1
  <2> HIDE DEF c1, c2
  <2> QED BY <2>2, <2>3 DEF Bud
<1> HIDE DEF clean
<1>4. open \in Bud
  BY <1>3, PlayerOpenFields
<1>5. PlayCmd(t, p, links) = [open EXCEPT !.play = None]
  BY DEF PlayCmd, open, clean, quiet, m
<1> HIDE DEF open
<1> QED BY <1>4, <1>5 DEF Bud, Addr

LEMMA EscoPlayType ==
  ASSUME NEW t \in Bud, NEW p \in Phones, NEW sco \in BOOLEAN
  PROVE  bt_phone_esco_play(t, p, sco) \in Bud
<1> DEFINE x == t.player
           c == a2dp_player_close(t, x)
           stopped == IF x = None THEN t ELSE a2dp_media_close(c, x)
           f == bt_stop_a2dp_slience_detect(stopped, p)
           freed == a2dp_media_close(f, p)
<1>1. stopped \in Bud
  <2>1. CASE x = None
    BY <2>1
  <2>2. CASE x # None
    <3>1. x \in Phones
      BY <2>2 DEF Bud, Addr
    <3>2. c \in Bud
      BY <3>1, PlayerCloseFields
    <3> HIDE DEF c
    <3> QED BY <2>2, <3>1, <3>2, MediaCloseFields
  <2> QED BY <2>1, <2>2
<1>2. bt_phone_esco_play(t, p, sco)
        = IF t.esco # None \/ ~sco THEN t ELSE [freed EXCEPT !.esco = p]
  BY DEF bt_phone_esco_play
<1> HIDE DEF stopped
<1>3. f \in Bud
  BY <1>1, StopFields
<1> HIDE DEF f
<1>4. freed \in Bud
  BY <1>3, MediaCloseFields
<1> HIDE DEF freed
<1>5. [freed EXCEPT !.esco = p] \in Bud
  BY <1>4 DEF Bud, Addr
<1> QED BY <1>2, <1>5

LEMMA CloseCmdType ==
  ASSUME NEW t \in Bud, NEW p \in Phones
  PROVE  CloseCmd(t, p) \in Bud
<1> DEFINE v == tws_a2dp_player_close(t, p)
           other == DetectAddr(v)
<1>1. v \in Bud
  BY PlayerCloseAllFields
<1>2. CloseCmd(t, p) = IF other = None THEN v ELSE Release(v, other)
  BY DEF CloseCmd
<1> HIDE DEF v
<1>3. other \in Addr
  BY <1>1, DetectAddrType
<1> HIDE DEF other
<1> QED BY <1>1, <1>2, <1>3, ReleaseFields DEF Addr

LEMMA SwitchCmdType ==
  ASSUME NEW t \in Bud, NEW p \in Phones, NEW links \in SUBSET Phones
  PROVE  SwitchCmd(t, p, links) \in Bud
<1> DEFINE other == DetectAddr(t)
           w == Background(t, p, links)
<1>1. SwitchCmd(t, p, links) = IF other = None THEN t ELSE Release(w, other)
  BY DEF SwitchCmd
<1>2. w \in Bud
  BY BackgroundType
<1>3. other \in Addr
  BY DetectAddrType
<1> HIDE DEF other, w
<1> QED BY <1>1, <1>2, <1>3, ReleaseFields DEF Addr

LEMMA CommandType ==
  ASSUME NEW t \in Bud, NEW c \in Cmds, c.cmd \in SharedCmds,
         NEW links \in SUBSET Phones, NEW sco \in BOOLEAN
  PROVE  InTask(t, c, links, sco) \in Bud
<1> DEFINE p == c.addr
           back == Background(t, p, links)
           started == bt_start_a2dp_slience_detect(a2dp_player_close(t, p), p, links)
<1>0. p \in Phones
  BY DEF Cmds
<1> HIDE DEF p
<1>1. back \in Bud
  BY <1>0, BackgroundType
<1>2. started \in Bud
  <2> DEFINE v == a2dp_player_close(t, p)
  <2>1. v \in Bud
    BY <1>0, PlayerCloseFields
  <2> HIDE DEF v
  <2>2. bt_start_a2dp_slience_detect(v, p, links) \in Bud
    BY <1>0, <2>1, StartFields
  <2> QED BY <2>2 DEF v
<1>3. SlienceCmd(t, p, links) \in Bud
  <2>1. SlienceCmd(t, p, links) = [started EXCEPT !.slience = None]
    BY DEF SlienceCmd
  <2> HIDE DEF started
  <2> QED BY <1>2, <2>1 DEF Bud, Addr
<1>4. MuteCmd(t, p, links) \in Bud
  <2>1. MuteCmd(t, p, links) = [back EXCEPT !.slience = None]
    BY DEF MuteCmd
  <2> HIDE DEF back
  <2> QED BY <1>1, <2>1 DEF Bud, Addr
<1>5. MuteByCallCmd(t, p, links) \in Bud
  <2>1. MuteByCallCmd(t, p, links) = [back EXCEPT !.preempted = p, !.energy = None]
    BY DEF MuteByCallCmd
  <2> HIDE DEF back
  <2> QED BY <1>0, <1>1, <2>1 DEF Bud, Addr
<1>6. /\ PlayCmd(t, p, links) \in Bud /\ CloseCmd(t, p) \in Bud
      /\ SwitchCmd(t, p, links) \in Bud /\ bt_phone_esco_play(t, p, sco) \in Bud
      /\ bt_phone_esco_stop(t, p) \in Bud
  <2>1. bt_phone_esco_stop(t, p) \in Bud
    BY <1>0 DEF bt_phone_esco_stop, Bud, Addr, Without
  <2> QED BY <1>0, <2>1, PlayCmdType, CloseCmdType, SwitchCmdType, EscoPlayType
<1> HIDE DEF back, started
<1> QED BY <1>3, <1>4, <1>5, <1>6 DEF InTask, SharedCmds, p

-----------------------------------------------------------------------------
(* Types. *)

LEMMA TwoOf ==
  ASSUME NEW S, IsFiniteSet(S), Cardinality(S) = 2, NEW x \in S
  PROVE  /\ \E y \in S : y # x
         /\ \A y \in S, z \in S : y # x /\ z # x => y = z
<1>1. \E y \in S : y # x
  <2>1. SUFFICES ASSUME \A y \in S : y = x PROVE FALSE
    OBVIOUS
  <2>2. S = {x}
    BY <2>1
  <2> QED BY <2>2, FS_Singleton
<1>2. ASSUME NEW y \in S, NEW z \in S, y # x, z # x, y # z PROVE FALSE
  <2>1. IsFiniteSet({x}) /\ Cardinality({x}) = 1
    BY FS_Singleton
  <2>2. IsFiniteSet({x} \cup {y}) /\ Cardinality({x} \cup {y}) = 2
    <3>1. y \notin {x}
      BY <1>2
    <3>2. Cardinality({x} \cup {y}) = Cardinality({x}) + 1
      BY <2>1, <3>1, FS_AddElement
    <3> QED BY <2>1, <3>2, FS_AddElement
  <2>3. Cardinality(({x} \cup {y}) \cup {z}) = 3
    BY <1>2, <2>2, FS_AddElement
  <2>4. (({x} \cup {y}) \cup {z}) \in SUBSET S
    OBVIOUS
  <2> QED BY <2>3, <2>4, FS_Subset
<1> QED BY <1>1, <1>2

LEMMA OtherPhone ==
  ASSUME NEW p \in Phones
  PROVE  /\ Other(p) \in Phones /\ Other(p) # p
         /\ \A x \in Phones : x = p \/ x = Other(p)
<1>1. \E y \in Phones : y # p
  BY TwoOf, A2dpAssumption
<1>2. Other(p) \in Phones /\ Other(p) # p
  BY <1>1 DEF Other
<1> QED BY <1>2, TwoOf, A2dpAssumption

LEMMA SlaveBud ==
  ASSUME master \in Buds
  PROVE  /\ Slave \in Buds /\ Slave # master
         /\ \A b \in Buds : b = master \/ b = Slave
<1>1. \E y \in Buds : y # master
  BY TwoOf, A2dpAssumption
<1>2. Slave \in Buds /\ Slave # master
  BY <1>1 DEF Slave
<1> QED BY <1>2, TwoOf, A2dpAssumption

LEMMA CmdType ==
  ASSUME NEW c \in SharedCmds \cup LocalCmds, NEW p \in Phones
  PROVE  /\ Cmd(c, p) \in Cmds /\ Cmd(c, p).cmd = c /\ Cmd(c, p).addr = p /\ Cmd(c, p).both
         /\ ToSibling(c, p) \in Cmds /\ ToSibling(c, p).cmd = c
         /\ ToSibling(c, p).addr = p /\ ~ToSibling(c, p).both
BY DEF Cmd, ToSibling, Cmds

Queues == [Buds -> Seq(Cmds)]
Work == [s : Bud, q : Queues]

LEMMA WithType ==
  ASSUME NEW t \in Bud, NEW q \in Queues
  PROVE  With(t, q) \in Work /\ With(t, q).s = t /\ With(t, q).q = q
BY DEF With, Work

LEMMA LinksType == \A b : Links(b) \in SUBSET Phones
BY DEF Links

LEMMA SendsType ==
  ASSUME NEW b \in Buds, NEW w \in Work, NEW c \in Cmds, c.cmd \in SharedCmds
  PROVE  Sends(b, w, c) \in Work
<1>0. w.s \in Bud /\ w.q \in Queues
  BY DEF Work
<1>1. Remember(w.s, c) \in Bud
  BY <1>0, RememberFields
<1>2. InTask(w.s, c, Links(b), TRUE) \in Bud
  BY <1>0, CommandType, LinksType
<1>3. [x \in Buds |-> IF x # b \/ c.both THEN Append(w.q[x], c) ELSE w.q[x]] \in Queues
  BY <1>0, AppendProperties DEF Queues
<1> QED BY <1>0, <1>1, <1>2, <1>3 DEF Sends, Work

LEMMA SharedType ==
  ASSUME NEW b \in Buds, NEW w \in Work, NEW c \in SharedCmds, NEW p \in Phones
  PROVE  Sends(b, w, Cmd(c, p)) \in Work /\ Sends(b, w, ToSibling(c, p)) \in Work
<1>1. Cmd(c, p) \in Cmds /\ Cmd(c, p).cmd = c
  BY CmdType
<1>2. ToSibling(c, p) \in Cmds /\ ToSibling(c, p).cmd = c
  BY CmdType
<1> QED BY <1>1, <1>2, SendsType

LEMMA ReturnsType ==
  ASSUME bud \in [Buds -> Bud], NEW b \in Buds, NEW w \in Work, Returns(b, w)
  PROVE  bud' \in [Buds -> Bud] /\ queue' \in Queues
BY DEF Returns, Work

LEMMA TellType ==
  ASSUME phone \in [Phones -> Phone], NEW p \in Phones, NEW what \in {"play", "pause"}
  PROVE  Tell(p, what) \in [Phones -> Phone]
<1>1. phone[p] \in Phone
  OBVIOUS
<1>2. Append(phone[p].told, what) \in Seq({"play", "pause"})
  BY <1>1, AppendProperties DEF Phone
<1>3. [phone[p] EXCEPT !.told = Append(@, what)] \in Phone
  BY <1>1, <1>2 DEF Phone
<1>4. [phone EXCEPT ![p].told = Append(@, what)] \in [Phones -> Phone]
  BY <1>3
<1> QED BY <1>4 DEF Tell

LEMMA PoppedType ==
  ASSUME queue \in Queues, NEW b \in Buds, queue[b] # << >>
  PROVE  Popped(b) \in Queues /\ Head(queue[b]) \in Cmds
BY HeadTailProperties DEF Popped, Queues

LEMMA PostType ==
  ASSUME bud \in [Buds -> Bud], queue \in Queues, NEW b \in Buds, NEW t \in Bud, NEW c \in Cmds,
         Post(b, t, c)
  PROVE  bud' \in [Buds -> Bud] /\ queue' \in Queues
<1>1. Append(queue[b], c) \in Seq(Cmds)
  BY AppendProperties DEF Queues
<1> QED BY <1>1 DEF Post, Queues

LEMMA SurvivorsType ==
  ASSUME NEW q \in Seq(Cmds), NEW I \in SUBSET DOMAIN q, NEW r \in Survivors(q, I)
  PROVE  r \in Seq(Cmds)
<1>1. IsFiniteSet(I)
  BY FS_Interval, FS_Subset, LenProperties
<1>2. Cardinality(I) \in Nat
  BY <1>1, FS_CardinalityType
<1>3. PICK f \in [1 .. Cardinality(I) -> I] : r = [k \in DOMAIN f |-> q[f[k]]]
  BY DEF Survivors, Bijection, Injection
<1>4. r \in [1 .. Cardinality(I) -> Cmds]
  BY <1>3, LenProperties
<1> QED BY <1>2, <1>4, SeqDef

LEMMA InitTypes == Init => TypeOK
<1> SUFFICES ASSUME Init PROVE TypeOK
  OBVIOUS
<1>1. Idle \in Bud
  BY DEF Idle, Bud, Addr
<1>2. [link |-> TRUE, on |-> FALSE, call |-> "none", bye |-> {}, told |-> << >>] \in Phone
  BY EmptySeq DEF Phone
<1>3. << >> \in Seq(Cmds)
  BY EmptySeq
<1>4. bud \in [Buds -> Bud] /\ queue \in [Buds -> Seq(Cmds)] /\ timers \in [Buds -> Nat]
  BY <1>1, <1>3 DEF Init
<1>5. phone \in [Phones -> Phone]
  BY <1>2 DEF Init
<1>6. acts \in 0 .. MaxEvents
  BY A2dpAssumption DEF Init
<1> QED BY <1>4, <1>5, <1>6 DEF Init, TypeOK

\* One phone changes.
LEMMA PhoneType ==
  ASSUME phone \in [Phones -> Phone], NEW p \in Phones, NEW r \in Phone
  PROVE  [phone EXCEPT ![p] = r] \in [Phones -> Phone]
OBVIOUS

\* The messages of app_core, by the bud that handles them.
LEMMA MessageTypes ==
  ASSUME TypeOK, NEW b \in Buds,
         RunCommand(b) \/ A2dpStart(b) \/ A2dpNoEnergy(b) \/ SendPlayCmd(b) \/ LinkDetach(b)
  PROVE  TypeOK'
<1> DEFINE c == Head(queue[b])
           p == c.addr
           x == bud[b].player
           w == With(bud[b], Popped(b))
<1>0. /\ bud \in [Buds -> Bud] /\ queue \in Queues /\ phone \in [Phones -> Phone]
      /\ bud[b] \in Bud
  BY DEF TypeOK, Queues
<1>1. queue[b] # << >>
  BY DEF RunCommand, A2dpStart, A2dpNoEnergy, SendPlayCmd, LinkDetach, Heads
<1>2. Popped(b) \in Queues /\ c \in Cmds /\ p \in Phones
  BY <1>0, <1>1, PoppedType DEF Cmds
<1>3. w \in Work
  BY <1>0, <1>2, WithType
<1>4. ASSUME RunCommand(b) PROVE TypeOK'
  <2>1. InTask(bud[b], c, Links(b), EscoLink(b)) \in Bud
    <3>1. c.cmd \in SharedCmds
      BY <1>4 DEF RunCommand, Heads
    <3>2. EscoLink(b) \in BOOLEAN
      BY DEF EscoLink
    <3> QED BY <1>0, <1>2, <3>1, <3>2, LinksType, CommandType
  <2> QED BY <1>0, <1>2, <1>4, <2>1 DEF RunCommand, TypeOK, Queues
<1>5. ASSUME A2dpStart(b) PROVE TypeOK'
  <2>1. Sends(b, w, Cmd("PLAY", p)) \in Work
    BY <1>2, <1>3, SharedType DEF SharedCmds
  <2>2. CASE x = None
    <3>1. Returns(b, Sends(b, w, Cmd("PLAY", p))) /\ UNCHANGED phone
      BY <1>5, <2>2 DEF A2dpStart
    <3>2. bud' \in [Buds -> Bud] /\ queue' \in Queues
      BY <1>0, <2>1, <3>1, ReturnsType
    <3> QED BY <1>5, <3>1, <3>2 DEF A2dpStart, TypeOK, Queues
  <2>3. CASE x # None
    <3>0. x \in Phones
      BY <1>0, <2>3 DEF Bud, Addr
    <3> DEFINE w1 == Sends(b, w, Cmd("MUTE", x))
               w2 == Sends(b, w1, Cmd("PLAY", p))
    <3>1. w1 \in Work
      BY <1>3, <3>0, SharedType DEF SharedCmds
    <3>2. w2 \in Work
      <4> HIDE DEF w1
      <4> QED BY <1>2, <3>1, SharedType DEF SharedCmds
    <3>3. Returns(b, w2) /\ phone' = Tell(x, "pause")
      BY <1>5, <2>3 DEF A2dpStart
    <3> HIDE DEF w2
    <3>4. bud' \in [Buds -> Bud] /\ queue' \in Queues
      BY <1>0, <3>2, <3>3, ReturnsType
    <3>5. phone' \in [Phones -> Phone]
      BY <1>0, <3>0, <3>3, TellType
    <3> QED BY <1>5, <3>4, <3>5 DEF A2dpStart, TypeOK, Queues
  <2> QED BY <2>2, <2>3
<1>6. ASSUME A2dpNoEnergy(b) PROVE TypeOK'
  <2> DEFINE v == IF b = master /\ bud[b].player = p THEN Sends(b, w, Cmd("SWITCH", p)) ELSE w
  <2>1. v \in Work
    <3>1. Sends(b, w, Cmd("SWITCH", p)) \in Work
      BY <1>2, <1>3, SharedType DEF SharedCmds
    <3> QED BY <1>3, <3>1
  <2>2. Returns(b, v)
    BY <1>6 DEF A2dpNoEnergy
  <2> HIDE DEF v
  <2>3. bud' \in [Buds -> Bud] /\ queue' \in Queues
    BY <1>0, <2>1, <2>2, ReturnsType
  <2> QED BY <1>6, <2>3 DEF A2dpNoEnergy, TypeOK, Queues
<1>7. ASSUME SendPlayCmd(b) PROVE TypeOK'
  <2>1. phone' \in [Phones -> Phone]
    BY <1>0, <1>2, <1>7, TellType DEF SendPlayCmd
  <2> QED BY <1>2, <1>7, <2>1 DEF SendPlayCmd, TypeOK, Queues
<1>8. ASSUME LinkDetach(b) PROVE TypeOK'
  <2> DEFINE t == tws_a2dp_player_close(bud[b], p)
  <2>1. t \in Bud
    BY <1>0, <1>2, PlayerCloseAllFields
  <2> HIDE DEF t
  <2>2. bt_phone_esco_stop(t, p) \in Bud
    BY <1>2, <2>1 DEF bt_phone_esco_stop, Bud, Addr, Without
  <2>3. bud' = [bud EXCEPT ![b] = bt_phone_esco_stop(t, p)]
    BY <1>0, <1>8 DEF LinkDetach, t
  <2>4. bud' \in [Buds -> Bud]
    BY <1>0, <2>2, <2>3
  <2> QED BY <1>2, <1>8, <2>4 DEF LinkDetach, TypeOK, Queues
<1> QED BY <1>4, <1>5, <1>6, <1>7, <1>8

\* A handler that returns w and tells the phones at most what TellType allows.
LEMMA HandlerTypes ==
  ASSUME TypeOK, NEW b \in Buds, NEW w \in Work, Returns(b, w), phone' \in [Phones -> Phone],
         halted' \subseteq Phones, timers' \in [Buds -> Nat], acts' \in 0 .. MaxEvents,
         monitor' \subseteq Phones, past' = past \/ past' \subseteq Happened,
         UNCHANGED <<master, tws>>
  PROVE  TypeOK'
<1>1. bud' \in [Buds -> Bud] /\ queue' \in Queues
  BY ReturnsType DEF TypeOK
<1> QED BY <1>1 DEF TypeOK, Queues

LEMMA NowType ==
  ASSUME queue \in Queues, NEW t \in Bud
  PROVE  Now(t) \in Work /\ Now(t).s = t /\ Now(t).q = queue
BY WithType DEF Now

LEMMA SuspendedType ==
  ASSUME TypeOK, NEW t \in Bud, NEW p \in Phones
  PROVE  Suspended(t, p) \in Work /\ SuspendTold(t, p) \in [Phones -> Phone]
<1> DEFINE u == [t EXCEPT !.preempted = p, !.energy = None]
<1>1. u \in Bud
  BY DEF Bud, Addr
<1> HIDE DEF u
<1>2. Now(t) \in Work /\ Now(u) \in Work
  BY <1>1, NowType DEF TypeOK, Queues
<1>3. Sends(master, Now(u), Cmd("MUTE_BY_CALL", p)) \in Work
  BY <1>2, SharedType DEF TypeOK, SharedCmds
<1>4. SuspendTold(t, p) \in [Phones -> Phone]
  BY TellType DEF SuspendTold, TypeOK
<1> QED BY <1>2, <1>3, <1>4 DEF Suspended, u

LEMMA MediaTypes ==
  ASSUME TypeOK, NEW p \in Phones, MediaStart(p) \/ MediaStop(p)
  PROVE  TypeOK'
<1>0. /\ bud[master] \in Bud /\ queue \in Queues /\ phone \in [Phones -> Phone]
      /\ master \in Buds
  BY DEF TypeOK, Queues
<1>1. ASSUME MediaStart(p) PROVE TypeOK'
  <2> DEFINE t == [bud[master] EXCEPT !.started = @ \cup {p}]
             d == [t EXCEPT !.drop = Without(@, p)]
             m == a2dp_media_mute(t, p, Links(master))
             u == bt_start_a2dp_slience_detect(m, p, Links(master))
             c == IF t.player \in {None, p} THEN "PLAY" ELSE "SLIENCE_DETECT"
  <2>1. t \in Bud
    BY <1>0 DEF Bud
  <2>2. /\ StartedInCall(t, p) \/ StartedAlone(t, p)
        /\ UNCHANGED <<timers, halted, master, tws, monitor, past, acts>>
    BY <1>1 DEF MediaStart
  <2> HIDE DEF t
  <2>3. d \in Bud
    BY <2>1 DEF Bud, Addr, Without
  <2>4. u \in Bud
    <3>1. m \in Bud
      BY <2>1, LinksType, MuteFields
    <3> HIDE DEF m
    <3> QED BY <3>1, LinksType, StartFields
  <2>5. CASE StartedInCall(t, p)
    <3>1. Returns(master, Now(u)) /\ phone' = Tell(p, "pause")
      BY <2>5 DEF StartedInCall
    <3> HIDE DEF u
    <3>2. Now(u) \in Work /\ phone' \in [Phones -> Phone]
      BY <1>0, <2>4, <3>1, NowType, TellType
    <3> QED BY <1>0, <2>2, <3>1, <3>2, HandlerTypes DEF TypeOK
  <2>6. CASE StartedAlone(t, p)
    <3>1. PICK w \in {Sends(master, Now(t), Cmd("MUTE", p)), Sends(master, Now(d), Cmd(c, p))} :
            Returns(master, w) /\ UNCHANGED phone
      BY <2>6 DEF StartedAlone
    <3>2. w \in Work
      <4>1. c \in SharedCmds /\ "MUTE" \in SharedCmds
        BY DEF SharedCmds
      <4> HIDE DEF c, d
      <4>2. Now(t) \in Work /\ Now(d) \in Work
        BY <1>0, <2>1, <2>3, NowType
      <4>3. /\ Sends(master, Now(t), Cmd("MUTE", p)) \in Work
            /\ Sends(master, Now(d), Cmd(c, p)) \in Work
        BY <1>0, <4>1, <4>2, SharedType
      <4> QED BY <4>3
    <3> QED BY <1>0, <2>2, <3>1, <3>2, HandlerTypes DEF TypeOK
  <2> QED BY <2>2, <2>5, <2>6
<1>2. ASSUME MediaStop(p) PROVE TypeOK'
  <2> DEFINE t == [bud[master] EXCEPT !.started = @ \ {p}]
             d == [t EXCEPT !.preempted = p, !.energy = None]
  <2>1. t \in Bud
    BY <1>0 DEF Bud
  <2>2. /\ \/ Returns(master, Sends(master, Now(t), Cmd("CLOSE", p))) /\ UNCHANGED timers
           \/ /\ Returns(master, Sends(master, Now(d), Cmd("CLOSE", p)))
              /\ timers' = [timers EXCEPT ![master] = @ + 1]
        /\ halted' = halted \ {p}
        /\ UNCHANGED <<phone, master, tws, monitor, past, acts>>
    BY <1>2 DEF MediaStop
  <2> HIDE DEF t
  <2>3. d \in Bud
    BY <2>1 DEF Bud, Addr
  <2> HIDE DEF d
  <2>4. /\ Sends(master, Now(t), Cmd("CLOSE", p)) \in Work
        /\ Sends(master, Now(d), Cmd("CLOSE", p)) \in Work
    <3>1. Now(t) \in Work /\ Now(d) \in Work
      BY <1>0, <2>1, <2>3, NowType
    <3> QED BY <1>0, <3>1, SharedType DEF SharedCmds
  <2>5. timers' \in [Buds -> Nat] /\ halted' \subseteq Phones /\ phone' \in [Phones -> Phone]
    BY <1>0, <2>2 DEF TypeOK
  <2> QED BY <1>0, <2>2, <2>4, <2>5, HandlerTypes DEF TypeOK
<1> QED BY <1>1, <1>2

LEMMA MayActType ==
  ASSUME TypeOK, acts < MaxEvents, acts' = acts + 1
  PROVE  acts' \in 0 .. MaxEvents
BY A2dpAssumption DEF TypeOK

LEMMA CallTypes ==
  ASSUME TypeOK, NEW p \in Phones, ScoConnectionReq(p) \/ ScoUp(p) \/ ScoDown(p)
  PROVE  TypeOK'
<1> DEFINE t == bud[master]
           o == Other(p)
           s == Suspended(t, o)
           told == SuspendTold(t, o)
<1>0. /\ t \in Bud /\ queue \in Queues /\ phone \in [Phones -> Phone] /\ master \in Buds
      /\ o \in Phones
  BY OtherPhone DEF TypeOK, Queues
<1> HIDE DEF o
<1>1. s \in Work /\ told \in [Phones -> Phone]
  BY <1>0, SuspendedType
<1>2. /\ Sends(master, s, Cmd("OPEN_ESCO", p)) \in Work
      /\ Now(t) \in Work /\ Sends(master, Now(t), Cmd("CLOSE_ESCO", p)) \in Work
  <2>1. Now(t) \in Work
    BY <1>0, NowType
  <2> HIDE DEF s, t
  <2> QED BY <1>0, <1>1, <2>1, SharedType DEF SharedCmds
<1>3. \A f \in [Phones -> Phone], c \in {"none", "asked", "up"} :
         [f EXCEPT ![p].call = c] \in [Phones -> Phone]
  BY ZenonT(40) DEF Phone
<1>4. ASSUME ScoConnectionReq(p) PROVE TypeOK'
  <2>1. /\ Returns(master, s) /\ phone' = [told EXCEPT ![p].call = "asked"]
        /\ acts < MaxEvents /\ acts' = acts + 1 /\ past' = past \cup {"call"}
        /\ UNCHANGED <<timers, halted, master, tws, monitor>>
    BY <1>4 DEF ScoConnectionReq, MayAct, o
  <2> HIDE DEF s, told
  <2>2. phone' \in [Phones -> Phone]
    BY <1>1, <1>3, <2>1
  <2>3. acts' \in 0 .. MaxEvents
    BY <2>1, MayActType
  <2>4. past' \subseteq Happened
    BY <2>1 DEF TypeOK, Happened
  <2> QED BY <1>0, <1>1, <2>1, <2>2, <2>3, <2>4, HandlerTypes DEF TypeOK
<1>5. ASSUME ScoUp(p) PROVE TypeOK'
  <2>1. /\ Returns(master, Sends(master, s, Cmd("OPEN_ESCO", p)))
        /\ phone' = [told EXCEPT ![p].call = "up"]
        /\ UNCHANGED <<timers, halted, master, tws, monitor, past, acts>>
    BY <1>5 DEF ScoUp, o
  <2> HIDE DEF s, told
  <2>2. phone' \in [Phones -> Phone]
    BY <1>1, <1>3, <2>1
  <2> QED BY <1>0, <1>2, <2>1, <2>2, HandlerTypes DEF TypeOK
<1>6. ASSUME ScoDown(p) PROVE TypeOK'
  <2>1. /\ \E w \in {Now(t), Sends(master, Now(t), Cmd("CLOSE_ESCO", p))} : Returns(master, w)
        /\ phone' = [phone EXCEPT ![p].call = "none", ![p].bye = {"hangup", "discon"}]
        /\ UNCHANGED <<timers, halted, master, tws, monitor, past, acts>>
    BY <1>6 DEF ScoDown
  <2>2. phone' \in [Phones -> Phone]
    BY <1>0, <2>1, ZenonT(40) DEF Phone
  <2> HIDE DEF t
  <2> QED BY <1>0, <1>2, <2>1, <2>2, HandlerTypes DEF TypeOK
<1> QED BY <1>4, <1>5, <1>6

LEMMA HangupTypes ==
  ASSUME TypeOK, NEW p \in Phones, NEW ev, PhoneHangup(p, ev)
  PROVE  TypeOK'
<1> DEFINE t == bud[master]
           o == Other(p)
           u == a2dp_media_unmute(t, o)
           closed == a2dp_media_close(u, o)
           v1 == [closed EXCEPT !.energy = o, !.preempted = None, !.drop = p]
           v2 == [t EXCEPT !.drop = p]
           v3 == Release(t, o)
<1>0. /\ t \in Bud /\ queue \in Queues /\ phone \in [Phones -> Phone] /\ master \in Buds
      /\ o \in Phones
  BY OtherPhone DEF TypeOK, Queues
<1>1. PICK v \in {v1, v2, v3, t} :
        /\ Returns(master, Now(v)) /\ timers' \in {timers, [timers EXCEPT ![master] = @ + 1]}
        /\ phone' = [phone EXCEPT ![p].bye = @ \ {ev}]
        /\ UNCHANGED <<halted, master, tws, monitor, past, acts>>
  BY DEF PhoneHangup
<1> HIDE DEF o
<1>2. v1 \in Bud /\ v2 \in Bud /\ v3 \in Bud
  <2> HIDE DEF t
  <2>1. u \in Bud
    BY <1>0, UnmuteFields
  <2> HIDE DEF u
  <2>2. closed \in Bud
    BY <1>0, <2>1, MediaCloseFields
  <2> HIDE DEF closed
  <2>3. v1 \in Bud
    BY <1>0, <2>2 DEF Bud, Addr
  <2>4. v2 \in Bud
    BY <1>0 DEF Bud, Addr
  <2>5. v3 \in Bud
    BY <1>0, ReleaseFields
  <2> QED BY <2>3, <2>4, <2>5
<1> HIDE DEF v1, v2, v3
<1>3. v \in Bud
  BY <1>0, <1>1, <1>2
<1>4. Now(v) \in Work
  BY <1>0, <1>3, NowType
<1>5. timers' \in [Buds -> Nat]
  <2>1. timers \in [Buds -> Nat] /\ timers[master] + 1 \in Nat
    BY <1>0 DEF TypeOK
  <2> QED BY <1>1, <2>1
<1>6. phone' \in [Phones -> Phone]
  BY <1>0, <1>1, ZenonT(40) DEF Phone
<1> QED BY <1>0, <1>1, <1>4, <1>5, <1>6, HandlerTypes DEF TypeOK

LEMMA LinkTypes ==
  ASSUME TypeOK, NEW p \in Phones, Disconnected(p) \/ Connected(p)
  PROVE  TypeOK'
<1>0. /\ bud \in [Buds -> Bud] /\ bud[master] \in Bud /\ queue \in Queues
      /\ phone \in [Phones -> Phone] /\ master \in Buds /\ Slave \in Buds
  BY SlaveBud DEF TypeOK, Queues
<1>1. ASSUME Disconnected(p) PROVE TypeOK'
  <2>1. tws_a2dp_player_close(bud[master], p) \in Bud
    BY <1>0, PlayerCloseAllFields
  <2>2. bud' \in [Buds -> Bud]
    BY <1>0, <1>1, <2>1 DEF Disconnected
  <2>3. queue' \in Queues
    <3>1. Append(queue[Slave], Cmd("LINK_DETACH", p)) \in Seq(Cmds)
      BY <1>0, CmdType, AppendProperties DEF Queues, LocalCmds
    <3> QED BY <1>0, <1>1, <3>1 DEF Disconnected, Queues
  <2>4. phone' \in [Phones -> Phone]
    <3>1. [phone[p] EXCEPT !.link = FALSE, !.on = FALSE, !.told = << >>] \in Phone
      BY <1>0, EmptySeq DEF Phone
    <3> QED BY <1>0, <1>1, <3>1 DEF Disconnected
  <2>5. acts' \in 0 .. MaxEvents
    BY <1>1, MayActType DEF Disconnected, MayAct
  <2>6. halted' \subseteq Phones /\ monitor' \subseteq Phones /\ timers' = timers
        /\ master' = master /\ tws' = tws /\ past' \subseteq Happened
    BY <1>1 DEF Disconnected, TypeOK, Happened
  <2> QED BY <2>2, <2>3, <2>4, <2>5, <2>6 DEF TypeOK, Queues
<1>2. ASSUME Connected(p) PROVE TypeOK'
  <2> DEFINE t == bud[master]
  <2>0. t \in Bud
    BY <1>0
  <2>1. [t EXCEPT !.preempted = Without(@, p)] \in Bud
    <3> HIDE DEF t
    <3> QED BY <2>0 DEF Bud, Addr, Without
  <2>2. bud' \in [Buds -> Bud]
    BY <1>0, <1>2, <2>1 DEF Connected
  <2>3. phone' \in [Phones -> Phone]
    <3>1. [phone[p] EXCEPT !.link = TRUE] \in Phone
      BY <1>0 DEF Phone
    <3> QED BY <1>0, <1>2, <3>1 DEF Connected
  <2> QED BY <1>2, <2>2, <2>3 DEF Connected, TypeOK
<1> QED BY <1>1, <1>2

LEMMA TimerTypes ==
  ASSUME TypeOK, NEW b \in Buds, TryPlayPreempted(b) \/ ResumedEnergy(b) \/ NoEnergy(b)
  PROVE  TypeOK'
<1> DEFINE t == bud[b]
<1>0. /\ bud \in [Buds -> Bud] /\ t \in Bud /\ queue \in Queues /\ phone \in [Phones -> Phone]
  BY DEF TypeOK, Queues
<1>1. ASSUME TryPlayPreempted(b) PROVE TypeOK'
  <2> DEFINE p == t.preempted
             u == [t EXCEPT !.preempted = None]
  <2>1. PICK v \in {t, u} : Returns(b, Now(v))
    BY <1>1 DEF TryPlayPreempted
  <2>2. /\ phone' \in {phone, Tell(p, "play")} /\ (phone' = phone \/ p # None)
        /\ timers[b] > 0 /\ timers' = [timers EXCEPT ![b] = @ - 1]
        /\ UNCHANGED <<halted, master, tws, monitor, past, acts>>
    BY <1>1 DEF TryPlayPreempted
  <2> HIDE DEF t
  <2>3. u \in Bud /\ p \in Addr
    BY <1>0 DEF Bud, Addr
  <2> HIDE DEF u, p
  <2>4. Now(v) \in Work
    BY <1>0, <2>1, <2>3, NowType
  <2>5. phone' \in [Phones -> Phone]
    <3>1. CASE p = None
      BY <1>0, <2>2, <3>1
    <3>2. CASE p # None
      BY <1>0, <2>2, <2>3, <3>2, TellType DEF Addr
    <3> QED BY <3>1, <3>2
  <2>6. timers' \in [Buds -> Nat]
    BY <2>2 DEF TypeOK
  <2> QED BY <2>1, <2>2, <2>4, <2>5, <2>6, HandlerTypes DEF TypeOK
<1>2. ASSUME ResumedEnergy(b) PROVE TypeOK'
  <2> DEFINE u == [t EXCEPT !.energy = None]
             c == Cmd("SEND_PLAY_CMD", t.energy)
  <2>1. /\ t.energy # None
        /\ Returns(b, Now(u)) \/ Post(b, u, c)
        /\ UNCHANGED <<timers, phone, halted, master, tws, monitor, past, acts>>
    BY <1>2 DEF ResumedEnergy
  <2>2. u \in Bud /\ c \in Cmds
    <3> HIDE DEF t
    <3>1. u \in Bud /\ t.energy \in Phones
      BY <1>0, <2>1 DEF Bud, Addr
    <3> QED BY <3>1, CmdType DEF LocalCmds
  <2> HIDE DEF u, c
  <2>3. Now(u) \in Work
    BY <1>0, <2>2, NowType
  <2>4. bud' \in [Buds -> Bud] /\ queue' \in Queues
    BY <1>0, <2>1, <2>2, <2>3, ReturnsType, PostType
  <2> QED BY <2>1, <2>4 DEF TypeOK, Queues
<1>3. ASSUME NoEnergy(b) PROVE TypeOK'
  <2> DEFINE u == [t EXCEPT !.switched = TRUE]
             c == Cmd("NO_ENERGY", t.player)
  <2>1. /\ t.player # None /\ Post(b, u, c) /\ acts < MaxEvents /\ acts' = acts + 1
        /\ past' \subseteq Happened /\ UNCHANGED <<timers, phone, halted, master, tws, monitor>>
    BY <1>0, <1>3 DEF NoEnergy, MayAct, Happened, TypeOK
  <2>2. u \in Bud /\ c \in Cmds
    <3> HIDE DEF t
    <3>1. u \in Bud /\ t.player \in Phones
      BY <1>0, <2>1 DEF Bud, Addr
    <3> QED BY <3>1, CmdType DEF LocalCmds
  <2> HIDE DEF u, c
  <2>3. bud' \in [Buds -> Bud] /\ queue' \in Queues
    BY <1>0, <2>1, <2>2, PostType
  <2>4. acts' \in 0 .. MaxEvents
    BY <2>1, MayActType
  <2> QED BY <2>1, <2>3, <2>4 DEF TypeOK, Queues
<1> QED BY <1>1, <1>2, <1>3

LEMMA ReleaseAllFields ==
  ASSUME NEW t \in Bud
  PROVE  LET u == ReleaseAll(t)
         IN  /\ u \in Bud /\ u.player = t.player /\ u.esco = t.esco
             /\ u.muted \subseteq t.muted /\ u.started \subseteq t.started
             /\ u.detect = {} /\ u.live = {}
<1> DEFINE d == t.dual /\ t.detect = {}
           u == [t EXCEPT !.detect = {}, !.slot0 = None, !.live = {}, !.dual = d,
                          !.muted = @ \ t.detect, !.started = @ \ t.detect]
<1>1. ReleaseAll(t) = u
  BY DEF ReleaseAll
<1>2. d \in BOOLEAN
  OBVIOUS
<1> HIDE DEF d
<1>3. /\ u \in Bud /\ u.player = t.player /\ u.esco = t.esco
      /\ u.muted = t.muted \ t.detect /\ u.started = t.started \ t.detect
      /\ u.detect = {} /\ u.live = {}
  BY <1>2 DEF Bud, Addr
<1> HIDE DEF u
<1> QED BY <1>1, <1>3

LEMMA PairTypes ==
  ASSUME TypeOK, RoleSwitch \/ TwsLost \/ TwsConnected
  PROVE  TypeOK'
<1>0. /\ bud \in [Buds -> Bud] /\ queue \in Queues /\ phone \in [Phones -> Phone]
      /\ master \in Buds /\ Slave \in Buds /\ monitor \in SUBSET Phones
  BY SlaveBud DEF TypeOK, Queues
<1>1. ASSUME RoleSwitch PROVE TypeOK'
  <2>1. PICK hs \in SUBSET halted, ss \in SUBSET {p \in Phones : phone[p].on} :
          /\ halted' = hs
          /\ bud' = [b \in Buds |->
                       ReleaseAll([bud[b] EXCEPT !.started = IF b = master THEN {} ELSE ss])]
    BY <1>1 DEF RoleSwitch
  <2>2. \A t \in Bud, x \in SUBSET Phones : [t EXCEPT !.started = x] \in Bud
    BY DEF Bud
  <2>3. \A t \in Bud : ReleaseAll(t) \in Bud
    BY ReleaseAllFields
  <2>4. bud' \in [Buds -> Bud]
    <3>1. ASSUME NEW b \in Buds
          PROVE  ReleaseAll([bud[b] EXCEPT !.started = IF b = master THEN {} ELSE ss]) \in Bud
      <4>1. (IF b = master THEN {} ELSE ss) \in SUBSET Phones
        OBVIOUS
      <4>2. bud[b] \in Bud
        BY <1>0
      <4> QED BY <2>2, <2>3, <4>1, <4>2
    <3> QED BY <2>1, <3>1
  <2>5. acts' \in 0 .. MaxEvents
    BY <1>1, MayActType DEF RoleSwitch, MayAct
  <2>6. /\ halted' \subseteq Phones /\ master' \in Buds
        /\ UNCHANGED <<queue, timers, phone, tws, monitor, past>>
    BY <1>0, <1>1, <2>1 DEF RoleSwitch, TypeOK
  <2> QED BY <2>4, <2>5, <2>6 DEF TypeOK
<1>2. ASSUME TwsLost PROVE TypeOK'
  <2>1. PICK n \in 0 .. Len(queue[Slave]), gone \in Detachments :
          \E q \in Survivors(queue[Slave],
                             {i \in DOMAIN queue[Slave] :
                                i <= n \/ queue[Slave][i].cmd \in LocalCmds}) :
            queue' = [queue EXCEPT ![Slave] = q \o gone]
    BY <1>2 DEF TwsLost
  <2> DEFINE here == {i \in DOMAIN queue[Slave] : i <= n \/ queue[Slave][i].cmd \in LocalCmds}
  <2>2. PICK q \in Survivors(queue[Slave], here) : queue' = [queue EXCEPT ![Slave] = q \o gone]
    BY <2>1
  <2>3. q \in Seq(Cmds)
    <3>1. queue[Slave] \in Seq(Cmds) /\ here \in SUBSET DOMAIN queue[Slave]
      BY <1>0 DEF Queues
    <3> HIDE DEF here
    <3> QED BY <2>2, <3>1, SurvivorsType
  <2>4. gone \in Seq(Cmds)
    <3>1. Cardinality(monitor) \in Nat
      BY <1>0, A2dpAssumption, FS_Subset, FS_CardinalityType
    <3>2. gone \in [1 .. Cardinality(monitor) -> {Cmd("LINK_DETACH", p) : p \in monitor}]
      BY <2>1 DEF Detachments, Bijection, Injection
    <3>3. \A p \in monitor : Cmd("LINK_DETACH", p) \in Cmds
      BY <1>0, CmdType DEF LocalCmds
    <3>4. gone \in [1 .. Cardinality(monitor) -> Cmds]
      BY <3>2, <3>3
    <3> QED BY <3>1, <3>4, SeqDef
  <2>5. queue' \in Queues
    <3>1. q \o gone \in Seq(Cmds)
      BY <2>3, <2>4, ConcatProperties
    <3> QED BY <1>0, <2>2, <3>1 DEF Queues
  <2>6. acts' \in 0 .. MaxEvents
    BY <1>2, MayActType DEF TwsLost, MayAct
  <2>7. /\ tws' = FALSE /\ monitor' = {} /\ past' \subseteq Happened
        /\ UNCHANGED <<bud, timers, phone, halted, master>>
    BY <1>2 DEF TwsLost, TypeOK, Happened
  <2> QED BY <2>5, <2>6, <2>7 DEF TypeOK, Queues
<1>3. ASSUME TwsConnected PROVE TypeOK'
  BY <1>3 DEF TwsConnected, TypeOK
<1> QED BY <1>1, <1>2, <1>3

LEMMA ListenTypes ==
  ASSUME TypeOK, NEW p \in Phones, MonitorStart(p) \/ BackgroundEnergy(p)
  PROVE  TypeOK'
<1> DEFINE t == bud[master]
<1>0. /\ bud \in [Buds -> Bud] /\ t \in Bud /\ queue \in Queues /\ phone \in [Phones -> Phone]
      /\ master \in Buds /\ Slave \in Buds
  BY SlaveBud DEF TypeOK, Queues
<1>1. ASSUME MonitorStart(p) PROVE TypeOK'
  <2> DEFINE joins == IF phone[p].call = "up"
                      THEN [queue EXCEPT ![Slave] = Append(@, Cmd("OPEN_ESCO", p))] ELSE queue
             w == With(t, joins)
             v == Informed(w, p)
  <2>1. joins \in Queues
    <3>1. Append(queue[Slave], Cmd("OPEN_ESCO", p)) \in Seq(Cmds)
      BY <1>0, CmdType, AppendProperties DEF Queues, SharedCmds
    <3> QED BY <1>0, <3>1 DEF Queues
  <2>2. w \in Work
    BY <1>0, <2>1, WithType
  <2>3. Returns(master, v) /\ monitor' = monitor \cup {p}
        /\ UNCHANGED <<timers, phone, halted, master, tws, past, acts>>
    BY <1>1 DEF MonitorStart
  <2> HIDE DEF w
  <2>4. v \in Work
    BY <1>0, <2>2, SharedType DEF Informed, SharedCmds
  <2> HIDE DEF v
  <2>5. monitor' \subseteq Phones
    BY <2>3 DEF TypeOK
  <2> QED BY <1>0, <2>3, <2>4, <2>5, HandlerTypes DEF TypeOK
<1>2. ASSUME BackgroundEnergy(p) PROVE TypeOK'
  <2> DEFINE u == [t EXCEPT !.live = @ \ {p}]
  <2>1. /\ Post(master, u, Cmd("A2DP_START", p))
        /\ UNCHANGED <<timers, phone, halted, master, tws, monitor, past, acts>>
    BY <1>2 DEF BackgroundEnergy
  <2> HIDE DEF t
  <2>2. u \in Bud
    BY <1>0 DEF Bud
  <2> HIDE DEF u
  <2>3. Cmd("A2DP_START", p) \in Cmds
    BY CmdType DEF LocalCmds
  <2>4. bud' \in [Buds -> Bud] /\ queue' \in Queues
    BY <1>0, <2>1, <2>2, <2>3, PostType
  <2> QED BY <2>1, <2>4 DEF TypeOK, Queues
<1> QED BY <1>1, <1>2

LEMMA StreamEndsTypes ==
  ASSUME TypeOK, NEW p \in Phones, StreamEnds(p)
  PROVE  bud' \in [Buds -> Bud] /\ halted' \subseteq Phones
<1>1. PICK suspend \in BOOLEAN :
        bud' = [b \in Buds |-> IF suspend /\ Receives(b, p) THEN a2dp_media_unmute(bud[b], p)
                               ELSE bud[b]]
  BY DEF StreamEnds
<1>2. \A b \in Buds : bud[b] \in Bud /\ a2dp_media_unmute(bud[b], p) \in Bud
  BY UnmuteFields DEF TypeOK
<1> QED BY <1>1, <1>2 DEF StreamEnds, TypeOK

LEMMA UserTypes ==
  ASSUME TypeOK, NEW p \in Phones, UserPlays(p) \/ UserStops(p) \/ Obeys(p) \/ Ignores(p)
  PROVE  TypeOK'
<1> DEFINE t == bud[master]
<1>0. /\ bud \in [Buds -> Bud] /\ t \in Bud /\ queue \in Queues /\ phone \in [Phones -> Phone]
      /\ master \in Buds
  BY DEF TypeOK, Queues
<1>1. \A f \in [Phones -> Phone], x \in BOOLEAN : [f EXCEPT ![p].on = x] \in [Phones -> Phone]
  BY ZenonT(40) DEF Phone
<1>2. ASSUME UserPlays(p) PROVE TypeOK'
  <2> DEFINE m == a2dp_media_mute(t, p, Links(master))
             u == [m EXCEPT !.preempted = Without(@, p)]
  <2>1. /\ \/ Returns(master, Now(u)) /\ phone' = [Tell(p, "pause") EXCEPT ![p].on = TRUE]
           \/ UNCHANGED <<bud, queue>> /\ phone' = [phone EXCEPT ![p].on = TRUE]
        /\ acts < MaxEvents /\ acts' = acts + 1
        /\ UNCHANGED <<timers, halted, master, tws, monitor, past>>
    BY <1>2 DEF UserPlays, MayAct
  <2> HIDE DEF t
  <2>2. m \in Bud
    BY <1>0, LinksType, MuteFields
  <2> HIDE DEF m
  <2>3. u \in Bud
    BY <2>2 DEF Bud, Addr, Without
  <2> HIDE DEF u
  <2>4. Now(u) \in Work
    BY <1>0, <2>3, NowType
  <2>5. bud' \in [Buds -> Bud] /\ queue' \in Queues
    BY <1>0, <2>1, <2>4, ReturnsType
  <2>6. phone' \in [Phones -> Phone]
    <3>1. Tell(p, "pause") \in [Phones -> Phone]
      BY <1>0, TellType
    <3> QED BY <1>0, <1>1, <2>1, <3>1
  <2>7. acts' \in 0 .. MaxEvents
    BY <2>1, MayActType
  <2> QED BY <2>1, <2>5, <2>6, <2>7 DEF TypeOK, Queues
<1>3. ASSUME UserStops(p) PROVE TypeOK'
  <2>1. bud' \in [Buds -> Bud] /\ halted' \subseteq Phones
    BY <1>3, StreamEndsTypes DEF UserStops
  <2>2. phone' \in [Phones -> Phone]
    BY <1>0, <1>1, <1>3 DEF UserStops
  <2>3. acts' \in 0 .. MaxEvents
    BY <1>3, MayActType DEF UserStops, MayAct
  <2> QED BY <1>3, <2>1, <2>2, <2>3 DEF UserStops, TypeOK
<1>4. ASSUME phone[p].told # << >>
      PROVE  \A x \in BOOLEAN : /\ [phone EXCEPT ![p].told = Tail(@), ![p].on = x] \in [Phones -> Phone]
                                /\ [phone EXCEPT ![p].told = Tail(@)] \in [Phones -> Phone]
  <2>1. phone[p] \in Phone /\ Tail(phone[p].told) \in Seq({"play", "pause"})
    BY <1>0, <1>4, HeadTailProperties DEF Phone
  <2>2. \A x \in BOOLEAN : /\ [phone[p] EXCEPT !.told = Tail(@), !.on = x] \in Phone
                           /\ [phone[p] EXCEPT !.told = Tail(@)] \in Phone
    BY <2>1 DEF Phone
  <2> QED BY <1>0, <2>2
<1>5. ASSUME Obeys(p) PROVE TypeOK'
  <2>1. bud' \in [Buds -> Bud] /\ halted' \subseteq Phones
    <3>1. StreamEnds(p) \/ UNCHANGED <<bud, halted>>
      BY <1>5 DEF Obeys
    <3> QED BY <1>0, <3>1, StreamEndsTypes DEF TypeOK
  <2>2. phone' \in [Phones -> Phone]
    BY <1>4, <1>5 DEF Obeys
  <2> QED BY <1>5, <2>1, <2>2 DEF Obeys, TypeOK
<1>6. ASSUME Ignores(p) PROVE TypeOK'
  <2>1. phone' \in [Phones -> Phone]
    BY <1>4, <1>6 DEF Ignores
  <2> QED BY <1>6, <2>1 DEF Ignores, TypeOK
<1> QED BY <1>2, <1>3, <1>5, <1>6

LEMMA StepTypes == TypeOK /\ [Next]_vars => TypeOK'
<1> SUFFICES ASSUME TypeOK, [Next]_vars PROVE TypeOK'
  OBVIOUS
<1>1. CASE UNCHANGED vars
  BY <1>1 DEF TypeOK, vars
<1>2. ASSUME NEW b \in Buds, OfBud(b) PROVE TypeOK'
  BY <1>2, MessageTypes, TimerTypes DEF OfBud
<1>3. ASSUME NEW p \in Phones, OfPhone(p) PROVE TypeOK'
  BY <1>3, MediaTypes, ListenTypes, CallTypes, HangupTypes, LinkTypes, UserTypes DEF OfPhone
<1> QED BY <1>1, <1>2, <1>3, PairTypes DEF Next

\* Whatever the phones do and in whatever order events and commands meet, the commands name
\* phones: no handler sends the address of an empty player or of one forgotten before the
\* message was filled (a2dp_energy_detect_handler, tws_a2dp_play_in_task).
THEOREM A2dpTypes == Spec => []TypeOK
BY InitTypes, StepTypes, PTL DEF Spec

-----------------------------------------------------------------------------
(* A call in the queue of one bud.  e is the phone whose call the bud      *)
(* sounds, q its queue, lead says that it is the master, up are the phones *)
(* whose call is up, linked those that are connected, hears those whose    *)
(* packets the bud receives, paired that the buds are connected.           *)

\* This message ends the call of x on the bud that runs it.
EndsCall(c, x) == c.cmd \in {"CLOSE_ESCO", "LINK_DETACH"} /\ c.addr = x
Waits(q, cmd) == \E i \in DOMAIN q : q[i].cmd = cmd

\* A waiting OPEN_ESCO is of the call that is up; nothing comes behind it that sounds, or
\* that ends a call.
OpensLast(q, lead, up) ==
  \A i \in DOMAIN q : q[i].cmd = "OPEN_ESCO" =>
    /\ q[i].addr \in up
    /\ \A j \in DOMAIN q : i < j => q[j].cmd \notin Sounding(lead) \cup {"CLOSE_ESCO"}

\* The slave alone is told that a phone has gone; it was idle then.
DetachFirst(q, lead, linked, paired) ==
  \A i \in DOMAIN q : q[i].cmd = "LINK_DETACH" =>
    ~lead /\ (paired => i = 1 /\ q[i].addr \notin linked)

\* Without a sibling commands do not wait.
LoneLocal(q, lead, paired) ==
  lead /\ ~paired => \A i \in DOMAIN q : q[i].cmd \notin SharedCmds

\* A phone of the background comes to the front only while there is no call.
StartsFree(e, q, lead) ==
  Waits(q, "A2DP_START") => lead /\ e = None /\ ~Waits(q, "OPEN_ESCO")

\* A bud that receives the phone of a call sounds it, or will.
Joins(e, q, up, hears) ==
  \A p \in hears \cap up :
    \/ Waits(q, "OPEN_ESCO")
    \/ e = p /\ \A i \in DOMAIN q : ~EndsCall(q[i], p)

\* A bud that sounds a call which is over, or whose phone it has lost, will stop.
Leaves(e, q, up, hears) ==
  e # None =>
    /\ e \in up \/ \E i \in DOMAIN q : EndsCall(q[i], e)
    /\ e \in hears \/ \E i \in DOMAIN q : q[i].cmd = "LINK_DETACH" /\ q[i].addr = e

\* What sounds comes behind the end of the call.
SoundsAfter(e, q, lead) ==
  e # None =>
    \A i \in DOMAIN q : q[i].cmd \in Sounding(lead) =>
      \E j \in DOMAIN q : j < i /\ EndsCall(q[j], e)

CallQueue(e, q, lead, up, linked, hears, paired) ==
  /\ OpensLast(q, lead, up) /\ DetachFirst(q, lead, linked, paired)
  /\ LoneLocal(q, lead, paired) /\ StartsFree(e, q, lead)
  /\ Joins(e, q, up, hears) /\ Leaves(e, q, up, hears) /\ SoundsAfter(e, q, lead)

Ups == {p \in Phones : phone[p].call = "up"}
Linked == {p \in Phones : phone[p].link}
Calls(b) == CallQueue(bud[b].esco, queue[b], b = master, Ups, Linked, Links(b), tws)

\* What the phones and the links are to each other.
Lines ==
  /\ \A p \in Phones :
       phone[p].call # "none" \/ phone[p].on \/ phone[p].told # << >> => phone[p].link
  /\ \A p, o \in Phones : phone[p].call # "none" /\ phone[o].call # "none" => p = o
  /\ monitor \subseteq Linked
  /\ ~tws => monitor = {}

A2dpInv ==
  /\ TypeOK /\ Lines
  /\ \A b \in Buds : Calls(b) /\ Sane(bud[b])
  /\ Hushed(bud[master], halted)

LEMMA SeqFacts ==
  ASSUME NEW q \in Seq(Cmds)
  PROVE  /\ Len(q) \in Nat /\ DOMAIN q = 1 .. Len(q)
         /\ \A i \in DOMAIN q : q[i] \in Cmds
BY LenProperties, ElementOfSeq

LEMMA AppendFacts ==
  ASSUME NEW q \in Seq(Cmds), NEW c \in Cmds
  PROVE  /\ Append(q, c) \in Seq(Cmds)
         /\ DOMAIN Append(q, c) = DOMAIN q \cup {Len(q) + 1}
         /\ \A i \in DOMAIN q : Append(q, c)[i] = q[i] /\ i < Len(q) + 1
         /\ Append(q, c)[Len(q) + 1] = c
<1>1. Append(q, c) \in Seq(Cmds) /\ Len(Append(q, c)) = Len(q) + 1
  BY AppendProperties
<1>2. DOMAIN Append(q, c) = 1 .. Len(q) + 1
  BY <1>1, LenProperties
<1>3. \A i \in 1 .. Len(q) : Append(q, c)[i] = q[i]
  BY AppendProperties
<1>4. Append(q, c)[Len(q) + 1] = c
  BY AppendProperties
<1> QED BY <1>1, <1>2, <1>3, <1>4, SeqFacts

LEMMA TailFacts ==
  ASSUME NEW q \in Seq(Cmds), q # << >>
  PROVE  /\ Tail(q) \in Seq(Cmds) /\ Head(q) = q[1] /\ 1 \in DOMAIN q
         /\ \A i \in DOMAIN Tail(q) : i + 1 \in DOMAIN q /\ Tail(q)[i] = q[i + 1]
         /\ \A i \in DOMAIN q : i # 1 => i - 1 \in DOMAIN Tail(q) /\ Tail(q)[i - 1] = q[i]
<1>1. Tail(q) \in Seq(Cmds) /\ Len(Tail(q)) = Len(q) - 1 /\ Len(q) \in Nat /\ Len(q) # 0
      /\ \A i \in 1 .. Len(Tail(q)) : Tail(q)[i] = q[i + 1]
  BY HeadTailProperties, EmptySeq, LenProperties
<1>2. DOMAIN q = 1 .. Len(q) /\ DOMAIN Tail(q) = 1 .. Len(q) - 1
  BY <1>1, LenProperties
<1>3. Head(q) = q[1]
  OBVIOUS
<1> QED BY <1>1, <1>2, <1>3

\* A message that neither opens nor ends a call joins the queue.
LEMMA QuietAppend ==
  ASSUME NEW e \in Addr, NEW q \in Seq(Cmds), NEW lead \in BOOLEAN, NEW up \in SUBSET Phones,
         NEW linked, NEW hears, NEW paired \in BOOLEAN, NEW c \in Cmds,
         c.cmd \notin {"OPEN_ESCO", "CLOSE_ESCO", "LINK_DETACH"},
         c.cmd \in Sounding(lead) => up = {},
         c.cmd = "A2DP_START" => lead /\ e = None /\ ~Waits(q, "OPEN_ESCO"),
         lead /\ ~paired => c.cmd \notin SharedCmds,
         CallQueue(e, q, lead, up, linked, hears, paired)
  PROVE  CallQueue(e, Append(q, c), lead, up, linked, hears, paired)
<1> DEFINE r == Append(q, c)
           n == Len(q) + 1
<1>1. /\ DOMAIN r = DOMAIN q \cup {n} /\ r[n] = c
      /\ \A i \in DOMAIN q : r[i] = q[i] /\ i < n /\ i # n /\ ~(n < i)
      /\ ~(n < n)
  <2>1. \A i \in DOMAIN q : r[i] = q[i] /\ i < n
    BY AppendFacts
  <2>2. n \in Nat /\ \A i \in DOMAIN q : i \in Nat
    BY SeqFacts
  <2>3. \A i \in DOMAIN q : i # n /\ ~(n < i)
    BY <2>1, <2>2
  <2> QED BY <2>1, <2>2, <2>3, AppendFacts
<1> HIDE DEF r, n
<1>2. OpensLast(r, lead, up)
  <2>1. c.cmd # "CLOSE_ESCO" /\ (c.cmd \in Sounding(lead) => up = {})
    OBVIOUS
  <2> QED BY <1>1, <2>1 DEF OpensLast, CallQueue
<1>3. DetachFirst(r, lead, linked, paired) /\ LoneLocal(r, lead, paired)
  BY <1>1 DEF DetachFirst, LoneLocal, CallQueue
<1>4. StartsFree(e, r, lead)
  BY <1>1 DEF StartsFree, Waits, CallQueue
<1>5. Joins(e, r, up, hears)
  BY <1>1 DEF Joins, Waits, EndsCall, CallQueue
<1>6. Leaves(e, r, up, hears)
  BY <1>1 DEF Leaves, EndsCall, CallQueue
<1>7. SoundsAfter(e, r, lead)
  <2> SUFFICES ASSUME e # None, NEW i \in DOMAIN r, r[i].cmd \in Sounding(lead)
               PROVE  \E j \in DOMAIN r : j < i /\ EndsCall(r[j], e)
    BY DEF SoundsAfter
  <2>1. CASE i \in DOMAIN q
    BY <1>1, <2>1 DEF SoundsAfter, CallQueue
  <2>2. CASE i = n
    <3>1. up = {}
      BY <1>1, <2>2
    <3>2. PICK j \in DOMAIN q : EndsCall(q[j], e)
      BY <3>1 DEF Leaves, CallQueue
    <3> QED BY <1>1, <2>2, <3>2
  <2> QED BY <1>1, <2>1, <2>2
<1> QED BY <1>2, <1>3, <1>4, <1>5, <1>6, <1>7 DEF CallQueue, r

\* The sound of a call is to be opened.
LEMMA OpenAppend ==
  ASSUME NEW e \in Addr, NEW q \in Seq(Cmds), NEW lead \in BOOLEAN, NEW up \in SUBSET Phones,
         NEW linked, NEW hears, NEW paired \in BOOLEAN, NEW c \in Cmds,
         c.cmd = "OPEN_ESCO", NEW hears2, hears \subseteq hears2,
         NEW up2, up \subseteq up2, c.addr \in up2,
         lead => paired, ~Waits(q, "A2DP_START"),
         CallQueue(e, q, lead, up, linked, hears, paired)
  PROVE  CallQueue(e, Append(q, c), lead, up2, linked, hears2, paired)
<1> DEFINE r == Append(q, c)
           n == Len(q) + 1
<1>1. /\ DOMAIN r = DOMAIN q \cup {n} /\ r[n] = c
      /\ \A i \in DOMAIN q : r[i] = q[i] /\ i < n /\ i # n /\ ~(n < i)
      /\ ~(n < n)
  <2>1. \A i \in DOMAIN q : r[i] = q[i] /\ i < n
    BY AppendFacts
  <2>2. n \in Nat /\ \A i \in DOMAIN q : i \in Nat
    BY SeqFacts
  <2>3. \A i \in DOMAIN q : i # n /\ ~(n < i)
    BY <2>1, <2>2
  <2> QED BY <2>1, <2>2, <2>3, AppendFacts
<1> HIDE DEF r, n
<1>2. OpensLast(r, lead, up2)
  BY <1>1 DEF OpensLast, CallQueue, Sounding
<1>3. DetachFirst(r, lead, linked, paired) /\ LoneLocal(r, lead, paired)
  BY <1>1 DEF DetachFirst, LoneLocal, CallQueue
<1>4. StartsFree(e, r, lead)
  BY <1>1 DEF StartsFree, Waits
<1>5. Joins(e, r, up2, hears2)
  BY <1>1 DEF Joins, Waits
<1>6. Leaves(e, r, up2, hears2)
  BY <1>1 DEF Leaves, EndsCall, CallQueue
<1>7. SoundsAfter(e, r, lead)
  BY <1>1 DEF SoundsAfter, CallQueue, Sounding
<1> QED BY <1>2, <1>3, <1>4, <1>5, <1>6, <1>7 DEF CallQueue, r

\* The call that is up is over; every bud has opened it or never will.
LEMMA CloseAppend ==
  ASSUME NEW e \in Addr, NEW q \in Seq(Cmds), NEW lead \in BOOLEAN, NEW c \in Cmds,
         NEW linked, NEW hears, NEW paired \in BOOLEAN,
         c.cmd = "CLOSE_ESCO", lead => paired, ~Waits(q, "OPEN_ESCO"),
         CallQueue(e, q, lead, {c.addr}, linked, hears, paired)
  PROVE  CallQueue(e, Append(q, c), lead, {}, linked, hears, paired)
<1> DEFINE r == Append(q, c)
           n == Len(q) + 1
<1>1. /\ DOMAIN r = DOMAIN q \cup {n} /\ r[n] = c
      /\ \A i \in DOMAIN q : r[i] = q[i]
  BY AppendFacts
<1> HIDE DEF r, n
<1>2. OpensLast(r, lead, {})
  BY <1>1 DEF OpensLast, Waits
<1>3. DetachFirst(r, lead, linked, paired) /\ LoneLocal(r, lead, paired)
  BY <1>1 DEF DetachFirst, LoneLocal, CallQueue
<1>4. StartsFree(e, r, lead)
  BY <1>1 DEF StartsFree, Waits, CallQueue
<1>5. Joins(e, r, {}, hears)
  BY DEF Joins
<1>6. Leaves(e, r, {}, hears)
  BY <1>1 DEF Leaves, EndsCall, CallQueue
<1>7. SoundsAfter(e, r, lead)
  BY <1>1 DEF SoundsAfter, CallQueue, Sounding
<1> QED BY <1>2, <1>3, <1>4, <1>5, <1>6, <1>7 DEF CallQueue, r

\* The message at the head is run.
LEMMA RunQueue ==
  ASSUME NEW e \in Addr, NEW q \in Seq(Cmds), q # << >>, NEW lead \in BOOLEAN,
         NEW up \in SUBSET Phones, \A x, y \in up : x = y,
         NEW linked, NEW hears, NEW paired \in BOOLEAN,
         ~lead /\ ~paired => hears = {},
         NEW sco \in BOOLEAN, sco <=> hears \cap up # {},
         CallQueue(e, q, lead, up, linked, hears, paired)
  PROVE  CallQueue(EscoAfter(e, Head(q), sco), Tail(q), lead, up, linked, hears, paired)
<1> DEFINE r == Tail(q)
           c == Head(q)
           e2 == EscoAfter(e, c, sco)
<1>1. /\ c = q[1] /\ 1 \in DOMAIN q
      /\ \A i \in DOMAIN r : i + 1 \in DOMAIN q /\ r[i] = q[i + 1] /\ i + 1 # 1 /\ i \in Nat
      /\ \A i \in DOMAIN q : i # 1 => i - 1 \in DOMAIN r /\ r[i - 1] = q[i]
      /\ \A i \in DOMAIN q : i \in Nat /\ i >= 1
  <2>1. \A i \in DOMAIN q : i \in Nat /\ i >= 1
    BY SeqFacts
  <2>2. \A i \in DOMAIN r : i \in Nat /\ i >= 1
    BY TailFacts, SeqFacts
  <2>3. \A i \in DOMAIN r : i + 1 # 1
    BY <2>2
  <2> QED BY <2>1, <2>2, <2>3, TailFacts
<1> HIDE DEF r, c
<1>2. /\ c.cmd # "OPEN_ESCO" => e2 = e \/ EndsCall(c, e)
      /\ c.cmd # "OPEN_ESCO" /\ e2 # None => e2 = e /\ ~EndsCall(c, e)
      /\ c.cmd = "OPEN_ESCO" => e2 = IF e # None \/ ~sco THEN e ELSE c.addr
      /\ e = None /\ c.cmd # "OPEN_ESCO" => e2 = None
  BY DEF EscoAfter, EndsCall, Without
<1> HIDE DEF e2
\* Behind a waiting OPEN_ESCO nothing ends a call that the bud hears.
<1>3. ASSUME c.cmd = "OPEN_ESCO", hears # {}, NEW x
      PROVE  \A i \in DOMAIN r : ~EndsCall(r[i], x)
  <2>1. \A i \in DOMAIN r : r[i].cmd # "CLOSE_ESCO"
    <3>1. ASSUME NEW i \in DOMAIN r PROVE r[i].cmd # "CLOSE_ESCO"
      <4>1. 1 < i + 1
        BY <1>1
      <4> QED BY <1>1, <1>3, <4>1 DEF OpensLast, CallQueue
    <3> QED BY <3>1
  <2>2. \A i \in DOMAIN r : r[i].cmd # "LINK_DETACH"
    BY <1>1, <1>3 DEF DetachFirst, CallQueue
  <2> QED BY <2>1, <2>2 DEF EndsCall
<1>4. OpensLast(r, lead, up)
  <2> SUFFICES ASSUME NEW i \in DOMAIN r, r[i].cmd = "OPEN_ESCO"
               PROVE  /\ r[i].addr \in up
                      /\ \A j \in DOMAIN r : i < j => r[j].cmd \notin Sounding(lead) \cup {"CLOSE_ESCO"}
    BY DEF OpensLast
  <2>1. \A j \in DOMAIN r : i < j => i + 1 < j + 1
    BY <1>1
  <2> QED BY <1>1, <2>1 DEF OpensLast, CallQueue
<1>5. DetachFirst(r, lead, linked, paired) /\ LoneLocal(r, lead, paired)
  BY <1>1 DEF DetachFirst, LoneLocal, CallQueue
<1>6. StartsFree(e2, r, lead)
  BY <1>1, <1>2 DEF StartsFree, Waits, CallQueue
<1>7. Joins(e2, r, up, hears)
  <2> SUFFICES ASSUME NEW p \in hears \cap up, ~Waits(r, "OPEN_ESCO")
               PROVE  e2 = p /\ \A i \in DOMAIN r : ~EndsCall(r[i], p)
    BY DEF Joins
  <2>1. CASE c.cmd = "OPEN_ESCO"
    <3>1. \A x : \A i \in DOMAIN r : ~EndsCall(r[i], x)
      BY <1>3, <2>1
    <3>2. c.addr = p /\ sco
      BY <1>1, <2>1 DEF OpensLast, CallQueue
    <3>3. ASSUME e # None PROVE e = p
      <4>1. \A i \in DOMAIN q : ~EndsCall(q[i], e)
        BY <1>1, <2>1, <3>1 DEF EndsCall
      <4>2. e \in up
        BY <3>3, <4>1 DEF Leaves, CallQueue
      <4> QED BY <4>2
    <3> QED BY <1>2, <2>1, <3>1, <3>2, <3>3
  <2>2. CASE c.cmd # "OPEN_ESCO"
    <3>1. ~Waits(q, "OPEN_ESCO")
      BY <1>1, <2>2 DEF Waits
    <3>2. e = p /\ \A i \in DOMAIN q : ~EndsCall(q[i], p)
      BY <3>1 DEF Joins, CallQueue
    <3> QED BY <1>1, <1>2, <2>2, <3>2
  <2> QED BY <2>1, <2>2
<1>8. CASE c.cmd = "OPEN_ESCO" /\ e = None /\ sco
  <2>1. e2 = c.addr /\ c.addr \in up /\ c.addr \in hears
    BY <1>1, <1>2, <1>8 DEF OpensLast, CallQueue
  <2>2. Leaves(e2, r, up, hears)
    BY <2>1 DEF Leaves
  <2>3. SoundsAfter(e2, r, lead)
    <3>1. \A i \in DOMAIN r : 1 < i + 1
      BY <1>1
    <3>2. \A i \in DOMAIN r : r[i].cmd \notin Sounding(lead)
      BY <1>1, <1>8, <3>1 DEF OpensLast, CallQueue
    <3> QED BY <3>2 DEF SoundsAfter
  <2> QED BY <1>4, <1>5, <1>6, <1>7, <2>2, <2>3 DEF CallQueue, r, e2, c
<1>9. CASE ~(c.cmd = "OPEN_ESCO" /\ e = None /\ sco)
  <2>1. e2 # None => e2 = e /\ ~EndsCall(q[1], e)
    BY <1>1, <1>2, <1>9 DEF EndsCall
  <2>2. Leaves(e2, r, up, hears)
    <3> SUFFICES ASSUME e2 # None
                 PROVE  /\ e \in up \/ \E i \in DOMAIN r : EndsCall(r[i], e)
                        /\ e \in hears \/ \E i \in DOMAIN r : r[i].cmd = "LINK_DETACH" /\ r[i].addr = e
      BY <2>1 DEF Leaves
    <3>1. /\ e \in up \/ \E i \in DOMAIN q : EndsCall(q[i], e)
          /\ e \in hears \/ \E i \in DOMAIN q : q[i].cmd = "LINK_DETACH" /\ q[i].addr = e
      BY <2>1 DEF Leaves, CallQueue
    <3>2. \A i \in DOMAIN q : EndsCall(q[i], e) => i - 1 \in DOMAIN r /\ EndsCall(r[i - 1], e)
      BY <1>1, <2>1
    <3>3. \A i \in DOMAIN q : q[i].cmd = "LINK_DETACH" /\ q[i].addr = e =>
            i - 1 \in DOMAIN r /\ r[i - 1].cmd = "LINK_DETACH" /\ r[i - 1].addr = e
      BY <1>1, <2>1 DEF EndsCall
    <3> QED BY <3>1, <3>2, <3>3
  <2>3. SoundsAfter(e2, r, lead)
    <3> SUFFICES ASSUME e2 # None, NEW i \in DOMAIN r, r[i].cmd \in Sounding(lead)
                 PROVE  \E j \in DOMAIN r : j < i /\ EndsCall(r[j], e)
      BY <2>1 DEF SoundsAfter
    <3>1. PICK j \in DOMAIN q : j < i + 1 /\ EndsCall(q[j], e)
      BY <1>1, <2>1 DEF SoundsAfter, CallQueue
    <3>2. j # 1
      BY <2>1, <3>1
    <3>3. j - 1 < i
      BY <1>1, <3>1
    <3> QED BY <1>1, <3>1, <3>2, <3>3
  <2> QED BY <1>4, <1>5, <1>6, <1>7, <2>2, <2>3 DEF CallQueue, r, e2, c
<1> QED BY <1>8, <1>9

\* A command that sounds is run only without a call.
LEMMA HeadFree ==
  ASSUME NEW e, NEW q \in Seq(Cmds), q # << >>, NEW lead, Head(q).cmd \in Sounding(lead),
         SoundsAfter(e, q, lead)
  PROVE  e = None
<1>1. Head(q) = q[1] /\ 1 \in DOMAIN q /\ \A j \in DOMAIN q : ~(j < 1)
  BY TailFacts, SeqFacts
<1> QED BY <1>1 DEF SoundsAfter

\* With nothing waiting, a bud sounds the call it hears and no other.
LEMMA EmptyQueue ==
  ASSUME NEW e, NEW lead, NEW up, NEW linked, NEW hears, NEW paired
  PROVE  CallQueue(e, << >>, lead, up, linked, hears, paired) <=>
           /\ \A p \in hears \cap up : e = p
           /\ e # None => e \in up \cap hears
<1>1. DOMAIN << >> = {}
  OBVIOUS
<1> DEFINE q == << >>
<1> HIDE DEF q
<1>2. DOMAIN q = {}
  BY <1>1 DEF q
<1>3. CallQueue(e, q, lead, up, linked, hears, paired) <=>
           /\ \A p \in hears \cap up : e = p
           /\ e # None => e \in up \cap hears
  BY <1>2 DEF CallQueue, OpensLast, DetachFirst, LoneLocal, StartsFree, Joins, Leaves,
              SoundsAfter, Waits
<1> QED BY <1>3 DEF q

\* The bud hears a phone more, which has no call.
LEMMA MoreHears ==
  ASSUME NEW e, NEW q, NEW lead, NEW up, NEW linked, NEW hears, NEW paired, NEW hears2,
         hears \subseteq hears2, hears2 \cap up \subseteq hears,
         CallQueue(e, q, lead, up, linked, hears, paired)
  PROVE  CallQueue(e, q, lead, up, linked, hears2, paired)
<1>1. Joins(e, q, up, hears2)
  BY DEF Joins, CallQueue
<1>2. Leaves(e, q, up, hears2)
  BY DEF Leaves, CallQueue
<1> QED BY <1>1, <1>2 DEF CallQueue

-----------------------------------------------------------------------------
(* Without a sibling nothing that concerns a call waits. *)

LEMMA LoneQueue ==
  ASSUME NEW e, NEW q, NEW up, NEW linked, NEW hears,
         NEW lead \in BOOLEAN, NEW paired \in BOOLEAN,
         CallQueue(e, q, lead, up, linked, hears, paired)
  PROVE  lead /\ ~paired =>
           /\ \A i \in DOMAIN q : q[i].cmd \notin SharedCmds \cup {"LINK_DETACH"}
           /\ e # None => e \in up
           /\ \A p \in hears \cap up : e = p
<1> SUFFICES ASSUME lead, ~paired
             PROVE  /\ \A i \in DOMAIN q : q[i].cmd \notin SharedCmds \cup {"LINK_DETACH"}
                    /\ e # None => e \in up
                    /\ \A p \in hears \cap up : e = p
  OBVIOUS
<1>1. \A i \in DOMAIN q : q[i].cmd \notin SharedCmds \cup {"LINK_DETACH"}
  BY DEF CallQueue, LoneLocal, DetachFirst
<1>2. ~Waits(q, "OPEN_ESCO") /\ \A i \in DOMAIN q : \A x : ~EndsCall(q[i], x)
  BY <1>1 DEF Waits, EndsCall, SharedCmds
<1>3. e # None => e \in up
  BY <1>2 DEF CallQueue, Leaves
<1>4. \A p \in hears \cap up : e = p
  BY <1>2 DEF CallQueue, Joins
<1> QED BY <1>1, <1>3, <1>4

\* The master alone opens, or ends, its call at once.
LEMMA LoneCall ==
  ASSUME NEW e, NEW q, NEW up, NEW linked, NEW hears,
         NEW lead \in BOOLEAN, NEW paired \in BOOLEAN, lead, ~paired,
         NEW e2, NEW up2,
         CallQueue(e, q, lead, up, linked, hears, paired),
         Waits(q, "A2DP_START") => e2 = None,
         \A p \in hears \cap up2 : e2 = p, e2 # None => e2 \in up2 \cap hears
  PROVE  CallQueue(e2, q, lead, up2, linked, hears, paired)
<1>1. \A i \in DOMAIN q : q[i].cmd \notin SharedCmds \cup {"LINK_DETACH"}
  BY DEF CallQueue, LoneLocal, DetachFirst
<1>2. \A i \in DOMAIN q :
        /\ q[i].cmd \notin Sounding(lead) \cup {"OPEN_ESCO", "CLOSE_ESCO", "LINK_DETACH"}
        /\ \A x : ~EndsCall(q[i], x)
  BY <1>1 DEF SharedCmds, Sounding, EndsCall
<1>3. OpensLast(q, lead, up2) /\ StartsFree(e2, q, lead) /\ SoundsAfter(e2, q, lead)
  BY <1>2 DEF OpensLast, StartsFree, SoundsAfter, Waits
<1>4. Joins(e2, q, up2, hears) /\ Leaves(e2, q, up2, hears)
  BY <1>2 DEF Joins, Leaves
<1> QED BY <1>3, <1>4 DEF CallQueue

\* The slave alone hears nothing of the calls.
LEMMA DeafCall ==
  ASSUME NEW e, NEW q, NEW up, NEW linked, NEW up2,
         NEW lead \in BOOLEAN, NEW paired \in BOOLEAN, ~lead, ~paired,
         CallQueue(e, q, lead, up, linked, {}, paired),
         ~Waits(q, "OPEN_ESCO")
  PROVE  CallQueue(e, q, lead, up2, linked, {}, paired)
<1>1. OpensLast(q, lead, up2)
  BY DEF OpensLast, Waits
<1>2. Leaves(e, q, up2, {})
  BY DEF Leaves, CallQueue, EndsCall
<1>3. Joins(e, q, up2, {})
  BY DEF Joins
<1> QED BY <1>1, <1>2, <1>3 DEF CallQueue

\* What survives of a queue keeps its order, and nothing of I is lost.
LEMMA SurvivorsFacts ==
  ASSUME NEW q \in Seq(Cmds), NEW I \in SUBSET DOMAIN q, NEW r \in Survivors(q, I)
  PROVE  \E f :
           /\ r \in Seq(Cmds)
           /\ \A k \in DOMAIN r : f[k] \in I /\ r[k] = q[f[k]]
           /\ \A j, k \in DOMAIN r : j < k <=> f[j] < f[k]
           /\ \A i \in I : \E k \in DOMAIN r : f[k] = i
<1>0. /\ \A i \in DOMAIN q : i \in Nat
      /\ Cardinality(I) \in Nat
  <2>1. IsFiniteSet(I)
    BY FS_Interval, FS_Subset, LenProperties
  <2> QED BY <2>1, SeqFacts, FS_CardinalityType
<1>1. PICK f \in Bijection(1 .. Cardinality(I), I) :
        /\ \A j, k \in DOMAIN f : j < k => f[j] < f[k]
        /\ r = [k \in DOMAIN f |-> q[f[k]]]
  BY DEF Survivors
<1>2. /\ DOMAIN f = 1 .. Cardinality(I) /\ \A k \in DOMAIN f : f[k] \in I
      /\ \A i \in I : \E k \in DOMAIN f : f[k] = i
  BY <1>1 DEF Bijection, Injection, Surjection, IsInjective
<1>3. DOMAIN r = DOMAIN f /\ r \in Seq(Cmds) /\ \A k \in DOMAIN r : r[k] = q[f[k]]
  BY <1>1, SurvivorsType
<1>4. \A j, k \in DOMAIN r : f[j] < f[k] => j < k
  <2> SUFFICES ASSUME NEW j \in DOMAIN r, NEW k \in DOMAIN r, f[j] < f[k], ~(j < k)
               PROVE  FALSE
    OBVIOUS
  <2>1. j \in Nat /\ k \in Nat /\ f[j] \in Nat /\ f[k] \in Nat
    BY <1>0, <1>2, <1>3
  <2>2. j = k \/ k < j
    BY <2>1
  <2>3. f[k] < f[j] \/ f[k] = f[j]
    BY <1>1, <1>3, <2>2
  <2> QED BY <2>1, <2>3
<1>5. /\ r \in Seq(Cmds)
      /\ \A k \in DOMAIN r : f[k] \in I /\ r[k] = q[f[k]]
      /\ \A j, k \in DOMAIN r : j < k <=> f[j] < f[k]
      /\ \A i \in I : \E k \in DOMAIN r : f[k] = i
  BY <1>1, <1>2, <1>3, <1>4
<1> QED BY <1>5

\* The slave that has lost its master: the first n messages have arrived, and what it had
\* posted to itself is there; then it is told that the phones are gone.
LEMMA LostQueue ==
  ASSUME NEW e \in Addr, NEW q \in Seq(Cmds), NEW n \in 0 .. Len(q),
         NEW up \in SUBSET Phones, NEW linked, NEW hears,
         NEW r \in Survivors(q, {i \in DOMAIN q : i <= n \/ q[i].cmd \in LocalCmds}),
         NEW gone \in Seq(Cmds), \A i \in DOMAIN gone : gone[i].cmd = "LINK_DETACH",
         \A p \in hears : \E i \in DOMAIN gone : gone[i].addr = p,
         CallQueue(e, q, FALSE, up, linked, hears, TRUE)
  PROVE  CallQueue(e, r \o gone, FALSE, up, linked, {}, FALSE)
<1> DEFINE I == {i \in DOMAIN q : i <= n \/ q[i].cmd \in LocalCmds}
           m == r \o gone
<1>0. DOMAIN q = 1 .. Len(q) /\ Len(q) \in Nat
  BY SeqFacts
<1>1. PICK f :
        /\ r \in Seq(Cmds)
        /\ \A k \in DOMAIN r : f[k] \in I /\ r[k] = q[f[k]]
        /\ \A j, k \in DOMAIN r : j < k <=> f[j] < f[k]
        /\ \A i \in I : \E k \in DOMAIN r : f[k] = i
  <2>1. I \in SUBSET DOMAIN q /\ r \in Survivors(q, I)
    OBVIOUS
  <2> HIDE DEF I
  <2> QED BY <2>1, SurvivorsFacts, ZenonT(40)
<1>2. /\ m \in Seq(Cmds) /\ \A k \in DOMAIN r : k \in DOMAIN m /\ m[k] = r[k]
      /\ \A k \in DOMAIN m : k \in DOMAIN r \/ m[k].cmd = "LINK_DETACH"
      /\ \A i \in DOMAIN gone : \E k \in DOMAIN m : m[k] = gone[i]
      /\ \A j, k \in DOMAIN m : j < k /\ k \in DOMAIN r => j \in DOMAIN r
  <2>1. /\ m \in Seq(Cmds) /\ Len(m) = Len(r) + Len(gone)
        /\ \A k \in 1 .. Len(r) : m[k] = r[k]
        /\ \A i \in 1 .. Len(gone) : m[Len(r) + i] = gone[i]
    BY <1>1, ConcatProperties
  <2>2. /\ Len(r) \in Nat /\ DOMAIN r = 1 .. Len(r)
        /\ Len(gone) \in Nat /\ DOMAIN gone = 1 .. Len(gone)
        /\ DOMAIN m = 1 .. Len(r) + Len(gone)
    BY <1>1, <2>1, SeqFacts
  <2> HIDE DEF m
  <2>3. \A k \in DOMAIN m : k \in DOMAIN r \/ m[k].cmd = "LINK_DETACH"
    <3>1. ASSUME NEW k \in DOMAIN m, k \notin DOMAIN r PROVE m[k].cmd = "LINK_DETACH"
      <4>1. k - Len(r) \in DOMAIN gone /\ Len(r) + (k - Len(r)) = k
        BY <2>2, <3>1
      <4>2. m[k] = gone[k - Len(r)]
        BY <2>1, <2>2, <4>1
      <4> QED BY <4>1, <4>2
    <3> QED BY <3>1
  <2>4. \A i \in DOMAIN gone : Len(r) + i \in DOMAIN m /\ m[Len(r) + i] = gone[i]
    BY <2>1, <2>2
  <2>5. \A k \in DOMAIN r : k \in DOMAIN m /\ m[k] = r[k]
    BY <2>1, <2>2
  <2>6. \A j, k \in DOMAIN m : j < k /\ k \in DOMAIN r => j \in DOMAIN r
    BY <2>2
  <2> QED BY <2>1, <2>3, <2>4, <2>5, <2>6
<1>8. \A k \in DOMAIN r : f[k] \in DOMAIN q /\ m[k] = q[f[k]]
  BY <1>1, <1>2
<1>9. \A i \in I : \E k \in DOMAIN r : f[k] = i /\ m[k] = q[i]
  BY <1>1, <1>2
<1> HIDE DEF m
<1>3. OpensLast(m, FALSE, up)
  <2> SUFFICES ASSUME NEW i \in DOMAIN m, m[i].cmd = "OPEN_ESCO"
               PROVE  /\ m[i].addr \in up
                      /\ \A j \in DOMAIN m : i < j => m[j].cmd \notin Sounding(FALSE) \cup {"CLOSE_ESCO"}
    BY DEF OpensLast
  <2>1. i \in DOMAIN r
    BY <1>2
  <2>4. f[i] \in DOMAIN q /\ q[f[i]].cmd = "OPEN_ESCO" /\ m[i] = q[f[i]]
    BY <1>8, <2>1
  <2>5. /\ q[f[i]].addr \in up
        /\ \A j \in DOMAIN q : f[i] < j => q[j].cmd \notin Sounding(FALSE) \cup {"CLOSE_ESCO"}
    <3>1. OpensLast(q, FALSE, up)
      BY DEF CallQueue
    <3> QED BY <2>4, <3>1 DEF OpensLast
  <2>2. m[i].addr \in up
    BY <2>4, <2>5
  <2>3. ASSUME NEW j \in DOMAIN m, i < j
        PROVE  m[j].cmd \notin Sounding(FALSE) \cup {"CLOSE_ESCO"}
    <3>1. CASE j \in DOMAIN r
      <4>1. f[i] < f[j]
        BY <1>1, <2>1, <2>3, <3>1
      <4>2. f[j] \in DOMAIN q /\ m[j] = q[f[j]]
        BY <1>8, <3>1
      <4> QED BY <2>5, <4>1, <4>2
    <3>2. CASE m[j].cmd = "LINK_DETACH"
      BY <3>2 DEF Sounding
    <3> QED BY <1>2, <3>1, <3>2
  <2> QED BY <2>2, <2>3
<1>4. DetachFirst(m, FALSE, linked, FALSE) /\ LoneLocal(m, FALSE, FALSE) /\ Joins(e, m, up, {})
  BY DEF DetachFirst, LoneLocal, Joins
<1>5. StartsFree(e, m, FALSE)
  <2>1. ~Waits(q, "A2DP_START")
    BY DEF StartsFree, CallQueue
  <2>2. \A k \in DOMAIN m : m[k].cmd # "A2DP_START"
    BY <1>2, <1>8, <2>1 DEF Waits
  <2> QED BY <2>2 DEF StartsFree, Waits
<1>6. Leaves(e, m, up, {})
  <2> SUFFICES ASSUME e # None
               PROVE  \E i \in DOMAIN m : m[i].cmd = "LINK_DETACH" /\ m[i].addr = e
    BY DEF Leaves, EndsCall
  <2>1. CASE e \in hears
    <3>1. PICK i \in DOMAIN gone : gone[i].addr = e
      BY <2>1
    <3>2. PICK k \in DOMAIN m : m[k] = gone[i]
      BY <1>2
    <3> QED BY <3>1, <3>2
  <2>2. CASE e \notin hears
    <3>1. PICK i \in DOMAIN q : q[i].cmd = "LINK_DETACH" /\ q[i].addr = e
      BY <2>2 DEF Leaves, CallQueue
    <3>2. i \in I
      BY <3>1 DEF LocalCmds
    <3>3. PICK k \in DOMAIN r : m[k] = q[i]
      BY <1>9, <3>2
    <3> QED BY <1>2, <3>1, <3>3
  <2> QED BY <2>1, <2>2
<1>7. SoundsAfter(e, m, FALSE)
  <2> SUFFICES ASSUME e # None, NEW k \in DOMAIN m, m[k].cmd \in Sounding(FALSE)
               PROVE  \E j \in DOMAIN m : j < k /\ EndsCall(m[j], e)
    BY DEF SoundsAfter
  <2>1. m[k].cmd = "PLAY"
    BY DEF Sounding
  <2>2. k \in DOMAIN r
    BY <1>2, <2>1
  <2>3. PICK i \in DOMAIN q : i < f[k] /\ EndsCall(q[i], e)
    BY <1>8, <2>2 DEF SoundsAfter, CallQueue
  <2>4. i \in I
    <3>1. f[k] \in I /\ q[f[k]].cmd = "PLAY"
      BY <1>1, <1>8, <2>1, <2>2
    <3>2. f[k] <= n /\ f[k] \in DOMAIN q
      BY <3>1 DEF LocalCmds
    <3>3. i <= n
      BY <1>0, <2>3, <3>2
    <3> QED BY <3>3
  <2>5. PICK j \in DOMAIN r : f[j] = i /\ m[j] = q[i]
    BY <1>9, <2>4
  <2>6. j < k
    BY <1>1, <2>2, <2>3, <2>5
  <2> QED BY <1>2, <2>3, <2>5, <2>6
<1> QED BY <1>3, <1>4, <1>5, <1>6, <1>7 DEF CallQueue, m

-----------------------------------------------------------------------------
(* The work of one handler of the master. *)

Hears(b, mon) == {p \in Linked : b = master \/ p \in mon}

\* w is what a handler has made so far of the master and of the queues, up the phones whose
\* call is up when it returns, mon those the slave listens to then, h the streams that have
\* ended and are still to be handled.
Good(w, up, mon, h) ==
  /\ w \in Work /\ Sane(w.s) /\ Hushed(w.s, h)
  /\ \A b \in Buds :
       CallQueue(IF b = master THEN w.s.esco ELSE bud[b].esco, w.q[b], b = master,
                 up, Linked, Hears(b, mon), tws)

\* The phones have at most been told to play or to pause.
Same(f) ==
  \A x \in Phones :
    /\ f[x].link = phone[x].link /\ f[x].on = phone[x].on /\ f[x].call = phone[x].call
    /\ f[x].told # << >> => f[x].link

LEMMA LinksAre == \A b \in Buds : Links(b) = Hears(b, monitor)
BY DEF Links, Receives, Hears, Linked

LEMMA TellSame ==
  ASSUME TypeOK, Lines, NEW p \in Phones, NEW what
  PROVE  Same(Tell(p, what)) /\ Same(phone)
<1>1. phone \in [Phones -> Phone] /\ phone[p] \in Phone
  BY DEF TypeOK
<1>2. Same(phone)
  BY DEF Same, Lines
<1>3. CASE ~phone[p].link \/ (phone[p].told # << >> /\ Last(phone[p].told) = what)
  BY <1>2, <1>3 DEF Tell
<1>4. CASE ~(~phone[p].link \/ (phone[p].told # << >> /\ Last(phone[p].told) = what))
  <2>1. Tell(p, what) = [phone EXCEPT ![p].told = Append(@, what)]
    BY <1>4 DEF Tell
  <2>2. ASSUME NEW x \in Phones
        PROVE  LET g == Tell(p, what)[x]
               IN  /\ g.link = phone[x].link /\ g.on = phone[x].on /\ g.call = phone[x].call
                   /\ g.told # << >> => g.link
    <3>1. CASE x = p
      <4>1. Tell(p, what)[x] = [phone[p] EXCEPT !.told = Append(@, what)]
        BY <1>1, <2>1, <3>1
      <4>2. phone[p].link
        BY <1>4
      <4> QED BY <1>1, <3>1, <4>1, <4>2 DEF Phone
    <3>2. CASE x # p
      <4>1. Tell(p, what)[x] = phone[x]
        BY <1>1, <2>1, <3>2
      <4> QED BY <1>2, <4>1 DEF Same
    <3> QED BY <3>1, <3>2
  <2> QED BY <1>2, <2>2 DEF Same
<1> QED BY <1>3, <1>4

LEMMA SameNow ==
  ASSUME Lines
  PROVE  Same(phone)
BY DEF Same, Lines

LEMMA SameKept ==
  ASSUME Lines, Same(phone'), UNCHANGED <<tws, monitor>>
  PROVE  Lines' /\ Linked' = Linked /\ Ups' = Ups
<1>1. Linked' = Linked
  BY DEF Same, Linked
<1>2. Ups' = Ups
  BY DEF Same, Ups
<1>3. Lines'
  BY <1>1 DEF Same, Lines
<1> QED BY <1>1, <1>2, <1>3

\* The step ends in a state of the invariant.
LEMMA Stepped ==
  ASSUME TypeOK', Lines', UNCHANGED <<master, tws>>, Linked' = Linked,
         \A x \in Buds :
           /\ Sane(bud'[x])
           /\ CallQueue(bud'[x].esco, queue'[x], x = master, Ups', Linked, Hears(x, monitor'), tws),
         Hushed(bud'[master], halted')
  PROVE  A2dpInv'
<1>1. \A x \in Buds : Links(x)' = Hears(x, monitor')
  BY DEF Links, Receives, Hears, Linked
<1>2. \A x \in Buds : Calls(x)'
  BY <1>1 DEF Calls
<1> QED BY <1>2 DEF A2dpInv

LEMMA Returned ==
  ASSUME A2dpInv, NEW w, NEW up, NEW mon, NEW h, Good(w, up, mon, h), Returns(master, w),
         TypeOK', Lines', UNCHANGED <<master, tws>>, Linked' = Linked,
         Ups' = up, monitor' = mon, halted' = h
  PROVE  A2dpInv'
<1>0. bud \in [Buds -> Bud] /\ master \in Buds /\ \A x \in Buds : Sane(bud[x])
  BY DEF A2dpInv, TypeOK
<1>1. bud' = [bud EXCEPT ![master] = w.s] /\ queue' = w.q
  BY DEF Returns
<1>2. ASSUME NEW x \in Buds
      PROVE  /\ Sane(bud'[x])
             /\ CallQueue(bud'[x].esco, queue'[x], x = master, Ups', Linked, Hears(x, monitor'), tws)
  <2>1. CASE x = master
    <3>1. bud'[x] = w.s
      BY <1>0, <1>1, <2>1
    <3> QED BY <1>1, <2>1, <3>1 DEF Good
  <2>2. CASE x # master
    <3>1. bud'[x] = bud[x]
      BY <1>0, <1>1, <2>2
    <3> QED BY <1>0, <1>1, <2>2, <3>1 DEF Good
  <2> QED BY <2>1, <2>2
<1>3. Hushed(bud'[master], halted')
  BY <1>0, <1>1 DEF Good
<1> QED BY <1>2, <1>3, Stepped

LEMMA MasterGood ==
  ASSUME A2dpInv
  PROVE  Good(Now(bud[master]), Ups, monitor, halted)
<1> DEFINE t == bud[master]
<1>0. TypeOK /\ t \in Bud /\ queue \in Queues /\ master \in Buds /\ Sane(t) /\ Hushed(t, halted)
  BY DEF A2dpInv, TypeOK, Queues
<1>1. Now(t) \in Work /\ Now(t).s = t /\ Now(t).q = queue
  BY <1>0, NowType
<1>2. \A b \in Buds : CallQueue(bud[b].esco, queue[b], b = master, Ups, Linked, Links(b), tws)
  BY DEF A2dpInv, Calls
<1>3. \A b \in Buds : CallQueue(IF b = master THEN t.esco ELSE bud[b].esco, queue[b], b = master,
                                Ups, Linked, Hears(b, monitor), tws)
  BY <1>2, LinksAre
<1> QED BY <1>0, <1>1, <1>3 DEF Good

\* The handler changes the master's own state, not its call.
LEMMA GoodWith ==
  ASSUME NEW t, NEW q, NEW up, NEW mon, NEW h, NEW h2, NEW u,
         Good(With(t, q), up, mon, h), Sane(u), Hushed(u, h2), u.esco = t.esco
  PROVE  Good(With(u, q), up, mon, h2)
<1>1. /\ With(t, q).s = t /\ With(t, q).q = q /\ With(u, q).s = u /\ With(u, q).q = q
  BY DEF With
<1>2. With(u, q) \in Work
  <2>1. q \in Queues
    BY <1>1 DEF Good, Work
  <2> QED BY <2>1, WithType DEF Sane
<1> QED BY <1>1, <1>2 DEF Good

\* The fields that say what is heard are as before.
LEMMA Alike ==
  ASSUME NEW t, Sane(t), NEW u \in Bud, u.player = t.player, u.esco = t.esco, u.muted = t.muted,
         u.detect = t.detect
  PROVE  /\ Sane(u)
         /\ u.started = t.started /\ u.live = t.live /\ u.dual = t.dual =>
              \A h : Hushed(t, h) => Hushed(u, h)
BY DEF Sane, Hushed

\* Good, bud by bud.
LEMMA GoodBuds ==
  ASSUME TypeOK, NEW w, NEW up, NEW mon, NEW h
  PROVE  Good(w, up, mon, h) <=>
           /\ w \in Work /\ Sane(w.s) /\ Hushed(w.s, h)
           /\ CallQueue(w.s.esco, w.q[master], TRUE, up, Linked, Hears(master, mon), tws)
           /\ CallQueue(bud[Slave].esco, w.q[Slave], FALSE, up, Linked, Hears(Slave, mon), tws)
<1>0. /\ master \in Buds /\ Slave \in Buds /\ Slave # master
      /\ \A b \in Buds : b = master \/ b = Slave
  BY SlaveBud DEF TypeOK
<1>1. (master = master) = TRUE /\ (Slave = master) = FALSE
  BY <1>0
<1> DEFINE Q(b) == CallQueue(IF b = master THEN w.s.esco ELSE bud[b].esco, w.q[b], b = master,
                             up, Linked, Hears(b, mon), tws)
<1>2. Q(master) <=> CallQueue(w.s.esco, w.q[master], TRUE, up, Linked, Hears(master, mon), tws)
  BY <1>1
<1>3. Q(Slave) <=> CallQueue(bud[Slave].esco, w.q[Slave], FALSE, up, Linked, Hears(Slave, mon), tws)
  BY <1>0, <1>1
<1>4. Good(w, up, mon, h) <=> w \in Work /\ Sane(w.s) /\ Hushed(w.s, h) /\ \A b \in Buds : Q(b)
  BY DEF Good
<1> HIDE DEF Q
<1> QED BY <1>0, <1>2, <1>3, <1>4

LEMMA GoodLone ==
  ASSUME TypeOK, ~tws, NEW w, NEW up, NEW mon, NEW h, Good(w, up, mon, h)
  PROVE  /\ CallQueue(w.s.esco, w.q[master], TRUE, up, Linked, Hears(master, mon), FALSE)
         /\ CallQueue(bud[Slave].esco, w.q[Slave], FALSE, up, Linked, Hears(Slave, mon), FALSE)
         /\ w.s.esco # None => w.s.esco \in up
<1>1. tws = FALSE
  BY DEF TypeOK
<1>2. /\ CallQueue(w.s.esco, w.q[master], TRUE, up, Linked, Hears(master, mon), FALSE)
      /\ CallQueue(bud[Slave].esco, w.q[Slave], FALSE, up, Linked, Hears(Slave, mon), FALSE)
  BY <1>1, GoodBuds
<1> DEFINE e == w.s.esco
           q == w.q[master]
           hears == Hears(master, mon)
           linked == Linked
<1>3. CallQueue(e, q, TRUE, up, linked, hears, FALSE)
  BY <1>2
<1> HIDE DEF e, q, hears, linked
<1>4. e # None => e \in up
  BY <1>3, LoneQueue
<1> QED BY <1>2, <1>4 DEF e

\* A command that neither opens nor ends a call is sent by the master.
LEMMA SendsGood ==
  ASSUME TypeOK, NEW w, NEW up \in SUBSET Phones, NEW mon, NEW h, Good(w, up, mon, h),
         NEW c \in Cmds, c.cmd \in SharedCmds \ {"OPEN_ESCO", "CLOSE_ESCO"},
         c.both \/ tws, c.cmd = "PLAY" \/ (c.both /\ c.cmd \in Sounding(TRUE)) => up = {}
  PROVE  Good(Sends(master, w, c), up, mon, h)
<1>0. w \in Work /\ w.s \in Bud /\ w.q \in Queues /\ master \in Buds /\ Sane(w.s)
      /\ Hushed(w.s, h) /\ w.s.esco \in Addr /\ bud \in [Buds -> Bud]
  BY DEF Good, Work, TypeOK, Bud
<1>1. Sends(master, w, c) \in Work
  BY <1>0, SendsType
<1>2. CASE tws
  <2> DEFINE u == Remember(w.s, c)
             q == [x \in Buds |-> IF x # master \/ c.both THEN Append(w.q[x], c) ELSE w.q[x]]
  <2>1. Sends(master, w, c).s = u /\ Sends(master, w, c).q = q
    BY <1>2 DEF Sends
  <2>2. Sane(u) /\ Hushed(u, h) /\ u.esco = w.s.esco
    <3>1. /\ u \in Bud /\ u.player = w.s.player /\ u.esco = w.s.esco /\ u.muted = w.s.muted
          /\ u.started = w.s.started /\ u.detect = w.s.detect /\ u.live = w.s.live
          /\ u.dual = w.s.dual
      BY <1>0, RememberFields DEF u
    <3> HIDE DEF u
    <3> QED BY <1>0, <3>1, Alike
  <2>3. ASSUME NEW b \in Buds
        PROVE  CallQueue(IF b = master THEN u.esco ELSE bud[b].esco, q[b], b = master,
                         up, Linked, Hears(b, mon), tws)
    <3> DEFINE e == IF b = master THEN w.s.esco ELSE bud[b].esco
    <3>1. CallQueue(e, w.q[b], b = master, up, Linked, Hears(b, mon), tws)
      BY DEF Good
    <3>2. e \in Addr /\ w.q[b] \in Seq(Cmds) /\ tws \in BOOLEAN /\ (b = master) \in BOOLEAN
      BY <1>0 DEF Queues, Bud, TypeOK
    <3>3. e = IF b = master THEN u.esco ELSE bud[b].esco
      BY <2>2
    <3> HIDE DEF e, u
    <3>4. CASE b # master \/ c.both
      <4>1. q[b] = Append(w.q[b], c)
        BY <3>4
      <4>2. c.cmd \in Sounding(b = master) => up = {}
        BY <3>4 DEF Sounding
      <4>3. c.cmd \notin {"OPEN_ESCO", "CLOSE_ESCO", "LINK_DETACH", "A2DP_START"}
        BY DEF SharedCmds
      <4>4. CallQueue(e, Append(w.q[b], c), b = master, up, Linked, Hears(b, mon), tws)
        BY <1>2, <3>1, <3>2, <4>2, <4>3, QuietAppend
      <4> QED BY <3>3, <4>1, <4>4
    <3>5. CASE ~(b # master \/ c.both)
      BY <3>1, <3>3, <3>5
    <3> QED BY <3>4, <3>5
  <2> HIDE DEF u, q
  <2> QED BY <1>1, <2>1, <2>2, <2>3 DEF Good
<1>3. CASE ~tws
  <2> DEFINE u == InTask(w.s, c, Links(master), TRUE)
  <2>1. Sends(master, w, c).s = u /\ Sends(master, w, c).q = w.q
    BY <1>3 DEF Sends
  <2>2. c.cmd \in Sounding(TRUE) => w.s.esco = None
    <3>1. w.s.esco # None => w.s.esco \in up
      BY <1>3, GoodLone
    <3> QED BY <1>3, <3>1
  <2>3. Sane(u) /\ u.esco = EscoAfter(w.s.esco, c, TRUE)
    BY <1>0, <2>2, LinksType, CommandSane DEF Sounding
  <2>4. Hushed(u, h)
    BY <1>0, <2>2, LinksType, CommandHushed
  <2>5. u.esco = w.s.esco
    <3> HIDE DEF u
    <3> QED BY <2>3 DEF EscoAfter, SharedCmds
  <2> HIDE DEF u
  <2> QED BY <1>1, <2>1, <2>3, <2>4, <2>5 DEF Good
<1> QED BY <1>2, <1>3

\* The SCO link of p is up.
LEMMA SendsOpen ==
  ASSUME TypeOK, NEW w, NEW mon, NEW h, Good(w, {}, mon, h), NEW p \in Linked,
         ~Waits(w.q[master], "A2DP_START"), ~tws => mon = {}
  PROVE  Good(Sends(master, w, Cmd("OPEN_ESCO", p)), {p}, mon, h)
<1> DEFINE c == Cmd("OPEN_ESCO", p)
           W == Sends(master, w, c)
           QM(e, q, up) == CallQueue(e, q, TRUE, up, Linked, Hears(master, mon), tws)
           QS(e, q, up) == CallQueue(e, q, FALSE, up, Linked, Hears(Slave, mon), tws)
<1>0. /\ w \in Work /\ w.s \in Bud /\ w.q \in Queues /\ master \in Buds /\ Slave \in Buds
      /\ Slave # master /\ Sane(w.s) /\ Hushed(w.s, h) /\ w.s.esco \in Addr
      /\ bud[Slave].esco \in Addr /\ p \in Phones /\ tws \in BOOLEAN
      /\ w.q[master] \in Seq(Cmds) /\ w.q[Slave] \in Seq(Cmds)
  BY SlaveBud DEF Good, Work, TypeOK, Bud, Linked, Queues
<1>1. c \in Cmds /\ c.cmd = "OPEN_ESCO" /\ c.addr = p /\ c.both /\ c.cmd \in SharedCmds
  <2>1. p \in Phones
    BY <1>0
  <2>2. "OPEN_ESCO" \in SharedCmds
    BY DEF SharedCmds
  <2> QED BY <2>1, <2>2, CmdType
<1>2. QM(w.s.esco, w.q[master], {}) /\ QS(bud[Slave].esco, w.q[Slave], {})
  BY GoodBuds
<1>3. W \in Work
  BY <1>0, <1>1, SendsType
<1>4. CASE tws
  <2> DEFINE u == Remember(w.s, c)
             q == [x \in Buds |-> IF x # master \/ c.both THEN Append(w.q[x], c) ELSE w.q[x]]
  <2>1. W.s = u /\ W.q = q
    BY <1>4 DEF Sends
  <2>2. u = w.s
    BY <1>1 DEF Remember
  <2>3. q[master] = Append(w.q[master], c) /\ q[Slave] = Append(w.q[Slave], c)
    BY <1>0, <1>1
  <2> HIDE DEF u, q, c, W
  <2>4. ~Waits(w.q[Slave], "A2DP_START")
    BY <1>2 DEF CallQueue, StartsFree
  <2>5. CallQueue(w.s.esco, Append(w.q[master], c), TRUE, {p}, Linked, Hears(master, mon), tws)
    <3> DEFINE e == w.s.esco
               q1 == w.q[master]
               hears == Hears(master, mon)
               linked == Linked
               none == {}
               one == {p}
    <3>1. CallQueue(e, q1, TRUE, none, linked, hears, tws)
      BY <1>2
    <3>2. e \in Addr /\ q1 \in Seq(Cmds) /\ ~Waits(q1, "A2DP_START")
      BY <1>0
    <3>3. none \in SUBSET Phones /\ hears \subseteq hears /\ none \subseteq one /\ c.addr \in one
      BY <1>1
    <3> HIDE DEF e, q1, hears, linked, none, one
    <3>4. CallQueue(e, Append(q1, c), TRUE, one, linked, hears, tws)
      BY <1>0, <1>1, <1>4, <3>1, <3>2, <3>3, OpenAppend
    <3> QED BY <3>4 DEF e, q1, hears, linked, one
  <2>6. CallQueue(bud[Slave].esco, Append(w.q[Slave], c), FALSE, {p}, Linked, Hears(Slave, mon), tws)
    <3> DEFINE e == bud[Slave].esco
               q1 == w.q[Slave]
               hears == Hears(Slave, mon)
               linked == Linked
               none == {}
               one == {p}
    <3>1. CallQueue(e, q1, FALSE, none, linked, hears, tws)
      BY <1>2
    <3>2. e \in Addr /\ q1 \in Seq(Cmds) /\ ~Waits(q1, "A2DP_START")
      BY <1>0, <2>4
    <3>3. none \in SUBSET Phones /\ hears \subseteq hears /\ none \subseteq one /\ c.addr \in one
      BY <1>1
    <3> HIDE DEF e, q1, hears, linked, none, one
    <3>4. CallQueue(e, Append(q1, c), FALSE, one, linked, hears, tws)
      BY <1>0, <1>1, <1>4, <3>1, <3>2, <3>3, OpenAppend
    <3> QED BY <3>4 DEF e, q1, hears, linked, one
  <2>8. Good(W, {p}, mon, h)
    BY <1>0, <1>3, <2>1, <2>2, <2>3, <2>5, <2>6, GoodBuds
  <2> QED BY <2>8 DEF W, c
<1>5. CASE ~tws
  <2> DEFINE u == InTask(w.s, c, Links(master), TRUE)
  <2>1. W.s = u /\ W.q = w.q
    BY <1>5 DEF Sends
  <2>2. /\ CallQueue(w.s.esco, w.q[master], TRUE, {}, Linked, Hears(master, mon), FALSE)
        /\ CallQueue(bud[Slave].esco, w.q[Slave], FALSE, {}, Linked, Hears(Slave, mon), FALSE)
    BY <1>5, GoodLone
  <2>3. w.s.esco = None
    BY <1>5, GoodLone
  <2>4. Sane(u) /\ u.esco = EscoAfter(w.s.esco, c, TRUE)
    BY <1>0, <1>1, LinksType, CommandSane, ZenonT(40)
  <2>5. Hushed(u, h)
    BY <1>0, <1>1, LinksType, CommandHushed DEF Sounding
  <2> HIDE DEF u, W, c
  <2>6. u.esco = p
    BY <1>1, <2>3, <2>4 DEF EscoAfter
  <2>7. p \in Hears(master, mon)
    BY DEF Hears
  <2>8. p # None
    BY <1>0, NoneIsNoPhone
  <2>9. CallQueue(p, w.q[master], TRUE, {p}, Linked, Hears(master, mon), FALSE)
    BY <2>2, <2>7, LoneCall
  <2>10. CallQueue(bud[Slave].esco, w.q[Slave], FALSE, {p}, Linked, Hears(Slave, mon), FALSE)
    <3>1. Hears(Slave, mon) = {}
      BY <1>0, <1>5 DEF Hears
    <3>2. ~Waits(w.q[Slave], "OPEN_ESCO")
      BY <2>2 DEF CallQueue, OpensLast, Waits
    <3>3. CallQueue(bud[Slave].esco, w.q[Slave], FALSE, {}, Linked, {}, FALSE)
      BY <2>2, <3>1
    <3>4. CallQueue(bud[Slave].esco, w.q[Slave], FALSE, {p}, Linked, {}, FALSE)
      BY <3>2, <3>3, DeafCall
    <3> QED BY <3>1, <3>4
  <2>11. tws = FALSE
    BY <1>0, <1>5
  <2>12. Good(W, {p}, mon, h)
    BY <1>3, <2>1, <2>4, <2>5, <2>6, <2>9, <2>10, <2>11, GoodBuds
  <2> QED BY <2>12 DEF W, c
<1> QED BY <1>4, <1>5

\* The SCO link of p is gone.
LEMMA SendsClose ==
  ASSUME TypeOK, NEW w, NEW mon, NEW h, NEW p \in Phones, Good(w, {p}, mon, h),
         ~Waits(w.q[master], "OPEN_ESCO"), ~Waits(w.q[Slave], "OPEN_ESCO"), ~tws => mon = {}
  PROVE  Good(Sends(master, w, Cmd("CLOSE_ESCO", p)), {}, mon, h)
<1> DEFINE c == Cmd("CLOSE_ESCO", p)
           W == Sends(master, w, c)
           QM(e, q, up) == CallQueue(e, q, TRUE, up, Linked, Hears(master, mon), tws)
           QS(e, q, up) == CallQueue(e, q, FALSE, up, Linked, Hears(Slave, mon), tws)
<1>0. /\ w \in Work /\ w.s \in Bud /\ w.q \in Queues /\ master \in Buds /\ Slave \in Buds
      /\ Slave # master /\ Sane(w.s) /\ Hushed(w.s, h) /\ w.s.esco \in Addr
      /\ bud[Slave].esco \in Addr /\ tws \in BOOLEAN
      /\ w.q[master] \in Seq(Cmds) /\ w.q[Slave] \in Seq(Cmds)
  BY SlaveBud DEF Good, Work, TypeOK, Bud, Linked, Queues
<1>1. c \in Cmds /\ c.cmd = "CLOSE_ESCO" /\ c.addr = p /\ c.both /\ c.cmd \in SharedCmds
  <2>1. p \in Phones
    BY <1>0
  <2>2. "CLOSE_ESCO" \in SharedCmds
    BY DEF SharedCmds
  <2> QED BY <2>1, <2>2, CmdType
<1>2. QM(w.s.esco, w.q[master], {p}) /\ QS(bud[Slave].esco, w.q[Slave], {p})
  BY GoodBuds
<1>3. W \in Work
  BY <1>0, <1>1, SendsType
<1>4. CASE tws
  <2> DEFINE u == Remember(w.s, c)
             q == [x \in Buds |-> IF x # master \/ c.both THEN Append(w.q[x], c) ELSE w.q[x]]
  <2>1. W.s = u /\ W.q = q
    BY <1>4 DEF Sends
  <2>2. u = w.s
    BY <1>1 DEF Remember
  <2>3. q[master] = Append(w.q[master], c) /\ q[Slave] = Append(w.q[Slave], c)
    BY <1>0, <1>1
  <2> HIDE DEF u, q, c, W
  <2>5. CallQueue(w.s.esco, Append(w.q[master], c), TRUE, {}, Linked, Hears(master, mon), tws)
    <3>1. CallQueue(w.s.esco, w.q[master], TRUE, {c.addr}, Linked, Hears(master, mon), tws)
      BY <1>1, <1>2
    <3> QED BY <1>0, <1>1, <1>4, <3>1, CloseAppend
  <2>6. CallQueue(bud[Slave].esco, Append(w.q[Slave], c), FALSE, {}, Linked, Hears(Slave, mon), tws)
    <3>1. CallQueue(bud[Slave].esco, w.q[Slave], FALSE, {c.addr}, Linked, Hears(Slave, mon), tws)
      BY <1>1, <1>2
    <3> QED BY <1>0, <1>1, <3>1, CloseAppend
  <2>8. Good(W, {}, mon, h)
    BY <1>0, <1>3, <2>1, <2>2, <2>3, <2>5, <2>6, GoodBuds
  <2> QED BY <2>8 DEF W, c
<1>5. CASE ~tws
  <2> DEFINE u == InTask(w.s, c, Links(master), TRUE)
  <2>1. W.s = u /\ W.q = w.q
    BY <1>5 DEF Sends
  <2>2. /\ CallQueue(w.s.esco, w.q[master], TRUE, {p}, Linked, Hears(master, mon), FALSE)
        /\ CallQueue(bud[Slave].esco, w.q[Slave], FALSE, {p}, Linked, Hears(Slave, mon), FALSE)
    BY <1>5, GoodLone
  <2>3. w.s.esco # None => w.s.esco = p
    <3>1. w.s.esco # None => w.s.esco \in {p}
      BY <1>5, GoodLone
    <3> QED BY <3>1
  <2>4. Sane(u) /\ u.esco = EscoAfter(w.s.esco, c, TRUE)
    BY <1>0, <1>1, LinksType, CommandSane, ZenonT(40)
  <2>5. Hushed(u, h)
    BY <1>0, <1>1, LinksType, CommandHushed DEF Sounding
  <2> HIDE DEF u, W, c
  <2>6. u.esco = None
    BY <1>1, <2>3, <2>4 DEF EscoAfter, Without
  <2>9. CallQueue(None, w.q[master], TRUE, {}, Linked, Hears(master, mon), FALSE)
    BY <2>2, LoneCall
  <2>10. CallQueue(bud[Slave].esco, w.q[Slave], FALSE, {}, Linked, Hears(Slave, mon), FALSE)
    <3>1. Hears(Slave, mon) = {}
      BY <1>0, <1>5 DEF Hears
    <3>3. CallQueue(bud[Slave].esco, w.q[Slave], FALSE, {p}, Linked, {}, FALSE)
      BY <2>2, <3>1
    <3>4. CallQueue(bud[Slave].esco, w.q[Slave], FALSE, {}, Linked, {}, FALSE)
      BY <3>3, DeafCall
    <3> QED BY <3>1, <3>4
  <2>11. tws = FALSE
    BY <1>0, <1>5
  <2>12. Good(W, {}, mon, h)
    BY <1>3, <2>1, <2>4, <2>5, <2>6, <2>9, <2>10, <2>11, GoodBuds
  <2> QED BY <2>12 DEF W, c
<1> QED BY <1>4, <1>5

-----------------------------------------------------------------------------
(* Events of the stack. *)

LEMMA MasterOf ==
  ASSUME A2dpInv
  PROVE  /\ TypeOK /\ Lines /\ bud \in [Buds -> Bud] /\ bud[master] \in Bud /\ Sane(bud[master])
         /\ Hushed(bud[master], halted) /\ queue \in Queues /\ phone \in [Phones -> Phone]
         /\ master \in Buds /\ Slave \in Buds /\ Slave # master
         /\ \A b \in Buds : b = master \/ b = Slave
         /\ \A b \in Buds : bud[b] \in Bud /\ bud[b].esco \in Addr /\ Sane(bud[b])
         /\ \A b \in Buds : queue[b] \in Seq(Cmds)
<1>1. TypeOK /\ bud \in [Buds -> Bud] /\ \A b \in Buds : bud[b] \in Bud
  BY DEF A2dpInv, TypeOK
<1>2. \A b \in Buds : bud[b].esco \in Addr
  BY <1>1 DEF Bud
<1> QED BY <1>1, <1>2, SlaveBud DEF A2dpInv, TypeOK, Queues

\* Unless the command that opens its sound is waiting, the master sounds the call that is up.
LEMMA CallSounds ==
  ASSUME A2dpInv, ~Waits(queue[master], "OPEN_ESCO"), NEW p \in Ups
  PROVE  bud[master].esco = p
<1>0. TypeOK /\ Lines /\ master \in Buds
  BY MasterOf
<1>1. p \in Links(master)
  BY <1>0 DEF Ups, Lines, Links, Receives
<1>2. CallQueue(bud[master].esco, queue[master], master = master, Ups, Linked, Links(master), tws)
  BY <1>0 DEF A2dpInv, Calls
<1>3. Joins(bud[master].esco, queue[master], Ups, Links(master))
  BY <1>2 DEF CallQueue
<1> QED BY <1>1, <1>3 DEF Joins

LEMMA PendingWaits ==
  \A b, cmd : Pending(b, {cmd}) <=> Waits(queue[b], cmd)
BY DEF Pending, Waits

LEMMA MediaStartInv ==
  ASSUME A2dpInv, ~Overtakes, TypeOK', NEW p \in Phones, MediaStart(p)
  PROVE  A2dpInv'
<1> DEFINE B == bud[master]
           t == [B EXCEPT !.started = @ \cup {p}]
           o == Other(p)
<1>0. /\ TypeOK /\ Lines /\ B \in Bud /\ Sane(B) /\ Hushed(B, halted) /\ queue \in Queues
      /\ o \in Phones /\ o # p /\ (\A x \in Phones : x = p \/ x = o)
      /\ Same(phone) /\ Same(Tell(p, "pause"))
  BY MasterOf, OtherPhone, TellSame
<1>1. /\ \/ StartedInCall(t, p) /\ t.esco = o
         \/ StartedAlone(t, p) /\ t.esco = None
      /\ UNCHANGED <<timers, halted, master, tws, monitor, past, acts>>
      /\ phone[p].on /\ ~Waits(queue[master], "OPEN_ESCO")
  BY PendingWaits DEF MediaStart, CallIsOpen
<1>2. phone' \in {phone, Tell(p, "pause")}
  BY <1>1 DEF StartedInCall, StartedAlone
<1>3. Lines' /\ Linked' = Linked /\ Ups' = Ups
  <2>1. Same(phone')
    BY <1>0, <1>2
  <2> QED BY <1>0, <1>1, <2>1, SameKept
<1>4. Good(Now(B), Ups, monitor, halted)
  BY MasterGood
<1>5. /\ t \in Bud /\ t.player = B.player /\ t.esco = B.esco /\ t.muted = B.muted
      /\ t.detect = B.detect /\ t.started = B.started \cup {p} /\ t.live = B.live
      /\ t.dual = B.dual
  <2> HIDE DEF B
  <2> QED BY <1>0 DEF Bud
<1> HIDE DEF o
<1>6. CASE StartedInCall(t, p) /\ t.esco = o
  <2> DEFINE m == a2dp_media_mute(t, p, Links(master))
             u == bt_start_a2dp_slience_detect(m, p, Links(master))
  <2>1. Returns(master, Now(u))
    BY <1>6 DEF StartedInCall
  <2> HIDE DEF t
  <2>2. p \in Links(master)
    BY <1>0, <1>1 DEF Lines, Links, Receives
  <2>3. /\ m \in Bud /\ m.player = t.player /\ m.esco = t.esco
        /\ m.muted = t.muted \cup ({p} \cap Links(master)) /\ m.started = t.started
        /\ m.detect = t.detect /\ m.live = t.live
    BY <1>5, LinksType, MuteFields
  <2> HIDE DEF m
  <2>4. /\ u \in Bud /\ u.player = t.player /\ u.esco = t.esco
        /\ u.muted = t.muted \cup ({p} \cap Links(master)) /\ u.started = t.started
        /\ u.detect = t.detect \cup ({p} \cap Links(master))
        /\ u.live = t.live \cup ({p} \cap Links(master))
    BY <2>3, LinksType, StartFields
  <2> HIDE DEF u, B
  <2>5. o # None
    BY <1>0, NoneIsNoPhone
  <2>6. B.player = None /\ None \notin u.detect /\ None \notin u.muted
    BY <1>0, <1>5, <1>6, <2>4, <2>5, NoneIsNoPhone DEF Sane, Bud
  <2>7. Sane(u)
    BY <1>5, <2>4, <2>6 DEF Sane
  <2>8. Hushed(u, halted)
    <3>1. o \notin B.started
      BY <1>0, <1>5, <1>6, <2>5 DEF Hushed
    <3>2. o \notin u.started /\ u.esco = o
      BY <1>0, <1>5, <1>6, <2>4, <3>1
    <3>3. p \in u.muted
      BY <2>2, <2>4
    <3>4. \A x \in u.live : x = p \/ x = o
      BY <1>0, <2>4 DEF Bud
    <3> QED BY <3>2, <3>3, <3>4 DEF Hushed
  <2>9. Good(Now(u), Ups, monitor, halted)
    BY <1>4, <1>5, <2>4, <2>7, <2>8, GoodWith DEF Now
  <2> QED BY <1>1, <1>3, <2>1, <2>9, Returned
<1>7. CASE StartedAlone(t, p) /\ t.esco = None
  <2> DEFINE d == [t EXCEPT !.drop = Without(@, p)]
             c == IF t.player \in {None, p} THEN "PLAY" ELSE "SLIENCE_DETECT"
  <2>1. \/ Returns(master, Sends(master, Now(t), Cmd("MUTE", p)))
        \/ Returns(master, Sends(master, Now(d), Cmd(c, p)))
    BY <1>7 DEF StartedAlone
  <2> HIDE DEF t, B
  <2>2. Ups = {}
    BY <1>1, <1>5, <1>7, CallSounds, NoneIsNoPhone DEF B, Ups
  <2>3. Sane(t) /\ Hushed(t, halted)
    BY <1>0, <1>5, <1>7 DEF Sane, Hushed
  <2>4. d \in Bud /\ d.player = t.player /\ d.esco = t.esco /\ d.muted = t.muted
        /\ d.detect = t.detect
    BY <1>5 DEF Bud, Addr, Without
  <2> HIDE DEF d
  <2>5. Sane(d) /\ Hushed(d, halted)
    BY <1>7, <2>3, <2>4 DEF Sane, Hushed
  <2>6. Good(Now(t), Ups, monitor, halted) /\ Good(Now(d), Ups, monitor, halted)
    BY <1>4, <1>5, <2>3, <2>4, <2>5, GoodWith DEF Now
  <2>7. c \in {"PLAY", "SLIENCE_DETECT"}
    OBVIOUS
  <2> HIDE DEF c
  <2>8. \A x \in {"MUTE", "PLAY", "SLIENCE_DETECT"} :
          /\ Cmd(x, p) \in Cmds /\ Cmd(x, p).cmd = x /\ Cmd(x, p).both
          /\ x \in SharedCmds \ {"OPEN_ESCO", "CLOSE_ESCO"}
    BY CmdType DEF SharedCmds
  <2>9. Ups \in SUBSET Phones
    BY DEF Ups
  <2>10. /\ Good(Sends(master, Now(t), Cmd("MUTE", p)), Ups, monitor, halted)
         /\ Good(Sends(master, Now(d), Cmd(c, p)), Ups, monitor, halted)
    BY <1>0, <2>2, <2>6, <2>7, <2>8, <2>9, SendsGood
  <2> QED BY <1>1, <1>3, <2>1, <2>10, Returned
<1> QED BY <1>1, <1>6, <1>7

LEMMA MediaStopInv ==
  ASSUME A2dpInv, TypeOK', NEW p \in Phones, MediaStop(p)
  PROVE  A2dpInv'
<1> DEFINE B == bud[master]
           t == [B EXCEPT !.started = @ \ {p}]
           d == [t EXCEPT !.preempted = p, !.energy = None]
           h == halted \ {p}
           c == Cmd("CLOSE", p)
<1>0. /\ TypeOK /\ Lines /\ B \in Bud /\ Sane(B) /\ Hushed(B, halted) /\ Same(phone)
  BY MasterOf, TellSame
<1>1. /\ Returns(master, Sends(master, Now(t), c)) \/ Returns(master, Sends(master, Now(d), c))
      /\ halted' = h /\ UNCHANGED <<phone, master, tws, monitor, past, acts>>
  BY DEF MediaStop
<1>2. Lines' /\ Linked' = Linked /\ Ups' = Ups
  BY <1>0, <1>1, SameKept
<1>3. Good(Now(B), Ups, monitor, halted)
  BY MasterGood
<1>4. /\ t \in Bud /\ t.player = B.player /\ t.esco = B.esco /\ t.muted = B.muted
      /\ t.detect = B.detect /\ t.started = B.started \ {p} /\ t.live = B.live /\ t.dual = B.dual
  <2> HIDE DEF B
  <2> QED BY <1>0 DEF Bud
<1> HIDE DEF t, B, h
<1>5. Sane(t) /\ Hushed(t, h)
  <2>1. Sane(t)
    BY <1>0, <1>4, Alike
  <2>2. Hushed(t, h)
    BY <1>0, <1>4 DEF Hushed, h
  <2> QED BY <2>1, <2>2
<1>6. /\ d \in Bud /\ d.player = t.player /\ d.esco = t.esco /\ d.muted = t.muted
      /\ d.detect = t.detect /\ d.started = t.started /\ d.live = t.live /\ d.dual = t.dual
  BY <1>4 DEF Bud, Addr
<1> HIDE DEF d
<1>7. Sane(d) /\ Hushed(d, h)
  BY <1>5, <1>6, Alike
<1>8. Good(Now(t), Ups, monitor, h) /\ Good(Now(d), Ups, monitor, h)
  BY <1>3, <1>4, <1>5, <1>6, <1>7, GoodWith DEF Now
<1>9. /\ c \in Cmds /\ c.both /\ c.cmd = "CLOSE"
      /\ c.cmd \in SharedCmds \ {"OPEN_ESCO", "CLOSE_ESCO"} /\ c.cmd \notin Sounding(TRUE)
      /\ Ups \in SUBSET Phones
  BY CmdType DEF SharedCmds, Sounding, Ups
<1> HIDE DEF c
<1>10. /\ Good(Sends(master, Now(t), c), Ups, monitor, h)
       /\ Good(Sends(master, Now(d), c), Ups, monitor, h)
  BY <1>0, <1>8, <1>9, SendsGood
<1> QED BY <1>1, <1>2, <1>10, Returned

\* The music of p gives way; there is no call yet.
LEMMA SuspendedGood ==
  ASSUME A2dpInv, NEW p \in Phones, Ups = {}
  PROVE  /\ Good(Suspended(bud[master], p), {}, monitor, halted)
         /\ Same(SuspendTold(bud[master], p))
         /\ Waits(Suspended(bud[master], p).q[master], "A2DP_START") =>
              Waits(queue[master], "A2DP_START")
<1> DEFINE B == bud[master]
           d == [B EXCEPT !.preempted = p, !.energy = None]
           c == Cmd("MUTE_BY_CALL", p)
           W == Sends(master, Now(d), c)
<1>0. TypeOK /\ Lines /\ B \in Bud /\ Sane(B) /\ Hushed(B, halted) /\ master \in Buds
      /\ queue \in Queues
  BY MasterOf
<1>1. Good(Now(B), {}, monitor, halted)
  BY MasterGood
<1>2. Same(SuspendTold(B, p))
  BY <1>0, TellSame DEF SuspendTold
<1>3. Suspended(B, p) = IF Suspends(B, p) THEN W ELSE Now(B)
  BY DEF Suspended
<1>4. /\ d \in Bud /\ d.player = B.player /\ d.esco = B.esco /\ d.muted = B.muted
      /\ d.detect = B.detect /\ d.started = B.started /\ d.live = B.live /\ d.dual = B.dual
  <2> HIDE DEF B
  <2> QED BY <1>0 DEF Bud, Addr
<1> HIDE DEF d
<1>5. Sane(d) /\ Hushed(d, halted)
  BY <1>0, <1>4, Alike
<1>6. Good(Now(d), {}, monitor, halted)
  <2> HIDE DEF B
  <2> QED BY <1>1, <1>4, <1>5, GoodWith DEF Now
<1>7. /\ c \in Cmds /\ c.both /\ c.cmd = "MUTE_BY_CALL"
      /\ c.cmd \in SharedCmds \ {"OPEN_ESCO", "CLOSE_ESCO"}
  BY CmdType DEF SharedCmds
<1> HIDE DEF c
<1>8. Good(W, {}, monitor, halted)
  BY <1>0, <1>6, <1>7, SendsGood
<1>9. CASE ~Suspends(B, p)
  <2>1. Suspended(B, p) = Now(B) /\ Now(B).q = queue
    BY <1>3, <1>9 DEF Now, With
  <2> QED BY <1>1, <1>2, <2>1
<1>10. CASE Suspends(B, p)
  <2>1. Suspended(B, p) = W
    BY <1>3, <1>10
  <2>2. Now(d).q = queue
    BY DEF Now, With
  <2>3. W.q[master] \in {queue[master], Append(queue[master], c)}
    <3>1. W.q \in {queue, [x \in Buds |-> IF x # master \/ c.both THEN Append(queue[x], c)
                                           ELSE queue[x]]}
      BY <2>2 DEF Sends
    <3> QED BY <1>0, <3>1
  <2>4. Waits(Append(queue[master], c), "A2DP_START") => Waits(queue[master], "A2DP_START")
    <3>1. queue[master] \in Seq(Cmds)
      BY <1>0 DEF Queues
    <3> QED BY <1>7, <3>1, AppendFacts DEF Waits
  <2> QED BY <1>2, <1>8, <2>1, <2>3, <2>4
<1> QED BY <1>9, <1>10

\* Setting the state of one call keeps the lines.
LEMMA CallLines ==
  ASSUME TypeOK, Lines, NEW p \in Phones, phone[p].link, \A x \in Phones : x # p => phone[x].call = "none",
         NEW f \in [Phones -> Phone], Same(f), NEW c \in {"none", "asked", "up"},
         \/ phone' = [f EXCEPT ![p].call = c]
         \/ \E y : phone' = [f EXCEPT ![p].call = c, ![p].bye = y],
         UNCHANGED <<tws, monitor>>
  PROVE  /\ Lines' /\ Linked' = Linked
         /\ Ups' = IF c = "up" THEN {p} ELSE {}
<1>1. \A x \in Phones :
        /\ phone'[x].link = phone[x].link /\ phone'[x].on = phone[x].on
        /\ phone'[x].told = f[x].told
        /\ phone'[x].call = IF x = p THEN c ELSE "none"
  <2>1. CASE phone' = [f EXCEPT ![p].call = c]
    BY <2>1 DEF Same, Phone
  <2>2. ASSUME NEW y, phone' = [f EXCEPT ![p].call = c, ![p].bye = y]
        PROVE  <1>1!:
    <3> DEFINE g == [f EXCEPT ![p].call = c]
    <3>1. phone' = [g EXCEPT ![p].bye = y]
      BY <2>2
    <3>2. /\ g \in [Phones -> Phone]
          /\ \A x \in Phones : g[x].link = f[x].link /\ g[x].on = f[x].on /\ g[x].told = f[x].told
                               /\ g[x].call = IF x = p THEN c ELSE f[x].call
      BY DEF Phone
    <3> HIDE DEF g
    <3>3. \A x \in Phones :
            /\ phone'[x].link = g[x].link /\ phone'[x].on = g[x].on /\ phone'[x].told = g[x].told
            /\ phone'[x].call = g[x].call
      <4> DEFINE r == g[p]
                 s == [r EXCEPT !.bye = y]
      <4>1. phone'[p] = s /\ \A x \in Phones : x # p => phone'[x] = g[x]
        BY <3>1, <3>2
      <4>2. r \in Phone
        BY <3>2
      <4>3. s.link = r.link /\ s.on = r.on /\ s.told = r.told /\ s.call = r.call
        <5> HIDE DEF r
        <5> QED BY <4>2 DEF Phone
      <4> HIDE DEF s
      <4> QED BY <4>1, <4>3
    <3> QED BY <3>2, <3>3 DEF Same
  <2> QED BY <2>1, <2>2
<1>2. Linked' = Linked
  BY <1>1 DEF Linked
<1>3. Ups' = IF c = "up" THEN {p} ELSE {}
  BY <1>1 DEF Ups
<1>4. Lines'
  BY <1>1, <1>2 DEF Lines, Same
<1> QED BY <1>2, <1>3, <1>4

LEMMA CallInv ==
  ASSUME A2dpInv, ~Overtakes, TypeOK', NEW p \in Phones,
         ScoConnectionReq(p) \/ ScoUp(p) \/ ScoDown(p)
  PROVE  A2dpInv'
<1> DEFINE B == bud[master]
           o == Other(p)
           s == Suspended(B, o)
           told == SuspendTold(B, o)
<1>0. /\ TypeOK /\ Lines /\ B \in Bud /\ phone \in [Phones -> Phone] /\ queue \in Queues
      /\ master \in Buds /\ Slave \in Buds /\ o \in Phones /\ Same(phone)
      /\ ~tws => monitor = {}
  BY MasterOf, OtherPhone, TellSame DEF Lines
<1> HIDE DEF o
<1>1. told \in [Phones -> Phone]
  BY <1>0, SuspendedType
<1>2. ASSUME Ups = {}
      PROVE  /\ Good(s, {}, monitor, halted) /\ Same(told)
             /\ Waits(s.q[master], "A2DP_START") => Waits(queue[master], "A2DP_START")
  BY <1>0, <1>2, SuspendedGood
<1>3. ASSUME phone[p].call # "none"
      PROVE  phone[p].link /\ \A x \in Phones : x # p => phone[x].call = "none"
  BY <1>0, <1>3 DEF Lines
<1>4. ASSUME ScoConnectionReq(p) PROVE A2dpInv'
  <2>1. /\ Returns(master, s) /\ phone' = [told EXCEPT ![p].call = "asked"]
        /\ phone[p].link /\ (\A x \in Phones : phone[x].call = "none")
        /\ UNCHANGED <<timers, halted, master, tws, monitor>>
    BY <1>4 DEF ScoConnectionReq, o
  <2>2. Ups = {}
    BY <2>1 DEF Ups
  <2> HIDE DEF s, told
  <2>3. Lines' /\ Linked' = Linked /\ Ups' = {}
    BY <1>0, <1>1, <1>2, <2>1, <2>2, CallLines
  <2> QED BY <1>2, <2>1, <2>2, <2>3, Returned
<1>5. ASSUME ScoUp(p) PROVE A2dpInv'
  <2>1. /\ Returns(master, Sends(master, s, Cmd("OPEN_ESCO", p)))
        /\ phone' = [told EXCEPT ![p].call = "up"] /\ phone[p].call = "asked"
        /\ ~Waits(queue[master], "A2DP_START")
        /\ UNCHANGED <<timers, halted, master, tws, monitor, past, acts>>
    BY <1>5, PendingWaits DEF ScoUp, o
  <2>2. Ups = {}
    BY <1>3, <2>1 DEF Ups
  <2> HIDE DEF s, told
  <2>3. Lines' /\ Linked' = Linked /\ Ups' = {p}
    BY <1>0, <1>1, <1>2, <1>3, <2>1, <2>2, CallLines
  <2>4. Good(Sends(master, s, Cmd("OPEN_ESCO", p)), {p}, monitor, halted)
    <3>1. p \in Linked
      BY <1>3, <2>1 DEF Linked
    <3> QED BY <1>0, <1>2, <2>1, <2>2, <3>1, SendsOpen
  <2> QED BY <2>1, <2>3, <2>4, Returned
<1>6. ASSUME ScoDown(p) PROVE A2dpInv'
  <2> DEFINE W == Sends(master, Now(B), Cmd("CLOSE_ESCO", p))
  <2>1. /\ Returns(master, IF Now(B).s.esco \in {None, p} THEN W ELSE Now(B))
        /\ phone' = [phone EXCEPT ![p].call = "none", ![p].bye = {"hangup", "discon"}]
        /\ phone[p].call = "up" /\ (\A b \in Buds : ~Waits(queue[b], "OPEN_ESCO"))
        /\ UNCHANGED <<timers, halted, master, tws, monitor, past, acts>>
    BY <1>6, PendingWaits DEF ScoDown, CallIsOpen
  <2>2. Ups = {p}
    BY <1>3, <2>1 DEF Ups
  <2>3. B.esco = p
    BY <1>0, <2>1, <2>2, CallSounds
  <2>4. Now(B).s = B /\ Now(B).q = queue
    BY DEF Now, With
  <2>5. Returns(master, W)
    BY <2>1, <2>3, <2>4
  <2>6. Good(Now(B), {p}, monitor, halted)
    BY <2>2, MasterGood
  <2> HIDE DEF B
  <2>7. Good(W, {}, monitor, halted)
    BY <1>0, <2>1, <2>4, <2>6, SendsClose
  <2> HIDE DEF W
  <2>8. Lines' /\ Linked' = Linked /\ Ups' = {}
    <3>1. \E y : phone' = [phone EXCEPT ![p].call = "none", ![p].bye = y]
      BY <2>1
    <3> QED BY <1>0, <1>3, <2>1, <3>1, CallLines
  <2> QED BY <2>1, <2>5, <2>7, <2>8, Returned
<1> QED BY <1>4, <1>5, <1>6

LEMMA HangupInv ==
  ASSUME A2dpInv, TypeOK', NEW p \in Phones, NEW ev, PhoneHangup(p, ev)
  PROVE  A2dpInv'
<1> DEFINE B == bud[master]
           o == Other(p)
           u == a2dp_media_unmute(B, o)
           closed == a2dp_media_close(u, o)
           v1 == [closed EXCEPT !.energy = o, !.preempted = None, !.drop = p]
           v2 == [B EXCEPT !.drop = p]
           v3 == Release(B, o)
<1>0. /\ TypeOK /\ Lines /\ B \in Bud /\ Sane(B) /\ Hushed(B, halted) /\ o \in Phones
      /\ phone \in [Phones -> Phone]
  BY MasterOf, OtherPhone
<1>1. PICK v \in {v1, v2, v3, B} :
        /\ Returns(master, Now(v)) /\ phone' = [phone EXCEPT ![p].bye = @ \ {ev}]
        /\ UNCHANGED <<halted, master, tws, monitor, past, acts>>
  BY DEF PhoneHangup
<1>2. Good(Now(B), Ups, monitor, halted)
  BY MasterGood
<1> HIDE DEF o, B
<1>3. Sane(v1) /\ v1.esco = B.esco /\ Hushed(v1, halted)
  <2>1. /\ u \in Bud /\ u.player = B.player /\ u.esco = B.esco
        /\ u.muted = B.muted \ {o} /\ u.started = B.started /\ u.detect = B.detect
        /\ u.live = B.live /\ u.dual = B.dual
    BY <1>0, UnmuteFields
  <2> HIDE DEF u
  <2>2. /\ closed \in Bud /\ closed.player = B.player /\ closed.esco = B.esco
        /\ closed.muted = B.muted \ {o} /\ closed.started = B.started \ {o}
        /\ closed.detect = B.detect /\ closed.live = B.live /\ closed.dual = B.dual
    BY <1>0, <2>1, MediaCloseFields
  <2> HIDE DEF closed
  <2>3. /\ v1 \in Bud /\ v1.player = B.player /\ v1.esco = B.esco
        /\ v1.muted = B.muted \ {o} /\ v1.started = B.started \ {o}
        /\ v1.detect = B.detect /\ v1.live = B.live /\ v1.dual = B.dual
    BY <1>0, <2>2 DEF Bud, Addr
  <2> HIDE DEF v1
  <2> QED BY <1>0, <2>3 DEF Sane, Hushed
<1>4. Sane(v2) /\ v2.esco = B.esco /\ Hushed(v2, halted)
  <2>1. /\ v2 \in Bud /\ v2.player = B.player /\ v2.esco = B.esco /\ v2.muted = B.muted
        /\ v2.detect = B.detect /\ v2.started = B.started /\ v2.live = B.live /\ v2.dual = B.dual
    BY <1>0 DEF Bud, Addr
  <2> HIDE DEF v2
  <2> QED BY <1>0, <2>1, Alike
<1>5. Sane(v3) /\ v3.esco = B.esco /\ Hushed(v3, halted)
  <2>1. /\ Sane(v3) /\ v3.esco = B.esco /\ v3.dual = FALSE /\ v3.started \subseteq B.started
    BY <1>0, ReleaseSane
  <2> HIDE DEF v3
  <2> QED BY <1>0, <2>1 DEF Hushed
<1> HIDE DEF v1, v2, v3
<1>6. Sane(v) /\ v.esco = B.esco /\ Hushed(v, halted)
  BY <1>0, <1>1, <1>3, <1>4, <1>5
<1>7. Good(Now(v), Ups, monitor, halted)
  BY <1>2, <1>6, GoodWith DEF Now
<1>8. Lines' /\ Linked' = Linked /\ Ups' = Ups
  <2>1. Same(phone')
    <3>1. Same(phone)
      BY <1>0, TellSame
    <3> QED BY <1>0, <1>1, <3>1 DEF Same, Phone
  <2> QED BY <1>0, <1>1, <2>1, SameKept
<1> QED BY <1>1, <1>7, <1>8, Returned

-----------------------------------------------------------------------------
(* Messages of app_core. *)

LEMMA PoppedCalls ==
  ASSUME A2dpInv, NEW b \in Buds, queue[b] # << >>
  PROVE  \A x \in Buds :
           CallQueue(IF x = b THEN EscoAfter(bud[b].esco, Head(queue[b]), EscoLink(b)) ELSE bud[x].esco,
                     Popped(b)[x], x = master, Ups, Linked, Hears(x, monitor), tws)
<1> DEFINE e == bud[b].esco
           q == queue[b]
           lead == b = master
           hears == Hears(b, monitor)
           sco == EscoLink(b)
           up == Ups
           linked == Linked
<1>0. /\ TypeOK /\ Lines /\ queue \in Queues /\ e \in Addr /\ q \in Seq(Cmds)
      /\ lead \in BOOLEAN /\ tws \in BOOLEAN /\ up \in SUBSET Phones
  BY MasterOf DEF TypeOK, Ups
<1>1. \A x \in Buds : CallQueue(bud[x].esco, queue[x], x = master, Ups, Linked, Hears(x, monitor), tws)
  BY LinksAre DEF A2dpInv, Calls
<1>2. \A x, y \in up : x = y
  BY <1>0 DEF Lines, Ups
<1>3. ~lead /\ ~tws => hears = {}
  BY <1>0 DEF Lines, Hears
<1>4. sco \in BOOLEAN /\ (sco <=> hears \cap up # {})
  BY LinksAre DEF EscoLink, Ups, Links
<1>5. CallQueue(e, q, lead, up, linked, hears, tws)
  BY <1>1
<1>6. Popped(b)[b] = Tail(q) /\ \A x \in Buds : x # b => Popped(b)[x] = queue[x]
  BY <1>0 DEF Popped, Queues
<1>9. q # << >>
  OBVIOUS
<1> DEFINE c == Head(q)
<1>7. CallQueue(EscoAfter(e, c, sco), Tail(q), lead, up, linked, hears, tws)
  <2> HIDE DEF e, q, lead, hears, sco, up, linked
  <2> QED BY <1>0, <1>2, <1>3, <1>4, <1>5, <1>9, RunQueue
<1>8. ASSUME NEW x \in Buds
      PROVE  CallQueue(IF x = b THEN EscoAfter(e, c, sco) ELSE bud[x].esco,
                       Popped(b)[x], x = master, Ups, Linked, Hears(x, monitor), tws)
  <2>1. CASE x = b
    BY <1>6, <1>7, <2>1
  <2>2. CASE x # b
    BY <1>1, <1>6, <2>2
  <2> QED BY <2>1, <2>2
<1> QED BY <1>8

\* A message that is no command leaves the call of the bud alone.
LEMMA PoppedGood ==
  ASSUME A2dpInv, Heads(master, {"A2DP_START", "NO_ENERGY", "SEND_PLAY_CMD"})
  PROVE  Good(With(bud[master], Popped(master)), Ups, monitor, halted)
<1> DEFINE t == bud[master]
           q == Popped(master)
<1>0. /\ TypeOK /\ t \in Bud /\ queue \in Queues /\ master \in Buds /\ Sane(t) /\ Hushed(t, halted)
      /\ queue[master] # << >>
  BY MasterOf DEF Heads
<1>1. With(t, q) \in Work /\ With(t, q).s = t /\ With(t, q).q = q
  BY <1>0, PoppedType, WithType
<1>2. EscoAfter(t.esco, Head(queue[master]), EscoLink(master)) = t.esco
  BY DEF Heads, EscoAfter
<1>3. \A x \in Buds : CallQueue(IF x = master THEN t.esco ELSE bud[x].esco, q[x], x = master,
                                Ups, Linked, Hears(x, monitor), tws)
  BY <1>0, <1>2, PoppedCalls
<1> QED BY <1>0, <1>1, <1>3 DEF Good

LEMMA A2dpStartInv ==
  ASSUME A2dpInv, TypeOK', NEW b \in Buds, A2dpStart(b)
  PROVE  A2dpInv'
<1> DEFINE t == bud[b]
           p == Head(queue[b]).addr
           x == t.player
           w == With(t, Popped(b))
           w1 == Sends(b, w, Cmd("MUTE", x))
           play == Cmd("PLAY", p)
<1>0. TypeOK /\ Lines /\ t \in Bud /\ Sane(t) /\ queue \in Queues /\ Same(phone)
      /\ queue[b] \in Seq(Cmds)
  BY MasterOf, SameNow DEF Queues
<1>1. Heads(b, {"A2DP_START"}) /\ UNCHANGED <<timers, halted, master, tws, monitor, past, acts>>
  BY DEF A2dpStart
<1>2. queue[b] # << >> /\ p \in Phones
  BY <1>0, <1>1, PoppedType DEF Heads, Cmds
<1>3. b = master /\ t.esco = None /\ ~Waits(queue[b], "OPEN_ESCO")
  <2>1. Waits(queue[b], "A2DP_START")
    <3>1. 1 \in DOMAIN queue[b] /\ queue[b][1].cmd = "A2DP_START"
      BY <1>0, <1>1, <1>2, TailFacts DEF Heads
    <3> QED BY <3>1 DEF Waits
  <2>2. StartsFree(t.esco, queue[b], b = master)
    BY DEF A2dpInv, Calls, CallQueue
  <2> QED BY <2>1, <2>2 DEF StartsFree
<1>4. Ups = {} /\ Ups \in SUBSET Phones
  BY <1>3, CallSounds, NoneIsNoPhone DEF Ups
<1>5. Good(w, Ups, monitor, halted)
  BY <1>1, <1>3, PoppedGood DEF Heads
<1>6. \A a \in Phones : \A y \in {"MUTE", "PLAY"} :
        /\ Cmd(y, a) \in Cmds /\ Cmd(y, a).cmd = y /\ Cmd(y, a).both
        /\ y \in SharedCmds \ {"OPEN_ESCO", "CLOSE_ESCO"}
  BY CmdType DEF SharedCmds
<1>7. CASE x = None
  <2>1. Returns(b, Sends(b, w, play)) /\ UNCHANGED phone
    BY <1>7 DEF A2dpStart
  <2>2. Good(Sends(b, w, play), Ups, monitor, halted)
    <3> HIDE DEF w, p
    <3> QED BY <1>0, <1>2, <1>3, <1>4, <1>5, <1>6, SendsGood
  <2>3. Lines' /\ Linked' = Linked /\ Ups' = Ups
    BY <1>0, <1>1, <2>1, SameKept
  <2> HIDE DEF w
  <2> QED BY <1>1, <1>3, <2>1, <2>2, <2>3, Returned
<1>8. CASE x # None
  <2>0. x \in Phones
    BY <1>0, <1>8 DEF Bud, Addr
  <2>1. Returns(b, Sends(b, w1, play)) /\ phone' = Tell(x, "pause")
    BY <1>8 DEF A2dpStart
  <2>2. Good(w1, Ups, monitor, halted)
    <3> HIDE DEF w, x
    <3> QED BY <1>0, <1>3, <1>4, <1>5, <1>6, <2>0, SendsGood
  <2>3. Good(Sends(b, w1, play), Ups, monitor, halted)
    <3> HIDE DEF w1, p
    <3> QED BY <1>0, <1>2, <1>3, <1>4, <1>6, <2>2, SendsGood
  <2>4. Lines' /\ Linked' = Linked /\ Ups' = Ups
    <3>1. Same(phone')
      BY <1>0, <2>0, <2>1, TellSame
    <3> QED BY <1>0, <1>1, <3>1, SameKept
  <2> HIDE DEF w1
  <2> QED BY <1>1, <1>3, <2>1, <2>3, <2>4, Returned
<1> QED BY <1>7, <1>8

LEMMA A2dpNoEnergyInv ==
  ASSUME A2dpInv, TypeOK', NEW b \in Buds, A2dpNoEnergy(b), b = master
  PROVE  A2dpInv'
<1> DEFINE p == Head(queue[b]).addr
           w == With(bud[b], Popped(b))
           c == Cmd("SWITCH", p)
           v == IF b = master /\ bud[b].player = p THEN Sends(b, w, c) ELSE w
<1>0. TypeOK /\ Lines /\ queue \in Queues /\ Same(phone)
  BY MasterOf, SameNow
<1>1. /\ Heads(b, {"NO_ENERGY"}) /\ Returns(b, v)
      /\ UNCHANGED <<timers, phone, halted, master, tws, monitor, past, acts>>
  BY DEF A2dpNoEnergy
<1>2. p \in Phones
  BY <1>0, <1>1, PoppedType DEF Heads, Cmds
<1>3. Good(w, Ups, monitor, halted)
  BY <1>1, PoppedGood DEF Heads
<1>4. /\ c \in Cmds /\ c.both /\ c.cmd = "SWITCH"
      /\ c.cmd \in SharedCmds \ {"OPEN_ESCO", "CLOSE_ESCO"} /\ c.cmd \notin Sounding(TRUE)
      /\ Ups \in SUBSET Phones
  <2> HIDE DEF p
  <2> QED BY <1>2, CmdType DEF SharedCmds, Sounding, Ups
<1> HIDE DEF c, w
<1>5. Good(Sends(b, w, c), Ups, monitor, halted)
  BY <1>0, <1>3, <1>4, SendsGood
<1>6. Good(v, Ups, monitor, halted)
  BY <1>3, <1>5
<1> HIDE DEF v
<1>7. Lines' /\ Linked' = Linked /\ Ups' = Ups
  BY <1>0, <1>1, SameKept
<1> QED BY <1>1, <1>6, <1>7, Returned

\* A bud has run the message at the head of its queue, and sends nothing.
LEMMA Ran ==
  ASSUME A2dpInv, TypeOK', NEW b \in Buds, queue[b] # << >>, NEW u,
         bud' = [bud EXCEPT ![b] = u], queue' = Popped(b),
         Sane(u), u.esco = EscoAfter(bud[b].esco, Head(queue[b]), EscoLink(b)),
         b = master => Hushed(u, halted),
         Same(phone'), UNCHANGED <<halted, master, tws, monitor>>
  PROVE  A2dpInv'
<1>0. /\ bud \in [Buds -> Bud] /\ Lines /\ (\A x \in Buds : Sane(bud[x])) /\ master \in Buds
      /\ Hushed(bud[master], halted)
  BY MasterOf
<1>1. Lines' /\ Linked' = Linked /\ Ups' = Ups
  BY <1>0, SameKept
<1>2. bud'[b] = u /\ \A x \in Buds : x # b => bud'[x] = bud[x]
  BY <1>0
<1>3. ASSUME NEW x \in Buds
      PROVE  CallQueue(bud'[x].esco, queue'[x], x = master, Ups', Linked, Hears(x, monitor'), tws)
  <2>1. CallQueue(IF x = b THEN EscoAfter(bud[b].esco, Head(queue[b]), EscoLink(b)) ELSE bud[x].esco,
                  Popped(b)[x], x = master, Ups, Linked, Hears(x, monitor), tws)
    BY PoppedCalls
  <2>2. bud'[x].esco = IF x = b THEN EscoAfter(bud[b].esco, Head(queue[b]), EscoLink(b)) ELSE bud[x].esco
    BY <1>2
  <2>3. queue'[x] = Popped(b)[x] /\ Ups' = Ups /\ monitor' = monitor
    BY <1>1
  <2> QED BY <2>1, <2>2, <2>3
<1>4. \A x \in Buds : Sane(bud'[x])
  BY <1>0, <1>2
<1>5. Hushed(bud'[master], halted')
  BY <1>0, <1>2
<1> QED BY <1>1, <1>3, <1>4, <1>5, Stepped

LEMMA QuietMessageInv ==
  ASSUME A2dpInv, TypeOK', NEW b \in Buds,
         SendPlayCmd(b) \/ (A2dpNoEnergy(b) /\ b # master)
  PROVE  A2dpInv'
<1> DEFINE t == bud[b]
           c == Head(queue[b])
           p == c.addr
<1>0. /\ bud \in [Buds -> Bud] /\ TypeOK /\ Lines /\ Sane(t) /\ Hushed(bud[master], halted)
      /\ queue \in Queues /\ Same(phone)
  BY MasterOf, SameNow
<1>1. /\ queue[b] # << >> /\ c.cmd \in {"NO_ENERGY", "SEND_PLAY_CMD"}
      /\ queue' = Popped(b) /\ UNCHANGED <<halted, master, tws, monitor>>
      /\ phone' \in {phone, Tell(p, "play")}
      /\ bud' = [bud EXCEPT ![b] = t]
  <2>1. CASE SendPlayCmd(b)
    BY <1>0, <2>1 DEF SendPlayCmd, Heads
  <2>2. CASE A2dpNoEnergy(b) /\ b # master
    BY <2>2 DEF A2dpNoEnergy, Heads, Returns, With
  <2> QED BY <2>1, <2>2
<1>2. EscoAfter(t.esco, c, EscoLink(b)) = t.esco
  BY <1>1 DEF EscoAfter
<1>3. Same(phone')
  <2>1. p \in Phones
    BY <1>0, <1>1, PoppedType DEF Cmds
  <2> HIDE DEF p
  <2>2. Same(Tell(p, "play"))
    BY <1>0, <2>1, TellSame
  <2> QED BY <1>0, <1>1, <2>2
<1> HIDE DEF t
<1>4. b = master => Hushed(t, halted)
  BY <1>0 DEF t
<1> QED BY <1>0, <1>1, <1>2, <1>3, <1>4, Ran DEF t

LEMMA LinkDetachInv ==
  ASSUME A2dpInv, TypeOK', NEW b \in Buds, LinkDetach(b)
  PROVE  A2dpInv'
<1> DEFINE t == bud[b]
           c == Head(queue[b])
           p == c.addr
           v == tws_a2dp_player_close(t, p)
           u == bt_phone_esco_stop(v, p)
<1>0. /\ bud \in [Buds -> Bud] /\ TypeOK /\ Lines /\ Sane(t) /\ queue \in Queues /\ Same(phone)
      /\ queue[b] \in Seq(Cmds)
  BY MasterOf, SameNow
<1>1. /\ queue[b] # << >> /\ c.cmd = "LINK_DETACH" /\ bud' = [bud EXCEPT ![b] = u]
      /\ queue' = Popped(b)
      /\ UNCHANGED <<timers, phone, halted, master, tws, monitor, past, acts>>
  BY <1>0 DEF LinkDetach, Heads
<1>2. p \in Phones
  BY <1>0, <1>1, PoppedType DEF Cmds
<1>3. b # master
  <2>1. 1 \in DOMAIN queue[b] /\ queue[b][1].cmd = "LINK_DETACH"
    BY <1>0, <1>1, TailFacts
  <2>2. DetachFirst(queue[b], b = master, Linked, tws)
    BY DEF A2dpInv, Calls, CallQueue
  <2> QED BY <2>1, <2>2 DEF DetachFirst
<1> HIDE DEF t
<1>4. Sane(v) /\ v.esco = t.esco
  <2> HIDE DEF p
  <2> QED BY <1>0, <1>2, PlayerCloseSane
<1> HIDE DEF v
<1>5. Sane(u) /\ u.esco = Without(v.esco, p)
  <2> HIDE DEF p
  <2> QED BY <1>2, <1>4, EscoStopSane
<1> HIDE DEF u
<1>6. u.esco = EscoAfter(t.esco, c, EscoLink(b))
  BY <1>1, <1>4, <1>5 DEF EscoAfter
<1> HIDE DEF c
<1> QED BY <1>0, <1>1, <1>3, <1>5, <1>6, Ran DEF t, c

LEMMA RunCommandInv ==
  ASSUME A2dpInv, TypeOK', NEW b \in Buds, RunCommand(b)
  PROVE  A2dpInv'
<1> DEFINE t == bud[b]
           c == Head(queue[b])
           u == InTask(t, c, Links(b), EscoLink(b))
<1>0. /\ bud \in [Buds -> Bud] /\ TypeOK /\ Lines /\ Sane(t) /\ queue \in Queues /\ Same(phone)
      /\ queue[b] \in Seq(Cmds) /\ Hushed(bud[master], halted)
  BY MasterOf, SameNow
<1>1. /\ queue[b] # << >> /\ c.cmd \in SharedCmds /\ bud' = [bud EXCEPT ![b] = u]
      /\ queue' = Popped(b)
      /\ UNCHANGED <<timers, phone, halted, master, tws, monitor, past, acts>>
  BY <1>0 DEF RunCommand, Heads
<1>2. c \in Cmds /\ EscoLink(b) \in BOOLEAN /\ Links(b) \in SUBSET Phones
  BY <1>0, <1>1, PoppedType, LinksType DEF EscoLink
<1>3. c.cmd \in Sounding(b = master) => t.esco = None
  <2>1. SoundsAfter(t.esco, queue[b], b = master)
    BY DEF A2dpInv, Calls, CallQueue
  <2> HIDE DEF t
  <2> QED BY <1>0, <1>1, <2>1, HeadFree
<1> HIDE DEF t, c
<1>4. Sane(u) /\ u.esco = EscoAfter(t.esco, c, EscoLink(b))
  <2>1. c.cmd = "PLAY" => t.esco = None
    BY <1>3 DEF Sounding
  <2> QED BY <1>0, <1>1, <1>2, <2>1, CommandSane
<1>5. b = master => Hushed(u, halted)
  <2> SUFFICES ASSUME b = master PROVE Hushed(u, halted)
    OBVIOUS
  <2>1. c.cmd \in Sounding(TRUE) => t.esco = None
    BY <1>3 DEF Sounding
  <2>2. Hushed(t, halted)
    BY <1>0 DEF t
  <2> QED BY <1>0, <1>1, <1>2, <2>1, <2>2, CommandHushed
<1> HIDE DEF u
<1> QED BY <1>0, <1>1, <1>4, <1>5, Ran DEF t, c

-----------------------------------------------------------------------------
(* Timers and detectors. *)

\* No call, no queue and no link changes.
LEMMA Stayed ==
  ASSUME A2dpInv, TypeOK', queue' = queue, Same(phone'), UNCHANGED <<master, tws, monitor>>,
         \A x \in Buds : Sane(bud'[x]) /\ bud'[x].esco = bud[x].esco,
         Hushed(bud'[master], halted')
  PROVE  A2dpInv'
<1>1. Lines' /\ Linked' = Linked /\ Ups' = Ups
  BY MasterOf, SameKept
<1>2. ASSUME NEW x \in Buds
      PROVE  CallQueue(bud'[x].esco, queue'[x], x = master, Ups', Linked, Hears(x, monitor'), tws)
  <2>1. CallQueue(bud[x].esco, queue[x], x = master, Ups, Linked, Hears(x, monitor), tws)
    BY LinksAre DEF A2dpInv, Calls
  <2> QED BY <1>1, <2>1
<1> QED BY <1>1, <1>2, Stepped

\* A bud posts a message to its own task.
LEMMA Posted ==
  ASSUME A2dpInv, TypeOK', NEW b \in Buds, NEW u, NEW c \in Cmds, Post(b, u, c),
         c.cmd \in LocalCmds \ {"LINK_DETACH"},
         c.cmd = "A2DP_START" => b = master /\ bud[b].esco = None /\ ~Waits(queue[b], "OPEN_ESCO"),
         Sane(u), u.esco = bud[b].esco, b = master => Hushed(u, halted),
         UNCHANGED <<phone, halted, master, tws, monitor>>
  PROVE  A2dpInv'
<1>0. /\ bud \in [Buds -> Bud] /\ TypeOK /\ Lines /\ (\A x \in Buds : Sane(bud[x])) /\ master \in Buds
      /\ Hushed(bud[master], halted) /\ queue \in Queues /\ Same(phone)
      /\ bud[b].esco \in Addr /\ queue[b] \in Seq(Cmds)
  BY MasterOf, SameNow
<1>1. Lines' /\ Linked' = Linked /\ Ups' = Ups
  BY <1>0, SameKept
<1>2. /\ bud'[b] = u /\ \A x \in Buds : x # b => bud'[x] = bud[x]
      /\ queue'[b] = Append(queue[b], c) /\ \A x \in Buds : x # b => queue'[x] = queue[x]
  BY <1>0 DEF Post, Queues
<1>3. \A x \in Buds : CallQueue(bud[x].esco, queue[x], x = master, Ups, Linked, Hears(x, monitor), tws)
  BY LinksAre DEF A2dpInv, Calls
<1>4. CallQueue(bud[b].esco, Append(queue[b], c), b = master, Ups, Linked, Hears(b, monitor), tws)
  <2> DEFINE e == bud[b].esco
             q == queue[b]
             lead == b = master
             hears == Hears(b, monitor)
             up == Ups
             linked == Linked
  <2>1. CallQueue(e, q, lead, up, linked, hears, tws)
    BY <1>3
  <2>2. /\ e \in Addr /\ q \in Seq(Cmds) /\ lead \in BOOLEAN /\ tws \in BOOLEAN
        /\ up \in SUBSET Phones
    BY <1>0 DEF TypeOK, Ups
  <2>3. /\ c.cmd \notin {"OPEN_ESCO", "CLOSE_ESCO", "LINK_DETACH"}
        /\ c.cmd \notin SharedCmds /\ c.cmd \notin Sounding(lead)
    BY DEF LocalCmds, SharedCmds, Sounding
  <2>4. c.cmd = "A2DP_START" => lead /\ e = None /\ ~Waits(q, "OPEN_ESCO")
    OBVIOUS
  <2> HIDE DEF e, q, lead, hears, up, linked
  <2>5. CallQueue(e, Append(q, c), lead, up, linked, hears, tws)
    BY <2>1, <2>2, <2>3, <2>4, QuietAppend
  <2> QED BY <2>5 DEF e, q, lead, hears, up, linked
<1>5. ASSUME NEW x \in Buds
      PROVE  CallQueue(bud'[x].esco, queue'[x], x = master, Ups', Linked, Hears(x, monitor'), tws)
  <2>1. CASE x = b
    BY <1>1, <1>2, <1>4, <2>1
  <2>2. CASE x # b
    BY <1>1, <1>2, <1>3, <2>2
  <2> QED BY <2>1, <2>2
<1>6. \A x \in Buds : Sane(bud'[x])
  BY <1>0, <1>2
<1>7. Hushed(bud'[master], halted')
  BY <1>0, <1>2
<1> QED BY <1>1, <1>5, <1>6, <1>7, Stepped

LEMMA TimerInv ==
  ASSUME A2dpInv, TypeOK', NEW b \in Buds, TryPlayPreempted(b) \/ ResumedEnergy(b) \/ NoEnergy(b)
  PROVE  A2dpInv'
<1> DEFINE t == bud[b]
<1>0. /\ bud \in [Buds -> Bud] /\ t \in Bud /\ TypeOK /\ Lines /\ Sane(t) /\ Same(phone)
      /\ (\A x \in Buds : Sane(bud[x])) /\ master \in Buds
      /\ Hushed(bud[master], halted)
  BY MasterOf, SameNow
<1>1. ASSUME NEW u, u \in Bud, u.player = t.player, u.esco = t.esco, u.muted = t.muted,
             u.detect = t.detect, u.started = t.started, u.live = t.live, u.dual = t.dual
      PROVE  Sane(u) /\ u.esco = bud[b].esco /\ (b = master => Hushed(u, halted))
  BY <1>0, <1>1, Alike
<1>2. ASSUME TryPlayPreempted(b) PROVE A2dpInv'
  <2> DEFINE p == t.preempted
             u == [t EXCEPT !.preempted = None]
  <2>1. PICK v \in {t, u} : Returns(b, Now(v))
    BY <1>2 DEF TryPlayPreempted
  <2>2. /\ phone' \in {phone, Tell(p, "play")} /\ (phone' = phone \/ p # None)
        /\ UNCHANGED <<halted, master, tws, monitor, past, acts>>
    BY <1>2 DEF TryPlayPreempted
  <2>3. Same(phone')
    <3>1. p # None => p \in Phones
      <4> HIDE DEF t
      <4> QED BY <1>0 DEF Bud, Addr
    <3> HIDE DEF p
    <3> QED BY <1>0, <2>2, <3>1, TellSame
  <2>4. Sane(v) /\ v.esco = bud[b].esco /\ (b = master => Hushed(v, halted))
    <3>1. CASE v = t
      BY <1>0, <3>1
    <3>2. CASE v = u
      <4>1. /\ u \in Bud /\ u.player = t.player /\ u.esco = t.esco /\ u.muted = t.muted
            /\ u.detect = t.detect /\ u.started = t.started /\ u.live = t.live /\ u.dual = t.dual
        <5> HIDE DEF t
        <5> QED BY <1>0 DEF Bud, Addr
      <4> HIDE DEF u
      <4> QED BY <1>1, <3>2, <4>1
    <3> QED BY <2>1, <3>1, <3>2
  <2>5. /\ bud'[b] = v /\ (\A x \in Buds : x # b => bud'[x] = bud[x]) /\ queue' = queue
    BY <1>0, <2>1 DEF Returns, Now, With
  <2>6. \A x \in Buds : Sane(bud'[x]) /\ bud'[x].esco = bud[x].esco
    BY <1>0, <2>4, <2>5
  <2>7. Hushed(bud'[master], halted')
    BY <1>0, <2>2, <2>4, <2>5
  <2> QED BY <2>2, <2>3, <2>5, <2>6, <2>7, Stayed
<1>3. ASSUME ResumedEnergy(b) PROVE A2dpInv'
  <2> DEFINE u == [t EXCEPT !.energy = None]
             c == Cmd("SEND_PLAY_CMD", t.energy)
  <2>1. /\ t.energy # None
        /\ Returns(b, Now(u)) \/ Post(b, u, c)
        /\ UNCHANGED <<timers, phone, halted, master, tws, monitor, past, acts>>
    BY <1>3 DEF ResumedEnergy
  <2>2. /\ u \in Bud /\ u.player = t.player /\ u.esco = t.esco /\ u.muted = t.muted
        /\ u.detect = t.detect /\ u.started = t.started /\ u.live = t.live /\ u.dual = t.dual
    <3> HIDE DEF t
    <3> QED BY <1>0 DEF Bud, Addr
  <2>3. c \in Cmds /\ c.cmd = "SEND_PLAY_CMD"
    <3> HIDE DEF t
    <3>1. t.energy \in Phones
      BY <1>0, <2>1 DEF Bud, Addr
    <3> QED BY <3>1, CmdType DEF LocalCmds
  <2> HIDE DEF u, c
  <2>4. Sane(u) /\ u.esco = bud[b].esco /\ (b = master => Hushed(u, halted))
    BY <1>1, <2>2
  <2>5. CASE Post(b, u, c)
    BY <2>1, <2>3, <2>4, <2>5, Posted DEF LocalCmds
  <2>6. CASE Returns(b, Now(u))
    <3>1. /\ bud'[b] = u /\ (\A x \in Buds : x # b => bud'[x] = bud[x]) /\ queue' = queue
      BY <1>0, <2>6 DEF Returns, Now, With
    <3>2. \A x \in Buds : Sane(bud'[x]) /\ bud'[x].esco = bud[x].esco
      BY <1>0, <2>4, <3>1
    <3>3. Hushed(bud'[master], halted')
      BY <1>0, <2>1, <2>4, <3>1
    <3>4. Same(phone')
      BY <1>0, <2>1
    <3> QED BY <2>1, <3>1, <3>2, <3>3, <3>4, Stayed
  <2> QED BY <2>1, <2>5, <2>6
<1>4. ASSUME NoEnergy(b) PROVE A2dpInv'
  <2> DEFINE u == [t EXCEPT !.switched = TRUE]
             c == Cmd("NO_ENERGY", t.player)
  <2>1. /\ t.player # None /\ Post(b, u, c)
        /\ UNCHANGED <<timers, phone, halted, master, tws, monitor>>
    BY <1>4 DEF NoEnergy
  <2>2. /\ u \in Bud /\ u.player = t.player /\ u.esco = t.esco /\ u.muted = t.muted
        /\ u.detect = t.detect /\ u.started = t.started /\ u.live = t.live /\ u.dual = t.dual
    <3> HIDE DEF t
    <3> QED BY <1>0 DEF Bud, Addr
  <2>3. c \in Cmds /\ c.cmd = "NO_ENERGY"
    <3> HIDE DEF t
    <3>1. t.player \in Phones
      BY <1>0, <2>1 DEF Bud, Addr
    <3> QED BY <3>1, CmdType DEF LocalCmds
  <2> HIDE DEF u, c
  <2>4. Sane(u) /\ u.esco = bud[b].esco /\ (b = master => Hushed(u, halted))
    BY <1>1, <2>2
  <2> QED BY <2>1, <2>3, <2>4, Posted DEF LocalCmds
<1> QED BY <1>2, <1>3, <1>4

\* Energy is found under no call: Hushed.
LEMMA BackgroundEnergyInv ==
  ASSUME A2dpInv, ~Overtakes, TypeOK', NEW p \in Phones, BackgroundEnergy(p)
  PROVE  A2dpInv'
<1> DEFINE t == bud[master]
           u == [t EXCEPT !.live = @ \ {p}]
           c == Cmd("A2DP_START", p)
<1>0. t \in Bud /\ Sane(t) /\ Hushed(t, halted) /\ master \in Buds
  BY MasterOf
<1>1. /\ p \in t.live /\ t.dual /\ p \notin t.muted /\ p \in t.started \ halted
      /\ ~Waits(queue[master], "OPEN_ESCO") /\ Post(master, u, c)
      /\ UNCHANGED <<timers, phone, halted, master, tws, monitor, past, acts>>
  BY PendingWaits DEF BackgroundEnergy, CallIsOpen
<1>2. t.esco = None
  BY <1>0, <1>1 DEF Hushed
<1>3. /\ u \in Bud /\ u.player = t.player /\ u.esco = t.esco /\ u.muted = t.muted
      /\ u.detect = t.detect
  <2> HIDE DEF t
  <2> QED BY <1>0 DEF Bud
<1>4. c \in Cmds /\ c.cmd = "A2DP_START"
  BY CmdType DEF LocalCmds
<1> HIDE DEF u, c
<1>5. Sane(u)
  BY <1>0, <1>3, Alike
<1>6. Hushed(u, halted)
  BY <1>2, <1>3 DEF Hushed
<1> QED BY <1>0, <1>1, <1>2, <1>3, <1>4, <1>5, <1>6, Posted DEF LocalCmds

-----------------------------------------------------------------------------
(* The users. *)

LEMMA StreamEndsKeeps ==
  ASSUME A2dpInv, NEW p \in Phones, StreamEnds(p), UNCHANGED master
  PROVE  /\ \A x \in Buds : Sane(bud'[x]) /\ bud'[x].esco = bud[x].esco
         /\ Hushed(bud'[master], halted')
<1>0. /\ (\A x \in Buds : bud[x] \in Bud /\ Sane(bud[x])) /\ master \in Buds
      /\ Hushed(bud[master], halted)
  BY MasterOf
<1>1. /\ halted' = halted \cup {p}
      /\ \A x \in Buds : bud'[x] \in {bud[x], a2dp_media_unmute(bud[x], p)}
  BY DEF StreamEnds
<1>2. ASSUME NEW t \in Bud, Sane(t)
      PROVE  LET u == a2dp_media_unmute(t, p)
             IN  /\ Sane(u) /\ u.esco = t.esco
                 /\ Hushed(t, halted) => Hushed(t, halted') /\ Hushed(u, halted')
  <2> DEFINE u == a2dp_media_unmute(t, p)
  <2>1. /\ u \in Bud /\ u.player = t.player /\ u.esco = t.esco
        /\ u.muted = t.muted \ {p} /\ u.started = t.started /\ u.detect = t.detect
        /\ u.live = t.live /\ u.dual = t.dual
    BY UnmuteFields
  <2> HIDE DEF u
  <2>2. Sane(u)
    BY <1>2, <2>1 DEF Sane
  <2>3. Hushed(t, halted) => Hushed(t, halted') /\ Hushed(u, halted')
    BY <1>1, <2>1 DEF Hushed
  <2> QED BY <2>1, <2>2, <2>3 DEF u
<1>3. ASSUME NEW x \in Buds PROVE Sane(bud'[x]) /\ bud'[x].esco = bud[x].esco
  BY <1>0, <1>1, <1>2
<1>4. Hushed(bud'[master], halted')
  BY <1>0, <1>1, <1>2
<1> QED BY <1>3, <1>4

LEMMA UserInv ==
  ASSUME A2dpInv, TypeOK', NEW p \in Phones,
         UserPlays(p) \/ UserStops(p) \/ Obeys(p) \/ Ignores(p)
  PROVE  A2dpInv'
<1> DEFINE B == bud[master]
           o == Other(p)
<1>0. /\ TypeOK /\ Lines /\ B \in Bud /\ Sane(B) /\ Hushed(B, halted)
      /\ phone \in [Phones -> Phone] /\ bud \in [Buds -> Bud] /\ master \in Buds
      /\ (\A x \in Buds : Sane(bud[x])) /\ o \in Phones
      /\ Same(phone) /\ Same(Tell(p, "pause")) /\ Tell(p, "pause") \in [Phones -> Phone]
  BY MasterOf, OtherPhone, TellSame, TellType
\* A phone starts or stops, with its link up.
<1>1. ASSUME NEW f \in [Phones -> Phone], Same(f), UNCHANGED <<tws, monitor>>, phone[p].link,
             \/ \E v \in BOOLEAN : phone' = [f EXCEPT ![p].on = v]
             \/ \E v \in BOOLEAN : phone' = [f EXCEPT ![p].told = Tail(@), ![p].on = v]
             \/ phone' = [f EXCEPT ![p].told = Tail(@)]
      PROVE  Lines' /\ Linked' = Linked /\ Ups' = Ups
  <2>1. \A x \in Phones :
          /\ phone'[x].link = phone[x].link /\ phone'[x].call = phone[x].call
          /\ x # p => phone'[x] = f[x]
    <3> DEFINE r == f[p]
    <3>1. r \in Phone
      OBVIOUS
    <3>2. phone'[p].link = r.link /\ phone'[p].call = r.call
      <4>1. CASE \E v \in BOOLEAN : phone' = [f EXCEPT ![p].on = v]
        <5>1. PICK v \in BOOLEAN : phone' = [f EXCEPT ![p].on = v]
          BY <4>1
        <5>2. phone'[p] = [r EXCEPT !.on = v]
          BY <5>1
        <5> HIDE DEF r
        <5> QED BY <3>1, <5>2 DEF Phone
      <4>2. CASE \E v \in BOOLEAN : phone' = [f EXCEPT ![p].told = Tail(@), ![p].on = v]
        <5>1. PICK v \in BOOLEAN : phone' = [f EXCEPT ![p].told = Tail(@), ![p].on = v]
          BY <4>2
        <5>2. phone'[p] = [r EXCEPT !.told = Tail(@), !.on = v]
          BY <5>1
        <5> HIDE DEF r
        <5> QED BY <3>1, <5>2 DEF Phone
      <4>3. CASE phone' = [f EXCEPT ![p].told = Tail(@)]
        <5>2. phone'[p] = [r EXCEPT !.told = Tail(@)]
          BY <4>3
        <5> HIDE DEF r
        <5> QED BY <3>1, <5>2 DEF Phone
      <4> QED BY <1>1, <4>1, <4>2, <4>3
    <3>3. \A x \in Phones : x # p => phone'[x] = f[x]
      BY <1>1
    <3> QED BY <1>1, <3>2, <3>3 DEF Same
  <2>2. Linked' = Linked /\ Ups' = Ups
    BY <2>1 DEF Linked, Ups
  <2>3. Lines'
    BY <1>0, <1>1, <2>1, <2>2 DEF Lines, Same
  <2> QED BY <2>2, <2>3
<1>2. ASSUME Lines', Linked' = Linked, Ups' = Ups, queue' = queue, UNCHANGED <<master, tws, monitor>>,
             \A x \in Buds : Sane(bud'[x]) /\ bud'[x].esco = bud[x].esco,
             Hushed(bud'[master], halted')
      PROVE  A2dpInv'
  <2>1. ASSUME NEW x \in Buds
        PROVE  CallQueue(bud'[x].esco, queue'[x], x = master, Ups', Linked, Hears(x, monitor'), tws)
    <3>1. CallQueue(bud[x].esco, queue[x], x = master, Ups, Linked, Hears(x, monitor), tws)
      BY LinksAre DEF A2dpInv, Calls
    <3> QED BY <1>2, <3>1
  <2> QED BY <1>2, <2>1, Stepped
<1>3. ASSUME UserPlays(p) PROVE A2dpInv'
  <2> DEFINE m == a2dp_media_mute(B, p, Links(master))
             u == [m EXCEPT !.preempted = Without(@, p)]
  <2>1. /\ phone[p].link
        /\ \/ /\ B.esco = o /\ Returns(master, Now(u))
              /\ phone' = [Tell(p, "pause") EXCEPT ![p].on = TRUE]
           \/ UNCHANGED <<bud, queue>> /\ phone' = [phone EXCEPT ![p].on = TRUE]
        /\ UNCHANGED <<timers, halted, master, tws, monitor, past>>
    BY <1>3 DEF UserPlays
  <2>2. Lines' /\ Linked' = Linked /\ Ups' = Ups
    BY <1>0, <1>1, <2>1
  <2>3. CASE UNCHANGED <<bud, queue>>
    <3>1. \A x \in Buds : Sane(bud'[x]) /\ bud'[x].esco = bud[x].esco
      BY <1>0, <2>3
    <3>2. Hushed(bud'[master], halted')
      BY <1>0, <2>1, <2>3
    <3> QED BY <1>2, <2>1, <2>2, <2>3, <3>1, <3>2
  <2>4. CASE B.esco = o /\ Returns(master, Now(u))
    <3> HIDE DEF B, o
    <3>1. /\ m \in Bud /\ m.player = B.player /\ m.esco = B.esco
          /\ m.muted = B.muted \cup ({p} \cap Links(master)) /\ m.started = B.started
          /\ m.detect = B.detect /\ m.live = B.live /\ m.dual = B.dual
      BY <1>0, LinksType, MuteFields
    <3> HIDE DEF m
    <3>2. /\ u \in Bud /\ u.player = B.player /\ u.esco = B.esco
          /\ u.muted = B.muted \cup ({p} \cap Links(master)) /\ u.started = B.started
          /\ u.detect = B.detect /\ u.live = B.live /\ u.dual = B.dual
      BY <3>1 DEF Bud, Addr, Without
    <3> HIDE DEF u
    <3>3. B.player = None /\ None \notin u.muted
      BY <1>0, <2>4, <3>2, NoneIsNoPhone DEF Sane, Bud
    <3>4. Sane(u)
      BY <1>0, <3>2, <3>3 DEF Sane
    <3>5. Hushed(u, halted)
      BY <1>0, <3>2 DEF Hushed
    <3>6. Good(Now(B), Ups, monitor, halted)
      BY MasterGood DEF B
    <3>7. Good(Now(u), Ups, monitor, halted)
      BY <3>2, <3>4, <3>5, <3>6, GoodWith DEF Now
    <3> QED BY <2>1, <2>2, <2>4, <3>7, Returned
  <2> QED BY <2>1, <2>3, <2>4
<1>4. ASSUME UserStops(p) PROVE A2dpInv'
  <2>1. /\ phone[p].link /\ phone' = [phone EXCEPT ![p].on = FALSE] /\ StreamEnds(p)
        /\ UNCHANGED <<queue, timers, master, tws, monitor, past>>
    BY <1>0, <1>4 DEF UserStops, Lines
  <2>2. Lines' /\ Linked' = Linked /\ Ups' = Ups
    BY <1>0, <1>1, <2>1
  <2> QED BY <1>2, <2>1, <2>2, StreamEndsKeeps
<1>5. ASSUME Obeys(p) PROVE A2dpInv'
  <2>1. /\ phone[p].link
        /\ \E v \in BOOLEAN : phone' = [phone EXCEPT ![p].told = Tail(@), ![p].on = v]
        /\ StreamEnds(p) \/ UNCHANGED <<bud, halted>>
        /\ UNCHANGED <<queue, timers, master, tws, monitor, past, acts>>
    BY <1>0, <1>5 DEF Obeys, Lines
  <2>2. Lines' /\ Linked' = Linked /\ Ups' = Ups
    BY <1>0, <1>1, <2>1
  <2>3. /\ \A x \in Buds : Sane(bud'[x]) /\ bud'[x].esco = bud[x].esco
        /\ Hushed(bud'[master], halted')
    BY <1>0, <2>1, StreamEndsKeeps
  <2> QED BY <1>2, <2>1, <2>2, <2>3
<1>6. ASSUME Ignores(p) PROVE A2dpInv'
  <2>1. /\ phone[p].link /\ phone' = [phone EXCEPT ![p].told = Tail(@)]
        /\ UNCHANGED <<bud, queue, timers, halted, master, tws, monitor, past, acts>>
    BY <1>0, <1>6 DEF Ignores, Lines
  <2>2. Lines' /\ Linked' = Linked /\ Ups' = Ups
    BY <1>0, <1>1, <2>1
  <2>3. /\ \A x \in Buds : Sane(bud'[x]) /\ bud'[x].esco = bud[x].esco
        /\ Hushed(bud'[master], halted')
    BY <1>0, <2>1
  <2> QED BY <1>2, <2>1, <2>2, <2>3
<1> QED BY <1>3, <1>4, <1>5, <1>6

-----------------------------------------------------------------------------
(* The links. *)

LEMMA MonitorStartInv ==
  ASSUME A2dpInv, ~Overtakes, TypeOK', NEW p \in Phones, MonitorStart(p)
  PROVE  A2dpInv'
<1> DEFINE B == bud[master]
           c == Cmd("OPEN_ESCO", p)
           joins == IF phone[p].call = "up"
                    THEN [queue EXCEPT ![Slave] = Append(@, c)] ELSE queue
           w == With(B, joins)
           mon == monitor \cup {p}
           Q(b, q) == CallQueue(bud[b].esco, q, b = master, Ups, Linked, Hears(b, mon), tws)
<1>0. /\ TypeOK /\ Lines /\ B \in Bud /\ Sane(B) /\ Hushed(B, halted) /\ queue \in Queues
      /\ master \in Buds /\ Slave \in Buds /\ Slave # master /\ Same(phone) /\ tws \in BOOLEAN
      /\ (\A b \in Buds : b = master \/ b = Slave) /\ (\A b \in Buds : bud[b].esco \in Addr)
      /\ (\A b \in Buds : queue[b] \in Seq(Cmds)) /\ Ups \in SUBSET Phones
  BY MasterOf, SameNow DEF TypeOK, Ups
<1>1. /\ phone[p].link /\ tws /\ ~Waits(queue[master], "OPEN_ESCO")
      /\ monitor' = mon /\ Returns(master, Informed(w, p))
      /\ UNCHANGED <<timers, phone, halted, master, tws, past, acts>>
  BY PendingWaits DEF MonitorStart, CallIsOpen
<1>2. c \in Cmds /\ c.cmd = "OPEN_ESCO" /\ c.addr = p
  BY CmdType DEF SharedCmds
<1> HIDE DEF c, B
<1>3. joins \in Queues /\ joins[master] = queue[master]
      /\ joins[Slave] = IF phone[p].call = "up" THEN Append(queue[Slave], c) ELSE queue[Slave]
  <2>1. Append(queue[Slave], c) \in Seq(Cmds)
    BY <1>0, <1>2, AppendProperties
  <2> QED BY <1>0, <2>1 DEF Queues
<1> HIDE DEF joins
<1>4. \A b \in Buds : CallQueue(bud[b].esco, queue[b], b = master, Ups, Linked, Hears(b, monitor), tws)
  BY LinksAre DEF A2dpInv, Calls
<1>5. /\ Hears(Slave, monitor) \subseteq Hears(Slave, mon)
      /\ Hears(Slave, mon) \subseteq Hears(Slave, monitor) \cup {p}
      /\ Hears(master, mon) = Hears(master, monitor)
  BY DEF Hears
<1>6. Q(master, joins[master])
  BY <1>0, <1>3, <1>4, <1>5
<1>7. Q(Slave, joins[Slave])
  <2> DEFINE e == bud[Slave].esco
             q == queue[Slave]
             lead == Slave = master
             hears == Hears(Slave, monitor)
             hears2 == Hears(Slave, mon)
             up == Ups
             linked == Linked
  <2>1. CallQueue(e, q, lead, up, linked, hears, tws)
    BY <1>0, <1>4
  <2>2. /\ e \in Addr /\ q \in Seq(Cmds) /\ lead = FALSE /\ lead \in BOOLEAN
        /\ hears \subseteq hears2 /\ hears2 \subseteq hears \cup {p}
    BY <1>0, <1>5
  <2>3. phone[p].call = "up" <=> p \in up
    BY DEF Ups
  <2> HIDE DEF e, q, lead, hears, hears2, up, linked
  <2>4. CASE p \in up
    <3>1. ~Waits(q, "A2DP_START")
      BY <2>1, <2>2 DEF CallQueue, StartsFree
    <3>2. up \in SUBSET Phones /\ up \subseteq up /\ c.addr \in up
      BY <1>0, <1>2, <2>4 DEF up
    <3>3. CallQueue(e, Append(q, c), lead, up, linked, hears2, tws)
      BY <1>0, <1>2, <2>1, <2>2, <3>1, <3>2, OpenAppend
    <3> QED BY <1>3, <2>3, <2>4, <3>3 DEF e, q, lead, hears2, up, linked
  <2>5. CASE p \notin up
    <3>1. hears2 \cap up \subseteq hears
      BY <2>2, <2>5
    <3>2. CallQueue(e, q, lead, up, linked, hears2, tws)
      BY <2>1, <2>2, <3>1, MoreHears
    <3> QED BY <1>3, <2>3, <2>5, <3>2 DEF e, q, lead, hears2, up, linked
  <2> QED BY <2>4, <2>5
<1>8. Good(w, Ups, mon, halted)
  <2>1. w \in Work /\ w.s = B /\ w.q = joins
    BY <1>0, <1>3, WithType
  <2>2. \A b \in Buds : Q(b, joins[b])
    BY <1>0, <1>6, <1>7
  <2>3. \A b \in Buds : CallQueue(IF b = master THEN B.esco ELSE bud[b].esco, joins[b], b = master,
                                  Ups, Linked, Hears(b, mon), tws)
    BY <2>2 DEF B
  <2> HIDE DEF w, mon
  <2> QED BY <1>0, <2>1, <2>3 DEF Good
<1>9. Good(Informed(w, p), Ups, mon, halted)
  <2> DEFINE play == ToSibling("PLAY", p)
             detect == ToSibling("SLIENCE_DETECT", p)
  <2>1. /\ play \in Cmds /\ play.cmd = "PLAY" /\ ~play.both
        /\ detect \in Cmds /\ detect.cmd = "SLIENCE_DETECT" /\ ~detect.both
        /\ "PLAY" \in SharedCmds \ {"OPEN_ESCO", "CLOSE_ESCO"}
        /\ "SLIENCE_DETECT" \in SharedCmds \ {"OPEN_ESCO", "CLOSE_ESCO"}
    BY CmdType DEF SharedCmds
  <2>2. w.s = B
    BY DEF With
  <2> HIDE DEF w, mon, play, detect
  <2>3. Good(Sends(master, w, detect), Ups, mon, halted)
    BY <1>0, <1>1, <1>8, <2>1, SendsGood
  <2>4. ASSUME B.player = p PROVE Good(Sends(master, w, play), Ups, mon, halted)
    <3>1. B.esco = None
      BY <1>0, <2>4, NoneIsNoPhone DEF Sane
    <3>2. Ups = {}
      BY <1>1, <3>1, CallSounds, NoneIsNoPhone DEF B, Ups
    <3> QED BY <1>0, <1>1, <1>8, <2>1, <3>2, SendsGood
  <2>5. Informed(w, p) \in {w, Sends(master, w, detect), Sends(master, w, play)}
        /\ (B.player # p => Informed(w, p) \in {w, Sends(master, w, detect)})
    BY <2>2 DEF Informed, play, detect
  <2> QED BY <1>8, <2>3, <2>4, <2>5
<1>10. Lines' /\ Linked' = Linked /\ Ups' = Ups
  <2>1. Linked' = Linked /\ Ups' = Ups
    BY <1>1 DEF Linked, Ups
  <2>2. p \in Linked
    BY <1>1 DEF Linked
  <2> QED BY <1>0, <1>1, <2>1, <2>2 DEF Lines
<1> HIDE DEF w, mon
<1> QED BY <1>1, <1>9, <1>10, Returned

\* All queues are empty: each bud sounds the call it hears and no other.
LEMMA NothingWaits ==
  ASSUME A2dpInv, NEW b \in Buds, queue[b] = << >>
  PROVE  /\ \A p \in Links(b) \cap Ups : bud[b].esco = p
         /\ bud[b].esco # None => bud[b].esco \in Links(b) \cap Ups
<1> DEFINE e == bud[b].esco
           lead == b = master
           up == Ups
           linked == Linked
           hears == Links(b)
<1>1. CallQueue(e, << >>, lead, up, linked, hears, tws)
  BY DEF A2dpInv, Calls
<1> HIDE DEF e, lead, up, linked, hears
<1>2. (\A p \in hears \cap up : e = p) /\ (e # None => e \in up \cap hears)
  BY <1>1, EmptyQueue
<1> QED BY <1>2 DEF e, up, hears

LEMMA StillQuiet ==
  ASSUME NEW b, queue'[b] = << >>,
         \A p \in Links(b)' \cap Ups' : bud'[b].esco = p,
         bud'[b].esco # None => bud'[b].esco \in Links(b)' \cap Ups'
  PROVE  Calls(b)'
<1> DEFINE e == bud'[b].esco
           lead == b = master'
           up == Ups'
           linked == Linked'
           hears == Links(b)'
<1>1. (\A p \in hears \cap up : e = p) /\ (e # None => e \in up \cap hears)
  OBVIOUS
<1> HIDE DEF e, lead, up, linked, hears
<1>2. CallQueue(e, << >>, lead, up, linked, hears, tws')
  BY <1>1, EmptyQueue
<1> QED BY <1>2 DEF Calls, e, lead, up, linked, hears

LEMMA ConnectedInv ==
  ASSUME A2dpInv, TypeOK', NEW p \in Phones, Connected(p)
  PROVE  A2dpInv'
<1> DEFINE t == bud[master]
           u == [t EXCEPT !.preempted = Without(@, p)]
<1>0. /\ TypeOK /\ Lines /\ t \in Bud /\ Sane(t) /\ Hushed(t, halted) /\ bud \in [Buds -> Bud]
      /\ phone \in [Phones -> Phone] /\ master \in Buds /\ (\A b \in Buds : Sane(bud[b]))
  BY MasterOf
<1>1. /\ ~phone[p].link /\ (\A b \in Buds : queue[b] = << >>) /\ phone' = [phone EXCEPT ![p].link = TRUE]
      /\ bud' = [bud EXCEPT ![master] = u]
      /\ UNCHANGED <<queue, timers, halted, master, tws, monitor, past, acts>>
  BY <1>0 DEF Connected
<1>2. /\ u \in Bud /\ u.player = t.player /\ u.esco = t.esco /\ u.muted = t.muted
      /\ u.detect = t.detect /\ u.started = t.started /\ u.live = t.live /\ u.dual = t.dual
  <2> HIDE DEF t
  <2> QED BY <1>0 DEF Bud, Addr, Without
<1>3. Sane(u) /\ Hushed(u, halted)
  <2> HIDE DEF t, u
  <2> QED BY <1>0, <1>2, Alike DEF t
<1> HIDE DEF u
<1>4. bud'[master] = u /\ \A b \in Buds : b # master => bud'[b] = bud[b]
  BY <1>0, <1>1
<1>5. \A b \in Buds : Sane(bud'[b]) /\ bud'[b].esco = bud[b].esco
  BY <1>0, <1>2, <1>3, <1>4
<1>6. \A x \in Phones :
        /\ phone'[x].call = phone[x].call /\ phone'[x].on = phone[x].on
        /\ phone'[x].told = phone[x].told
        /\ phone'[x].link <=> phone[x].link \/ x = p
  BY <1>0, <1>1 DEF Phone
<1>7. Ups' = Ups /\ p \notin Ups /\ Linked' = Linked \cup {p}
  BY <1>0, <1>1, <1>6 DEF Ups, Linked, Lines
<1>8. Lines'
  BY <1>0, <1>1, <1>6, <1>7 DEF Lines
<1>9. ASSUME NEW b \in Buds PROVE Calls(b)'
  <2>1. Links(b)' \cap Ups' = Links(b) \cap Ups
    BY <1>1, <1>6, <1>7 DEF Links, Receives
  <2>2. /\ \A x \in Links(b) \cap Ups : bud[b].esco = x
        /\ bud[b].esco # None => bud[b].esco \in Links(b) \cap Ups
    BY <1>1, NothingWaits
  <2> QED BY <1>1, <1>5, <2>1, <2>2, StillQuiet
<1>10. Hushed(bud'[master], halted')
  BY <1>1, <1>3, <1>4
<1>11. master' = master
  BY <1>1
<1> QED BY <1>5, <1>8, <1>9, <1>10, <1>11 DEF A2dpInv

\* A slave without a call of the phone that has gone is told of it.
LEMMA DetachQueue ==
  ASSUME NEW e, NEW c \in Cmds, c.cmd = "LINK_DETACH", NEW up, NEW linked, NEW hears,
         NEW paired, c.addr \notin linked, c.addr \notin up,
         \A p \in hears \cap up : e = p, e # None => e \in up \cap hears
  PROVE  CallQueue(e, Append(<< >>, c), FALSE, up, linked, hears, paired)
<1> DEFINE q == Append(<< >>, c)
<1>1. DOMAIN q = {1} /\ q[1] = c
  OBVIOUS
<1> HIDE DEF q
<1>2. \A i \in DOMAIN q : i = 1 /\ q[i].cmd = "LINK_DETACH" /\ q[i].addr = c.addr
  BY <1>1
<1>3. \A i \in DOMAIN q : q[i].cmd \notin {"OPEN_ESCO", "A2DP_START"} \cup Sounding(FALSE)
  BY <1>2 DEF Sounding
<1>4. OpensLast(q, FALSE, up) /\ LoneLocal(q, FALSE, paired) /\ StartsFree(e, q, FALSE)
      /\ SoundsAfter(e, q, FALSE)
  BY <1>3 DEF OpensLast, LoneLocal, StartsFree, SoundsAfter, Waits
<1>5. DetachFirst(q, FALSE, linked, paired)
  BY <1>2 DEF DetachFirst
<1>6. Joins(e, q, up, hears) /\ Leaves(e, q, up, hears)
  BY <1>2 DEF Joins, Leaves, EndsCall
<1> QED BY <1>4, <1>5, <1>6 DEF CallQueue, q

LEMMA DisconnectedInv ==
  ASSUME A2dpInv, ~Overtakes, TypeOK', NEW p \in Phones, Disconnected(p)
  PROVE  A2dpInv'
<1> DEFINE t == bud[master]
           u == tws_a2dp_player_close(t, p)
           c == Cmd("LINK_DETACH", p)
<1>0. /\ TypeOK /\ Lines /\ Sane(t) /\ Hushed(t, halted) /\ bud \in [Buds -> Bud]
      /\ phone \in [Phones -> Phone] /\ queue \in Queues /\ master \in Buds
      /\ Slave \in Buds /\ Slave # master
      /\ (\A b \in Buds : b = master \/ b = Slave) /\ (\A b \in Buds : Sane(bud[b]))
  BY MasterOf
<1>1. /\ phone[p].link /\ phone[p].call = "none" /\ (\A b \in Buds : queue[b] = << >>)
      /\ phone' = [phone EXCEPT ![p] = [@ EXCEPT !.link = FALSE, !.on = FALSE, !.told = << >>]]
      /\ bud' = [bud EXCEPT ![master] = u]
      /\ queue' = IF p \in monitor THEN [queue EXCEPT ![Slave] = Append(@, c)] ELSE queue
      /\ monitor' = monitor \ {p} /\ UNCHANGED <<timers, master, tws>>
  BY <1>0 DEF Disconnected, Settled
<1>2. c \in Cmds /\ c.cmd = "LINK_DETACH" /\ c.addr = p
  BY CmdType DEF LocalCmds
<1>3. Sane(u) /\ u.esco = t.esco /\ u.dual = FALSE /\ u.started = t.started \ {p}
  <2> HIDE DEF t
  <2> QED BY <1>0, PlayerCloseSane
<1>4. \A h : Hushed(u, h)
  <2> HIDE DEF t, u
  <2> QED BY <1>0, <1>3 DEF Hushed
<1> HIDE DEF u, c
<1>5. bud'[master] = u /\ \A b \in Buds : b # master => bud'[b] = bud[b]
  BY <1>0, <1>1
<1>6. \A b \in Buds : Sane(bud'[b]) /\ bud'[b].esco = bud[b].esco
  BY <1>0, <1>3, <1>5
<1>7. \A x \in Phones :
        /\ phone'[x].call = phone[x].call
        /\ x = p => phone'[x].call = "none" /\ ~phone'[x].link /\ ~phone'[x].on
                    /\ phone'[x].told = << >>
        /\ x # p => phone'[x] = phone[x]
  BY <1>0, <1>1 DEF Phone
<1>8. Ups' = Ups /\ p \notin Ups /\ Linked' = Linked \ {p}
  BY <1>0, <1>1, <1>7 DEF Ups, Linked
<1>9. Lines'
  BY <1>0, <1>1, <1>7, <1>8 DEF Lines
<1>10. ASSUME NEW b \in Buds PROVE Calls(b)'
  <2>1. Links(b)' \cap Ups' = Links(b) \cap Ups
    BY <1>1, <1>7, <1>8 DEF Links, Receives
  <2>2. /\ \A x \in Links(b) \cap Ups : bud[b].esco = x
        /\ bud[b].esco # None => bud[b].esco \in Links(b) \cap Ups
    BY <1>1, NothingWaits
  <2>3. CASE b = Slave /\ p \in monitor
    <3> DEFINE e == bud'[b].esco
               lead == b = master'
               up == Ups'
               linked == Linked'
               hears == Links(b)'
               q == queue'[b]
    <3>1. q = Append(<< >>, c)
      BY <1>0, <1>1, <2>3 DEF Queues
    <3>2. c.addr \notin linked /\ c.addr \notin up
      BY <1>2, <1>8
    <3>3. (\A x \in hears \cap up : e = x) /\ (e # None => e \in up \cap hears)
      BY <1>6, <2>1, <2>2
    <3>4. lead = FALSE
      BY <1>0, <1>1, <2>3
    <3> HIDE DEF e, lead, up, linked, hears, q
    <3>5. CallQueue(e, q, lead, up, linked, hears, tws')
      BY <1>2, <3>1, <3>2, <3>3, <3>4, DetachQueue
    <3> QED BY <3>5 DEF Calls, e, lead, up, linked, hears, q
  <2>4. CASE ~(b = Slave /\ p \in monitor)
    <3>1. queue'[b] = << >>
      BY <1>0, <1>1, <2>4 DEF Queues
    <3> QED BY <1>6, <2>1, <2>2, <3>1, StillQuiet
  <2> QED BY <2>3, <2>4
<1>11. Hushed(bud'[master], halted') /\ master' = master
  BY <1>1, <1>4, <1>5
<1> QED BY <1>6, <1>9, <1>10, <1>11 DEF A2dpInv

-----------------------------------------------------------------------------
(* The pair of buds. *)

LEMMA RoleSwitchInv ==
  ASSUME A2dpInv, ~Overtakes, TypeOK', RoleSwitch
  PROVE  A2dpInv'
<1> DEFINE old(b) == [bud[b] EXCEPT !.started = IF b = master THEN {} ELSE bud[master].started]
<1>0. /\ TypeOK /\ Lines /\ bud \in [Buds -> Bud] /\ master \in Buds /\ Slave \in Buds
      /\ Slave # master /\ Hushed(bud[master], halted)
      /\ (\A b \in Buds : b = master \/ b = Slave) /\ (\A b \in Buds : Sane(bud[b]))
  BY MasterOf
<1>1. /\ monitor = Linked /\ (\A b \in Buds : queue[b] = << >>) /\ master' = Slave
      /\ bud' = [b \in Buds |-> ReleaseAll(old(b))]
      /\ UNCHANGED <<queue, timers, phone, tws, monitor, past>>
  BY DEF RoleSwitch, Settled, Linked
<1>2. ASSUME NEW b \in Buds
      PROVE  /\ Sane(bud'[b]) /\ bud'[b].esco = bud[b].esco /\ bud'[b].live = {}
             /\ bud'[b].started \subseteq bud[master].started
  <2> DEFINE t == bud[b]
             S == IF b = master THEN {} ELSE bud[master].started
             v == [t EXCEPT !.started = S]
             u == ReleaseAll(v)
  <2>1. t \in Bud /\ Sane(t) /\ S \in SUBSET Phones /\ S \subseteq bud[master].started
    BY <1>0 DEF Bud
  <2>2. bud'[b] = u
    BY <1>1
  <2> HIDE DEF t, S
  <2>3. v \in Bud /\ v.player = t.player /\ v.esco = t.esco /\ v.muted = t.muted
        /\ v.started = S
    BY <2>1 DEF Bud
  <2> HIDE DEF v
  <2>4. /\ u \in Bud /\ u.player = v.player /\ u.esco = v.esco /\ u.muted \subseteq v.muted
        /\ u.started \subseteq v.started /\ u.detect = {} /\ u.live = {}
    BY <2>3, ReleaseAllFields
  <2> HIDE DEF u
  <2>5. Sane(u)
    BY <2>1, <2>3, <2>4 DEF Sane
  <2> QED BY <2>1, <2>2, <2>3, <2>4, <2>5 DEF t
<1>3. Lines' /\ Linked' = Linked /\ Ups' = Ups
  BY <1>0, <1>1 DEF Lines, Linked, Ups
<1>4. \A b \in Buds : Links(b) = Linked /\ Links(b)' = Linked
  BY <1>1 DEF Links, Receives, Linked
<1>5. \A b \in Buds : /\ \A x \in Linked \cap Ups : bud[b].esco = x
                      /\ bud[b].esco # None => bud[b].esco \in Linked \cap Ups
  BY <1>1, <1>4, NothingWaits
<1>6. \A b \in Buds : Calls(b)'
  BY <1>1, <1>2, <1>3, <1>4, <1>5, StillQuiet
<1>7. Hushed(bud'[master'], halted')
  <2>1. bud'[Slave].esco = bud[master].esco
    BY <1>0, <1>2, <1>5
  <2>2. bud[master].esco # None => bud[master].esco \notin bud[master].started
    BY <1>0 DEF Hushed
  <2> QED BY <1>0, <1>1, <1>2, <2>1, <2>2 DEF Hushed
<1> QED BY <1>2, <1>3, <1>6, <1>7 DEF A2dpInv

LEMMA TwsLostInv ==
  ASSUME A2dpInv, ~Overtakes, TypeOK', TwsLost
  PROVE  A2dpInv'
<1> DEFINE q == queue[Slave]
<1>0. /\ TypeOK /\ Lines /\ bud \in [Buds -> Bud] /\ queue \in Queues /\ master \in Buds
      /\ Slave \in Buds /\ Slave # master /\ Hushed(bud[master], halted)
      /\ (\A b \in Buds : b = master \/ b = Slave) /\ (\A b \in Buds : Sane(bud[b]))
      /\ q \in Seq(Cmds) /\ bud[Slave].esco \in Addr
  BY MasterOf
<1>1. /\ tws /\ queue[master] = << >> /\ tws' = FALSE /\ monitor' = {}
      /\ UNCHANGED <<bud, timers, phone, halted, master>>
  BY DEF TwsLost, Settled
<1>2. PICK n \in 0 .. Len(q), gone \in Detachments :
        \E r \in Survivors(q, {i \in DOMAIN q : i <= n \/ q[i].cmd \in LocalCmds}) :
          queue' = [queue EXCEPT ![Slave] = r \o gone]
  BY DEF TwsLost
<1>8. PICK r \in Survivors(q, {i \in DOMAIN q : i <= n \/ q[i].cmd \in LocalCmds}) :
        queue' = [queue EXCEPT ![Slave] = r \o gone]
  BY <1>2
<1>3. /\ gone \in Seq(Cmds) /\ \A i \in DOMAIN gone : gone[i].cmd = "LINK_DETACH"
      /\ \A p \in monitor : \E i \in DOMAIN gone : gone[i].addr = p
  <2> DEFINE k == Cardinality(monitor)
             D == {Cmd("LINK_DETACH", p) : p \in monitor}
  <2>1. k \in Nat
    BY <1>0, FS_Subset, FS_CardinalityType, A2dpAssumption DEF TypeOK
  <2>2. \A p \in monitor : p \in Phones
    BY <1>0 DEF TypeOK
  <2>3. \A d \in D : d \in Cmds /\ d.cmd = "LINK_DETACH"
    BY <2>2, CmdType, SMTT(30) DEF LocalCmds
  <2>4. \A p \in monitor : Cmd("LINK_DETACH", p) \in D /\ Cmd("LINK_DETACH", p).addr = p
    BY DEF Cmd
  <2> HIDE DEF k, D
  <2>5. gone \in [1 .. k -> D] /\ \A d \in D : \E i \in 1 .. k : gone[i] = d
    BY <1>2 DEF Detachments, k, D, Bijection, Injection, Surjection
  <2>6. gone \in Seq(Cmds) /\ DOMAIN gone = 1 .. k
    <3>1. gone \in [1 .. k -> Cmds]
      BY <2>3, <2>5
    <3> QED BY <2>1, <2>5, <3>1, SeqDef
  <2> QED BY <2>3, <2>4, <2>5, <2>6
<1>4. Lines' /\ Linked' = Linked /\ Ups' = Ups
  BY <1>0, <1>1 DEF Lines, Linked, Ups
<1>5. ASSUME NEW b \in Buds, b = master PROVE Calls(b)'
  <2>1. queue'[b] = << >> /\ queue[b] = << >>
    BY <1>0, <1>1, <1>5, <1>8 DEF Queues
  <2>2. Links(b)' = Links(b)
    BY <1>1, <1>5 DEF Links, Receives
  <2>3. /\ \A x \in Links(b) \cap Ups : bud[b].esco = x
        /\ bud[b].esco # None => bud[b].esco \in Links(b) \cap Ups
    BY <2>1, NothingWaits
  <2> QED BY <1>1, <1>4, <2>1, <2>2, <2>3, StillQuiet
<1>6. ASSUME NEW b \in Buds, b = Slave PROVE Calls(b)'
  <2> DEFINE e == bud[b].esco
             up == Ups
             linked == Linked
             hears == Links(b)
  <2>1. CallQueue(e, q, FALSE, up, linked, hears, TRUE)
    <3>1. (b = master) = FALSE /\ tws = TRUE
      BY <1>0, <1>1, <1>6 DEF TypeOK
    <3>2. CallQueue(bud[b].esco, queue[b], b = master, Ups, Linked, Links(b), tws)
      BY DEF A2dpInv, Calls
    <3> QED BY <1>6, <3>1, <3>2
  <2>2. up \in SUBSET Phones /\ hears \subseteq monitor
    BY <1>0, <1>6 DEF Ups, Links, Receives
  <2>3. queue'[b] = r \o gone
    BY <1>0, <1>6, <1>8 DEF Queues
  <2>4. Links(b)' = {}
    BY <1>0, <1>1, <1>6 DEF Links, Receives
  <2>5. e \in Addr
    BY <1>0, <1>6
  <2> HIDE DEF e, q, up, linked, hears
  <2>6. CallQueue(e, r \o gone, FALSE, up, linked, {}, FALSE)
    BY <1>0, <1>2, <1>3, <1>8, <2>1, <2>2, <2>5, LostQueue
  <2>7. (b = master') = FALSE /\ tws' = FALSE /\ Linked' = linked /\ Ups' = up
        /\ bud'[b].esco = e
    BY <1>0, <1>1, <1>4, <1>6 DEF linked, up, e
  <2>8. CallQueue(bud'[b].esco, queue'[b], b = master', Ups', Linked', Links(b)', tws')
    BY <2>3, <2>4, <2>6, <2>7
  <2> QED BY <2>8 DEF Calls
<1>7. \A b \in Buds : Calls(b)'
  BY <1>0, <1>5, <1>6
<1> QED BY <1>0, <1>1, <1>4, <1>7 DEF A2dpInv

LEMMA TwsConnectedInv ==
  ASSUME A2dpInv, TypeOK', TwsConnected
  PROVE  A2dpInv'
<1>0. Lines /\ Hushed(bud[master], halted) /\ \A b \in Buds : Sane(bud[b])
  BY MasterOf
<1>1. /\ (\A b \in Buds : queue[b] = << >>)
      /\ UNCHANGED <<bud, queue, timers, phone, halted, master, monitor, past, acts>>
      /\ tws' = TRUE
  BY DEF TwsConnected
<1>2. Lines' /\ Linked' = Linked /\ Ups' = Ups
  BY <1>0, <1>1 DEF Lines, Linked, Ups
<1>3. ASSUME NEW b \in Buds PROVE Calls(b)'
  <2>1. Links(b)' = Links(b)
    BY <1>1 DEF Links, Receives
  <2>2. /\ \A x \in Links(b) \cap Ups : bud[b].esco = x
        /\ bud[b].esco # None => bud[b].esco \in Links(b) \cap Ups
    BY <1>1, NothingWaits
  <2> QED BY <1>1, <1>2, <2>1, <2>2, StillQuiet
<1> QED BY <1>0, <1>1, <1>2, <1>3 DEF A2dpInv

-----------------------------------------------------------------------------
(* The theorems. *)

LEMMA InitInv == Init => A2dpInv
<1> SUFFICES ASSUME Init PROVE A2dpInv
  OBVIOUS
<1>1. TypeOK
  BY InitTypes
<1>2. \A b \in Buds : bud[b] = Idle /\ queue[b] = << >>
  BY DEF Init
<1>3. Idle \in Bud /\ Idle.player = None /\ Idle.esco = None /\ Idle.detect = {} /\ Idle.muted = {}
  BY DEF Idle, Bud, Addr
<1>4. \A b \in Buds : Sane(bud[b])
  BY <1>2, <1>3 DEF Sane
<1>5. Lines /\ Ups = {}
  BY DEF Init, Lines, Linked, Ups
<1>6. ASSUME NEW b \in Buds PROVE Calls(b)
  <2> DEFINE e == bud[b].esco
             lead == b = master
             up == Ups
             linked == Linked
             hears == Links(b)
  <2>1. (\A p \in hears \cap up : e = p) /\ (e # None => e \in up \cap hears)
    BY <1>2, <1>3, <1>5
  <2> HIDE DEF e, lead, up, linked, hears
  <2>2. CallQueue(e, << >>, lead, up, linked, hears, tws)
    BY <2>1, EmptyQueue
  <2> QED BY <1>2, <2>2 DEF Calls, e, lead, up, linked, hears
<1>7. Hushed(bud[master], halted)
  BY <1>1, <1>2, <1>3 DEF Hushed, TypeOK
<1> QED BY <1>1, <1>4, <1>5, <1>6, <1>7 DEF A2dpInv

LEMMA BudInv ==
  ASSUME A2dpInv, ~Overtakes, TypeOK', NEW b \in Buds, OfBud(b)
  PROVE  A2dpInv'
BY RunCommandInv, A2dpStartInv, A2dpNoEnergyInv, QuietMessageInv, LinkDetachInv, TimerInv
   DEF OfBud

LEMMA PhoneInv ==
  ASSUME A2dpInv, ~Overtakes, TypeOK', NEW p \in Phones, OfPhone(p)
  PROVE  A2dpInv'
BY MediaStartInv, MediaStopInv, BackgroundEnergyInv, CallInv, HangupInv, DisconnectedInv,
   ConnectedInv, MonitorStartInv, UserInv DEF OfPhone

LEMMA StepInv == A2dpInv /\ ~Overtakes /\ [Next]_vars => A2dpInv'
<1> SUFFICES ASSUME A2dpInv, ~Overtakes, [Next]_vars PROVE A2dpInv'
  OBVIOUS
<1>1. TypeOK'
  BY StepTypes DEF A2dpInv
<1>2. CASE Next
  BY <1>1, <1>2, BudInv, PhoneInv, RoleSwitchInv, TwsLostInv, TwsConnectedInv DEF Next
<1>3. CASE UNCHANGED vars
  <2>1. UNCHANGED <<bud, queue, timers, phone, halted, master, tws, monitor>>
    BY <1>3 DEF vars
  <2>2. \A x \in Buds : Sane(bud'[x]) /\ bud'[x].esco = bud[x].esco
    BY <2>1, MasterOf
  <2>3. Same(phone') /\ Hushed(bud'[master], halted')
    <3>1. Same(phone)
      BY MasterOf, SameNow
    <3> QED BY <2>1, <3>1, MasterOf
  <2> QED BY <1>1, <2>1, <2>2, <2>3, Stayed
<1> QED BY <1>2, <1>3

\* While no event overtakes the commands of an earlier one, in the sense of `Overtakes', the
\* bookkeeping of calls is right on both buds, whatever the users do and however long.
THEOREM A2dpInvariant ==
  ASSUME ~Overtakes
  PROVE  Spec => []A2dpInv
<1>1. A2dpInv /\ [Next]_vars => A2dpInv'
  BY StepInv
<1> QED BY <1>1, InitInv, PTL DEF Spec

\* The phone that is heard is not detected, hence not dropped, as well: the commands that
\* the master sends from its own state arrive in an order that keeps player and detectors
\* of each bud apart.
THEOREM FrontIsNotDetected ==
  ASSUME ~Overtakes
  PROVE  Spec => []FrontNotDetected
<1>1. A2dpInv => FrontNotDetected
  BY DEF A2dpInv, Sane, FrontNotDetected
<1> QED BY <1>1, A2dpInvariant, PTL

\* Music and the sound of a call are never mixed, on the slave either, whose queue may
\* still hold commands of before the call.
THEOREM NeverMixed ==
  ASSUME ~Overtakes
  PROVE  Spec => []NoMix
<1>1. A2dpInv => NoMix
  BY DEF A2dpInv, Sane, NoMix
<1> QED BY <1>1, A2dpInvariant, PTL

\* The phone that is heard is never left muted in the stack.
THEOREM FrontIsNotMuted ==
  ASSUME ~Overtakes
  PROVE  Spec => []NotMuted
<1>1. A2dpInv => NotMuted
  BY DEF A2dpInv, Sane, NotMuted
<1> QED BY <1>1, A2dpInvariant, PTL

\* When both buds have run their commands and listen to the same phones, both sound the
\* call of the same phone, or none.
THEOREM SameCallHeard ==
  ASSUME ~Overtakes
  PROVE  Spec => []SameCall
<1>1. A2dpInv => SameCall
  <2> SUFFICES ASSUME A2dpInv, Quiet, NEW b \in Buds, NEW c \in Buds
               PROVE  bud[b].esco = bud[c].esco
    BY DEF SameCall
  <2>1. queue[b] = << >> /\ queue[c] = << >> /\ Links(b) = Links(c)
    BY DEF Quiet, Links, Receives
  <2>2. /\ \A p \in Links(b) \cap Ups : bud[b].esco = p
        /\ bud[b].esco # None => bud[b].esco \in Links(b) \cap Ups
    BY <2>1, NothingWaits
  <2>3. /\ \A p \in Links(c) \cap Ups : bud[c].esco = p
        /\ bud[c].esco # None => bud[c].esco \in Links(c) \cap Ups
    BY <2>1, NothingWaits
  <2> QED BY <2>1, <2>2, <2>3
<1> QED BY <1>1, A2dpInvariant, PTL

-----------------------------------------------------------------------------
(* The music in the queues of both buds: what each bud will play once it   *)
(* has run its commands, although the two run them at different times.     *)

\* What the commands make of the player, if no silence is reported.
PlayedAfter(x, c) ==
  CASE c.cmd = "PLAY" -> IF x = None THEN c.addr ELSE x
    [] c.cmd \in {"SLIENCE_DETECT", "CLOSE", "MUTE", "MUTE_BY_CALL"} -> Without(x, c.addr)
    [] c.cmd = "OPEN_ESCO" -> None
    [] OTHER -> x

\* With silence SWITCH reads the detectors as well; the rest of a bud does not matter.
Ear(t) == [player |-> t.player, detect |-> t.detect, slot0 |-> t.slot0]
Bare(v) == [Idle EXCEPT !.player = v.player, !.detect = v.detect, !.slot0 = v.slot0]
EarAfter(v, c) ==
  IF c.cmd \in LocalCmds THEN v ELSE Ear(InTask(Bare(v), c, Phones, FALSE))

\* Calls and silence may both have happened, but not in one run: full says that there was
\* no call, so that the detectors of both buds are the same as well.
View(full, t) == IF full THEN Ear(t) ELSE t.player
After(full, v, c) == IF full THEN EarAfter(v, c) ELSE PlayedAfter(v, c)
Cause(full) == IF full THEN "call" ELSE "silence"
Barred(full) ==
  {"LINK_DETACH"} \cup (IF full THEN {"OPEN_ESCO", "CLOSE_ESCO"} ELSE {"SWITCH", "NO_ENERGY"})

\* A bud that is t now and runs q comes to r: f is what it is after each command.
Line(full, t, q, r) ==
  /\ \A i \in DOMAIN q : q[i].cmd \notin Barred(full)
  /\ \E f : /\ f[1] = View(full, t) /\ f[Len(q) + 1] = r
            /\ \A i \in DOMAIN q : f[i + 1] = After(full, f[i], q[i])

\* Both buds come to the same.
Together(full, s, q) == \E r : \A b \in Buds : Line(full, s[b], q[b], r)

LEMMA LineEmpty ==
  ASSUME NEW full, NEW t, NEW r
  PROVE  Line(full, t, << >>, r) <=> r = View(full, t)
<1> DEFINE q == << >>
<1>1. DOMAIN q = {} /\ Len(q) + 1 = 1
  OBVIOUS
<1> HIDE DEF q
<1>2. ASSUME r = View(full, t) PROVE Line(full, t, q, r)
  <2> DEFINE f == [i \in {1} |-> r]
  <2>1. f[1] = r
    OBVIOUS
  <2> HIDE DEF f
  <2> QED BY <1>1, <1>2, <2>1 DEF Line
<1> QED BY <1>1, <1>2 DEF Line, q

LEMMA LineAppend ==
  ASSUME NEW full, NEW t, NEW q \in Seq(Cmds), NEW r, NEW c \in Cmds,
         c.cmd \notin Barred(full), Line(full, t, q, r)
  PROVE  Line(full, t, Append(q, c), After(full, r, c))
<1> DEFINE n == Len(q)
           p == Append(q, c)
           s == After(full, r, c)
<1>1. PICK f : /\ f[1] = View(full, t) /\ f[n + 1] = r
               /\ \A i \in DOMAIN q : f[i + 1] = After(full, f[i], q[i])
  BY DEF Line
<1>2. /\ n \in Nat /\ DOMAIN q = 1 .. n /\ Len(p) = n + 1 /\ DOMAIN p = 1 .. n + 1
      /\ \A i \in 1 .. n : p[i] = q[i]
      /\ p[n + 1] = c
  <2>1. Append(q, c) \in Seq(Cmds) /\ Len(p) = n + 1
    BY AppendProperties
  <2> QED BY <2>1, SeqFacts, AppendFacts
<1> DEFINE g == [i \in 1 .. n + 2 |-> IF i = n + 2 THEN s ELSE f[i]]
<1> HIDE DEF n, p, s
<1>3. /\ \A i \in 1 .. n + 1 : g[i] = f[i]
      /\ g[n + 2] = s
  BY <1>2
<1> HIDE DEF g
<1>4. \A i \in 1 .. n + 1 : g[i + 1] = After(full, g[i], p[i])
  <2> SUFFICES ASSUME NEW i \in 1 .. n + 1 PROVE g[i + 1] = After(full, g[i], p[i])
    OBVIOUS
  <2>1. CASE i = n + 1
    BY <1>1, <1>2, <1>3, <2>1 DEF s
  <2>2. CASE i # n + 1
    <3>1. i \in 1 .. n /\ i + 1 \in 1 .. n + 1
      BY <1>2, <2>2
    <3> QED BY <1>1, <1>2, <1>3, <3>1
  <2> QED BY <2>1, <2>2
<1>5. g[1] = View(full, t) /\ g[Len(p) + 1] = s
  BY <1>1, <1>2, <1>3
<1>6. \A i \in DOMAIN p : p[i].cmd \notin Barred(full)
  <2> SUFFICES ASSUME NEW i \in 1 .. n + 1 PROVE p[i].cmd \notin Barred(full)
    BY <1>2
  <2>1. i = n + 1 \/ i \in 1 .. n
    BY <1>2
  <2> QED BY <1>2, <2>1 DEF Line
<1> QED BY <1>2, <1>4, <1>5, <1>6 DEF Line, p, s

LEMMA LineTail ==
  ASSUME NEW full, NEW t, NEW u, NEW q \in Seq(Cmds), q # << >>, NEW r,
         Line(full, t, q, r), View(full, u) = After(full, View(full, t), Head(q))
  PROVE  Line(full, u, Tail(q), r)
<1> DEFINE n == Len(q)
           p == Tail(q)
<1>1. PICK f : /\ f[1] = View(full, t) /\ f[n + 1] = r
               /\ \A i \in DOMAIN q : f[i + 1] = After(full, f[i], q[i])
  BY DEF Line
<1>2. /\ n \in Nat /\ n >= 1 /\ DOMAIN q = 1 .. n /\ Len(p) = n - 1 /\ DOMAIN p = 1 .. n - 1
      /\ Head(q) = q[1]
      /\ \A i \in 1 .. n - 1 : p[i] = q[i + 1]
  <2>1. p \in Seq(Cmds) /\ Len(p) = n - 1 /\ n \in Nat /\ n # 0
        /\ \A i \in 1 .. Len(p) : p[i] = q[i + 1]
    BY HeadTailProperties, EmptySeq, LenProperties
  <2>2. DOMAIN q = 1 .. n /\ DOMAIN p = 1 .. n - 1
    BY <2>1, LenProperties
  <2> QED BY <2>1, <2>2, TailFacts
<1> DEFINE g == [i \in 1 .. n |-> f[i + 1]]
<1> HIDE DEF n, p
<1>3. \A i \in 1 .. n : g[i] = f[i + 1]
  OBVIOUS
<1> HIDE DEF g
<1>4. \A i \in 1 .. n - 1 : g[i + 1] = After(full, g[i], p[i])
  <2> SUFFICES ASSUME NEW i \in 1 .. n - 1 PROVE g[i + 1] = After(full, g[i], p[i])
    OBVIOUS
  <2>1. i \in 1 .. n /\ i + 1 \in 1 .. n
    BY <1>2
  <2>2. f[i + 1 + 1] = After(full, f[i + 1], q[i + 1])
    BY <1>1, <1>2, <2>1
  <2> QED BY <1>2, <1>3, <2>1, <2>2
<1>5. g[1] = View(full, u)
  <2>1. f[2] = After(full, f[1], q[1])
    BY <1>1, <1>2
  <2> QED BY <1>1, <1>2, <1>3, <2>1
<1>6. g[Len(p) + 1] = r
  BY <1>1, <1>2, <1>3
<1>7. \A i \in DOMAIN p : p[i].cmd \notin Barred(full)
  <2> SUFFICES ASSUME NEW i \in 1 .. n - 1 PROVE p[i].cmd \notin Barred(full)
    BY <1>2
  <2>1. i + 1 \in DOMAIN q
    BY <1>2
  <2> QED BY <1>2, <2>1 DEF Line
<1> QED BY <1>2, <1>4, <1>5, <1>6, <1>7 DEF Line, p

-----------------------------------------------------------------------------
(* The lines of both buds. *)

LEMMA SentTogether ==
  ASSUME NEW full, NEW s, NEW q \in Queues, NEW c \in Cmds, c.cmd \notin Barred(full),
         Together(full, s, q)
  PROVE  Together(full, s, [x \in Buds |-> Append(q[x], c)])
<1>1. PICK r : \A b \in Buds : Line(full, s[b], q[b], r)
  BY DEF Together
<1>2. \A b \in Buds : Line(full, s[b], Append(q[b], c), After(full, r, c))
  BY <1>1, LineAppend DEF Queues
<1> QED BY <1>2 DEF Together

LEMMA LocalAfter ==
  ASSUME NEW full, NEW v, NEW c, c.cmd \in LocalCmds
  PROVE  After(full, v, c) = v
<1>1. c.cmd \notin {"PLAY", "SLIENCE_DETECT", "CLOSE", "MUTE", "MUTE_BY_CALL", "OPEN_ESCO"}
  BY DEF LocalCmds
<1> QED BY <1>1 DEF After, PlayedAfter, EarAfter

LEMMA PostedTogether ==
  ASSUME NEW full, NEW s, NEW q \in Queues, NEW b \in Buds, NEW c \in Cmds,
         c.cmd \in LocalCmds \ Barred(full), Together(full, s, q)
  PROVE  Together(full, s, [q EXCEPT ![b] = Append(@, c)])
<1>1. PICK r : \A x \in Buds : Line(full, s[x], q[x], r)
  BY DEF Together
<1>2. Line(full, s[b], Append(q[b], c), After(full, r, c))
  BY <1>1, LineAppend DEF Queues
<1>3. After(full, r, c) = r
  BY LocalAfter
<1> QED BY <1>1, <1>2, <1>3 DEF Together, Queues

LEMMA RanTogether ==
  ASSUME NEW full, NEW s \in [Buds -> Bud], NEW q \in Queues, NEW b \in Buds, q[b] # << >>, NEW u,
         View(full, u) = After(full, View(full, s[b]), Head(q[b])), Together(full, s, q)
  PROVE  Together(full, [s EXCEPT ![b] = u], [q EXCEPT ![b] = Tail(@)])
<1>1. PICK r : \A x \in Buds : Line(full, s[x], q[x], r)
  BY DEF Together
<1>2. Line(full, u, Tail(q[b]), r)
  BY <1>1, LineTail DEF Queues
<1> QED BY <1>1, <1>2 DEF Together, Queues

LEMMA SeenTogether ==
  ASSUME NEW full, NEW s, NEW u, NEW q, Together(full, s, q),
         \A b \in Buds : View(full, u[b]) = View(full, s[b])
  PROVE  Together(full, u, q)
BY DEF Together, Line

-----------------------------------------------------------------------------
(* The commands, as far as they are heard.                                 *)

LEMMA EarFields ==
  ASSUME NEW t, NEW u
  PROVE  Ear(t) = Ear(u) <=> t.player = u.player /\ t.detect = u.detect /\ t.slot0 = u.slot0
<1>1. \A w : Ear(w).player = w.player /\ Ear(w).detect = w.detect /\ Ear(w).slot0 = w.slot0
  BY DEF Ear
<1>2. ASSUME t.player = u.player, t.detect = u.detect, t.slot0 = u.slot0
      PROVE  Ear(t) = Ear(u)
  BY <1>2 DEF Ear
<1>3. ASSUME Ear(t) = Ear(u)
      PROVE  t.player = u.player /\ t.detect = u.detect /\ t.slot0 = u.slot0
  BY ONLY <1>1, <1>3, Zenon
<1> QED BY <1>2, <1>3

\* Two buds that are heard alike detect the same phone first.
LEMMA EarDetect ==
  ASSUME NEW t, NEW u, Ear(t) = Ear(u)
  PROVE  DetectAddr(t) = DetectAddr(u)
<1>1. t.detect = u.detect /\ t.slot0 = u.slot0
  BY EarFields
<1> DEFINE First(d, s) == IF s # None \/ d = {} THEN s ELSE CHOOSE x \in d : TRUE
<1>2. DetectAddr(t) = First(t.detect, t.slot0) /\ DetectAddr(u) = First(u.detect, u.slot0)
  BY DEF DetectAddr
<1> HIDE DEF First
<1> QED BY <1>1, <1>2

LEMMA EarMute ==
  ASSUME NEW t \in Bud, NEW p \in Phones, NEW links
  PROVE  /\ Ear(a2dp_media_mute(t, p, links)) = Ear(t)
         /\ Ear(a2dp_media_unmute(t, p)) = Ear(t)
         /\ Ear(a2dp_media_close(t, p)) = Ear(t)
BY DEF Bud, Ear, a2dp_media_mute, a2dp_media_unmute, a2dp_media_close

LEMMA EarClose ==
  ASSUME NEW t \in Bud, NEW u \in Bud, Ear(t) = Ear(u), NEW p \in Phones
  PROVE  Ear(a2dp_player_close(t, p)) = Ear(a2dp_player_close(u, p))
<1>1. \A w \in {t, u} : LET v == a2dp_player_close(w, p)
                        IN  v.player = Without(w.player, p) /\ v.detect = w.detect /\ v.slot0 = w.slot0
  BY DEF Bud, a2dp_player_close
<1>2. t.player = u.player /\ t.detect = u.detect /\ t.slot0 = u.slot0
  BY EarFields
<1> DEFINE v(w) == a2dp_player_close(w, p)
<1>3. v(t).player = v(u).player /\ v(t).detect = v(u).detect /\ v(t).slot0 = v(u).slot0
  BY <1>1, <1>2
<1> HIDE DEF v
<1>4. Ear(v(t)) = Ear(v(u))
  BY <1>3, EarFields
<1> QED BY <1>4 DEF v

LEMMA EarStop ==
  ASSUME NEW t \in Bud, NEW u \in Bud, Ear(t) = Ear(u), NEW p \in Phones
  PROVE  Ear(bt_stop_a2dp_slience_detect(t, p)) = Ear(bt_stop_a2dp_slience_detect(u, p))
<1> DEFINE v(w) == bt_stop_a2dp_slience_detect(w, p)
<1>1. \A w \in {t, u} : /\ v(w).player = w.player /\ v(w).detect = w.detect \ {p}
                        /\ v(w).slot0 = Without(w.slot0, p)
  BY DEF Bud, bt_stop_a2dp_slience_detect
<1>2. t.player = u.player /\ t.detect = u.detect /\ t.slot0 = u.slot0
  BY EarFields
<1> HIDE DEF v
<1>3. v(t).player = v(u).player /\ v(t).detect = v(u).detect /\ v(t).slot0 = v(u).slot0
  BY <1>1, <1>2
<1>4. Ear(v(t)) = Ear(v(u))
  BY <1>3, EarFields
<1> QED BY <1>4 DEF v

LEMMA EarStart ==
  ASSUME NEW t \in Bud, NEW u \in Bud, Ear(t) = Ear(u), NEW p \in Phones
  PROVE  Ear(bt_start_a2dp_slience_detect(t, p, Phones)) = Ear(bt_start_a2dp_slience_detect(u, p, Phones))
<1> DEFINE v(w) == bt_start_a2dp_slience_detect(w, p, Phones)
<1>1. \A w \in {t, u} : /\ v(w).player = w.player /\ v(w).detect = w.detect \cup {p}
                        /\ v(w).slot0 = IF w.slot0 = None /\ p \notin w.detect THEN p ELSE w.slot0
  BY DEF Bud, bt_start_a2dp_slience_detect
<1>2. t.player = u.player /\ t.detect = u.detect /\ t.slot0 = u.slot0
  BY EarFields
<1> HIDE DEF v
<1>3. v(t).player = v(u).player /\ v(t).detect = v(u).detect /\ v(t).slot0 = v(u).slot0
  BY <1>1, <1>2
<1>4. Ear(v(t)) = Ear(v(u))
  BY <1>3, EarFields
<1> QED BY <1>4 DEF v

LEMMA EarOpen ==
  ASSUME NEW t \in Bud, NEW u \in Bud, Ear(t) = Ear(u), NEW p \in Phones
  PROVE  Ear(a2dp_player_open(t, p, Phones)) = Ear(a2dp_player_open(u, p, Phones))
<1>0. t.player = u.player /\ t.detect = u.detect /\ t.slot0 = u.slot0
  BY EarFields
<1>1. CASE t.player \notin {None, p}
  <2>1. \A w \in {t, u} : a2dp_player_open(w, p, Phones) = bt_start_a2dp_slience_detect(w, p, Phones)
    BY <1>0, <1>1 DEF a2dp_player_open
  <2> QED BY <2>1, EarStart
<1>2. CASE t.player = None
  <2> DEFINE v(w) == [w EXCEPT !.player = p]
  <2>1. \A w \in {t, u} : a2dp_player_open(w, p, Phones) = v(w)
    BY <1>0, <1>2 DEF a2dp_player_open
  <2>2. \A w \in {t, u} : v(w).player = p /\ v(w).detect = w.detect /\ v(w).slot0 = w.slot0
    BY DEF Bud
  <2> HIDE DEF v
  <2>3. Ear(v(t)) = Ear(v(u))
    BY <1>0, <2>2, EarFields
  <2> QED BY <2>1, <2>3
<1>3. CASE t.player = p /\ t.player # None
  <2>1. \A w \in {t, u} : a2dp_player_open(w, p, Phones) = w
    BY <1>0, <1>3 DEF a2dp_player_open
  <2> QED BY <2>1
<1> QED BY <1>1, <1>2, <1>3

LEMMA EarRelease ==
  ASSUME NEW t \in Bud, NEW u \in Bud, Ear(t) = Ear(u), NEW p \in Phones
  PROVE  Ear(Release(t, p)) = Ear(Release(u, p))
<1>1. ASSUME NEW w \in Bud
      PROVE  Ear(Release(w, p)) = Ear(bt_stop_a2dp_slience_detect(w, p))
  <2> DEFINE v == bt_stop_a2dp_slience_detect(w, p)
             m == a2dp_media_unmute(v, p)
  <2>1. v \in Bud
    BY StopFields
  <2> HIDE DEF v
  <2>2. m \in Bud /\ Ear(m) = Ear(v)
    BY <2>1, EarMute, UnmuteFields
  <2> HIDE DEF m
  <2>3. Ear(a2dp_media_close(m, p)) = Ear(m)
    BY <2>2, EarMute
  <2> QED BY <2>2, <2>3 DEF Release, v, m
<1>2. Ear(bt_stop_a2dp_slience_detect(t, p)) = Ear(bt_stop_a2dp_slience_detect(u, p))
  BY EarStop
<1> QED BY <1>1, <1>2

LEMMA EarBackground ==
  ASSUME NEW t \in Bud, NEW u \in Bud, Ear(t) = Ear(u), NEW p \in Phones
  PROVE  Ear(Background(t, p, Phones)) = Ear(Background(u, p, Phones))
<1> DEFINE a(w) == a2dp_player_close(w, p)
           m(w) == a2dp_media_mute(a(w), p, Phones)
<1>1. \A w \in {t, u} : a(w) \in Bud
  BY PlayerCloseFields
<1>2. Ear(a(t)) = Ear(a(u))
  BY EarClose
<1>3. \A w \in {t, u} : m(w) \in Bud /\ Ear(m(w)) = Ear(a(w))
  <2> HIDE DEF a
  <2> QED BY <1>1, MuteFields, EarMute
<1>4. Ear(m(t)) = Ear(m(u))
  <2> HIDE DEF a, m
  <2> QED BY <1>2, <1>3
<1> HIDE DEF a, m
<1>5. Ear(bt_start_a2dp_slience_detect(m(t), p, Phones)) = Ear(bt_start_a2dp_slience_detect(m(u), p, Phones))
  BY <1>3, <1>4, EarStart
<1> QED BY <1>5 DEF Background, a, m

LEMMA EarPlay ==
  ASSUME NEW t \in Bud, NEW u \in Bud, Ear(t) = Ear(u), NEW p \in Phones
  PROVE  Ear(PlayCmd(t, p, Phones)) = Ear(PlayCmd(u, p, Phones))
<1> DEFINE m(w) == a2dp_media_unmute(w, p)
           quiet(w) == bt_stop_a2dp_slience_detect(m(w), p)
           clean(w) == [quiet(w) EXCEPT !.preempted = Without(@, p), !.drop = Without(@, p),
                                        !.switched = FALSE]
           open(w) == a2dp_player_open(clean(w), p, Phones)
<1>1. \A w \in {t, u} : m(w) \in Bud /\ Ear(m(w)) = Ear(w)
  BY UnmuteFields, EarMute
<1> HIDE DEF m
<1>2. \A w \in {t, u} : quiet(w) \in Bud
  BY <1>1, StopFields
<1>3. Ear(quiet(t)) = Ear(quiet(u))
  BY <1>1, EarStop
<1> HIDE DEF quiet
<1>4. ASSUME NEW w \in {t, u} PROVE clean(w) \in Bud /\ Ear(clean(w)) = Ear(quiet(w))
  <2> DEFINE c1 == [quiet(w) EXCEPT !.preempted = Without(@, p)]
             c2 == [c1 EXCEPT !.drop = Without(@, p)]
  <2>1. c1 \in Bud /\ Ear(c1) = Ear(quiet(w))
    BY <1>2 DEF c1, Bud, Addr, Without, Ear
  <2>2. c2 \in Bud /\ Ear(c2) = Ear(quiet(w))
    <3> HIDE DEF c1
    <3> QED BY <2>1 DEF c2, Bud, Addr, Without, Ear
  <2>3. clean(w) = [c2 EXCEPT !.switched = FALSE]
    BY DEF clean, c2, c1
  <2> HIDE DEF c1, c2
  <2> QED BY <2>2, <2>3 DEF Bud, Ear
<1> HIDE DEF clean
<1>5. Ear(open(t)) = Ear(open(u)) /\ \A w \in {t, u} : open(w) \in Bud
  BY <1>3, <1>4, EarOpen, PlayerOpenFields
<1> HIDE DEF open
<1>6. \A w \in {t, u} : Ear([open(w) EXCEPT !.play = None]) = Ear(open(w))
  BY <1>5 DEF Ear, Bud
<1>7. \A w \in {t, u} : PlayCmd(w, p, Phones) = [open(w) EXCEPT !.play = None]
  BY DEF PlayCmd, open, clean, quiet, m
<1> QED BY <1>5, <1>6, <1>7

LEMMA EarSlience ==
  ASSUME NEW t \in Bud, NEW u \in Bud, Ear(t) = Ear(u), NEW p \in Phones
  PROVE  Ear(SlienceCmd(t, p, Phones)) = Ear(SlienceCmd(u, p, Phones))
<1> DEFINE a(w) == a2dp_player_close(w, p)
           d(w) == bt_start_a2dp_slience_detect(a(w), p, Phones)
<1>1. \A w \in {t, u} : a(w) \in Bud
  BY PlayerCloseFields
<1>2. Ear(a(t)) = Ear(a(u))
  BY EarClose
<1> HIDE DEF a
<1>3. \A w \in {t, u} : d(w) \in Bud
  BY <1>1, StartFields
<1>4. Ear(d(t)) = Ear(d(u))
  BY <1>1, <1>2, EarStart
<1> HIDE DEF d
<1>5. \A w \in {t, u} : Ear([d(w) EXCEPT !.slience = None]) = Ear(d(w))
  BY <1>3 DEF Ear, Bud
<1> QED BY <1>4, <1>5 DEF SlienceCmd, a, d

LEMMA EarClosed ==
  ASSUME NEW t \in Bud, NEW u \in Bud, Ear(t) = Ear(u), NEW p \in Phones
  PROVE  /\ Ear(tws_a2dp_player_close(t, p)) = Ear(tws_a2dp_player_close(u, p))
         /\ Ear(CloseCmd(t, p)) = Ear(CloseCmd(u, p))
<1> DEFINE c(w) == tws_a2dp_player_close(w, p)
           a(w) == a2dp_player_close(w, p)
<1>1. \A w \in {t, u} : a(w) \in Bud
  BY PlayerCloseFields
<1>2. Ear(a(t)) = Ear(a(u))
  BY EarClose
<1>3. \A w : c(w) = Release(a(w), p)
  BY DEF tws_a2dp_player_close, Release
<1> HIDE DEF a
<1>4. Ear(c(t)) = Ear(c(u))
  <2> HIDE DEF c
  <2> QED BY <1>1, <1>2, <1>3, EarRelease
<1>5. \A w \in {t, u} : c(w) \in Bud
  BY PlayerCloseAllFields
<1> HIDE DEF c
<1>6. DetectAddr(c(t)) = DetectAddr(c(u)) /\ DetectAddr(c(t)) \in Addr
  BY <1>4, <1>5, EarDetect, DetectAddrType
<1>7. Ear(CloseCmd(t, p)) = Ear(CloseCmd(u, p))
  <2>1. CASE DetectAddr(c(t)) = None
    BY <1>4, <1>6, <2>1 DEF CloseCmd, c
  <2>2. CASE DetectAddr(c(t)) # None
    <3>1. DetectAddr(c(t)) \in Phones
      BY <1>6, <2>2 DEF Addr
    <3>2. Ear(Release(c(t), DetectAddr(c(t)))) = Ear(Release(c(u), DetectAddr(c(u))))
      BY <1>4, <1>5, <1>6, <3>1, EarRelease
    <3> QED BY <1>6, <2>2, <3>2 DEF CloseCmd, c
  <2> QED BY <2>1, <2>2
<1> QED BY <1>4, <1>7 DEF c

LEMMA EarSwitch ==
  ASSUME NEW t \in Bud, NEW u \in Bud, Ear(t) = Ear(u), NEW p \in Phones
  PROVE  Ear(SwitchCmd(t, p, Phones)) = Ear(SwitchCmd(u, p, Phones))
<1>1. DetectAddr(t) = DetectAddr(u) /\ DetectAddr(t) \in Addr
  BY EarDetect, DetectAddrType
<1>2. CASE DetectAddr(t) = None
  BY <1>1, <1>2 DEF SwitchCmd
<1>3. CASE DetectAddr(t) # None
  <2> DEFINE o == DetectAddr(t)
             g(w) == Background(w, p, Phones)
  <2>1. o \in Phones
    BY <1>1, <1>3 DEF Addr
  <2>2. Ear(g(t)) = Ear(g(u))
    BY EarBackground
  <2>3. \A w \in {t, u} : g(w) \in Bud
    BY BackgroundType
  <2> HIDE DEF o, g
  <2>4. Ear(Release(g(t), o)) = Ear(Release(g(u), o))
    BY <2>1, <2>2, <2>3, EarRelease
  <2> QED BY <1>1, <1>3, <2>4 DEF SwitchCmd, o, g
<1> QED BY <1>2, <1>3

\* Where no call comes in between, a command makes of a bud what it makes of any that is
\* heard alike.
LEMMA EarRuns ==
  ASSUME NEW t \in Bud, NEW c \in Cmds, c.cmd \in SharedCmds \ {"OPEN_ESCO", "CLOSE_ESCO"},
         NEW sco
  PROVE  Ear(InTask(t, c, Phones, sco)) = EarAfter(Ear(t), c)
<1> DEFINE u == Bare(Ear(t))
           p == c.addr
<1>1. u \in Bud /\ Ear(u) = Ear(t) /\ p \in Phones
  <2>1. Ear(t).player = t.player /\ Ear(t).detect = t.detect /\ Ear(t).slot0 = t.slot0
    BY DEF Ear
  <2>2. t.player \in Addr /\ t.detect \in SUBSET Phones /\ t.slot0 \in Addr
    BY DEF Bud
  <2>3. Idle \in Bud
    BY DEF Idle, Bud, Addr
  <2>4. u \in Bud /\ u.player = t.player /\ u.detect = t.detect /\ u.slot0 = t.slot0
    BY <2>1, <2>2, <2>3 DEF Bare, Bud
  <2>5. Ear(u) = Ear(t)
    BY <2>4, EarFields
  <2> QED BY <2>4, <2>5 DEF Cmds
<1>2. c.cmd \in {"PLAY", "SLIENCE_DETECT", "CLOSE", "SWITCH", "MUTE", "MUTE_BY_CALL"}
  BY DEF SharedCmds
<1>3. EarAfter(Ear(t), c) = Ear(InTask(u, c, Phones, FALSE))
  BY <1>2 DEF EarAfter, LocalCmds
<1> HIDE DEF u, p
<1>4. CASE c.cmd = "PLAY"
  <2>1. InTask(t, c, Phones, sco) = PlayCmd(t, p, Phones) /\ InTask(u, c, Phones, FALSE) = PlayCmd(u, p, Phones)
    BY <1>4 DEF InTask, p
  <2>2. Ear(PlayCmd(t, p, Phones)) = Ear(PlayCmd(u, p, Phones))
    BY <1>1, EarPlay
  <2> QED BY <1>3, <2>1, <2>2
<1>5. CASE c.cmd = "SLIENCE_DETECT"
  <2>1. InTask(t, c, Phones, sco) = SlienceCmd(t, p, Phones) /\ InTask(u, c, Phones, FALSE) = SlienceCmd(u, p, Phones)
    BY <1>5 DEF InTask, p
  <2>2. Ear(SlienceCmd(t, p, Phones)) = Ear(SlienceCmd(u, p, Phones))
    BY <1>1, EarSlience
  <2> QED BY <1>3, <2>1, <2>2
<1>6. CASE c.cmd = "CLOSE"
  <2>1. InTask(t, c, Phones, sco) = CloseCmd(t, p) /\ InTask(u, c, Phones, FALSE) = CloseCmd(u, p)
    BY <1>6 DEF InTask, p
  <2>2. Ear(CloseCmd(t, p)) = Ear(CloseCmd(u, p))
    BY <1>1, EarClosed
  <2> QED BY <1>3, <2>1, <2>2
<1>7. CASE c.cmd = "SWITCH"
  <2>1. InTask(t, c, Phones, sco) = SwitchCmd(t, p, Phones) /\ InTask(u, c, Phones, FALSE) = SwitchCmd(u, p, Phones)
    BY <1>7 DEF InTask, p
  <2>2. Ear(SwitchCmd(t, p, Phones)) = Ear(SwitchCmd(u, p, Phones))
    BY <1>1, EarSwitch
  <2> QED BY <1>3, <2>1, <2>2
<1>8. CASE c.cmd \in {"MUTE", "MUTE_BY_CALL"}
  <2> DEFINE g(w) == Background(w, p, Phones)
  <2>1. \A w \in {t, u} : g(w) \in Bud
    BY <1>1, BackgroundType
  <2>2. Ear(g(t)) = Ear(g(u))
    BY <1>1, EarBackground
  <2>3. \A w, b : InTask(w, c, Phones, b) \in {MuteCmd(w, p, Phones), MuteByCallCmd(w, p, Phones)}
    BY <1>8 DEF InTask, p
  <2>4. \A w : /\ MuteCmd(w, p, Phones) = [g(w) EXCEPT !.slience = None]
               /\ MuteByCallCmd(w, p, Phones) = [g(w) EXCEPT !.preempted = p, !.energy = None]
    BY DEF MuteCmd, MuteByCallCmd
  <2> HIDE DEF g
  <2>5. \A w \in {t, u} : /\ Ear([g(w) EXCEPT !.slience = None]) = Ear(g(w))
                          /\ Ear([g(w) EXCEPT !.preempted = p, !.energy = None]) = Ear(g(w))
    BY <2>1 DEF Ear, Bud
  <2>6. Ear(InTask(t, c, Phones, sco)) = Ear(g(t))
    BY <2>3, <2>4, <2>5, Zenon
  <2>7. Ear(InTask(u, c, Phones, FALSE)) = Ear(g(u))
    BY <2>3, <2>4, <2>5, Zenon
  <2> QED BY <1>3, <2>2, <2>6, <2>7
<1> QED BY <1>2, <1>4, <1>5, <1>6, <1>7, <1>8

\* Without silence the player depends on the commands alone, also when they open and end
\* a call: music gives way to each call that is opened.
LEMMA PlayerRuns ==
  ASSUME NEW t \in Bud, NEW c \in Cmds, c.cmd \in SharedCmds \ {"SWITCH"}, NEW sco \in BOOLEAN,
         c.cmd = "OPEN_ESCO" => t.player = None \/ (t.esco = None /\ sco)
  PROVE  InTask(t, c, Phones, sco).player = PlayedAfter(t.player, c)
<1> DEFINE p == c.addr
           u == InTask(t, c, Phones, sco)
<1>1. p \in Phones /\ p # None
  BY NoneIsNoPhone DEF Cmds
<1>2. c.cmd \in {"PLAY", "SLIENCE_DETECT", "CLOSE", "MUTE", "MUTE_BY_CALL", "OPEN_ESCO", "CLOSE_ESCO"}
  BY DEF SharedCmds
<1> DEFINE x == Without(t.player, p)
<1>3. CASE c.cmd = "PLAY"
  <2> DEFINE m == a2dp_media_unmute(t, p)
             quiet == bt_stop_a2dp_slience_detect(m, p)
             clean == [quiet EXCEPT !.preempted = Without(@, p), !.drop = Without(@, p),
                                    !.switched = FALSE]
             open == a2dp_player_open(clean, p, Phones)
  <2>1. m \in Bud /\ m.player = t.player
    BY <1>1, UnmuteFields
  <2> HIDE DEF m
  <2>2. quiet \in Bud /\ quiet.player = t.player
    BY <1>1, <2>1, StopFields
  <2> HIDE DEF quiet
  <2>3. clean \in Bud /\ clean.player = t.player
    <3> DEFINE c1 == [quiet EXCEPT !.preempted = Without(@, p)]
               c2 == [c1 EXCEPT !.drop = Without(@, p)]
    <3>1. c1 \in Bud /\ c1.player = t.player
      BY <1>1, <2>2 DEF Bud, Addr, Without
    <3>2. c2 \in Bud /\ c2.player = t.player
      <4> HIDE DEF c1
      <4> QED BY <1>1, <3>1 DEF Bud, Addr, Without
    <3>3. clean = [c2 EXCEPT !.switched = FALSE]
      OBVIOUS
    <3> HIDE DEF c1, c2
    <3> QED BY <3>2, <3>3 DEF Bud
  <2> HIDE DEF clean, p
  <2>4. open.player = IF t.player = None THEN p ELSE t.player
    <3>1. CASE clean.player \notin {None, p}
      <4>1. open = bt_start_a2dp_slience_detect(clean, p, Phones)
        BY <3>1 DEF a2dp_player_open
      <4> HIDE DEF open
      <4> QED BY <1>1, <2>3, <3>1, <4>1, StartFields
    <3>2. CASE clean.player = None
      BY <1>1, <2>3, <3>2 DEF a2dp_player_open, Bud
    <3>3. CASE clean.player = p
      BY <1>1, <2>3, <3>3 DEF a2dp_player_open
    <3> QED BY <3>1, <3>2, <3>3
  <2>5. open \in Bud
    BY <1>1, <2>3, PlayerOpenFields
  <2>6. u = [open EXCEPT !.play = None]
    BY <1>3 DEF InTask, PlayCmd, m, quiet, clean, p
  <2> HIDE DEF open, u
  <2>7. u.player = open.player
    BY <2>5, <2>6 DEF Bud
  <2> QED BY <1>3, <2>4, <2>7 DEF PlayedAfter, p, u
<1>4. CASE c.cmd \in {"SLIENCE_DETECT", "MUTE", "MUTE_BY_CALL"}
  <2> DEFINE a == a2dp_player_close(t, p)
             m == a2dp_media_mute(a, p, Phones)
             d == bt_start_a2dp_slience_detect(a, p, Phones)
             g == bt_start_a2dp_slience_detect(m, p, Phones)
  <2>1. a \in Bud /\ a.player = x
    BY <1>1, PlayerCloseFields
  <2> HIDE DEF a
  <2>2. m \in Bud /\ m.player = x
    BY <1>1, <2>1, MuteFields
  <2> HIDE DEF m
  <2>3. d \in Bud /\ d.player = x /\ g \in Bud /\ g.player = x
    BY <1>1, <2>1, <2>2, StartFields
  <2>4. \/ u = [d EXCEPT !.slience = None]
        \/ u = [g EXCEPT !.slience = None]
        \/ u = [g EXCEPT !.preempted = p, !.energy = None]
    BY <1>4 DEF InTask, SlienceCmd, MuteCmd, MuteByCallCmd, Background, a, m
  <2> HIDE DEF d, g, u
  <2>5. u.player = x
    BY <2>3, <2>4 DEF Bud
  <2> QED BY <1>4, <2>5 DEF PlayedAfter, u
<1>5. CASE c.cmd = "CLOSE"
  <2> DEFINE v == tws_a2dp_player_close(t, p)
             o == DetectAddr(v)
  <2>1. v \in Bud /\ v.player = x
    BY <1>1, PlayerCloseAllFields
  <2>2. u = IF o = None THEN v ELSE Release(v, o)
    BY <1>5 DEF InTask, CloseCmd
  <2> HIDE DEF v, u
  <2>3. o = None \/ o \in Phones
    BY <2>1, DetectAddrType DEF Addr
  <2> HIDE DEF o
  <2>4. u.player = x
    BY <2>1, <2>2, <2>3, ReleaseFields
  <2> QED BY <1>5, <2>4 DEF PlayedAfter, u
<1>6. CASE c.cmd = "OPEN_ESCO"
  <2> DEFINE y == t.player
             z == a2dp_player_close(t, y)
             w == IF y = None THEN t ELSE a2dp_media_close(z, y)
             v == bt_stop_a2dp_slience_detect(w, p)
             k == a2dp_media_close(v, p)
  <2>1. w \in Bud /\ w.player = None
    <3>1. CASE y = None
      BY <3>1
    <3>2. CASE y # None
      <4>1. y \in Phones
        BY <3>2 DEF Bud, Addr
      <4>2. z \in Bud /\ z.player = None
        BY <4>1, PlayerCloseFields DEF Without
      <4> HIDE DEF z
      <4> QED BY <3>2, <4>1, <4>2, MediaCloseFields
    <3> QED BY <3>1, <3>2
  <2> HIDE DEF w
  <2>2. v \in Bud /\ v.player = None
    BY <1>1, <2>1, StopFields
  <2> HIDE DEF v
  <2>3. k \in Bud /\ k.player = None
    BY <1>1, <2>2, MediaCloseFields
  <2>4. u = IF t.esco # None \/ ~sco THEN t ELSE [k EXCEPT !.esco = p]
    BY <1>6 DEF InTask, bt_phone_esco_play, w, v
  <2> HIDE DEF k, u
  <2>5. u.player = None
    BY <1>6, <2>3, <2>4 DEF Bud
  <2> QED BY <1>6, <2>5 DEF PlayedAfter, u
<1>7. CASE c.cmd = "CLOSE_ESCO"
  BY <1>7 DEF InTask, bt_phone_esco_stop, PlayedAfter, Bud
<1> QED BY <1>2, <1>3, <1>4, <1>5, <1>6, <1>7

-----------------------------------------------------------------------------
(* The handlers, as far as they are heard. *)

Whole == tws /\ monitor = Phones /\ \A p \in Phones : phone[p].link

\* While the links hold, the lines of both buds lead to the same.
Music(full) ==
  /\ Whole
  /\ full => \A p \in Phones : phone[p].call = "none" /\ phone[p].bye = {}
  /\ Together(full, bud, queue)

MusicInv == "link" \notin past => \A full \in BOOLEAN : Cause(full) \notin past => Music(full)

\* The phones have at most been told something.
Spoken(f) ==
  \A x \in Phones :
    f[x].link = phone[x].link /\ f[x].call = phone[x].call /\ f[x].bye = phone[x].bye

LEMMA TellSpoken ==
  ASSUME phone \in [Phones -> Phone], NEW p \in Phones, NEW what
  PROVE  Spoken(phone) /\ Spoken(Tell(p, what))
<1>1. Spoken(phone)
  BY DEF Spoken
<1>2. CASE Tell(p, what) = phone
  BY <1>1, <1>2
<1>3. CASE Tell(p, what) # phone
  <2>1. Tell(p, what) = [phone EXCEPT ![p].told = Append(@, what)]
    BY <1>3 DEF Tell
  <2>2. ASSUME NEW x \in Phones
        PROVE  LET g == Tell(p, what)[x]
               IN  g.link = phone[x].link /\ g.call = phone[x].call /\ g.bye = phone[x].bye
    <3>1. phone[x] \in Phone
      OBVIOUS
    <3>2. CASE x = p
      <4>1. Tell(p, what)[x] = [phone[p] EXCEPT !.told = Append(@, what)]
        BY <2>1, <3>2
      <4> QED BY <3>1, <3>2, <4>1 DEF Phone
    <3>3. CASE x # p
      BY <2>1, <3>3
    <3> QED BY <3>2, <3>3
  <2> QED BY <1>1, <2>2 DEF Spoken
<1> QED BY <1>2, <1>3

LEMMA Settles ==
  ASSUME NEW full \in BOOLEAN, Music(full), Spoken(phone'), UNCHANGED <<tws, monitor>>,
         Together(full, bud', queue')
  PROVE  Music(full)'
BY DEF Music, Whole, Spoken

LEMMA NoEsco ==
  ASSUME A2dpInv, Music(TRUE), NEW b \in Buds
  PROVE  bud[b].esco = None
<1> SUFFICES ASSUME bud[b].esco # None PROVE FALSE
  OBVIOUS
<1>1. Leaves(bud[b].esco, queue[b], Ups, Links(b))
  BY DEF A2dpInv, Calls, CallQueue
<1>2. Ups = {}
  BY DEF Music, Ups
<1>3. PICK i \in DOMAIN queue[b] : EndsCall(queue[b][i], bud[b].esco)
  BY <1>1, <1>2 DEF Leaves
<1>4. queue[b][i].cmd \notin Barred(TRUE)
  BY DEF Music, Together, Line
<1> QED BY <1>3, <1>4 DEF EndsCall, Barred

LEMMA ViewOf ==
  ASSUME NEW full \in BOOLEAN, NEW t, NEW u, t.player = u.player,
         full => t.detect = u.detect /\ t.slot0 = u.slot0
  PROVE  View(full, t) = View(full, u)
BY EarFields DEF View

LEMMA EarView ==
  ASSUME NEW full \in BOOLEAN, NEW t, NEW u, Ear(t) = Ear(u)
  PROVE  View(full, t) = View(full, u)
BY EarFields DEF View

LEMMA RememberEar ==
  ASSUME NEW t \in Bud, NEW c \in Cmds
  PROVE  Ear(Remember(t, c)) = Ear(t)
<1>1. CASE c.cmd = "PLAY"
  BY <1>1 DEF Remember, Ear, Bud
<1>2. CASE c.cmd \in {"SLIENCE_DETECT", "MUTE"}
  BY <1>2 DEF Remember, Ear, Bud
<1>3. CASE c.cmd \notin {"PLAY", "SLIENCE_DETECT", "MUTE"}
  BY <1>3 DEF Remember
<1> QED BY <1>1, <1>2, <1>3

LEMMA SendsTogether ==
  ASSUME tws, NEW full \in BOOLEAN, NEW b \in Buds, NEW w \in Work, NEW c \in SharedCmds,
         c \notin Barred(full), NEW p \in Phones, NEW s, Together(full, s, w.q)
  PROVE  LET v == Sends(b, w, Cmd(c, p))
         IN  v \in Work /\ Together(full, s, v.q) /\ Ear(v.s) = Ear(w.s)
<1> DEFINE k == Cmd(c, p)
           v == Sends(b, w, k)
<1>1. k \in Cmds /\ k.cmd = c /\ k.both
  BY CmdType
<1>2. v \in Work
  BY SharedType
<1> HIDE DEF k
<1>3. v.s = Remember(w.s, k) /\ v.q = [x \in Buds |-> Append(w.q[x], k)]
  BY <1>1 DEF Sends
<1> HIDE DEF v
<1>4. w.s \in Bud /\ w.q \in Queues
  BY DEF Work
<1>5. Ear(v.s) = Ear(w.s)
  BY <1>1, <1>3, <1>4, RememberEar
<1>6. Together(full, s, v.q)
  BY <1>1, <1>3, <1>4, SentTogether
<1> QED BY <1>2, <1>5, <1>6 DEF k, v

LEMMA ReturnsTogether ==
  ASSUME bud \in [Buds -> Bud], NEW full \in BOOLEAN, NEW b \in Buds, NEW w, Returns(b, w),
         View(full, w.s) = View(full, bud[b]), Together(full, bud, w.q)
  PROVE  Together(full, bud', queue')
<1>1. \A x \in Buds : View(full, bud'[x]) = View(full, bud[x])
  BY DEF Returns
<1>2. Together(full, bud, queue')
  BY DEF Returns
<1> QED BY <1>1, <1>2, SeenTogether

LEMMA PostTogether ==
  ASSUME bud \in [Buds -> Bud], queue \in Queues, NEW full \in BOOLEAN, NEW b \in Buds, NEW t,
         NEW c \in LocalCmds, c \notin Barred(full), NEW p \in Phones, Post(b, t, Cmd(c, p)),
         View(full, t) = View(full, bud[b]), Together(full, bud, queue)
  PROVE  Together(full, bud', queue')
<1>1. Cmd(c, p) \in Cmds /\ Cmd(c, p).cmd = c
  BY CmdType
<1>2. Together(full, bud, queue')
  BY <1>1, PostedTogether DEF Post
<1>3. \A x \in Buds : View(full, bud'[x]) = View(full, bud[x])
  BY DEF Post
<1> QED BY <1>2, <1>3, SeenTogether

LEMMA PopTogether ==
  ASSUME bud \in [Buds -> Bud], queue \in Queues, NEW full \in BOOLEAN, NEW b \in Buds,
         queue[b] # << >>, Head(queue[b]).cmd \in LocalCmds, Together(full, bud, queue)
  PROVE  Together(full, bud, Popped(b))
<1>1. View(full, bud[b]) = After(full, View(full, bud[b]), Head(queue[b]))
  BY LocalAfter
<1>2. Together(full, [bud EXCEPT ![b] = bud[b]], [queue EXCEPT ![b] = Tail(@)])
  BY <1>1, RanTogether
<1>3. [bud EXCEPT ![b] = bud[b]] = bud
  OBVIOUS
<1> QED BY <1>2, <1>3 DEF Popped

LEMMA HeadAllowed ==
  ASSUME queue \in Queues, NEW full, NEW b \in Buds, queue[b] # << >>, Together(full, bud, queue)
  PROVE  Head(queue[b]).cmd \notin Barred(full)
<1>1. Head(queue[b]) = queue[b][1] /\ 1 \in DOMAIN queue[b]
  BY TailFacts DEF Queues
<1> QED BY <1>1 DEF Together, Line

LEMMA RunCommandMusic ==
  ASSUME A2dpInv, NEW full \in BOOLEAN, Music(full), NEW b \in Buds, RunCommand(b)
  PROVE  Music(full)'
<1> DEFINE t == bud[b]
           c == Head(queue[b])
           sco == EscoLink(b)
           u == InTask(t, c, Links(b), sco)
<1>0. bud \in [Buds -> Bud] /\ queue \in Queues /\ phone \in [Phones -> Phone] /\ Sane(t)
  BY MasterOf
<1>1. /\ queue[b] # << >> /\ c.cmd \in SharedCmds /\ bud' = [bud EXCEPT ![b] = u]
      /\ queue' = Popped(b) /\ UNCHANGED <<phone, tws, monitor>>
  BY <1>0 DEF RunCommand, Heads
<1>2. c \in Cmds /\ sco \in BOOLEAN /\ t \in Bud /\ c.cmd \notin Barred(full)
  BY <1>0, <1>1, PoppedType, HeadAllowed DEF EscoLink, Music
<1>3. Links(b) = Phones
  BY DEF Music, Whole, Links, Receives
<1>4. c.cmd = "OPEN_ESCO" => t.player = None \/ (t.esco = None /\ sco)
  <2> SUFFICES ASSUME c.cmd = "OPEN_ESCO" PROVE t.player = None \/ (t.esco = None /\ sco)
    OBVIOUS
  <2>1. queue[b][1] = c /\ 1 \in DOMAIN queue[b]
    BY <1>0, <1>1, TailFacts DEF Queues
  <2>2. OpensLast(queue[b], b = master, Ups)
    BY DEF A2dpInv, Calls, CallQueue
  <2>3. c.addr \in Ups
    BY <2>1, <2>2 DEF OpensLast
  <2>4. sco
    BY <1>3, <2>3 DEF EscoLink, Ups
  <2>5. t.player = None \/ t.esco = None
    BY <1>0 DEF Sane
  <2> QED BY <2>4, <2>5
<1> HIDE DEF t, c, sco
<1>5. View(full, u) = After(full, View(full, t), c)
  <2>1. CASE full
    <3>1. c.cmd \in SharedCmds \ {"OPEN_ESCO", "CLOSE_ESCO"}
      BY <1>1, <1>2, <2>1 DEF Barred
    <3>2. Ear(u) = EarAfter(Ear(t), c)
      BY <1>2, <1>3, <3>1, EarRuns
    <3> QED BY <2>1, <3>2 DEF View, After
  <2>2. CASE ~full
    <3>1. c.cmd \in SharedCmds \ {"SWITCH"}
      BY <1>1, <1>2, <2>2 DEF Barred
    <3>2. u.player = PlayedAfter(t.player, c)
      BY <1>2, <1>3, <1>4, <3>1, PlayerRuns
    <3> QED BY <2>2, <3>2 DEF View, After
  <2> QED BY <2>1, <2>2
<1> HIDE DEF u
<1>6. Together(full, bud', queue')
  <2>1. Together(full, [bud EXCEPT ![b] = u], [queue EXCEPT ![b] = Tail(@)])
    BY <1>0, <1>1, <1>5, RanTogether DEF Music, t, c
  <2> QED BY <1>1, <2>1 DEF Popped
<1>7. Spoken(phone')
  BY <1>1 DEF Spoken
<1> QED BY <1>1, <1>6, <1>7, Settles

LEMMA A2dpStartMusic ==
  ASSUME A2dpInv, NEW full \in BOOLEAN, Music(full), NEW b \in Buds, A2dpStart(b)
  PROVE  Music(full)'
<1> DEFINE c == Head(queue[b])
           p == c.addr
           x == bud[b].player
           w == With(bud[b], Popped(b))
           m == Sends(b, w, Cmd("MUTE", x))
<1>0. /\ bud \in [Buds -> Bud] /\ queue \in Queues /\ phone \in [Phones -> Phone] /\ bud[b] \in Bud
      /\ Together(full, bud, queue) /\ tws
  BY MasterOf DEF Music, Whole
<1>1. /\ queue[b] # << >> /\ c.cmd \in LocalCmds
      /\ UNCHANGED <<tws, monitor>>
      /\ \/ x = None /\ Returns(b, Sends(b, w, Cmd("PLAY", p))) /\ phone' = phone
         \/ x # None /\ Returns(b, Sends(b, m, Cmd("PLAY", p))) /\ phone' = Tell(x, "pause")
  BY DEF A2dpStart, Heads, LocalCmds
<1>2. p \in Phones /\ Popped(b) \in Queues
  BY <1>0, <1>1, PoppedType DEF Cmds
<1>3. x \in Phones \cup {None}
  BY <1>0 DEF Bud, Addr
<1>4. w \in Work /\ w.s = bud[b] /\ Together(full, bud, w.q)
  BY <1>0, <1>1, <1>2, WithType, PopTogether
<1>5. "PLAY" \in SharedCmds \ Barred(full) /\ "MUTE" \in SharedCmds \ Barred(full)
  BY DEF SharedCmds, Barred
<1> HIDE DEF c, p, w, x
<1>6. CASE x = None
  <2> DEFINE v == Sends(b, w, Cmd("PLAY", p))
  <2>1. Together(full, bud, v.q) /\ Ear(v.s) = Ear(w.s)
    BY <1>0, <1>2, <1>4, <1>5, SendsTogether
  <2>2. Returns(b, v) /\ phone' = phone
    BY <1>1, <1>6
  <2> HIDE DEF v
  <2>3. Together(full, bud', queue')
    BY <1>0, <1>4, <2>1, <2>2, EarView, ReturnsTogether
  <2> QED BY <1>1, <2>2, <2>3, Settles DEF Spoken
<1>7. CASE x # None
  <2>1. x \in Phones
    BY <1>3, <1>7
  <2>2. m \in Work /\ Together(full, bud, m.q) /\ Ear(m.s) = Ear(w.s)
    BY <1>0, <1>4, <1>5, <2>1, SendsTogether
  <2> HIDE DEF m
  <2> DEFINE v == Sends(b, m, Cmd("PLAY", p))
  <2>3. Together(full, bud, v.q) /\ Ear(v.s) = Ear(m.s)
    BY <1>0, <1>2, <1>5, <2>2, SendsTogether
  <2>4. Returns(b, v) /\ phone' = Tell(x, "pause")
    BY <1>1, <1>7
  <2> HIDE DEF v
  <2>5. Together(full, bud', queue')
    BY <1>0, <1>4, <2>2, <2>3, <2>4, EarView, ReturnsTogether
  <2> QED BY <1>0, <1>1, <2>1, <2>4, <2>5, TellSpoken, Settles
<1> QED BY <1>6, <1>7

\* Silence is reported of a bud that plays; both run the SWITCH.
LEMMA NoEnergyMusic ==
  ASSUME A2dpInv, NEW full \in BOOLEAN, Music(full), NEW b \in Buds, A2dpNoEnergy(b)
  PROVE  Music(full)'
<1> DEFINE c == Head(queue[b])
           p == c.addr
           w == With(bud[b], Popped(b))
           v == Sends(b, w, Cmd("SWITCH", p))
<1>0. /\ bud \in [Buds -> Bud] /\ queue \in Queues /\ bud[b] \in Bud
      /\ Together(full, bud, queue) /\ tws
  BY MasterOf DEF Music, Whole
<1>1. /\ queue[b] # << >> /\ c.cmd = "NO_ENERGY"
      /\ UNCHANGED <<phone, tws, monitor>>
      /\ Returns(b, w) \/ Returns(b, v)
  BY DEF A2dpNoEnergy, Heads
<1>2. p \in Phones /\ Popped(b) \in Queues /\ c.cmd \notin Barred(full) /\ c.cmd \in LocalCmds
  BY <1>0, <1>1, PoppedType, HeadAllowed DEF Cmds, LocalCmds
<1>3. "SWITCH" \in SharedCmds \ Barred(full)
  BY <1>1, <1>2 DEF SharedCmds, Barred
<1>4. w \in Work /\ w.s = bud[b] /\ Together(full, bud, w.q)
  BY <1>0, <1>1, <1>2, WithType, PopTogether
<1> HIDE DEF c, p, w
<1>5. Together(full, bud, v.q) /\ Ear(v.s) = Ear(w.s)
  BY <1>0, <1>2, <1>3, <1>4, SendsTogether
<1> HIDE DEF v
<1>6. Together(full, bud', queue')
  <2>1. CASE Returns(b, w)
    BY <1>0, <1>4, <2>1, ReturnsTogether
  <2>2. CASE Returns(b, v)
    BY <1>0, <1>4, <1>5, <2>2, EarView, ReturnsTogether
  <2> QED BY <1>1, <2>1, <2>2
<1> QED BY <1>1, <1>6, Settles DEF Spoken

LEMMA SendPlayMusic ==
  ASSUME A2dpInv, NEW full \in BOOLEAN, Music(full), NEW b \in Buds, SendPlayCmd(b)
  PROVE  Music(full)'
<1>0. bud \in [Buds -> Bud] /\ queue \in Queues /\ phone \in [Phones -> Phone]
      /\ Together(full, bud, queue)
  BY MasterOf DEF Music
<1>1. /\ queue[b] # << >> /\ Head(queue[b]).cmd \in LocalCmds
      /\ UNCHANGED <<bud, tws, monitor>> /\ queue' = Popped(b)
      /\ phone' \in {phone, Tell(Head(queue[b]).addr, "play")}
  BY DEF SendPlayCmd, Heads, LocalCmds
<1>2. Head(queue[b]).addr \in Phones
  BY <1>0, <1>1, PoppedType DEF Cmds
<1>3. Together(full, bud', queue')
  BY <1>0, <1>1, PopTogether
<1>4. Spoken(phone')
  BY <1>0, <1>1, <1>2, TellSpoken
<1> QED BY <1>1, <1>3, <1>4, Settles

\* No phone is reported lost while all are there.
LEMMA LinkDetachMusic ==
  ASSUME A2dpInv, NEW full \in BOOLEAN, Music(full), NEW b \in Buds
  PROVE  ~LinkDetach(b)
<1>0. queue \in Queues
  BY MasterOf
<1> QED BY <1>0, HeadAllowed DEF LinkDetach, Heads, Barred, Music

LEMMA StillMusic ==
  ASSUME NEW full \in BOOLEAN, Music(full), Spoken(phone'), UNCHANGED <<tws, monitor, queue>>,
         \A b \in Buds : View(full, bud'[b]) = View(full, bud[b])
  PROVE  Music(full)'
<1>1. Together(full, bud', queue')
  BY SeenTogether DEF Music
<1> QED BY <1>1, Settles

LEMMA TimerMusic ==
  ASSUME A2dpInv, NEW full \in BOOLEAN, Music(full), Cause(full) \notin past', NEW b \in Buds,
         TryPlayPreempted(b) \/ ResumedEnergy(b) \/ NoEnergy(b)
  PROVE  Music(full)'
<1>0. /\ bud \in [Buds -> Bud] /\ queue \in Queues /\ phone \in [Phones -> Phone] /\ bud[b] \in Bud
      /\ Together(full, bud, queue) /\ Spoken(phone)
  BY MasterOf DEF Music, Spoken
<1>1. CASE TryPlayPreempted(b)
  <2> DEFINE t == bud[b]
             u == [t EXCEPT !.preempted = None]
             p == t.preempted
  <2>1. /\ Returns(b, Now(t)) \/ Returns(b, Now(u))
        /\ phone' \in {phone, Tell(p, "play")}
        /\ p = None => phone' = phone
        /\ UNCHANGED <<tws, monitor>>
    BY <1>1 DEF TryPlayPreempted
  <2>2. p \in Phones \/ p = None
    BY <1>0 DEF Bud, Addr
  <2>3. Spoken(phone')
    <3> HIDE DEF p
    <3> QED BY <1>0, <2>1, <2>2, TellSpoken
  <2>4. View(full, u) = View(full, t)
    <3>1. u.player = t.player /\ u.detect = t.detect /\ u.slot0 = t.slot0
      BY <1>0 DEF Bud
    <3> HIDE DEF u, t
    <3> QED BY <3>1, ViewOf
  <2>5. queue' = queue /\ \A x \in Buds : View(full, bud'[x]) = View(full, bud[x])
    <3> HIDE DEF u
    <3> QED BY <1>0, <2>1, <2>4 DEF Returns, Now, With
  <2> QED BY <2>1, <2>3, <2>5, StillMusic
<1>2. CASE ResumedEnergy(b)
  <2> DEFINE t == [bud[b] EXCEPT !.energy = None]
             p == bud[b].energy
  <2>1. /\ Returns(b, Now(t)) \/ Post(b, t, Cmd("SEND_PLAY_CMD", p))
        /\ p # None /\ UNCHANGED <<phone, tws, monitor>>
    BY <1>2 DEF ResumedEnergy
  <2>2. p \in Phones
    BY <1>0, <2>1 DEF Bud, Addr
  <2>3. View(full, t) = View(full, bud[b])
    <3>1. t.player = bud[b].player /\ t.detect = bud[b].detect /\ t.slot0 = bud[b].slot0
      BY <1>0 DEF Bud
    <3> HIDE DEF t
    <3> QED BY <3>1, ViewOf
  <2> HIDE DEF t, p
  <2>4. "SEND_PLAY_CMD" \in LocalCmds \ Barred(full)
    BY DEF LocalCmds, Barred
  <2>5. Together(full, bud', queue')
    <3>1. CASE Returns(b, Now(t))
      <4>1. Now(t).s = t /\ Now(t).q = queue
        BY DEF Now, With
      <4> QED BY <1>0, <2>3, <3>1, <4>1, ReturnsTogether
    <3>2. CASE Post(b, t, Cmd("SEND_PLAY_CMD", p))
      BY <1>0, <2>2, <2>3, <2>4, <3>2, PostTogether
    <3> QED BY <2>1, <3>1, <3>2
  <2> QED BY <1>0, <2>1, <2>5, Settles
<1>3. CASE NoEnergy(b)
  <2> DEFINE t == [bud[b] EXCEPT !.switched = TRUE]
             p == bud[b].player
  <2>1. /\ Post(b, t, Cmd("NO_ENERGY", p)) /\ p # None /\ past' = past \cup {"silence"}
        /\ UNCHANGED <<phone, tws, monitor>>
    BY <1>3 DEF NoEnergy
  <2>2. p \in Phones /\ full
    BY <1>0, <2>1 DEF Bud, Addr, Cause
  <2>3. View(full, t) = View(full, bud[b])
    <3>1. t.player = bud[b].player /\ t.detect = bud[b].detect /\ t.slot0 = bud[b].slot0
      BY <1>0 DEF Bud
    <3> HIDE DEF t
    <3> QED BY <3>1, ViewOf
  <2>4. "NO_ENERGY" \in LocalCmds \ Barred(full)
    BY <2>2 DEF LocalCmds, Barred
  <2> HIDE DEF t, p
  <2>5. Together(full, bud', queue')
    BY <1>0, <2>1, <2>2, <2>3, <2>4, PostTogether
  <2> QED BY <1>0, <2>1, <2>5, Settles
<1> QED BY <1>1, <1>2, <1>3

LEMMA BackgroundEnergyMusic ==
  ASSUME A2dpInv, NEW full \in BOOLEAN, Music(full), NEW p \in Phones, BackgroundEnergy(p)
  PROVE  Music(full)'
<1> DEFINE B == bud[master]
           t == [B EXCEPT !.live = @ \ {p}]
<1>0. /\ bud \in [Buds -> Bud] /\ queue \in Queues /\ B \in Bud /\ master \in Buds
      /\ Together(full, bud, queue)
  BY MasterOf DEF Music
<1>1. Post(master, t, Cmd("A2DP_START", p)) /\ UNCHANGED <<phone, tws, monitor>>
  BY DEF BackgroundEnergy
<1>2. View(full, t) = View(full, B)
  <2>1. t.player = B.player /\ t.detect = B.detect /\ t.slot0 = B.slot0
    BY <1>0 DEF Bud
  <2> HIDE DEF t, B
  <2> QED BY <2>1, ViewOf
<1>3. "A2DP_START" \in LocalCmds \ Barred(full)
  BY DEF LocalCmds, Barred
<1> HIDE DEF t
<1>4. Together(full, bud', queue')
  BY <1>0, <1>1, <1>2, <1>3, PostTogether
<1> QED BY <1>1, <1>4, Settles DEF Spoken

\* The master works on t, which is heard like it, and sends at most one command.
LEMMA AnswersTogether ==
  ASSUME A2dpInv, NEW full \in BOOLEAN, Music(full), NEW t \in Bud,
         View(full, t) = View(full, bud[master]), NEW c \in SharedCmds \ Barred(full),
         NEW p \in Phones,
         Returns(master, Now(t)) \/ Returns(master, Sends(master, Now(t), Cmd(c, p)))
  PROVE  Together(full, bud', queue')
<1>0. bud \in [Buds -> Bud] /\ queue \in Queues /\ master \in Buds
      /\ Together(full, bud, queue) /\ tws
  BY MasterOf DEF Music, Whole
<1>1. Now(t) \in Work /\ Now(t).s = t /\ Now(t).q = queue
  BY <1>0, NowType
<1> DEFINE v == Sends(master, Now(t), Cmd(c, p))
<1>2. Together(full, bud, v.q) /\ Ear(v.s) = Ear(t)
  BY <1>0, <1>1, SendsTogether
<1>3. Returns(master, Now(t)) \/ Returns(master, v)
  OBVIOUS
<1> HIDE DEF v
<1>4. CASE Returns(master, Now(t))
  BY <1>0, <1>1, <1>4, ReturnsTogether
<1>5. CASE Returns(master, v)
  <2>1. View(full, v.s) = View(full, bud[master])
    BY <1>2, EarView
  <2> QED BY <1>0, <1>2, <1>5, <2>1, ReturnsTogether
<1> QED BY <1>3, <1>4, <1>5

LEMMA MediaStartMusic ==
  ASSUME A2dpInv, NEW full \in BOOLEAN, Music(full), NEW p \in Phones, MediaStart(p)
  PROVE  Music(full)'
<1> DEFINE B == bud[master]
           t == [B EXCEPT !.started = @ \cup {p}]
<1>0. /\ bud \in [Buds -> Bud] /\ queue \in Queues /\ phone \in [Phones -> Phone] /\ B \in Bud
      /\ master \in Buds /\ Spoken(phone) /\ Spoken(Tell(p, "pause"))
      /\ Other(p) \in Phones
  BY MasterOf, TellSpoken, OtherPhone
<1>1. /\ \/ StartedInCall(t, p) /\ t.esco = Other(p)
         \/ StartedAlone(t, p)
      /\ UNCHANGED <<tws, monitor>>
  BY DEF MediaStart
<1>2. /\ t \in Bud /\ t.player = B.player /\ t.detect = B.detect /\ t.slot0 = B.slot0
      /\ t.esco = B.esco
  BY <1>0 DEF Bud
<1> HIDE DEF t
<1>3. CASE StartedInCall(t, p) /\ t.esco = Other(p)
  <2> DEFINE m == a2dp_media_mute(t, p, Links(master))
             u == bt_start_a2dp_slience_detect(m, p, Links(master))
  <2>1. ~full
    BY <1>0, <1>2, <1>3, NoEsco, NoneIsNoPhone
  <2>2. m \in Bud /\ m.player = B.player
    BY <1>2, MuteFields, LinksType
  <2> HIDE DEF m
  <2>3. u \in Bud /\ u.player = B.player
    BY <2>2, StartFields, LinksType
  <2>4. Returns(master, Now(u)) /\ phone' = Tell(p, "pause")
    BY <1>3 DEF StartedInCall, m
  <2> HIDE DEF u, B
  <2>5. View(full, u) = View(full, B)
    BY <2>1, <2>3 DEF View
  <2>6. "CLOSE" \in SharedCmds \ Barred(full)
    BY DEF SharedCmds, Barred
  <2>7. Together(full, bud', queue')
    BY <2>3, <2>4, <2>5, <2>6, AnswersTogether DEF B
  <2> QED BY <1>0, <1>1, <2>4, <2>7, Settles
<1>4. CASE StartedAlone(t, p)
  <2> DEFINE u == [t EXCEPT !.drop = Without(@, p)]
             c == IF t.player \in {None, p} THEN "PLAY" ELSE "SLIENCE_DETECT"
  <2>1. /\ \/ Returns(master, Sends(master, Now(t), Cmd("MUTE", p)))
           \/ Returns(master, Sends(master, Now(u), Cmd(c, p)))
        /\ phone' = phone
    BY <1>4 DEF StartedAlone
  <2>2. u \in Bud /\ u.player = B.player /\ u.detect = B.detect /\ u.slot0 = B.slot0
    BY <1>2 DEF Bud, Addr, Without
  <2>3. c \in SharedCmds \ Barred(full) /\ "MUTE" \in SharedCmds \ Barred(full)
    BY DEF SharedCmds, Barred
  <2> HIDE DEF u, c, B
  <2>4. View(full, t) = View(full, B) /\ View(full, u) = View(full, B)
    BY <1>2, <2>2, ViewOf
  <2>5. Together(full, bud', queue')
    <3>1. CASE Returns(master, Sends(master, Now(t), Cmd("MUTE", p)))
      BY <1>2, <2>3, <2>4, <3>1, AnswersTogether DEF B
    <3>2. CASE Returns(master, Sends(master, Now(u), Cmd(c, p)))
      BY <2>2, <2>3, <2>4, <3>2, AnswersTogether DEF B
    <3> QED BY <2>1, <3>1, <3>2
  <2> QED BY <1>0, <1>1, <2>1, <2>5, Settles
<1> QED BY <1>1, <1>3, <1>4

LEMMA MediaStopMusic ==
  ASSUME A2dpInv, NEW full \in BOOLEAN, Music(full), NEW p \in Phones, MediaStop(p)
  PROVE  Music(full)'
<1> DEFINE B == bud[master]
           t == [B EXCEPT !.started = @ \ {p}]
           u == [t EXCEPT !.preempted = p, !.energy = None]
<1>0. B \in Bud
  BY MasterOf
<1>1. /\ \/ Returns(master, Sends(master, Now(t), Cmd("CLOSE", p)))
         \/ Returns(master, Sends(master, Now(u), Cmd("CLOSE", p)))
      /\ UNCHANGED <<phone, tws, monitor>>
  BY DEF MediaStop
<1>2. t \in Bud /\ t.player = B.player /\ t.detect = B.detect /\ t.slot0 = B.slot0
  BY <1>0 DEF Bud
<1> HIDE DEF t
<1>3. u \in Bud /\ u.player = B.player /\ u.detect = B.detect /\ u.slot0 = B.slot0
  BY <1>2 DEF Bud, Addr
<1> HIDE DEF u, B
<1>4. "CLOSE" \in SharedCmds \ Barred(full)
  BY DEF SharedCmds, Barred
<1>5. View(full, t) = View(full, B) /\ View(full, u) = View(full, B)
  BY <1>2, <1>3, ViewOf
<1>6. Together(full, bud', queue')
  BY <1>1, <1>2, <1>3, <1>4, <1>5, AnswersTogether DEF B
<1> QED BY <1>1, <1>6, Settles DEF Spoken

LEMMA CallSettles ==
  ASSUME NEW full \in BOOLEAN, ~full, Music(full), \A x \in Phones : phone'[x].link = phone[x].link,
         UNCHANGED <<tws, monitor>>, Together(full, bud', queue')
  PROVE  Music(full)'
BY DEF Music, Whole

LEMMA SuspendedTogether ==
  ASSUME A2dpInv, NEW full \in BOOLEAN, ~full, Music(full), NEW o \in Phones
  PROVE  LET w == Suspended(bud[master], o)
             f == SuspendTold(bud[master], o)
         IN  /\ w \in Work /\ Together(full, bud, w.q)
             /\ View(full, w.s) = View(full, bud[master])
             /\ f \in [Phones -> Phone] /\ \A x \in Phones : f[x].link = phone[x].link
<1> DEFINE B == bud[master]
           w == Suspended(B, o)
           f == SuspendTold(B, o)
           t == [B EXCEPT !.preempted = o, !.energy = None]
           v == Sends(master, Now(t), Cmd("MUTE_BY_CALL", o))
<1>0. /\ B \in Bud /\ queue \in Queues /\ master \in Buds /\ phone \in [Phones -> Phone]
      /\ Together(full, bud, queue) /\ tws
  BY MasterOf DEF Music, Whole
<1>1. w \in {Now(B), v}
  BY DEF Suspended
<1>2. t \in Bud /\ t.player = B.player
  BY <1>0 DEF Bud, Addr
<1>3. f \in {phone, Tell(o, "pause")}
  BY DEF SuspendTold
<1> HIDE DEF B, t, w, f
<1>4. /\ Now(B) \in Work /\ Now(B).s = B /\ Now(B).q = queue
      /\ Now(t) \in Work /\ Now(t).s = t /\ Now(t).q = queue
  BY <1>0, <1>2, NowType
<1>5. "MUTE_BY_CALL" \in SharedCmds \ Barred(full)
  BY DEF SharedCmds, Barred
<1>6. v \in Work /\ Together(full, bud, v.q) /\ Ear(v.s) = Ear(t)
  BY <1>0, <1>4, <1>5, SendsTogether
<1> HIDE DEF v
<1>7. View(full, v.s) = View(full, B)
  BY <1>2, <1>6, EarFields DEF View
<1>8. w \in Work /\ Together(full, bud, w.q) /\ View(full, w.s) = View(full, B)
  BY <1>0, <1>1, <1>4, <1>6, <1>7
<1>9. f \in [Phones -> Phone] /\ \A x \in Phones : f[x].link = phone[x].link
  BY <1>0, <1>3, TellType, TellSpoken DEF Spoken
<1> QED BY <1>8, <1>9 DEF w, f, B

LEMMA CallMusic ==
  ASSUME A2dpInv, NEW full \in BOOLEAN, Music(full), Cause(full) \notin past', NEW p \in Phones,
         ScoConnectionReq(p) \/ ScoUp(p) \/ ScoDown(p) \/ \E ev \in {"hangup", "discon"} : PhoneHangup(p, ev)
  PROVE  Music(full)'
<1> DEFINE B == bud[master]
           o == Other(p)
           w == Suspended(B, o)
           f == SuspendTold(B, o)
<1>0. /\ bud \in [Buds -> Bud] /\ queue \in Queues /\ B \in Bud /\ master \in Buds
      /\ phone \in [Phones -> Phone] /\ phone[p] \in Phone /\ o \in Phones
  BY MasterOf, OtherPhone
<1>1. ~full
  <2>1. CASE ScoConnectionReq(p)
    BY <2>1 DEF ScoConnectionReq, Cause
  <2>2. CASE ScoUp(p) \/ ScoDown(p)
    BY <2>2 DEF ScoUp, ScoDown, Music
  <2>3. CASE \E ev \in {"hangup", "discon"} : PhoneHangup(p, ev)
    BY <2>3 DEF PhoneHangup, Music
  <2> QED BY <2>1, <2>2, <2>3
<1>2. Together(full, bud, queue) /\ tws
  BY DEF Music, Whole
<1>3. /\ w \in Work /\ Together(full, bud, w.q) /\ View(full, w.s) = View(full, B)
      /\ f \in [Phones -> Phone] /\ \A x \in Phones : f[x].link = phone[x].link
  BY <1>0, <1>1, SuspendedTogether
<1> HIDE DEF w, f, B
<1>4. CASE ScoConnectionReq(p)
  <2>1. /\ Returns(master, w) /\ phone' = [f EXCEPT ![p].call = "asked"]
        /\ UNCHANGED <<tws, monitor>>
    BY <1>4 DEF ScoConnectionReq, w, f, B
  <2>2. \A x \in Phones : phone'[x].link = phone[x].link
    BY <1>3, <2>1 DEF Phone
  <2>3. Together(full, bud', queue')
    BY <1>0, <1>3, <2>1, ReturnsTogether DEF B
  <2> QED BY <1>1, <2>1, <2>2, <2>3, CallSettles
<1>5. CASE ScoUp(p)
  <2> DEFINE v == Sends(master, w, Cmd("OPEN_ESCO", p))
  <2>1. /\ Returns(master, v) /\ phone' = [f EXCEPT ![p].call = "up"]
        /\ UNCHANGED <<tws, monitor>>
    BY <1>5 DEF ScoUp, w, f, B
  <2>2. \A x \in Phones : phone'[x].link = phone[x].link
    BY <1>3, <2>1 DEF Phone
  <2>3. "OPEN_ESCO" \in SharedCmds \ Barred(full)
    BY <1>1 DEF SharedCmds, Barred
  <2>4. Together(full, bud, v.q) /\ Ear(v.s) = Ear(w.s)
    <3>1. w \in Work /\ Together(full, bud, w.q) /\ master \in Buds /\ tws
      BY <1>0, <1>2, <1>3
    <3> QED BY <2>3, <3>1, SendsTogether
  <2> HIDE DEF v
  <2>5. View(full, v.s) = View(full, B)
    BY <1>3, <2>4, EarView
  <2>6. Together(full, bud', queue')
    BY <1>0, <2>1, <2>4, <2>5, ReturnsTogether DEF B
  <2> QED BY <1>1, <2>1, <2>2, <2>6, CallSettles
<1>6. CASE ScoDown(p)
  <2>1. /\ \/ Returns(master, Now(B))
           \/ Returns(master, Sends(master, Now(B), Cmd("CLOSE_ESCO", p)))
        /\ phone' = [phone EXCEPT ![p].call = "none", ![p].bye = {"hangup", "discon"}]
        /\ UNCHANGED <<tws, monitor>>
    BY <1>6 DEF ScoDown, B
  <2>2. \A x \in Phones : phone'[x].link = phone[x].link
    <3> DEFINE r == [[phone[p] EXCEPT !.call = "none"] EXCEPT !.bye = {"hangup", "discon"}]
    <3>1. r.link = phone[p].link
      BY <1>0 DEF Phone
    <3>2. phone' = [phone EXCEPT ![p] = r]
      BY <1>0, <2>1
    <3> HIDE DEF r
    <3> QED BY <1>0, <3>1, <3>2
  <2>3. "CLOSE_ESCO" \in SharedCmds \ Barred(full)
    BY <1>1 DEF SharedCmds, Barred
  <2>4. Together(full, bud', queue')
    BY <1>0, <1>2, <2>1, <2>3, AnswersTogether DEF B
  <2> QED BY <1>1, <2>1, <2>2, <2>4, CallSettles
<1>7. CASE \E ev \in {"hangup", "discon"} : PhoneHangup(p, ev)
  <2> DEFINE closed == a2dp_media_close(a2dp_media_unmute(B, o), o)
             back == [closed EXCEPT !.energy = o, !.preempted = None, !.drop = p]
             late == [B EXCEPT !.drop = p]
             free == Release(B, o)
  <2>1. /\ \E t \in {back, late, free, B} : Returns(master, Now(t))
        /\ \E ev \in {"hangup", "discon"} : phone' = [phone EXCEPT ![p].bye = @ \ {ev}]
        /\ UNCHANGED <<tws, monitor>>
    BY <1>7 DEF PhoneHangup, B
  <2>2. \A t \in {back, late, free, B} : t.player = B.player
    <3>1. closed \in Bud /\ closed.player = B.player
      <4> DEFINE m == a2dp_media_unmute(B, o)
      <4>1. m \in Bud /\ m.player = B.player
        BY <1>0, UnmuteFields
      <4> HIDE DEF m
      <4>2. a2dp_media_close(m, o) \in Bud /\ a2dp_media_close(m, o).player = B.player
        BY <1>0, <4>1, MediaCloseFields
      <4> QED BY <4>2 DEF m
    <3> HIDE DEF closed
    <3>2. back.player = B.player
      BY <3>1 DEF Bud
    <3>3. late.player = B.player
      BY <1>0 DEF Bud
    <3>4. free.player = B.player
      BY <1>0, ReleaseFields
    <3> QED BY <3>2, <3>3, <3>4
  <2> HIDE DEF back, late, free
  <2>3. PICK t : t.player = B.player /\ Returns(master, Now(t))
    BY <2>1, <2>2
  <2>4. Together(full, bud', queue')
    <3>1. Now(t).s = t /\ Now(t).q = queue
      BY DEF Now, With
    <3>2. View(full, t) = View(full, B)
      BY <1>1, <2>3 DEF View
    <3> QED BY <1>0, <1>2, <2>3, <3>1, <3>2, ReturnsTogether DEF B
  <2>5. \A x \in Phones : phone'[x].link = phone[x].link
    BY <1>0, <2>1 DEF Phone
  <2> QED BY <1>1, <2>1, <2>4, <2>5, CallSettles
<1> QED BY <1>4, <1>5, <1>6, <1>7

LEMMA UserMusic ==
  ASSUME A2dpInv, NEW full \in BOOLEAN, Music(full), NEW p \in Phones,
         UserPlays(p) \/ UserStops(p) \/ Obeys(p) \/ Ignores(p)
  PROVE  Music(full)'
<1>0. /\ bud \in [Buds -> Bud] /\ master \in Buds /\ phone \in [Phones -> Phone]
      /\ (\A b \in Buds : bud[b] \in Bud) /\ Spoken(phone) /\ Spoken(Tell(p, "pause"))
      /\ Tell(p, "pause") \in [Phones -> Phone]
  BY MasterOf, TellSpoken, TellType
<1>1. UNCHANGED <<tws, monitor, queue>>
  BY DEF UserPlays, UserStops, Obeys, Ignores, Returns, Now, With
<1>2. Spoken(phone')
  <2>1. CASE UserPlays(p)
    <3>1. PICK f \in {phone, Tell(p, "pause")} : phone' = [f EXCEPT ![p].on = TRUE]
      BY <2>1 DEF UserPlays
    <3>2. f \in [Phones -> Phone] /\ Spoken(f)
      BY <1>0
    <3> QED BY <3>1, <3>2 DEF Spoken, Phone
  <2>2. CASE UserStops(p)
    <3>1. phone' = [phone EXCEPT ![p].on = FALSE]
      BY <2>2 DEF UserStops
    <3> QED BY <1>0, <3>1 DEF Spoken, Phone
  <2>3. CASE Obeys(p)
    <3> DEFINE r == [phone[p] EXCEPT !.told = Tail(@), !.on = (Head(phone[p].told) = "play")]
    <3>1. phone' = [phone EXCEPT ![p] = r]
      BY <1>0, <2>3 DEF Obeys
    <3>2. r.link = phone[p].link /\ r.call = phone[p].call /\ r.bye = phone[p].bye
      BY <1>0 DEF Phone
    <3> HIDE DEF r
    <3> QED BY <1>0, <3>1, <3>2 DEF Spoken
  <2>4. CASE Ignores(p)
    <3>1. phone' = [phone EXCEPT ![p].told = Tail(@)]
      BY <2>4 DEF Ignores
    <3> QED BY <1>0, <3>1 DEF Spoken, Phone
  <2> QED BY <2>1, <2>2, <2>3, <2>4
<1>3. \A b \in Buds : View(full, bud'[b]) = View(full, bud[b])
  <2>1. CASE UserPlays(p)
    <3> DEFINE B == bud[master]
               m == a2dp_media_mute(B, p, Links(master))
               u == [m EXCEPT !.preempted = Without(@, p)]
    <3>1. bud' = bud \/ bud' = [bud EXCEPT ![master] = u]
      BY <2>1 DEF UserPlays, Returns, Now, With
    <3>2. m \in Bud /\ Ear(m) = Ear(B)
      BY <1>0, MuteFields, EarMute, LinksType
    <3> HIDE DEF m
    <3>3. Ear(u) = Ear(m)
      BY <3>2 DEF Ear, Bud
    <3> HIDE DEF u
    <3>4. View(full, u) = View(full, B)
      BY <3>2, <3>3, EarView
    <3> QED BY <1>0, <3>1, <3>4
  <2>2. CASE StreamEnds(p)
    <3>1. PICK suspend \in BOOLEAN :
            bud' = [b \in Buds |-> IF suspend /\ Receives(b, p) THEN a2dp_media_unmute(bud[b], p)
                                   ELSE bud[b]]
      BY <2>2 DEF StreamEnds
    <3>2. \A b \in Buds : View(full, a2dp_media_unmute(bud[b], p)) = View(full, bud[b])
      BY <1>0, EarMute, EarView
    <3> QED BY <3>1, <3>2
  <2>3. CASE bud' = bud
    BY <2>3
  <2> QED BY <2>1, <2>2, <2>3 DEF UserStops, Obeys, Ignores
<1> QED BY <1>1, <1>2, <1>3, StillMusic

\* The roles are switched with nothing waiting, and both buds let their detectors go.
LEMMA RoleSwitchMusic ==
  ASSUME A2dpInv, ~Overtakes, NEW full \in BOOLEAN, Music(full), RoleSwitch
  PROVE  Music(full)'
<1>0. bud \in [Buds -> Bud] /\ \A b \in Buds : bud[b] \in Bud
  BY MasterOf
<1>1. /\ \A b \in Buds : queue[b] = << >>
      /\ UNCHANGED <<queue, phone, tws, monitor>>
  BY DEF RoleSwitch, Settled
<1>2. PICK ss \in SUBSET Phones :
        bud' = [b \in Buds |-> ReleaseAll([bud[b] EXCEPT !.started = IF b = master THEN {} ELSE ss])]
  <2>1. \A ss \in SUBSET {p \in Phones : phone[p].on} : ss \in SUBSET Phones
    OBVIOUS
  <2> QED BY <2>1 DEF RoleSwitch
<1>3. \A b \in Buds : bud'[b].player = bud[b].player /\ bud'[b].detect = {} /\ bud'[b].slot0 = None
  <2> SUFFICES ASSUME NEW b \in Buds
               PROVE  bud'[b].player = bud[b].player /\ bud'[b].detect = {} /\ bud'[b].slot0 = None
    OBVIOUS
  <2> DEFINE d == IF b = master THEN {} ELSE ss
             t == [bud[b] EXCEPT !.started = d]
  <2>1. d \in SUBSET Phones
    OBVIOUS
  <2> HIDE DEF d
  <2>2. t \in Bud /\ t.player = bud[b].player
    BY <1>0, <2>1 DEF Bud
  <2>3. bud'[b] = ReleaseAll(t)
    BY <1>2 DEF d
  <2> HIDE DEF t
  <2>4. ReleaseAll(t).slot0 = None
    BY <2>2 DEF ReleaseAll, Bud
  <2> QED BY <2>2, <2>3, <2>4, ReleaseAllFields
<1>4. PICK r : \A b \in Buds : Line(full, bud[b], queue[b], r)
  BY DEF Music, Together
<1>5. \A b \in Buds : View(full, bud[b]) = r
  BY <1>1, <1>4, LineEmpty
<1>6. \A b, c \in Buds : bud[b].player = bud[c].player
  <2> SUFFICES ASSUME NEW b \in Buds, NEW c \in Buds PROVE bud[b].player = bud[c].player
    OBVIOUS
  <2>1. View(full, bud[b]) = View(full, bud[c])
    BY <1>5
  <2> QED BY <2>1, EarFields DEF View
<1>7. Together(full, bud', queue')
  <2>1. master \in Buds
    BY MasterOf
  <2> DEFINE v == View(full, bud'[master])
  <2>2. ASSUME NEW b \in Buds PROVE View(full, bud'[b]) = v
    <3> DEFINE t == bud'[b]
               u == bud'[master]
    <3>1. t.player = u.player /\ t.detect = u.detect /\ t.slot0 = u.slot0
      BY <1>3, <1>6, <2>1
    <3> HIDE DEF t, u
    <3> QED BY <3>1, ViewOf DEF v, t, u
  <2>3. \A b \in Buds : Line(full, bud'[b], queue'[b], v)
    <3> HIDE DEF v
    <3> QED BY <1>1, <2>2, LineEmpty
  <2> HIDE DEF v
  <2> QED BY <2>3 DEF Together
<1> QED BY <1>1, <1>7, Settles DEF Spoken

-----------------------------------------------------------------------------
(* The same music. *)

LEMMA PastGrows == [Next]_vars => past \subseteq past'
<1>1. ASSUME NEW b \in Buds, OfBud(b) PROVE past \subseteq past'
  BY <1>1 DEF OfBud, RunCommand, A2dpStart, A2dpNoEnergy, SendPlayCmd, LinkDetach,
              TryPlayPreempted, ResumedEnergy, NoEnergy
<1>2. ASSUME NEW p \in Phones, OfPhone(p) PROVE past \subseteq past'
  BY <1>2 DEF OfPhone, MediaStart, MediaStop, BackgroundEnergy, ScoConnectionReq, ScoUp, ScoDown,
              PhoneHangup, Disconnected, Connected, MonitorStart, UserPlays, UserStops, Obeys, Ignores
<1>3. CASE RoleSwitch \/ TwsLost \/ TwsConnected
  BY <1>3 DEF RoleSwitch, TwsLost, TwsConnected
<1>4. CASE UNCHANGED vars
  BY <1>4 DEF vars
<1> QED BY <1>1, <1>2, <1>3, <1>4 DEF Next

LEMMA BudMusic ==
  ASSUME A2dpInv, NEW full \in BOOLEAN, Music(full), Cause(full) \notin past', NEW b \in Buds, OfBud(b)
  PROVE  Music(full)'
BY RunCommandMusic, A2dpStartMusic, NoEnergyMusic, SendPlayMusic, LinkDetachMusic, TimerMusic
   DEF OfBud

LEMMA PhoneMusic ==
  ASSUME A2dpInv, NEW full \in BOOLEAN, Music(full), Cause(full) \notin past', "link" \notin past',
         NEW p \in Phones, OfPhone(p)
  PROVE  Music(full)'
<1>1. ~Disconnected(p) /\ ~Connected(p) /\ ~MonitorStart(p)
  BY DEF Disconnected, Connected, MonitorStart, Music, Whole
<1> QED BY <1>1, MediaStartMusic, MediaStopMusic, BackgroundEnergyMusic, CallMusic, UserMusic
        DEF OfPhone

LEMMA MusicStep == A2dpInv /\ ~Overtakes /\ MusicInv /\ [Next]_vars => MusicInv'
<1> SUFFICES ASSUME A2dpInv, ~Overtakes, MusicInv, [Next]_vars, "link" \notin past',
                    NEW full \in BOOLEAN, Cause(full) \notin past'
             PROVE  Music(full)'
  BY DEF MusicInv, Cause
<1>1. Music(full)
  BY PastGrows DEF MusicInv
<1>2. CASE Next
  <2>1. ~TwsLost /\ ~TwsConnected
    BY <1>1 DEF TwsLost, TwsConnected, Music, Whole
  <2> QED BY <1>1, <1>2, <2>1, BudMusic, PhoneMusic, RoleSwitchMusic DEF Next
<1>3. CASE UNCHANGED vars
  <2>1. UNCHANGED <<bud, queue, phone, tws, monitor>>
    BY <1>3 DEF vars
  <2> QED BY <1>1, <2>1, StillMusic DEF Spoken
<1> QED BY <1>2, <1>3

LEMMA InitMusic == Init => MusicInv
<1> SUFFICES ASSUME Init, NEW full \in BOOLEAN PROVE Music(full)
  BY DEF MusicInv
<1>1. /\ tws /\ monitor = Phones /\ \A b \in Buds : bud[b] = Idle /\ queue[b] = << >>
      /\ \A p \in Phones : phone[p].link /\ phone[p].call = "none" /\ phone[p].bye = {}
  BY DEF Init
<1>2. \A b \in Buds : Line(full, bud[b], queue[b], View(full, Idle))
  BY <1>1, LineEmpty
<1> QED BY <1>1, <1>2 DEF Music, Whole, Together

\* Both ears hear the music of the same phone once the commands have been run, however far
\* one bud was behind the other: the commands that wait lead both buds to the same player
\* as long as no link has been lost.
THEOREM SameMusicHeard ==
  ASSUME ~Overtakes
  PROVE  Spec => []SameMusic
<1>1. A2dpInv /\ MusicInv /\ [Next]_vars => MusicInv'
  BY MusicStep
<1>2. MusicInv => SameMusic
  <2> SUFFICES ASSUME MusicInv, Quiet, "link" \notin past, ~({"call", "silence"} \subseteq past),
                      NEW b \in Buds, NEW c \in Buds
               PROVE  bud[b].player = bud[c].player
    BY DEF SameMusic
  <2>1. PICK full \in BOOLEAN : Cause(full) \notin past
    <3>1. Cause(TRUE) = "call" /\ Cause(FALSE) = "silence"
      BY DEF Cause
    <3> QED BY <3>1
  <2>2. PICK r : Line(full, bud[b], queue[b], r) /\ Line(full, bud[c], queue[c], r)
    BY <2>1 DEF MusicInv, Music, Together
  <2>3. queue[b] = << >> /\ queue[c] = << >>
    BY DEF Quiet
  <2>4. View(full, bud[b]) = View(full, bud[c])
    BY <2>2, <2>3, LineEmpty
  <2> QED BY <2>4, EarFields DEF View
<1> QED BY <1>1, <1>2, InitMusic, A2dpInvariant, PTL DEF Spec

=============================================================================
