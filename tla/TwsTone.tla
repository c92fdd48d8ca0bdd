------------------------------ MODULE TwsTone ------------------------------
(***************************************************************************)
(* The tone players of the two buds: the list of tones of one bud          *)
(* (audio/interface/player/tone_player.c) and the tones both buds play at  *)
(* the same moment (tws_tone_player.c).                                    *)
(*                                                                         *)
(* Requests, timers, stream callbacks and received tones all run in the    *)
(* task app_core of a bud.  The stream itself is another task: it posts    *)
(* its events, which may be handled long after it was stopped; the link    *)
(* carries a request to both buds, or to one if it breaks.                 *)
(***************************************************************************)
EXTENDS Naturals, Sequences

CONSTANTS
  Buds,        \* the two earbuds
  Tones,       \* requests to play a tone, each made at most once
  NoRequest,   \* not requested yet
  IdSpan,      \* values of player_id, 256 in the code
  Happenings   \* which of the rarer events may occur

ASSUME ToneAssumption ==
  /\ \E l, r \in Buds : l # r /\ Buds = {l, r}
  /\ IdSpan \in Nat \ {0} /\ NoRequest \notin [by : Buds, more : 0 .. 1]
  /\ Happenings \subseteq {"lists", "preempt", "missing", "unsent", "stop"}

VARIABLES
  bud,     \* what the players of each bud keep, see Bud
  linked,  \* the buds are connected
  air,     \* requests accepted by tws_api_send_data_to_sibling, by destination
  asked    \* who asked for each tone, and for how many files more

vars == <<bud, linked, air, asked>>

\* `more': files of the list beyond the one that is open.
Request == [tone : Tones, by : Buds, more : 0 .. 1, alone : BOOLEAN, preempt : BOOLEAN]

Player == [tone : Tones, id : 0 .. IdSpan - 1, more : 0 .. 1,
           stream : {"none", "started", "playing", "over"}]

StreamEvents == [do : {"START", "STOP", "FAILED"}, id : 0 .. IdSpan - 1, tone : Tones]
Messages == StreamEvents \cup [do : {"play"}, req : Request]

Bud == [list : Seq(Player),                      \* g_head
        g_player_id : 0 .. IdSpan - 1,
        adding : BOOLEAN,                        \* g_tws_tone_adding
        tries : SUBSET Request,                  \* tws_play_tone_try_timeout timers
        held : SUBSET Player,                    \* tws_tone_player_add_timeout timers
        queue : Seq(Messages),                   \* app_core messages not handled yet
        heard : [Tones -> Seq({"START", "STOP"})]]  \* what the callback of a tone was told

tone_player_runing(s) == s.list # << >>

Tell(s, t, event) == [s EXCEPT !.heard[t] = Append(@, event)]

\* tone_player_free of several players in order.
Freed(s, players) ==
  [s EXCEPT !.heard = [t \in Tones |->
     IF \E i \in DOMAIN players : players[i].tone = t THEN Append(@[t], "STOP") ELSE @[t]]]

NewPlayer(s, r) == [tone |-> r.tone, id |-> s.g_player_id, more |-> r.more, stream |-> "none"]
\* Mutant: the identifier does not wrap.
Created_Grows(s) == [s EXCEPT !.g_player_id = @ + 1]
Created(s) == [s EXCEPT !.g_player_id = (@ + 1) % IdSpan]

-----------------------------------------------------------------------------
(* The list of one bud.  Operators whose outcome depends on files, memory   *)
(* or the stream give the set of outcomes.                                 *)

Started(p) == [p EXCEPT !.stream = "started"]

\* Mutant: the player is put at the front of the list.
tone_player_add_Front(s, p) ==
  IF tone_player_runing(s) THEN {[s EXCEPT !.list = <<p>> \o @]}
  ELSE {[s EXCEPT !.list = <<Started(p)>>]}

\* Only a player that is alone is started at once, which may fail.
tone_player_add(s, p) ==
  IF tone_player_runing(s) THEN {[s EXCEPT !.list = Append(@, p)]}
  ELSE {[s EXCEPT !.list = <<Started(p)>>], Tell(s, p.tone, "STOP")}

tone_player_stop(s) == [Freed(s, s.list) EXCEPT !.list = << >>]

\* Mutant: the next tone is not started.
TryNext_Idle(s) == {s}

\* The first player that can be started is, those before it are over.
TryNext(s) ==
  {Freed([s EXCEPT !.list = IF k = Len(@) THEN << >>
                            ELSE <<Started(@[k + 1])>> \o SubSeq(@, k + 2, Len(@))],
         SubSeq(s.list, 1, k)) : k \in 0 .. Len(s.list)}

\* Mutant: the event of a stream that was stopped is taken for the head's.
FromHead_Unchecked(s, m) == tone_player_runing(s)

FromHead(s, m) == tone_player_runing(s) /\ Head(s.list).id = m.id

\* The next file of the list, if there is one and it can be started.
NextFile(s) ==
  {[s EXCEPT !.list[1] = [Started(@) EXCEPT !.more = k]] : k \in 0 .. Head(s.list).more - 1}

\* Mutant: the owner is told before the list is looked at, and again after it.
LeaveHead_Twice(s) ==
  {Freed(t, <<Head(s.list)>>) :
     t \in TryNext([Freed(s, <<Head(s.list)>>) EXCEPT !.list = Tail(@)])}

LeaveHead(s) ==
  {Freed(t, <<Head(s.list)>>) : t \in TryNext([s EXCEPT !.list = Tail(@)])}

tone_player_callback(s, m) ==
  CASE ~FromHead(s, m) -> {s}
    [] FromHead(s, m) /\ m.do = "START" -> {Tell(s, m.tone, "START")}
    [] FromHead(s, m) /\ m.do = "STOP" -> NextFile(s) \cup LeaveHead(s)
    [] FromHead(s, m) /\ m.do = "FAILED" -> LeaveHead(s)

Missing == "missing" \in Happenings

\* play_tone_file_callback and its variants: a tone that cannot be created is over.
play_tone_file(s, r) ==
  tone_player_add(Created(s), NewPlayer(s, r))
    \cup (IF Missing THEN {Tell(s, r.tone, "STOP")} ELSE {})

-----------------------------------------------------------------------------
(* Tones of both buds. *)

\* Mutant: the request reaches the bud that sends it only.
Both_Own(r) == [air EXCEPT ![r.by] = Append(@, r)]
Both(r) == [c \in Buds |-> Append(air[c], r)]

MustWait(s) == tone_player_runing(s) \/ s.adding

\* A request put off keeps its first file only and does not preempt any more.
Later(r) == [r EXCEPT !.more = 0, !.preempt = FALSE]

\* Mutant: a request put off is forgotten.
PutOff_Forgets(s, r) == s
PutOff(s, r) == [s EXCEPT !.tries = @ \cup {Later(r)}]

\* __tws_play_tone_file on bud b, whose players are in state s.
tws_play_tone(b, s, r) ==
  \/ /\ MustWait(s)
     /\ bud' = [bud EXCEPT ![b] = PutOff(s, r)]
     /\ UNCHANGED air
  \/ /\ ~MustWait(s) /\ linked
     /\ air' = Both(r)
     /\ bud' = [bud EXCEPT ![b] = [s EXCEPT !.adding = TRUE]]
  \/ /\ ~MustWait(s) /\ (linked => "unsent" \in Happenings)
     /\ LET t == IF r.preempt THEN tone_player_stop(s) ELSE s IN
        \E u \in play_tone_file(t, r) : bud' = [bud EXCEPT ![b] = u]
     /\ UNCHANGED air

\* Mutant: the flag stays set when the tone is there.
Added_Keeps(s) == s
Added(s) == [s EXCEPT !.adding = FALSE]

\* A tone that has arrived; if it cannot be created nobody is told.
tws_tone_play_in_task(s, r) ==
  LET t == IF r.preempt THEN tone_player_stop(s) ELSE s
      p == NewPlayer(t, r)
  IN (IF Missing THEN {Added(t)} ELSE {})
     \cup IF ~tone_player_runing(t) \/ r.alone
          THEN {Added(u) : u \in tone_player_add(Created(t), p)}
          ELSE {[Created(t) EXCEPT !.held = @ \cup {p}]}

-----------------------------------------------------------------------------
(* app_core of bud b. *)

Quiet == UNCHANGED <<linked, air, asked>>

HandleMsg(b) ==
  LET s == [bud[b] EXCEPT !.queue = Tail(@)]
      m == Head(bud[b].queue)
  IN
  /\ bud[b].queue # << >>
  /\ \/ /\ m.do = "play"
        /\ \E t \in tws_tone_play_in_task(s, m.req) : bud' = [bud EXCEPT ![b] = t]
     \/ /\ m.do # "play"
        /\ \E t \in tone_player_callback(s, m) : bud' = [bud EXCEPT ![b] = t]
  /\ Quiet

\* While a tone plays the timer is armed again.
tws_tone_player_add_timeout(b) ==
  /\ \E p \in bud[b].held : \E t \in tone_player_add([bud[b] EXCEPT !.held = @ \ {p}], p) :
       bud' = [bud EXCEPT ![b] = Added(t)]
  /\ ~tone_player_runing(bud[b])
  /\ Quiet

tws_play_tone_try_timeout(b) ==
  /\ \E r \in bud[b].tries : tws_play_tone(b, [bud[b] EXCEPT !.tries = @ \ {r}], r)
  /\ UNCHANGED <<linked, asked>>

\* Requests of the program: of this bud's own tones, and of tones for both buds.
Lists == IF "lists" \in Happenings THEN 0 .. 1 ELSE {0}

Asks(r) ==
  /\ asked[r.tone] = NoRequest
  /\ asked' = [asked EXCEPT ![r.tone] = [by |-> r.by, more |-> r.more]]

Asked(b, t) == asked[t] # NoRequest /\ asked[t].by = b

PlayLocal(b, t) ==
  /\ \E more \in Lists :
       LET r == [tone |-> t, by |-> b, more |-> more, alone |-> FALSE, preempt |-> FALSE]
       IN Asks(r) /\ \E u \in play_tone_file(bud[b], r) : bud' = [bud EXCEPT ![b] = u]
  /\ UNCHANGED <<linked, air>>

PlayTws(b, t) ==
  /\ \E more \in Lists, alone, preempt \in BOOLEAN :
       LET r == [tone |-> t, by |-> b, more |-> more, alone |-> alone, preempt |-> preempt]
       IN /\ preempt => "preempt" \in Happenings /\ alone /\ more = 0
          /\ Asks(r) /\ tws_play_tone(b, bud[b], r)
  /\ UNCHANGED linked

\* A call, a lost sibling and others silence the tones.
Silence(b) ==
  /\ "stop" \in Happenings
  /\ bud' = [bud EXCEPT ![b] = tone_player_stop(@)]
  /\ Quiet

-----------------------------------------------------------------------------
(* The stream and the link. *)

Playing(b, from, to, event) ==
  /\ bud[b].list # << >> /\ Head(bud[b].list).stream \in from
  /\ LET p == Head(bud[b].list)
         m == [do |-> event, id |-> p.id, tone |-> p.tone]
     IN bud' = [bud EXCEPT ![b].list[1].stream = to, ![b].queue = Append(@, m)]
  /\ Quiet

StreamStarts(b) == Playing(b, {"started"}, "playing", "START")
StreamEnds(b) == Playing(b, {"playing"}, "over", "STOP")

\* Preempted by another player, or no parameters can be agreed on.
StreamFails(b) == Playing(b, {"started", "playing"}, "over", "FAILED")

\* tone_file_read: the next file has the same format and is read on.
ReadsOn(b) ==
  /\ bud[b].list # << >>
  /\ Head(bud[b].list).stream = "playing" /\ Head(bud[b].list).more > 0
  /\ bud' = [bud EXCEPT ![b].list[1].more = @ - 1]
  /\ Quiet

\* tws_tone_file_data_in_irq
Deliver(b) ==
  /\ air[b] # << >>
  /\ air' = [air EXCEPT ![b] = Tail(@)]
  /\ bud' = [bud EXCEPT ![b].queue = Append(@, [do |-> "play", req |-> Head(air[b])])]
  /\ UNCHANGED <<linked, asked>>

LinkForms ==
  /\ ~linked /\ linked' = TRUE
  /\ UNCHANGED <<bud, air, asked>>

\* What had been accepted still reaches the bud that sent it, in its order; only one
\* numbering h of those requests keeps it.
Own(b, r) == r.by = b
OwnPart(b) ==
  LET own == {i \in DOMAIN air[b] : Own(b, air[b][i])}
      Numberings == {h \in UNION {[1 .. n -> own] : n \in 0 .. Len(air[b])} :
                       /\ \A i, j \in DOMAIN h : i < j => h[i] < h[j]
                       /\ \A k \in own : \E i \in DOMAIN h : h[i] = k}
  IN  {[i \in DOMAIN h |-> air[b][h[i]]] : h \in Numberings}

LinkDrops ==
  /\ linked /\ linked' = FALSE
  /\ \/ air' = air
     \/ air' \in {a \in [Buds -> UNION {OwnPart(b) : b \in Buds}] : \A b \in Buds : a[b] \in OwnPart(b)}
  /\ UNCHANGED <<bud, asked>>

\* player_id is about to wrap: its value has no other meaning.
Init ==
  /\ bud = [b \in Buds |-> [list |-> << >>, g_player_id |-> IdSpan - 1, adding |-> FALSE,
                            tries |-> {}, held |-> {}, queue |-> << >>,
                            heard |-> [t \in Tones |-> << >>]]]
  /\ linked \in BOOLEAN
  /\ air = [b \in Buds |-> << >>]
  /\ asked = [t \in Tones |-> NoRequest]

Program(b) ==
  \/ HandleMsg(b) \/ tws_tone_player_add_timeout(b) \/ tws_play_tone_try_timeout(b)
Stream(b) == StreamStarts(b) \/ StreamEnds(b) \/ StreamFails(b) \/ ReadsOn(b)

Next ==
  \/ \E b \in Buds :
       \/ Program(b) \/ Stream(b) \/ Deliver(b) \/ Silence(b)
       \/ \E t \in Tones : PlayLocal(b, t) \/ PlayTws(b, t)
  \/ LinkForms \/ LinkDrops

Spec == Init /\ [][Next]_vars

\* app_core handles its messages, timers fire, a file comes to its end, and the
\* link hands over what it has accepted.
Fairness ==
  \A b \in Buds :
    /\ WF_vars(HandleMsg(b)) /\ WF_vars(Deliver(b))
    /\ WF_vars(tws_tone_player_add_timeout(b)) /\ WF_vars(tws_play_tone_try_timeout(b))
    /\ WF_vars(StreamStarts(b)) /\ WF_vars(StreamEnds(b))

FairSpec == Spec /\ Fairness

-----------------------------------------------------------------------------
TypeOK ==
  /\ bud \in [Buds -> Bud]
  /\ linked \in BOOLEAN
  /\ air \in [Buds -> Seq(Request)]
  /\ asked \in [Tones -> [by : Buds, more : 0 .. 1] \cup {NoRequest}]

Over(b, t) == \E i \in DOMAIN bud[b].heard[t] : bud[b].heard[t][i] = "STOP"

\* The promise of tone_player.h: tones queue, are played in order, and each is
\* over once.
Promise == INSTANCE ToneQueue WITH
  line <- [b \in Buds |-> [i \in DOMAIN bud[b].list |-> bud[b].list[i].tone]],
  over <- [b \in Buds |-> {t \in Tones : Over(b, t)}]
TonesQueue == Promise!Spec

\* The callback of a tone hears STOP once, and nothing after it: callers free
\* their data there (tws_tone_player_callback frees the player).
StopIsLast ==
  \A b \in Buds, t \in Tones :
    LET h == bud[b].heard[t] IN \A i \in DOMAIN h : h[i] = "STOP" => i = Len(h)

\* Only the head of the list has a stream, and the list never hangs: its head is
\* sounding, or the event that ends it is waiting.
HeadSounds ==
  \A b \in Buds :
    LET l == bud[b].list
        q == bud[b].queue
    IN /\ \A i \in DOMAIN l : i > 1 => l[i].stream = "none"
       /\ l # << >> =>
            \/ l[1].stream \in {"started", "playing"}
            \/ /\ l[1].stream = "over"
               /\ \E i \in DOMAIN q : q[i].do \in {"STOP", "FAILED"} /\ q[i].id = l[1].id

\* A late event of a stream that is gone never ends another tone.
LateEventsHarmless ==
  [][\A b \in Buds :
       LET q == bud[b].queue IN
       q # << >> /\ bud'[b].queue = Tail(q) /\ Head(q).do # "play"
         => \/ bud'[b].list = bud[b].list
            \/ Head(q).tone = Head(bud[b].list).tone]_vars

\* g_tws_tone_adding never stays set: as long as it is, the tone it stands for is
\* on its way, waiting in app_core, or held back by a timer.
AddingEnds ==
  \A b \in Buds : bud[b].adding =>
    \/ \E i \in DOMAIN air[b] : Own(b, air[b][i])
    \/ \E i \in DOMAIN bud[b].queue : bud[b].queue[i].do = "play"
    \/ bud[b].held # {}

\* Every tone requested is over in the end on the bud that requested it.
EveryToneEnds ==
  \A t \in Tones, b \in Buds : Asked(b, t) ~> Over(b, t)

\* "When it ends the callback is called on master and slave"
\* (tws_tone_player.h), provided the link holds.
Shared(t) == \E b \in Buds : \/ \E i \in DOMAIN air[b] : air[b][i].tone = t
                             \/ \E r \in bud[b].tries : r.tone = t
BothHear ==
  []linked => \A t \in Tones : Shared(t) ~> \A b \in Buds : Over(b, t)

\* "Play a list of files" (tws_tone_player.h): a list that is put off keeps all
\* its files.
ListsKeepTheirFiles ==
  \A b \in Buds : \A r \in bud[b].tries : r.more = asked[r.tone].more
=============================================================================
