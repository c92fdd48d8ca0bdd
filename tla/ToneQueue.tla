----------------------------- MODULE ToneQueue -----------------------------
(***************************************************************************)
(* What the tone players promise (audio/interface/include/tone_player.h:   *)
(* "tones do not preempt each other, they queue"): on each bud the tones   *)
(* stand in one line, the first sounds, they leave from the front, and a   *)
(* tone that has left, or was refused, is over and never comes back.       *)
(***************************************************************************)
EXTENDS Naturals, Sequences

CONSTANTS Buds, Tones

VARIABLES
  line,  \* the tones of each bud, the first one sounding
  over   \* the tones whose owner has been told of the end

vars == <<line, over>>

Init ==
  /\ line = [b \in Buds |-> << >>]
  /\ over = [b \in Buds |-> {}]

InLine(b) == {line[b][i] : i \in DOMAIN line[b]}

\* On one bud some tones leave from the front, and one may join or be refused.
Turn(b) ==
  \E gone \in 0 .. Len(line[b]) :
    LET rest == SubSeq(line[b], gone + 1, Len(line[b]))
        left == over[b] \cup {line[b][i] : i \in 1 .. gone}
        New == Tones \ (over[b] \cup InLine(b))
        Becomes(l, o) == line' = [line EXCEPT ![b] = l] /\ over' = [over EXCEPT ![b] = o]
    IN \/ Becomes(rest, left)
       \/ \E t \in New : Becomes(Append(rest, t), left) \/ Becomes(rest, left \cup {t})

Next == \E b \in Buds : Turn(b)

Spec == Init /\ [][Next]_vars
=============================================================================
