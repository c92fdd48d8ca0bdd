---------------------------- MODULE TwsToneProofs ----------------------------
(***************************************************************************)
(* The tone players keep what ToneQueue promises, for any set of tones and *)
(* any span of identifiers.  A tone has one place on each bud: asked for,  *)
(* put off, on the air, waiting, held back, in the list, or over.  The     *)
(* list only ever moves as the promise says; the invariant IInv is what    *)
(* makes a tone that joins the list a new one.                             *)
(***************************************************************************)
EXTENDS TwsTone, TLAPS, FiniteSets, SequenceTheorems, FiniteSetTheorems

TonesOf(l) == [i \in DOMAIN l |-> l[i].tone]
In(l) == {l[i].tone : i \in DOMAIN l}
Told(s) == {t \in Tones : \E i \in DOMAIN s.heard[t] : s.heard[t][i] = "STOP"}
Done(s) == In(s.list) \cup Told(s)

\* A tone is once in the list and not after it is over; its callback hears STOP last.
Once(s) ==
  /\ \A i, j \in DOMAIN s.list : s.list[i].tone = s.list[j].tone => i = j
  /\ In(s.list) \cap Told(s) = {}
Closed(s) ==
  \A x \in Tones : \A i \in DOMAIN s.heard[x] : s.heard[x][i] = "STOP" => i = Len(s.heard[x])

\* From s to t nobody is told anything after STOP, if the tones of X are new.
Hears(s, t, X) == Once(s) /\ Closed(s) /\ X \cap Done(s) = {} => Closed(t)

\* The identifiers of the players in list l, each with its tone.
ListTags(l) == {<<l[i].id, l[i].tone>> : i \in DOMAIN l}

\* From s to t a player of tone x may have been created.
Numbers(s, t, x) ==
  \/ t.g_player_id = s.g_player_id /\ ListTags(t.list) \subseteq ListTags(s.list)
  \/ /\ t.g_player_id = (s.g_player_id + 1) % IdSpan /\ x \in Done(t)
     /\ ListTags(t.list) \subseteq ListTags(s.list) \cup {<<s.g_player_id, x>>}

\* From s to t some tones leave the front of the list; one of X may join or be refused.
Moves(s, t, X) ==
  \E k \in 0 .. Len(s.list) :
    LET rest == SubSeq(TonesOf(s.list), k + 1, Len(s.list))
        left == Told(s) \cup {s.list[i].tone : i \in 1 .. k}
    IN \/ TonesOf(t.list) = rest /\ Told(t) = left
       \/ \E x \in X : \/ TonesOf(t.list) = Append(rest, x) /\ Told(t) = left
                       \/ TonesOf(t.list) = rest /\ Told(t) = left \cup {x}

\* An event that ends the head of list l waits in queue q.
EndWaits(l, q) == \E i \in DOMAIN q : q[i].do \in {"STOP", "FAILED"} /\ q[i].id = l[1].id
Sounding(l, q) ==
  /\ \A i \in DOMAIN l : i > 1 => l[i].stream = "none"
  /\ l # << >> => \/ l[1].stream \in {"started", "playing"}
                  \/ l[1].stream = "over" /\ EndWaits(l, q)

\* What the players of a bud do not touch.
SameRest(s, t) ==
  /\ t.queue = s.queue /\ t.held = s.held /\ t.tries = s.tries /\ t.adding = s.adding

-----------------------------------------------------------------------------
(* Lists and what the callbacks have heard. *)

LEMMA SeqFacts ==
  ASSUME NEW S, NEW q \in Seq(S)
  PROVE  /\ Len(q) \in Nat /\ DOMAIN q = 1 .. Len(q)
         /\ \A i \in 1 .. Len(q) : q[i] \in S
         /\ q = << >> <=> Len(q) = 0
<1>1. Len(q) \in Nat /\ DOMAIN q = 1 .. Len(q) /\ q \in [1 .. Len(q) -> S]
  BY LenProperties
<1>2. q = << >> <=> Len(q) = 0
  BY EmptySeq
<1> QED BY <1>1, <1>2

LEMMA TonesSeq ==
  ASSUME NEW l \in Seq(Player)
  PROVE  /\ TonesOf(l) \in Seq(Tones) /\ Len(TonesOf(l)) = Len(l)
         /\ \A i \in 1 .. Len(l) : TonesOf(l)[i] = l[i].tone /\ l[i].tone \in Tones
<1>1. /\ Len(l) \in Nat /\ DOMAIN l = 1 .. Len(l)
      /\ \A i \in 1 .. Len(l) : l[i] \in Player
  BY SeqFacts
<1>2. \A i \in 1 .. Len(l) : l[i].tone \in Tones
  BY <1>1 DEF Player
<1>3. TonesOf(l) \in [1 .. Len(l) -> Tones]
  BY <1>1, <1>2 DEF TonesOf
<1>4. TonesOf(l) \in Seq(Tones)
  BY <1>1, <1>3, SeqDef
<1>5. Len(TonesOf(l)) = Len(l)
  BY <1>1, <1>3, <1>4, LenProperties
<1> QED BY <1>1, <1>2, <1>4, <1>5 DEF TonesOf

\* Telling one tone.
LEMMA TellLemma ==
  ASSUME NEW s \in Bud, NEW x \in Tones, NEW event \in {"START", "STOP"}
  PROVE  LET t == Tell(s, x, event) IN
         /\ t \in Bud /\ SameRest(s, t) /\ t.list = s.list /\ t.g_player_id = s.g_player_id
         /\ Told(t) = Told(s) \cup (IF event = "STOP" THEN {x} ELSE {})
         /\ x \notin Told(s) /\ Closed(s) => Closed(t)
<1> DEFINE g == s.heard[x]
           n == Len(g)
           h == Append(g, event)
           t == [s EXCEPT !.heard = [s.heard EXCEPT ![x] = h]]
<1>1. Tell(s, x, event) = t
  BY DEF Tell
<1>2. s.heard \in [Tones -> Seq({"START", "STOP"})] /\ s.heard[x] \in Seq({"START", "STOP"})
  BY DEF Bud
<1>3. /\ h \in Seq({"START", "STOP"}) /\ n \in Nat
      /\ DOMAIN g = 1 .. n /\ DOMAIN h = 1 .. n + 1
      /\ \A i \in 1 .. n : h[i] = g[i]
      /\ h[n + 1] = event /\ Len(h) = n + 1
  <2>1. g \in Seq({"START", "STOP"})
    BY <1>2
  <2> HIDE DEF g
  <2> QED BY <2>1, AppendProperties, LenProperties
<1>4. \A i \in 1 .. n + 1 : i \in 1 .. n \/ i = n + 1
  BY <1>3
<1>5. (\E i \in DOMAIN h : h[i] = "STOP") <=> (\E i \in DOMAIN g : g[i] = "STOP") \/ event = "STOP"
  <2>1. \A i \in 1 .. n : i \in 1 .. n + 1
    BY <1>3
  <2>2. n + 1 \in 1 .. n + 1
    BY <1>3
  <2> HIDE DEF h, g, n
  <2> QED BY <1>3, <1>4, <2>1, <2>2
<1> HIDE DEF h
<1>6. /\ t \in Bud /\ SameRest(s, t) /\ t.list = s.list /\ t.g_player_id = s.g_player_id
      /\ t.heard = [s.heard EXCEPT ![x] = h]
  BY <1>2, <1>3 DEF Bud, SameRest
<1> HIDE DEF t
<1>7. \A y \in Tones : t.heard[y] = IF y = x THEN h ELSE s.heard[y]
  BY <1>2, <1>6
<1>8. Told(t) = Told(s) \cup (IF event = "STOP" THEN {x} ELSE {})
  BY <1>5, <1>7 DEF Told
<1>9. x \notin Told(s) /\ Closed(s) => Closed(t)
  <2> SUFFICES ASSUME x \notin Told(s), Closed(s), NEW y \in Tones,
                      NEW i \in DOMAIN t.heard[y], t.heard[y][i] = "STOP"
               PROVE  i = Len(t.heard[y])
    BY DEF Closed
  <2>1. CASE y = x
    <3>1. \A j \in DOMAIN g : g[j] # "STOP"
      BY DEF Told
    <3> QED BY <1>3, <1>4, <1>7, <2>1, <3>1
  <2>2. CASE y # x
    BY <1>7, <2>2 DEF Closed
  <2> QED BY <2>1, <2>2
<1> QED BY <1>1, <1>6, <1>8, <1>9

\* Telling every tone of a list.
LEMMA FreedLemma ==
  ASSUME NEW s \in Bud, NEW players \in Seq(Player)
  PROVE  LET t == Freed(s, players) IN
         /\ t \in Bud /\ SameRest(s, t) /\ t.list = s.list /\ t.g_player_id = s.g_player_id
         /\ Told(t) = Told(s) \cup In(players)
         /\ In(players) \cap Told(s) = {} /\ Closed(s) => Closed(t)
<1> DEFINE told(y) == \E i \in DOMAIN players : players[i].tone = y
           h == [y \in Tones |-> IF told(y) THEN Append(s.heard[y], "STOP") ELSE s.heard[y]]
           t == [s EXCEPT !.heard = h]
<1>1. Freed(s, players) = t
  BY DEF Freed
<1>2. s.heard \in [Tones -> Seq({"START", "STOP"})]
  BY DEF Bud
<1>3. ASSUME NEW y \in Tones
      PROVE  /\ Append(s.heard[y], "STOP") \in Seq({"START", "STOP"})
             /\ \E i \in DOMAIN Append(s.heard[y], "STOP") :
                  Append(s.heard[y], "STOP")[i] = "STOP"
             /\ \A i \in DOMAIN Append(s.heard[y], "STOP") :
                  \/ i \in DOMAIN s.heard[y] /\ Append(s.heard[y], "STOP")[i] = s.heard[y][i]
                  \/ i = Len(Append(s.heard[y], "STOP"))
  <2> DEFINE g == Append(s.heard[y], "STOP")
  <2>1. g \in Seq({"START", "STOP"}) /\ Len(g) = Len(s.heard[y]) + 1
        /\ g[Len(s.heard[y]) + 1] = "STOP" /\ Len(s.heard[y]) \in Nat
        /\ \A i \in 1 .. Len(s.heard[y]) : g[i] = s.heard[y][i]
    BY <1>2, AppendProperties, LenProperties
  <2>2. DOMAIN g = 1 .. Len(g) /\ DOMAIN s.heard[y] = 1 .. Len(s.heard[y])
    BY <1>2, <2>1, SeqFacts
  <2> HIDE DEF g
  <2>3. \E i \in DOMAIN g : g[i] = "STOP"
    BY <2>1, <2>2
  <2>4. \A i \in DOMAIN g : (i \in DOMAIN s.heard[y] /\ g[i] = s.heard[y][i]) \/ i = Len(g)
    BY <2>1, <2>2
  <2> QED BY <2>1, <2>3, <2>4 DEF g
<1> HIDE DEF told
<1>4. h \in [Tones -> Seq({"START", "STOP"})]
  BY <1>2, <1>3
<1>5. \A y \in Tones : (\E i \in DOMAIN h[y] : h[y][i] = "STOP")
                         <=> (\E i \in DOMAIN s.heard[y] : s.heard[y][i] = "STOP") \/ told(y)
  BY <1>3
<1>10. ASSUME NEW y \in Tones, NEW i \in DOMAIN h[y], h[y][i] = "STOP",
              told(y) => \A j \in DOMAIN s.heard[y] : s.heard[y][j] # "STOP",
              \A j \in DOMAIN s.heard[y] : s.heard[y][j] = "STOP" => j = Len(s.heard[y])
       PROVE  i = Len(h[y])
  BY <1>3, <1>10
<1> HIDE DEF h
<1>6. /\ t \in Bud /\ SameRest(s, t) /\ t.list = s.list /\ t.g_player_id = s.g_player_id
      /\ t.heard = h
  BY <1>4 DEF Bud, SameRest
<1> HIDE DEF t
<1>7. \A y \in Tones : told(y) <=> y \in In(players)
  BY DEF told, In
<1>8. In(players) \subseteq Tones
  <2>1. \A i \in DOMAIN players : players[i].tone \in Tones
    BY SeqFacts, TonesSeq
  <2> QED BY <2>1 DEF In
<1>9. Told(t) = Told(s) \cup In(players)
  BY <1>5, <1>6, <1>7, <1>8 DEF Told
<1>11. In(players) \cap Told(s) = {} /\ Closed(s) => Closed(t)
  <2> SUFFICES ASSUME In(players) \cap Told(s) = {}, Closed(s), NEW y \in Tones,
                      NEW i \in DOMAIN h[y], h[y][i] = "STOP"
               PROVE  i = Len(h[y])
    BY <1>6 DEF Closed
  <2>1. told(y) => \A j \in DOMAIN s.heard[y] : s.heard[y][j] # "STOP"
    BY <1>7 DEF Told
  <2> QED BY <1>10, <2>1 DEF Closed
<1> QED BY <1>1, <1>6, <1>9, <1>11

-----------------------------------------------------------------------------
(* How the line of a bud moves. *)

LEMMA MovesLemma ==
  ASSUME NEW s \in Bud, NEW t \in Bud
  PROVE  /\ TonesOf(t.list) = TonesOf(s.list) /\ Told(t) = Told(s) => \A X : Moves(s, t, X)
         /\ \A x : \/ TonesOf(t.list) = Append(TonesOf(s.list), x) /\ Told(t) = Told(s)
                   \/ TonesOf(t.list) = TonesOf(s.list) /\ Told(t) = Told(s) \cup {x}
                   => Moves(s, t, {x})
<1>1. s.list \in Seq(Player)
  BY DEF Bud
<1>2. /\ Len(s.list) \in Nat
      /\ SubSeq(TonesOf(s.list), 0 + 1, Len(s.list)) = TonesOf(s.list)
  BY <1>1, TonesSeq, SubSeqFull, LenProperties
<1>3. {s.list[i].tone : i \in 1 .. 0} = {} /\ 0 \in 0 .. Len(s.list)
  BY <1>2
<1> QED BY <1>2, <1>3 DEF Moves

LEMMA MovesDone ==
  ASSUME NEW s \in Bud, NEW t \in Bud, NEW X, Moves(s, t, X)
  PROVE  Done(t) \subseteq Done(s) \cup X
<1>1. s.list \in Seq(Player) /\ t.list \in Seq(Player)
  BY DEF Bud
<1> DEFINE l == TonesOf(s.list)
           n == Len(s.list)
<1>2. /\ l \in Seq(Tones) /\ n \in Nat /\ Len(l) = n
      /\ \A i \in 1 .. n : l[i] = s.list[i].tone
      /\ DOMAIN s.list = 1 .. n
  BY <1>1, TonesSeq, SeqFacts
<1>3. \A i \in 1 .. n : l[i] \in In(s.list)
  BY <1>2 DEF In
<1>4. /\ DOMAIN TonesOf(t.list) = DOMAIN t.list
      /\ \A i \in DOMAIN t.list : TonesOf(t.list)[i] = t.list[i].tone
  BY DEF TonesOf
<1>5. PICK k \in 0 .. n :
        LET rest == SubSeq(l, k + 1, n)
            left == Told(s) \cup {s.list[i].tone : i \in 1 .. k}
        IN \/ TonesOf(t.list) = rest /\ Told(t) = left
           \/ \E x \in X : \/ TonesOf(t.list) = Append(rest, x) /\ Told(t) = left
                           \/ TonesOf(t.list) = rest /\ Told(t) = left \cup {x}
  BY DEF Moves
<1> HIDE DEF l, n
<1> DEFINE rest == SubSeq(l, k + 1, n)
           left == Told(s) \cup {s.list[i].tone : i \in 1 .. k}
<1>6. left \subseteq Done(s)
  <2>1. \A i \in 1 .. k : i \in 1 .. n
    BY <1>2
  <2> QED BY <1>2, <2>1 DEF Done, In
<1>7. rest \in Seq(In(s.list)) /\ \A i \in DOMAIN rest : rest[i] \in In(s.list)
  <2>1. k + 1 \in Int /\ n \in Int /\ \A i \in k + 1 .. n : l[i] \in In(s.list)
    BY <1>2, <1>3
  <2>2. rest \in Seq(In(s.list))
    BY <2>1, SubSeqProperties
  <2> HIDE DEF rest
  <2> QED BY <2>2, SeqFacts
<1>8. \A x : \A i \in DOMAIN Append(rest, x) : Append(rest, x)[i] \in In(s.list) \cup {x}
  <2> SUFFICES ASSUME NEW x PROVE \A i \in DOMAIN Append(rest, x) :
                                    Append(rest, x)[i] \in In(s.list) \cup {x}
    OBVIOUS
  <2> DEFINE S == In(s.list) \cup {x}
  <2>1. rest \in Seq(S) /\ x \in S
    BY <1>7, SeqMonotonic
  <2> HIDE DEF rest, S
  <2>2. Append(rest, x) \in Seq(S)
    BY <2>1, AppendProperties
  <2> QED BY <2>2, SeqFacts DEF S
<1> HIDE DEF rest, left
<1>9. CASE TonesOf(t.list) = rest /\ Told(t) = left
  BY <1>4, <1>6, <1>7, <1>9 DEF Done, In
<1>10. ASSUME NEW x \in X, TonesOf(t.list) = Append(rest, x), Told(t) = left
       PROVE  Done(t) \subseteq Done(s) \cup X
  <2>1. \A i \in DOMAIN t.list : t.list[i].tone \in In(s.list) \cup {x}
    BY <1>4, <1>8, <1>10
  <2> QED BY <1>6, <1>10, <2>1 DEF Done, In
<1>11. ASSUME NEW x \in X, TonesOf(t.list) = rest, Told(t) = left \cup {x}
       PROVE  Done(t) \subseteq Done(s) \cup X
  <2>1. \A i \in DOMAIN t.list : t.list[i].tone \in In(s.list)
    BY <1>4, <1>7, <1>11
  <2> QED BY <1>6, <1>11, <2>1 DEF Done, In
<1> QED BY <1>5, <1>9, <1>10, <1>11 DEF rest, left

\* No tone is forgotten, and a new one joins at most.
LEMMA MovesKeep ==
  ASSUME NEW s \in Bud, NEW t \in Bud, NEW X, Moves(s, t, X), X \subseteq Tones
  PROVE  /\ Done(s) \subseteq Done(t)
         /\ Once(s) /\ X \cap Done(s) = {} => Once(t)
<1> DEFINE l == TonesOf(s.list)
           n == Len(s.list)
           d == TonesOf(t.list)
<1>1. /\ s.list \in Seq(Player) /\ l \in Seq(Tones) /\ n \in Nat /\ Len(l) = n
      /\ DOMAIN s.list = 1 .. n
      /\ \A i \in 1 .. n : l[i] = s.list[i].tone /\ s.list[i].tone \in Tones
  BY TonesSeq, SeqFacts DEF Bud
<1>2. /\ DOMAIN d = DOMAIN t.list
      /\ \A i \in DOMAIN t.list : d[i] = t.list[i].tone
  BY DEF TonesOf
<1>3. PICK k \in 0 .. n :
        LET rest == SubSeq(l, k + 1, n)
            left == Told(s) \cup {s.list[i].tone : i \in 1 .. k}
        IN \/ d = rest /\ Told(t) = left
           \/ \E x \in X : \/ d = Append(rest, x) /\ Told(t) = left
                           \/ d = rest /\ Told(t) = left \cup {x}
  BY DEF Moves
<1> DEFINE rest == SubSeq(l, k + 1, n)
           m == n - k
<1>4. rest \in Seq(Tones) /\ Len(rest) = m /\ \A i \in 1 .. m : rest[i] = l[k + i]
  <2>1. k + 1 \in Int /\ n \in Int /\ \A i \in k + 1 .. n : l[i] \in Tones
    BY <1>1
  <2>2. /\ rest \in Seq(Tones) /\ Len(rest) = IF k + 1 <= n THEN n - (k + 1) + 1 ELSE 0
        /\ \A i \in 1 .. n - (k + 1) + 1 : rest[i] = l[k + 1 + i - 1]
    BY <2>1, SubSeqProperties
  <2>3. /\ (IF k + 1 <= n THEN n - (k + 1) + 1 ELSE 0) = m
        /\ n - (k + 1) + 1 = m
        /\ \A i \in 1 .. m : k + 1 + i - 1 = k + i
    BY <1>1
  <2> HIDE DEF rest, m, l
  <2> QED BY <2>2, <2>3
<1>5. \A x \in Tones : /\ DOMAIN Append(rest, x) = 1 .. m + 1 /\ Append(rest, x)[m + 1] = x
                       /\ \A i \in 1 .. m : Append(rest, x)[i] = rest[i]
  <2> SUFFICES ASSUME NEW x \in Tones
               PROVE  /\ DOMAIN Append(rest, x) = 1 .. m + 1 /\ Append(rest, x)[m + 1] = x
                      /\ \A i \in 1 .. m : Append(rest, x)[i] = rest[i]
    OBVIOUS
  <2> DEFINE a == Append(rest, x)
  <2> HIDE DEF rest, m
  <2>1. /\ a \in Seq(Tones) /\ Len(a) = m + 1 /\ a[m + 1] = x
        /\ \A i \in 1 .. m : a[i] = rest[i]
    BY <1>4, AppendProperties
  <2> HIDE DEF a
  <2>2. DOMAIN a = 1 .. m + 1
    BY <2>1, SeqFacts
  <2> QED BY <2>1, <2>2 DEF a
<1>6. /\ m \in Nat /\ DOMAIN rest = 1 .. m
      /\ \A i \in 1 .. m : i \in 1 .. m + 1 /\ k + i \in 1 .. n /\ k + i \notin 1 .. k
      /\ \A i \in 1 .. m + 1 : i \in 1 .. m \/ i = m + 1
      /\ \A i \in 1 .. n : i \in 1 .. k \/ (i - k \in 1 .. m /\ k + (i - k) = i)
      /\ m + 1 \in 1 .. m + 1 /\ \A i \in 1 .. k : i \in 1 .. n
      /\ \A i, j \in 1 .. m : k + i = k + j => i = j
  <2>1. DOMAIN rest = 1 .. m
    <3> HIDE DEF rest, m
    <3> QED BY <1>4, SeqFacts
  <2> QED BY <1>1, <2>1
<1> HIDE DEF rest, m, l, n, d
\* The three ways to move, in terms of single tones.
<1> DEFINE Way(Y, Z) ==
      /\ Told(t) = Told(s) \cup {s.list[i].tone : i \in 1 .. k} \cup Z
      /\ \A i \in 1 .. m : i \in DOMAIN d /\ d[i] = s.list[k + i].tone
      /\ \A i \in DOMAIN d : i \in 1 .. m \/ (i = m + 1 /\ d[i] \in Y)
      /\ Y = {} \/ Z = {}
<1>7. \E Y, Z \in SUBSET X : Way(Y, Z)
  <2>1. CASE d = rest /\ Told(t) = Told(s) \cup {s.list[i].tone : i \in 1 .. k}
    <3>1. Way({}, {})
      BY <1>1, <1>4, <1>6, <2>1
    <3> QED BY <3>1
  <2>2. ASSUME NEW x \in X, d = Append(rest, x),
               Told(t) = Told(s) \cup {s.list[i].tone : i \in 1 .. k}
        PROVE  \E Y, Z \in SUBSET X : Way(Y, Z)
    <3>1. /\ DOMAIN d = 1 .. m + 1 /\ d[m + 1] = x
          /\ \A i \in 1 .. m : d[i] = rest[i]
      BY <1>5, <2>2
    <3>2. /\ \A i \in 1 .. m : i \in DOMAIN d /\ d[i] = s.list[k + i].tone
          /\ \A i \in DOMAIN d : i \in 1 .. m \/ (i = m + 1 /\ d[i] \in {x})
      BY <1>1, <1>4, <1>6, <3>1
    <3>3. Told(t) = Told(s) \cup {s.list[i].tone : i \in 1 .. k} \cup {}
      BY <2>2
    <3> DEFINE one == {x}
               none == {}
    <3>4. Way(one, none) /\ one \in SUBSET X /\ none \in SUBSET X
      BY <3>2, <3>3
    <3> HIDE DEF Way, one, none
    <3> QED BY <3>4
  <2>3. ASSUME NEW x \in X, d = rest,
               Told(t) = Told(s) \cup {s.list[i].tone : i \in 1 .. k} \cup {x}
        PROVE  \E Y, Z \in SUBSET X : Way(Y, Z)
    <3> DEFINE one == {x}
               none == {}
    <3>1. Way(none, one) /\ one \in SUBSET X /\ none \in SUBSET X
      BY <1>1, <1>4, <1>6, <2>3
    <3> HIDE DEF Way, one, none
    <3> QED BY <3>1
  <2> HIDE DEF Way
  <2> DEFINE left == Told(s) \cup {s.list[i].tone : i \in 1 .. k}
  <2>4. \/ d = rest /\ Told(t) = left
        \/ \E x \in X : \/ d = Append(rest, x) /\ Told(t) = left
                        \/ d = rest /\ Told(t) = left \cup {x}
    BY <1>3 DEF rest
  <2> QED BY <2>1, <2>2, <2>3, <2>4
<1>8. PICK Y \in SUBSET X, Z \in SUBSET X : Way(Y, Z)
  BY <1>7
<1>9. Done(s) \subseteq Done(t)
  <2>1. \A i \in 1 .. n : s.list[i].tone \in Done(t)
    <3> TAKE i \in 1 .. n
    <3>1. CASE i \in 1 .. k
      BY <1>8, <3>1 DEF Done
    <3>2. CASE i - k \in 1 .. m /\ k + (i - k) = i
      <4>1. i - k \in DOMAIN t.list /\ t.list[i - k].tone = s.list[i].tone
        BY <1>2, <1>8, <3>2
      <4> QED BY <4>1 DEF Done, In
    <3> QED BY <1>6, <3>1, <3>2
  <2> QED BY <1>1, <1>8, <2>1 DEF Done, In
<1>10. ASSUME Once(s), X \cap Done(s) = {}
       PROVE  Once(t)
  <2>1. \A i, j \in 1 .. n : s.list[i].tone = s.list[j].tone => i = j
    BY <1>1, <1>10 DEF Once
  <2>2. \A i \in 1 .. n : s.list[i].tone \notin Told(s) /\ s.list[i].tone \notin X
    BY <1>1, <1>10 DEF Once, In, Done
  <2>3. \A i, j \in DOMAIN t.list : t.list[i].tone = t.list[j].tone => i = j
    <3> SUFFICES ASSUME NEW i \in DOMAIN d, NEW j \in DOMAIN d, d[i] = d[j]
                 PROVE  i = j
      BY <1>2
    <3>1. CASE i \in 1 .. m /\ j \in 1 .. m
      <4>1. /\ d[i] = s.list[k + i].tone /\ d[j] = s.list[k + j].tone
            /\ k + i \in 1 .. n /\ k + j \in 1 .. n
        BY <1>6, <1>8, <3>1
      <4>2. k + i = k + j
        BY <2>1, <4>1
      <4> QED BY <1>6, <3>1, <4>2
    <3>2. ASSUME NEW h \in 1 .. m PROVE d[h] \notin Y
      <4>1. k + h \in 1 .. n /\ d[h] = s.list[k + h].tone
        BY <1>6, <1>8
      <4> QED BY <1>8, <2>2, <4>1
    <3>3. \A h \in DOMAIN d : h \in 1 .. m \/ (h = m + 1 /\ d[h] \in Y)
      BY <1>8
    <3>4. CASE ~(i \in 1 .. m)
      BY <3>2, <3>3, <3>4
    <3>5. CASE ~(j \in 1 .. m)
      BY <3>2, <3>3, <3>5
    <3> QED BY <3>1, <3>4, <3>5, Zenon
  <2>4. ASSUME NEW i \in DOMAIN d, d[i] \in Told(t)
        PROVE  FALSE
    <3>1. CASE i \in 1 .. m
      <4>1. d[i] = s.list[k + i].tone /\ k + i \in 1 .. n /\ k + i \notin 1 .. k
        BY <1>6, <1>8, <3>1
      <4>2. \A j \in 1 .. k : s.list[j].tone # d[i]
        BY <1>6, <2>1, <4>1
      <4> QED BY <1>8, <2>2, <2>4, <4>1, <4>2
    <3>2. CASE i = m + 1 /\ d[i] \in Y
      <4>1. d[i] \in X /\ Z = {}
        BY <1>8, <3>2
      <4>2. d[i] \notin Told(s)
        BY <1>10, <4>1 DEF Done
      <4>3. \A j \in 1 .. k : s.list[j].tone # d[i]
        BY <1>6, <2>2, <4>1
      <4> QED BY <1>8, <2>4, <4>1, <4>2, <4>3
    <3> QED BY <1>8, <3>1, <3>2
  <2> QED BY <1>2, <2>3, <2>4 DEF Once, In
<1> QED BY <1>9, <1>10

\* Starting a player changes its stream only.
LEMMA StartedLemma ==
  ASSUME NEW p \in Player
  PROVE  /\ Started(p) \in Player /\ Started(p).tone = p.tone
         /\ Started(p).stream = "started" /\ Started(p).more = p.more
         /\ Started(p).id = p.id
BY DEF Started, Player

LEMMA AddLemma ==
  ASSUME NEW s \in Bud, NEW p \in Player, p.stream = "none", NEW t \in tone_player_add(s, p)
  PROVE  /\ t \in Bud /\ SameRest(s, t) /\ t.g_player_id = s.g_player_id
         /\ Moves(s, t, {p.tone})
         /\ Sounding(s.list, s.queue) => Sounding(t.list, t.queue)
         /\ ListTags(t.list) \subseteq ListTags(s.list) \cup {<<p.id, p.tone>>}
         /\ p.tone \in Done(t) /\ Hears(s, t, {p.tone})
<1>0. s.list \in Seq(Player) /\ p.tone \in Tones
  BY DEF Bud, Player
<1>1. CASE s.list # << >>
  <2> DEFINE l == Append(s.list, p)
             n == Len(s.list)
  <2>1. t = [s EXCEPT !.list = l]
    BY <1>1 DEF tone_player_add, tone_player_runing
  <2>2. /\ l \in Seq(Player) /\ Len(l) = n + 1 /\ n \in Nat /\ n > 0 /\ l # << >>
        /\ DOMAIN s.list = 1 .. n /\ DOMAIN l = 1 .. n + 1
        /\ \A i \in 1 .. n : l[i] = s.list[i]
        /\ l[n + 1] = p
    <3>1. /\ l \in Seq(Player) /\ Len(l) = n + 1 /\ n \in Nat /\ n > 0 /\ l # << >>
          /\ \A i \in 1 .. n : l[i] = s.list[i]
          /\ l[n + 1] = p
      BY <1>0, <1>1, AppendProperties, SeqFacts
    <3> HIDE DEF l
    <3> QED BY <1>0, <3>1, SeqFacts
  <2> HIDE DEF l
  <2>3. /\ t \in Bud /\ SameRest(s, t) /\ t.g_player_id = s.g_player_id
        /\ t.list = l /\ t.heard = s.heard
    BY <2>1, <2>2 DEF Bud, SameRest
  <2>4. TonesOf(l) = Append(TonesOf(s.list), p.tone)
    <3> DEFINE a == Append(TonesOf(s.list), p.tone)
    <3>1. /\ a \in Seq(Tones) /\ Len(a) = n + 1 /\ a[n + 1] = p.tone
          /\ \A i \in 1 .. n : a[i] = s.list[i].tone
      BY <1>0, TonesSeq, AppendProperties
    <3>2. /\ TonesOf(l) \in Seq(Tones) /\ Len(TonesOf(l)) = n + 1
          /\ \A i \in 1 .. n + 1 : TonesOf(l)[i] = l[i].tone
      BY <2>2, TonesSeq
    <3> HIDE DEF a, n
    <3>3. \A i \in 1 .. n + 1 : i \in 1 .. n \/ i = n + 1
      BY <2>2
    <3>4. \A i \in 1 .. n + 1 : TonesOf(l)[i] = a[i]
      BY <2>2, <3>1, <3>2, <3>3
    <3>5. TonesOf(l) = a
      BY <3>1, <3>2, <3>4, SeqEqual
    <3> QED BY <3>5 DEF a
  <2>5. Told(t) = Told(s)
    BY <2>3 DEF Told
  <2>6. Moves(s, t, {p.tone})
    BY <2>3, <2>4, <2>5, MovesLemma
  <2>7. Sounding(s.list, s.queue) => Sounding(t.list, t.queue)
    <3>1. \A i \in 1 .. n + 1 : i \in 1 .. n \/ i = n + 1
      BY <2>2
    <3>2. l[1] = s.list[1] /\ t.queue = s.queue
      BY <2>2, <2>3 DEF SameRest
    <3> HIDE DEF n
    <3> QED BY <1>1, <2>2, <2>3, <3>1, <3>2 DEF Sounding, EndWaits
  <2>8. ListTags(t.list) \subseteq ListTags(s.list) \cup {<<p.id, p.tone>>}
    <3>1. \A i \in 1 .. n + 1 : i \in 1 .. n \/ i = n + 1
      BY <2>2
    <3> HIDE DEF n
    <3> QED BY <2>2, <2>3, <3>1 DEF ListTags
  <2>9. p.tone \in Done(t)
    <3>1. n + 1 \in DOMAIN l
      BY <2>2
    <3> QED BY <2>2, <2>3, <3>1 DEF Done, In
  <2>10. Hears(s, t, {p.tone})
    BY <2>3 DEF Hears, Closed
  <2> QED BY <2>3, <2>6, <2>7, <2>8, <2>9, <2>10
<1>2. CASE s.list = << >>
  <2> DEFINE l == <<Started(p)>>
             u == [s EXCEPT !.list = l]
             w == Tell(s, p.tone, "STOP")
  <2>1. t = u \/ t = w
    BY <1>2 DEF tone_player_add, tone_player_runing
  <2>2. l \in Seq(Player) /\ Len(l) = 1 /\ l[1] = Started(p) /\ DOMAIN l = 1 .. 1
    BY StartedLemma
  <2>3. TonesOf(l) = Append(TonesOf(s.list), p.tone)
    <3>1. TonesOf(l) = <<p.tone>>
      BY <2>2, StartedLemma DEF TonesOf
    <3>2. TonesOf(s.list) = << >>
      BY <1>2 DEF TonesOf
    <3> QED BY <3>1, <3>2
  <2> HIDE DEF l
  <2>4. CASE t = u
    <3>1. /\ t \in Bud /\ SameRest(s, t) /\ t.g_player_id = s.g_player_id
          /\ t.list = l /\ t.heard = s.heard
      BY <2>2, <2>4 DEF Bud, SameRest
    <3>2. Told(t) = Told(s)
      BY <3>1 DEF Told
    <3>3. Moves(s, t, {p.tone})
      BY <2>3, <3>1, <3>2, MovesLemma
    <3>4. Sounding(t.list, t.queue)
      BY <2>2, <3>1, StartedLemma DEF Sounding
    <3>5. /\ ListTags(t.list) \subseteq ListTags(s.list) \cup {<<p.id, p.tone>>}
          /\ p.tone \in Done(t)
      BY <2>2, <3>1, StartedLemma DEF ListTags, Done, In
    <3>6. Hears(s, t, {p.tone})
      BY <3>1 DEF Hears, Closed
    <3> QED BY <3>1, <3>3, <3>4, <3>5, <3>6
  <2>5. CASE t = w
    <3>1. /\ t \in Bud /\ SameRest(s, t) /\ t.list = s.list /\ t.g_player_id = s.g_player_id
          /\ Told(t) = Told(s) \cup {p.tone}
          /\ p.tone \notin Told(s) /\ Closed(s) => Closed(t)
      BY <1>0, <2>5, TellLemma
    <3>2. Moves(s, t, {p.tone})
      BY <3>1, MovesLemma
    <3>3. p.tone \in Done(t) /\ Hears(s, t, {p.tone})
      BY <3>1 DEF Done, Hears
    <3> QED BY <3>1, <3>2, <3>3 DEF SameRest
  <2> QED BY <2>1, <2>4, <2>5
<1> QED BY <1>1, <1>2

\* Everything leaves.
LEMMA StopLemma ==
  ASSUME NEW s \in Bud
  PROVE  LET t == tone_player_stop(s) IN
         /\ t \in Bud /\ SameRest(s, t) /\ t.g_player_id = s.g_player_id
         /\ t.list = << >> /\ Told(t) = Told(s) \cup In(s.list)
         /\ Once(t) /\ Hears(s, t, {})
<1> DEFINE u == Freed(s, s.list)
<1>1. s.list \in Seq(Player) /\ << >> \in Seq(Player)
  BY DEF Bud
<1>2. /\ u \in Bud /\ SameRest(s, u) /\ u.g_player_id = s.g_player_id
      /\ Told(u) = Told(s) \cup In(s.list)
      /\ In(s.list) \cap Told(s) = {} /\ Closed(s) => Closed(u)
  BY <1>1, FreedLemma
<1> HIDE DEF u
<1> DEFINE t == [u EXCEPT !.list = << >>]
<1>3. /\ t \in Bud /\ SameRest(u, t) /\ t.g_player_id = u.g_player_id
      /\ t.list = << >> /\ t.heard = u.heard
  BY <1>1, <1>2 DEF Bud, SameRest
<1> HIDE DEF t
<1>4. Told(t) = Told(u)
  BY <1>3 DEF Told
<1>5. Once(t) /\ Hears(s, t, {})
  BY <1>2, <1>3 DEF Once, In, Hears, Closed
<1> QED BY <1>2, <1>3, <1>4, <1>5 DEF SameRest, tone_player_stop, t, u

\* After a stop the line is empty: what happens then is one move of the line as it was.
LEMMA MovesAfterStop ==
  ASSUME NEW s \in Bud, NEW u \in Bud, NEW t \in Bud, NEW x,
         u.list = << >>, Told(u) = Told(s) \cup In(s.list), Moves(u, t, {x})
  PROVE  Moves(s, t, {x})
<1> DEFINE n == Len(s.list)
<1>1. n \in Nat /\ DOMAIN s.list = 1 .. n
  BY SeqFacts DEF Bud
<1>2. SubSeq(TonesOf(s.list), n + 1, n) = << >>
  BY <1>1, SubSeqEmpty
<1>3. In(s.list) = {s.list[i].tone : i \in 1 .. n}
  BY <1>1 DEF In
<1>4. /\ Len(u.list) = 0 /\ SubSeq(TonesOf(u.list), 1, 0) = << >>
      /\ {u.list[i].tone : i \in 1 .. 0} = {}
  BY SubSeqEmpty
<1>5. \/ TonesOf(t.list) = << >> /\ Told(t) = Told(u)
      \/ TonesOf(t.list) = Append(<< >>, x) /\ Told(t) = Told(u)
      \/ TonesOf(t.list) = << >> /\ Told(t) = Told(u) \cup {x}
  <2>1. PICK k \in 0 .. 0 :
          LET rest == SubSeq(TonesOf(u.list), k + 1, 0)
              left == Told(u) \cup {u.list[i].tone : i \in 1 .. k}
          IN \/ TonesOf(t.list) = rest /\ Told(t) = left
             \/ \E y \in {x} : \/ TonesOf(t.list) = Append(rest, y) /\ Told(t) = left
                               \/ TonesOf(t.list) = rest /\ Told(t) = left \cup {y}
    BY <1>4 DEF Moves
  <2>2. k = 0 /\ k + 1 = 1
    BY <2>1
  <2> QED BY <1>4, <2>1, <2>2
<1>6. n \in 0 .. n
  BY <1>1
<1> QED BY <1>2, <1>3, <1>5, <1>6 DEF Moves, n

\* The next player that can be started.
LEMMA TryNextLemma ==
  ASSUME NEW s \in Bud, NEW t \in TryNext(s)
  PROVE  /\ t \in Bud /\ SameRest(s, t) /\ t.g_player_id = s.g_player_id
         /\ \E k \in 0 .. Len(s.list) :
              /\ TonesOf(t.list) = SubSeq(TonesOf(s.list), k + 1, Len(s.list))
              /\ Told(t) = Told(s) \cup {s.list[i].tone : i \in 1 .. k}
         /\ (\A i \in DOMAIN s.list : s.list[i].stream = "none") => Sounding(t.list, t.queue)
         /\ ListTags(t.list) \subseteq ListTags(s.list) /\ Hears(s, t, {})
<1> DEFINE n == Len(s.list)
<1>1. /\ s.list \in Seq(Player) /\ n \in Nat /\ DOMAIN s.list = 1 .. n
      /\ \A i \in 1 .. n : s.list[i] \in Player
      /\ TonesOf(s.list) \in Seq(Tones) /\ Len(TonesOf(s.list)) = n
      /\ \A i \in 1 .. n : TonesOf(s.list)[i] = s.list[i].tone /\ s.list[i].tone \in Tones
  BY SeqFacts, TonesSeq DEF Bud
<1> DEFINE l(k) == IF k = n THEN << >> ELSE <<Started(s.list[k + 1])>> \o SubSeq(s.list, k + 2, n)
<1>2. PICK k \in 0 .. n : t = Freed([s EXCEPT !.list = l(k)], SubSeq(s.list, 1, k))
  BY DEF TryNext
<1>3. /\ SubSeq(s.list, 1, k) \in Seq(Player)
      /\ In(SubSeq(s.list, 1, k)) = {s.list[i].tone : i \in 1 .. k}
  <2> DEFINE f == SubSeq(s.list, 1, k)
  <2>1. \A i \in 1 .. k : i \in 1 .. n
    BY <1>1
  <2>2. f \in Seq(Player) /\ Len(f) = k /\ \A i \in 1 .. k : f[i] = s.list[i]
    <3>1. \A i \in 1 .. k : s.list[i] \in Player
      BY <1>1, <2>1
    <3>2. k \in Int /\ 1 \in Int /\ (IF 1 <= k THEN k - 1 + 1 ELSE 0) = k
      BY <1>1
    <3>3. /\ f \in Seq(Player) /\ Len(f) = (IF 1 <= k THEN k - 1 + 1 ELSE 0)
          /\ \A i \in 1 .. k - 1 + 1 : f[i] = s.list[1 + i - 1]
      BY <3>1, <3>2, SubSeqProperties
    <3> QED BY <3>2, <3>3
  <2> HIDE DEF f
  <2>3. DOMAIN f = 1 .. k
    BY <2>2, SeqFacts
  <2> QED BY <2>2, <2>3 DEF In, f
<1>4. /\ l(k) \in Seq(Player) /\ Len(l(k)) = n - k
      /\ \A i \in 1 .. n - k : l(k)[i] = IF i = 1 THEN Started(s.list[k + 1]) ELSE s.list[k + i]
  <2>1. CASE k = n
    BY <1>1, <2>1
  <2>2. CASE k # n
    <3> DEFINE a == <<Started(s.list[k + 1])>>
               c == SubSeq(s.list, k + 2, n)
    <3>1. k + 1 \in 1 .. n
      BY <1>1, <2>2
    <3>2. a \in Seq(Player) /\ Len(a) = 1 /\ a[1] = Started(s.list[k + 1])
      BY <1>1, <3>1, StartedLemma
    <3>3. /\ c \in Seq(Player) /\ Len(c) = n - k - 1
          /\ \A i \in 1 .. n - k - 1 : c[i] = s.list[k + 1 + i]
      <4>1. k + 2 \in Int /\ n \in Int /\ \A i \in k + 2 .. n : s.list[i] \in Player
        BY <1>1
      <4>2. /\ c \in Seq(Player) /\ Len(c) = IF k + 2 <= n THEN n - (k + 2) + 1 ELSE 0
            /\ \A i \in 1 .. n - (k + 2) + 1 : c[i] = s.list[k + 2 + i - 1]
        BY <4>1, SubSeqProperties
      <4>3. /\ n - (k + 2) + 1 = n - k - 1
            /\ \A i \in 1 .. n - k - 1 : k + 2 + i - 1 = k + 1 + i
            /\ k + 2 <= n \/ n - k - 1 = 0
        BY <1>1, <2>2
      <4> HIDE DEF c
      <4> QED BY <4>2, <4>3
    <3>4. l(k) = a \o c
      BY <2>2
    <3> HIDE DEF a, c
    <3> DEFINE z == a \o c
    <3>5. /\ z \in Seq(Player) /\ Len(z) = Len(a) + Len(c)
          /\ \A i \in 1 .. Len(a) + Len(c) : z[i] = IF i <= Len(a) THEN a[i] ELSE c[i - Len(a)]
      BY <3>2, <3>3, ConcatProperties
    <3>6. Len(a) + Len(c) = n - k
      BY <1>1, <3>2, <3>3
    <3> HIDE DEF z
    <3>7. ASSUME NEW i \in 1 .. n - k
          PROVE  z[i] = IF i = 1 THEN Started(s.list[k + 1]) ELSE s.list[k + i]
      <4>1. CASE i = 1
        BY <3>2, <3>5, <3>6, <4>1
      <4>2. CASE i # 1
        <5>1. i - 1 \in 1 .. n - k - 1 /\ k + 1 + (i - 1) = k + i /\ ~(i <= 1)
          BY <1>1, <4>2
        <5>2. z[i] = c[i - 1]
          BY <3>2, <3>5, <3>6, <5>1
        <5> QED BY <3>3, <4>2, <5>1, <5>2
      <4> QED BY <4>1, <4>2
    <3>8. l(k) = z
      BY <3>4 DEF z
    <3> HIDE DEF l
    <3> QED BY <3>5, <3>6, <3>7, <3>8
  <2> QED BY <2>1, <2>2
<1> DEFINE m == l(k)
           u == [s EXCEPT !.list = m]
           f == SubSeq(s.list, 1, k)
<1> HIDE DEF l, m, f
<1>5. u \in Bud /\ SameRest(s, u) /\ u.g_player_id = s.g_player_id /\ u.list = m /\ u.heard = s.heard
  BY <1>4 DEF Bud, SameRest, m
<1>6. Told(u) = Told(s)
  BY <1>5 DEF Told
<1> HIDE DEF u
<1>7. /\ t \in Bud /\ SameRest(u, t) /\ t.list = u.list /\ t.g_player_id = u.g_player_id
      /\ Told(t) = Told(u) \cup In(f)
      /\ In(f) \cap Told(u) = {} /\ Closed(u) => Closed(t)
  BY <1>2, <1>3, <1>5, FreedLemma DEF u, f, m
<1>8. TonesOf(m) = SubSeq(TonesOf(s.list), k + 1, n)
  <2> DEFINE r == SubSeq(TonesOf(s.list), k + 1, n)
  <2>1. k + 1 \in Int /\ n \in Int /\ \A i \in k + 1 .. n : TonesOf(s.list)[i] \in Tones
    BY <1>1
  <2>2. /\ r \in Seq(Tones) /\ Len(r) = IF k + 1 <= n THEN n - (k + 1) + 1 ELSE 0
        /\ \A i \in 1 .. n - (k + 1) + 1 : r[i] = TonesOf(s.list)[k + 1 + i - 1]
    BY <2>1, SubSeqProperties
  <2>3. /\ (IF k + 1 <= n THEN n - (k + 1) + 1 ELSE 0) = n - k
        /\ n - (k + 1) + 1 = n - k
        /\ \A i \in 1 .. n - k : k + 1 + i - 1 = k + i /\ k + i \in 1 .. n
    BY <1>1
  <2>4. /\ TonesOf(m) \in Seq(Tones) /\ Len(TonesOf(m)) = n - k
        /\ \A i \in 1 .. n - k : TonesOf(m)[i] = m[i].tone
    BY <1>4, TonesSeq DEF m
  <2> HIDE DEF r
  <2>5. ASSUME NEW i \in 1 .. n - k PROVE TonesOf(m)[i] = r[i]
    <3>1. r[i] = s.list[k + i].tone
      BY <1>1, <2>2, <2>3
    <3>2. m[i].tone = s.list[k + i].tone
      <4>1. s.list[k + i] \in Player
        BY <1>1, <2>3
      <4> QED BY <1>4, <4>1, StartedLemma DEF m
    <3> QED BY <2>4, <3>1, <3>2
  <2>6. Len(r) = n - k
    BY <2>2, <2>3
  <2>7. TonesOf(m) = r
    BY <2>2, <2>4, <2>5, <2>6, SeqEqual
  <2> QED BY <2>7 DEF r
<1>9. ASSUME \A i \in DOMAIN s.list : s.list[i].stream = "none"
      PROVE  Sounding(t.list, t.queue)
  <2>1. DOMAIN m = 1 .. n - k /\ (m # << >> => n - k # 0)
    BY <1>4, SeqFacts DEF m
  <2>2. \A i \in 1 .. n - k : i > 1 => m[i].stream = "none"
    <3>1. \A i \in 1 .. n - k : k + i \in 1 .. n
      BY <1>1
    <3>2. ASSUME NEW i \in 1 .. n - k, i > 1 PROVE m[i] = s.list[k + i]
      BY <1>4, <3>2 DEF m
    <3> QED BY <1>1, <1>9, <3>1, <3>2
  <2>3. m # << >> => m[1].stream = "started"
    <3> SUFFICES ASSUME m # << >> PROVE m[1].stream = "started"
      OBVIOUS
    <3>1. 1 \in 1 .. n - k /\ k + 1 \in 1 .. n
      BY <1>1, <2>1
    <3> QED BY <1>1, <1>4, <3>1, StartedLemma DEF m
  <2> QED BY <1>5, <1>7, <2>1, <2>2, <2>3 DEF Sounding
<1>10. SameRest(s, t) /\ t.g_player_id = s.g_player_id
  BY <1>5, <1>7 DEF SameRest
<1>11. /\ TonesOf(t.list) = SubSeq(TonesOf(s.list), k + 1, n)
       /\ Told(t) = Told(s) \cup {s.list[i].tone : i \in 1 .. k}
  BY <1>3, <1>5, <1>6, <1>7, <1>8 DEF f
<1>12. ListTags(t.list) \subseteq ListTags(s.list)
  <2>1. DOMAIN m = 1 .. n - k
    BY <1>4, SeqFacts DEF m
  <2>2. \A i \in 1 .. n - k : k + i \in 1 .. n
    BY <1>1
  <2>3. ASSUME NEW i \in 1 .. n - k
        PROVE  m[i].id = s.list[k + i].id /\ m[i].tone = s.list[k + i].tone
    <3>1. s.list[k + i] \in Player
      BY <1>1, <2>2
    <3> QED BY <1>4, <3>1, StartedLemma DEF m
  <2>4. ASSUME NEW i \in 1 .. n - k
        PROVE  <<m[i].id, m[i].tone>> \in ListTags(s.list)
    <3>1. k + i \in DOMAIN s.list
      BY <1>1, <2>2
    <3>2. <<m[i].id, m[i].tone>> = <<s.list[k + i].id, s.list[k + i].tone>>
      BY <2>3
    <3> QED BY <3>1, <3>2 DEF ListTags
  <2>5. t.list = m
    BY <1>5, <1>7
  <2> QED BY <2>1, <2>4, <2>5 DEF ListTags
<1>13. Hears(s, t, {})
  <2> SUFFICES ASSUME Once(s), Closed(s) PROVE Closed(t)
    BY DEF Hears
  <2>1. \A i \in 1 .. k : i \in 1 .. n
    BY <1>1
  <2>2. In(f) \subseteq In(s.list)
    BY <1>1, <1>3, <2>1 DEF In, f
  <2>3. In(f) \cap Told(u) = {}
    BY <1>6, <2>2 DEF Once
  <2>4. Closed(u)
    BY <1>5 DEF Closed
  <2> QED BY <1>7, <2>3, <2>4
<1> QED BY <1>7, <1>9, <1>10, <1>11, <1>12, <1>13

\* The head leaves, and perhaps some that cannot be started.
LEMMA LeaveLemma ==
  ASSUME NEW s \in Bud, s.list # << >>, NEW t \in LeaveHead(s), NEW X
  PROVE  /\ t \in Bud /\ SameRest(s, t) /\ t.g_player_id = s.g_player_id
         /\ Moves(s, t, X)
         /\ (\A i \in DOMAIN s.list : i > 1 => s.list[i].stream = "none") =>
              Sounding(t.list, t.queue)
         /\ ListTags(t.list) \subseteq ListTags(s.list) /\ Hears(s, t, {})
<1> DEFINE n == Len(s.list)
           l == Tail(s.list)
           v == [s EXCEPT !.list = l]
           h == <<Head(s.list)>>
<1>1. /\ s.list \in Seq(Player) /\ n \in Nat /\ n > 0 /\ DOMAIN s.list = 1 .. n
      /\ l \in Seq(Player) /\ Len(l) = n - 1 /\ DOMAIN l = 1 .. n - 1
      /\ \A i \in 1 .. n - 1 : l[i] = s.list[i + 1]
      /\ h \in Seq(Player) /\ In(h) = {s.list[1].tone}
  <2>1. s.list \in Seq(Player)
    BY DEF Bud
  <2>2. /\ n \in Nat /\ n > 0 /\ DOMAIN s.list = 1 .. n /\ Head(s.list) = s.list[1]
        /\ Head(s.list) \in Player
        /\ l \in Seq(Player) /\ Len(l) = n - 1
        /\ \A i \in 1 .. Len(l) : l[i] = s.list[i + 1]
    BY <2>1, SeqFacts, HeadTailProperties
  <2>3. h \in Seq(Player) /\ In(h) = {s.list[1].tone}
    BY <2>2 DEF In
  <2> HIDE DEF l, h
  <2>4. DOMAIN l = 1 .. n - 1
    BY <2>2, SeqFacts
  <2> QED BY <2>1, <2>2, <2>3, <2>4
<1>2. PICK u \in TryNext(v) : t = Freed(u, h)
  BY DEF LeaveHead
<1> HIDE DEF l, h
<1>3. v \in Bud /\ SameRest(s, v) /\ v.g_player_id = s.g_player_id /\ v.list = l /\ v.heard = s.heard
  BY <1>1 DEF Bud, SameRest
<1>4. Told(v) = Told(s)
  BY <1>3 DEF Told
<1> HIDE DEF v
<1>5. /\ u \in Bud /\ SameRest(v, u) /\ u.g_player_id = v.g_player_id
      /\ (\A i \in DOMAIN l : l[i].stream = "none") => Sounding(u.list, u.queue)
      /\ ListTags(u.list) \subseteq ListTags(l) /\ Hears(v, u, {})
  BY <1>3, TryNextLemma
<1>6. PICK k \in 0 .. n - 1 : /\ TonesOf(u.list) = SubSeq(TonesOf(l), k + 1, n - 1)
                              /\ Told(u) = Told(s) \cup {l[i].tone : i \in 1 .. k}
  <2>1. \E k \in 0 .. Len(v.list) :
          /\ TonesOf(u.list) = SubSeq(TonesOf(v.list), k + 1, Len(v.list))
          /\ Told(u) = Told(v) \cup {v.list[i].tone : i \in 1 .. k}
    BY <1>3, TryNextLemma
  <2>2. Len(v.list) = n - 1 /\ TonesOf(v.list) = TonesOf(l)
    BY <1>1, <1>3
  <2>3. PICK k \in 0 .. n - 1 :
          /\ TonesOf(u.list) = SubSeq(TonesOf(l), k + 1, n - 1)
          /\ Told(u) = Told(v) \cup {v.list[i].tone : i \in 1 .. k}
    BY <2>1, <2>2
  <2>4. {v.list[i].tone : i \in 1 .. k} = {l[i].tone : i \in 1 .. k}
    BY <1>3
  <2> QED BY <1>4, <2>3, <2>4
<1>7. /\ t \in Bud /\ SameRest(u, t) /\ t.list = u.list /\ t.g_player_id = u.g_player_id
      /\ Told(t) = Told(u) \cup {s.list[1].tone}
      /\ s.list[1].tone \notin Told(u) /\ Closed(u) => Closed(t)
  BY <1>1, <1>2, <1>5, FreedLemma, SMTT(30)
<1>8. {l[i].tone : i \in 1 .. k} \cup {s.list[1].tone} = {s.list[i].tone : i \in 1 .. k + 1}
  <2>1. \A i \in 1 .. k : l[i] = s.list[i + 1] /\ i + 1 \in 1 .. k + 1
    BY <1>1
  <2>2. \A i \in 1 .. k + 1 : i = 1 \/ (i - 1 \in 1 .. k /\ s.list[i] = l[i - 1])
    BY <1>1
  <2>3. 1 \in 1 .. k + 1
    BY <1>1
  <2> QED BY <2>1, <2>2, <2>3, SMTT(30)
<1>9. SubSeq(TonesOf(l), k + 1, n - 1) = SubSeq(TonesOf(s.list), k + 1 + 1, n)
  <2> DEFINE p == SubSeq(TonesOf(l), k + 1, n - 1)
             r == SubSeq(TonesOf(s.list), k + 1 + 1, n)
             m == n - 1 - k
  <2>1. /\ Len(TonesOf(l)) = n - 1 /\ Len(TonesOf(s.list)) = n
        /\ \A i \in 1 .. n : TonesOf(s.list)[i] = s.list[i].tone /\ s.list[i].tone \in Tones
        /\ \A i \in 1 .. n - 1 : TonesOf(l)[i] = l[i].tone /\ l[i].tone \in Tones
    BY <1>1, TonesSeq
  <2>2. /\ p \in Seq(Tones) /\ Len(p) = m
        /\ \A i \in 1 .. m : p[i] = TonesOf(l)[k + i]
    <3>1. k + 1 \in Int /\ n - 1 \in Int /\ \A i \in k + 1 .. n - 1 : TonesOf(l)[i] \in Tones
      BY <1>1, <2>1
    <3>2. /\ p \in Seq(Tones) /\ Len(p) = IF k + 1 <= n - 1 THEN n - 1 - (k + 1) + 1 ELSE 0
          /\ \A i \in 1 .. n - 1 - (k + 1) + 1 : p[i] = TonesOf(l)[k + 1 + i - 1]
      BY <3>1, SubSeqProperties
    <3>3. /\ (IF k + 1 <= n - 1 THEN n - 1 - (k + 1) + 1 ELSE 0) = m
          /\ n - 1 - (k + 1) + 1 = m
          /\ \A i \in 1 .. m : k + 1 + i - 1 = k + i
      BY <1>1
    <3> HIDE DEF p, m
    <3> QED BY <3>2, <3>3
  <2>3. /\ r \in Seq(Tones) /\ Len(r) = m
        /\ \A i \in 1 .. m : r[i] = TonesOf(s.list)[k + 1 + i]
    <3>1. k + 1 + 1 \in Int /\ n \in Int /\ \A i \in k + 1 + 1 .. n : TonesOf(s.list)[i] \in Tones
      BY <1>1, <2>1
    <3>2. /\ r \in Seq(Tones) /\ Len(r) = IF k + 1 + 1 <= n THEN n - (k + 1 + 1) + 1 ELSE 0
          /\ \A i \in 1 .. n - (k + 1 + 1) + 1 : r[i] = TonesOf(s.list)[k + 1 + 1 + i - 1]
      BY <3>1, SubSeqProperties
    <3>3. /\ (IF k + 1 + 1 <= n THEN n - (k + 1 + 1) + 1 ELSE 0) = m
          /\ n - (k + 1 + 1) + 1 = m
          /\ \A i \in 1 .. m : k + 1 + 1 + i - 1 = k + 1 + i
      BY <1>1
    <3> HIDE DEF r, m
    <3> QED BY <3>2, <3>3
  <2>4. \A i \in 1 .. m : k + i \in 1 .. n - 1 /\ k + 1 + i \in 1 .. n /\ k + i + 1 = k + 1 + i
    BY <1>1
  <2> HIDE DEF p, r, m
  <2>5. ASSUME NEW i \in 1 .. m PROVE p[i] = r[i]
    <3>1. k + i \in 1 .. n - 1 /\ k + 1 + i \in 1 .. n /\ k + i + 1 = k + 1 + i
      BY <2>4
    <3>2. p[i] = l[k + i].tone /\ r[i] = s.list[k + 1 + i].tone
      BY <2>1, <2>2, <2>3, <3>1
    <3>3. l[k + i] = s.list[k + i + 1]
      BY <1>1, <3>1
    <3> QED BY <3>1, <3>2, <3>3
  <2>6. p = r
    BY <2>2, <2>3, <2>5, SeqEqual
  <2> QED BY <2>6 DEF p, r
<1>10. Moves(s, t, X)
  <2>1. k + 1 \in 0 .. Len(s.list)
    BY <1>1
  <2> QED BY <1>6, <1>7, <1>8, <1>9, <2>1 DEF Moves
<1>11. (\A i \in DOMAIN s.list : i > 1 => s.list[i].stream = "none") => Sounding(t.list, t.queue)
  <2>1. \A i \in 1 .. n - 1 : i + 1 \in 1 .. n /\ i + 1 > 1
    BY <1>1
  <2>2. ASSUME \A i \in DOMAIN s.list : i > 1 => s.list[i].stream = "none", NEW i \in DOMAIN l
        PROVE  l[i].stream = "none"
    BY <1>1, <2>1, <2>2
  <2> QED BY <1>5, <1>7, <2>2 DEF SameRest
<1>12. /\ \A i \in 1 .. n - 1 : i + 1 \in 1 .. n /\ i + 1 # 1 /\ l[i] = s.list[i + 1]
       /\ 1 \in 1 .. n /\ \A i \in 1 .. k : i \in 1 .. n - 1
       /\ \A i, j \in 1 .. n - 1 : i + 1 = j + 1 => i = j
  BY <1>1
<1>13. ListTags(t.list) \subseteq ListTags(s.list)
  <2>1. ListTags(l) \subseteq ListTags(s.list)
    <3>1. ASSUME NEW i \in DOMAIN l
          PROVE  \E j \in DOMAIN s.list : <<l[i].id, l[i].tone>> = <<s.list[j].id, s.list[j].tone>>
      BY <1>1, <1>12
    <3> QED BY <3>1, Zenon DEF ListTags
  <2> QED BY <1>5, <1>7, <2>1
<1>14. Hears(s, t, {})
  <2> SUFFICES ASSUME Once(s), Closed(s) PROVE Closed(t)
    BY DEF Hears
  <2>1. \A i, j \in 1 .. n : s.list[i].tone = s.list[j].tone => i = j
    BY <1>1 DEF Once
  <2>2. \A i \in 1 .. n : s.list[i].tone \notin Told(s)
    BY <1>1 DEF Once, In
  <2>3. Once(v)
    <3>1. \A i, j \in 1 .. n - 1 : l[i].tone = l[j].tone => i = j
      BY <1>12, <2>1
    <3>2. \A i \in 1 .. n - 1 : l[i].tone \notin Told(s)
      BY <1>12, <2>2
    <3>3. DOMAIN v.list = 1 .. n - 1 /\ v.list = l
      BY <1>1, <1>3
    <3>4. In(v.list) \cap Told(v) = {}
      BY <1>4, <3>2, <3>3 DEF In
    <3> QED BY <3>1, <3>3, <3>4 DEF Once
  <2>4. Closed(v)
    BY <1>3 DEF Closed
  <2>5. s.list[1].tone \notin Told(u)
    <3>1. \A i \in 1 .. k : l[i].tone # s.list[1].tone
      BY <1>12, <2>1
    <3> QED BY <1>6, <1>12, <2>2, <3>1
  <2> QED BY <1>5, <1>7, <2>3, <2>4, <2>5 DEF Hears
<1> QED BY <1>3, <1>5, <1>7, <1>10, <1>11, <1>13, <1>14 DEF SameRest

\* The head goes on with the next file.
LEMMA NextFileLemma ==
  ASSUME NEW s \in Bud, s.list # << >>, NEW t \in NextFile(s), NEW X
  PROVE  /\ t \in Bud /\ SameRest(s, t) /\ t.g_player_id = s.g_player_id
         /\ Moves(s, t, X)
         /\ (\A i \in DOMAIN s.list : i > 1 => s.list[i].stream = "none") =>
              Sounding(t.list, t.queue)
         /\ ListTags(t.list) \subseteq ListTags(s.list) /\ Hears(s, t, {})
<1> DEFINE n == Len(s.list)
<1>1. /\ s.list \in Seq(Player) /\ n \in Nat /\ n > 0 /\ DOMAIN s.list = 1 .. n
      /\ Head(s.list) = s.list[1] /\ s.list[1] \in Player /\ 1 \in 1 .. n
  <2>1. s.list \in Seq(Player)
    BY DEF Bud
  <2> QED BY <2>1, SeqFacts, HeadTailProperties
<1>2. PICK k \in 0 .. 1 :
        t = [s EXCEPT !.list = [s.list EXCEPT ![1] = [Started(s.list[1]) EXCEPT !.more = k]]]
  <2>1. Head(s.list).more \in 0 .. 1
    BY <1>1 DEF Player
  <2>2. \A k \in 0 .. Head(s.list).more - 1 : k \in 0 .. 1
    BY <2>1
  <2> QED BY <2>2 DEF NextFile
<1> DEFINE p == [Started(s.list[1]) EXCEPT !.more = k]
           l == [s.list EXCEPT ![1] = p]
<1>3. /\ p \in Player /\ p.tone = s.list[1].tone /\ p.stream = "started"
      /\ p.id = s.list[1].id
  BY <1>1, StartedLemma DEF Player
<1> HIDE DEF p
<1>4. /\ l \in Seq(Player) /\ Len(l) = n
      /\ \A i \in 1 .. n : l[i] = IF i = 1 THEN p ELSE s.list[i]
  BY <1>1, <1>3, ExceptSeq
<1>5. t = [s EXCEPT !.list = l]
  BY <1>2 DEF p
<1> HIDE DEF l
<1>6. t \in Bud /\ SameRest(s, t) /\ t.g_player_id = s.g_player_id /\ t.list = l /\ t.heard = s.heard
  BY <1>4, <1>5 DEF Bud, SameRest
<1>7. Told(t) = Told(s)
  BY <1>6 DEF Told
<1>8. TonesOf(l) = TonesOf(s.list)
  BY <1>1, <1>3, <1>4, TonesSeq, SeqEqual
<1>9. Moves(s, t, X)
  BY <1>6, <1>7, <1>8, MovesLemma
<1>10. (\A i \in DOMAIN s.list : i > 1 => s.list[i].stream = "none") => Sounding(t.list, t.queue)
  <2>1. DOMAIN l = 1 .. n
    BY <1>4, SeqFacts
  <2> QED BY <1>1, <1>3, <1>4, <1>6, <2>1 DEF Sounding
<1>11. ListTags(t.list) \subseteq ListTags(s.list) /\ Hears(s, t, {})
  <2>1. DOMAIN l = 1 .. n
    BY <1>4, SeqFacts
  <2>2. \A i \in 1 .. n : l[i].id = s.list[i].id /\ l[i].tone = s.list[i].tone
    BY <1>3, <1>4
  <2> QED BY <1>1, <1>6, <2>1, <2>2 DEF ListTags, Hears, Closed
<1> QED BY <1>6, <1>9, <1>10, <1>11

\* An event taken from the queue ends the head of the list or finds it sounding still.
LEMMA CallbackLemma ==
  ASSUME NEW s \in Bud, NEW m \in StreamEvents, NEW t \in tone_player_callback(s, m)
  PROVE  /\ t \in Bud /\ SameRest(s, t) /\ t.g_player_id = s.g_player_id
         /\ Moves(s, t, {})
         /\ \A q : /\ Sounding(s.list, q)
                   /\ s.list # << >> /\ EndWaits(s.list, q) =>
                        \/ m.id = s.list[1].id /\ m.do \in {"STOP", "FAILED"}
                        \/ EndWaits(s.list, s.queue)
                   => Sounding(t.list, t.queue)
         /\ ListTags(t.list) \subseteq ListTags(s.list)
         /\ \/ t = s
            \/ /\ s.list # << >> /\ s.list[1].id = m.id
               /\ m.tone = s.list[1].tone => Hears(s, t, {})
<1>1. m.tone \in Tones /\ m.do \in {"START", "STOP", "FAILED"}
  BY DEF StreamEvents
<1>2. SameRest(s, s) /\ Moves(s, s, {})
  BY MovesLemma DEF SameRest
<1>3. FromHead(s, m) => s.list # << >> /\ s.list[1].id = m.id
  <2>1. s.list \in Seq(Player)
    BY DEF Bud
  <2> QED BY <2>1 DEF FromHead, tone_player_runing
<1>4. s.list # << >> /\ m.id = s.list[1].id => FromHead(s, m)
  <2>1. s.list \in Seq(Player)
    BY DEF Bud
  <2> QED BY <2>1 DEF FromHead, tone_player_runing
<1>5. CASE ~FromHead(s, m)
  <2>1. t = s
    BY <1>5 DEF tone_player_callback
  <2>2. \A q : /\ Sounding(s.list, q)
               /\ s.list # << >> /\ EndWaits(s.list, q) =>
                    \/ m.id = s.list[1].id /\ m.do \in {"STOP", "FAILED"}
                    \/ EndWaits(s.list, s.queue)
               => Sounding(s.list, s.queue)
    BY <1>4, <1>5 DEF Sounding
  <2> QED BY <1>2, <2>1, <2>2
<1>6. CASE FromHead(s, m) /\ m.do = "START"
  <2>1. t = Tell(s, m.tone, "START")
    BY <1>6 DEF tone_player_callback
  <2>2. /\ t \in Bud /\ SameRest(s, t) /\ t.list = s.list /\ t.g_player_id = s.g_player_id
        /\ Told(t) = Told(s)
        /\ m.tone \notin Told(s) /\ Closed(s) => Closed(t)
    BY <1>1, <2>1, TellLemma
  <2>3. Moves(s, t, {})
    BY <2>2, MovesLemma
  <2>4. \A q : /\ Sounding(s.list, q)
               /\ s.list # << >> /\ EndWaits(s.list, q) =>
                    \/ m.id = s.list[1].id /\ m.do \in {"STOP", "FAILED"}
                    \/ EndWaits(s.list, s.queue)
               => Sounding(t.list, t.queue)
    BY <1>6, <2>2 DEF Sounding, SameRest
  <2>5. m.tone = s.list[1].tone => Hears(s, t, {})
    <3>1. s.list[1].tone \in In(s.list)
      <4>1. s.list \in Seq(Player)
        BY DEF Bud
      <4>2. 1 \in DOMAIN s.list
        BY <1>3, <1>6, <4>1, SeqFacts
      <4> QED BY <4>2 DEF In
    <3> QED BY <2>2, <3>1 DEF Hears, Once
  <2> QED BY <1>3, <1>6, <2>2, <2>3, <2>4, <2>5
<1>7. CASE FromHead(s, m) /\ m.do \in {"STOP", "FAILED"}
  <2>1. t \in NextFile(s) \/ t \in LeaveHead(s)
    BY <1>7 DEF tone_player_callback
  <2>2. /\ t \in Bud /\ SameRest(s, t) /\ t.g_player_id = s.g_player_id
        /\ Moves(s, t, {})
        /\ (\A i \in DOMAIN s.list : i > 1 => s.list[i].stream = "none") =>
             Sounding(t.list, t.queue)
        /\ ListTags(t.list) \subseteq ListTags(s.list) /\ Hears(s, t, {})
    BY <1>3, <1>7, <2>1, LeaveLemma, NextFileLemma
  <2> QED BY <1>3, <1>7, <2>2 DEF Sounding
<1> QED BY <1>1, <1>5, <1>6, <1>7

-----------------------------------------------------------------------------
(* Requests. *)

LEMMA NewPlayerLemma ==
  ASSUME NEW s \in Bud, NEW r \in Request
  PROVE  NewPlayer(s, r) \in Player /\ NewPlayer(s, r).tone = r.tone
         /\ NewPlayer(s, r).stream = "none" /\ NewPlayer(s, r).id = s.g_player_id
BY DEF NewPlayer, Player, Request, Bud

\* Buds that differ in nothing the line depends on.
LEMMA SameMoves ==
  ASSUME NEW s, NEW u, NEW t, NEW X, u.list = s.list, u.heard = s.heard, Moves(u, t, X)
  PROVE  Moves(s, t, X)
<1>1. Told(u) = Told(s)
  BY DEF Told
<1>2. \A k : {u.list[i].tone : i \in 1 .. k} = {s.list[i].tone : i \in 1 .. k}
  OBVIOUS
<1>3. TonesOf(u.list) = TonesOf(s.list) /\ Len(u.list) = Len(s.list)
  OBVIOUS
<1> QED BY <1>1, <1>2, <1>3 DEF Moves

LEMMA SameSeen ==
  ASSUME NEW s, NEW u, NEW t, NEW X, u.list = t.list, u.heard = t.heard, Moves(s, t, X)
  PROVE  Moves(s, u, X)
<1>1. Told(u) = Told(t)
  BY DEF Told
<1>2. TonesOf(u.list) = TonesOf(t.list)
  OBVIOUS
<1> QED BY <1>1, <1>2 DEF Moves

\* The same of what the callbacks hear.
LEMMA SameHears ==
  ASSUME NEW s, NEW u, NEW t, NEW X, u.list = s.list, u.heard = s.heard, Hears(u, t, X)
  PROVE  Hears(s, t, X)
BY DEF Hears, Once, Closed, Done, Told

LEMMA MoreMoves ==
  ASSUME NEW s, NEW t, NEW X, Moves(s, t, {})
  PROVE  Moves(s, t, X)
BY DEF Moves

\* The identifier wraps within its span.
LEMMA CreatedLemma ==
  ASSUME NEW s \in Bud
  PROVE  /\ Created(s) \in Bud /\ SameRest(s, Created(s))
         /\ Created(s).list = s.list /\ Created(s).heard = s.heard
         /\ Created(s).g_player_id = (s.g_player_id + 1) % IdSpan
<1> DEFINE n == (s.g_player_id + 1) % IdSpan
<1>1. n \in 0 .. IdSpan - 1
  <2>1. s.g_player_id \in Nat /\ IdSpan \in Nat /\ IdSpan > 0
    BY ToneAssumption DEF Bud
  <2> QED BY <2>1
<1>2. Created(s) = [s EXCEPT !.g_player_id = n]
  BY DEF Created
<1> HIDE DEF n
<1>3. /\ Created(s) \in Bud /\ SameRest(s, Created(s))
      /\ Created(s).list = s.list /\ Created(s).heard = s.heard
      /\ Created(s).g_player_id = n
  BY <1>1, <1>2 DEF Bud, SameRest
<1> QED BY <1>3 DEF n

LEMMA PlayFileLemma ==
  ASSUME NEW s \in Bud, NEW r \in Request, NEW t \in play_tone_file(s, r)
  PROVE  /\ t \in Bud /\ SameRest(s, t) /\ Moves(s, t, {r.tone})
         /\ Sounding(s.list, s.queue) => Sounding(t.list, t.queue)
         /\ Numbers(s, t, r.tone) /\ Hears(s, t, {r.tone})
<1>1. t \in tone_player_add(Created(s), NewPlayer(s, r)) \/ t = Tell(s, r.tone, "STOP")
  BY DEF play_tone_file
<1>2. CASE t \in tone_player_add(Created(s), NewPlayer(s, r))
  <2> DEFINE c == Created(s)
             p == NewPlayer(s, r)
  <2>1. /\ c \in Bud /\ SameRest(s, c) /\ c.list = s.list /\ c.heard = s.heard
        /\ c.g_player_id = (s.g_player_id + 1) % IdSpan
    BY CreatedLemma
  <2>2. p \in Player /\ p.tone = r.tone /\ p.stream = "none" /\ p.id = s.g_player_id
    BY NewPlayerLemma
  <2>3. t \in tone_player_add(c, p)
    BY <1>2
  <2> HIDE DEF c, p
  <2>4. /\ t \in Bud /\ SameRest(c, t) /\ Moves(c, t, {r.tone}) /\ t.g_player_id = c.g_player_id
        /\ Sounding(c.list, c.queue) => Sounding(t.list, t.queue)
        /\ ListTags(t.list) \subseteq ListTags(c.list) \cup {<<p.id, p.tone>>}
        /\ p.tone \in Done(t) /\ Hears(c, t, {r.tone})
    BY <2>1, <2>2, <2>3, AddLemma
  <2>5. Moves(s, t, {r.tone}) /\ Hears(s, t, {r.tone})
    BY <2>1, <2>4, SameMoves, SameHears
  <2>6. Numbers(s, t, r.tone)
    BY <2>1, <2>2, <2>4 DEF Numbers
  <2> QED BY <2>1, <2>4, <2>5, <2>6 DEF SameRest
<1>3. CASE t = Tell(s, r.tone, "STOP")
  <2>1. r.tone \in Tones
    BY DEF Request
  <2>2. /\ t \in Bud /\ SameRest(s, t) /\ t.list = s.list /\ Told(t) = Told(s) \cup {r.tone}
        /\ t.g_player_id = s.g_player_id
        /\ r.tone \notin Told(s) /\ Closed(s) => Closed(t)
    BY <1>3, <2>1, TellLemma
  <2>3. Moves(s, t, {r.tone})
    BY <2>2, MovesLemma
  <2>4. Numbers(s, t, r.tone) /\ Hears(s, t, {r.tone})
    BY <2>2 DEF Numbers, Hears, Done
  <2> QED BY <2>2, <2>3, <2>4 DEF SameRest
<1> QED BY <1>1, <1>2, <1>3

\* A request may first stop everything.
Preempted(s, r) == IF r.preempt THEN tone_player_stop(s) ELSE s

LEMMA PreemptedLemma ==
  ASSUME NEW s \in Bud, NEW r
  PROVE  LET u == Preempted(s, r) IN
         /\ u \in Bud /\ SameRest(s, u)
         /\ \A t \in Bud : \A x : Moves(u, t, {x}) => Moves(s, t, {x})
         /\ Sounding(s.list, s.queue) => Sounding(u.list, u.queue)
         /\ \A t, X : Hears(u, t, X) => Hears(s, t, X)
         /\ \A t, x : Numbers(u, t, x) => Numbers(s, t, x)
         /\ u.g_player_id = s.g_player_id /\ ListTags(u.list) \subseteq ListTags(s.list)
<1>1. CASE r.preempt
  <2> DEFINE u == tone_player_stop(s)
  <2>1. /\ u \in Bud /\ SameRest(s, u) /\ u.list = << >> /\ Told(u) = Told(s) \cup In(s.list)
        /\ u.g_player_id = s.g_player_id /\ Once(u) /\ Hears(s, u, {})
    BY StopLemma
  <2> HIDE DEF u
  <2>2. \A t \in Bud : \A x : Moves(u, t, {x}) => Moves(s, t, {x})
    BY <2>1, MovesAfterStop
  <2>3. Sounding(u.list, u.queue)
    BY <2>1 DEF Sounding
  <2>4. ListTags(u.list) \subseteq ListTags(s.list) /\ Done(u) \subseteq Done(s)
    BY <2>1 DEF ListTags, Done, In
  <2>5. \A t, X : Hears(u, t, X) => Hears(s, t, X)
    BY <2>1, <2>4 DEF Hears
  <2>6. \A t, x : Numbers(u, t, x) => Numbers(s, t, x)
    BY <2>1, <2>4 DEF Numbers
  <2> QED BY <1>1, <2>1, <2>2, <2>3, <2>4, <2>5, <2>6 DEF Preempted, u
<1>2. CASE ~r.preempt
  BY <1>2 DEF Preempted, SameRest
<1> QED BY <1>1, <1>2

LEMMA LocalLemma ==
  ASSUME NEW s \in Bud, NEW r \in Request, NEW t \in play_tone_file(Preempted(s, r), r)
  PROVE  /\ t \in Bud /\ SameRest(s, t) /\ Moves(s, t, {r.tone})
         /\ Sounding(s.list, s.queue) => Sounding(t.list, t.queue)
         /\ Numbers(s, t, r.tone) /\ Hears(s, t, {r.tone})
<1> DEFINE u == Preempted(s, r)
<1>1. /\ u \in Bud /\ SameRest(s, u)
      /\ \A v \in Bud : \A x : Moves(u, v, {x}) => Moves(s, v, {x})
      /\ Sounding(s.list, s.queue) => Sounding(u.list, u.queue)
      /\ \A v, X : Hears(u, v, X) => Hears(s, v, X)
      /\ \A v, x : Numbers(u, v, x) => Numbers(s, v, x)
  BY PreemptedLemma
<1>2. t \in play_tone_file(u, r)
  OBVIOUS
<1> HIDE DEF u
<1>3. /\ t \in Bud /\ SameRest(u, t) /\ Moves(u, t, {r.tone})
      /\ Sounding(u.list, u.queue) => Sounding(t.list, t.queue)
      /\ Numbers(u, t, r.tone) /\ Hears(u, t, {r.tone})
  BY <1>1, <1>2, PlayFileLemma
<1> QED BY <1>1, <1>3 DEF SameRest

\* A tone that has arrived joins the line, is refused, or is held back by its timer.
LEMMA ArriveLemma ==
  ASSUME NEW s \in Bud, NEW r \in Request, NEW t \in tws_tone_play_in_task(s, r)
  PROVE  /\ t \in Bud /\ t.queue = s.queue /\ t.tries = s.tries
         /\ Sounding(s.list, s.queue) => Sounding(t.list, t.queue)
         /\ Hears(s, t, {r.tone})
         /\ \/ /\ t.held = s.held /\ t.adding = FALSE /\ Moves(s, t, {r.tone})
               /\ Numbers(s, t, r.tone)
            \/ \E p \in Player : /\ p.tone = r.tone /\ p.stream = "none" /\ p.id = s.g_player_id
                                 /\ t.held = s.held \cup {p} /\ Moves(s, t, {})
                                 /\ t.list = s.list /\ t.heard = s.heard
                                 /\ t.g_player_id = (s.g_player_id + 1) % IdSpan
<1> DEFINE u == Preempted(s, r)
           p == NewPlayer(u, r)
<1>1. /\ u \in Bud /\ SameRest(s, u)
      /\ \A v \in Bud : \A x : Moves(u, v, {x}) => Moves(s, v, {x})
      /\ Sounding(s.list, s.queue) => Sounding(u.list, u.queue)
      /\ \A v, X : Hears(u, v, X) => Hears(s, v, X)
      /\ \A v, x : Numbers(u, v, x) => Numbers(s, v, x)
  BY PreemptedLemma
<1>2. \/ t = Added(u)
      \/ \E v \in tone_player_add(Created(u), p) : t = Added(v)
      \/ /\ tone_player_runing(u) /\ ~r.alone
         /\ t = [Created(u) EXCEPT !.held = @ \cup {p}]
  BY DEF tws_tone_play_in_task, Preempted
<1>3. /\ p \in Player /\ p.tone = r.tone /\ p.stream = "none" /\ r.tone \in Tones
      /\ p.id = u.g_player_id
  BY <1>1, NewPlayerLemma DEF Request
<1>4. u = s \/ u.list = << >>
  BY StopLemma DEF Preempted
<1> HIDE DEF u, p
<1>5. ASSUME NEW v \in Bud, NEW w, w = Added(v)
      PROVE  /\ w \in Bud /\ w.queue = v.queue /\ w.tries = v.tries /\ w.held = v.held
             /\ w.adding = FALSE /\ w.list = v.list /\ w.heard = v.heard
             /\ w.g_player_id = v.g_player_id
  BY <1>5 DEF Added, Bud
<1>6. CASE t = Added(u)
  <2>1. /\ t \in Bud /\ t.queue = u.queue /\ t.tries = u.tries /\ t.held = u.held
        /\ t.adding = FALSE /\ t.list = u.list /\ t.heard = u.heard
        /\ t.g_player_id = u.g_player_id
    BY <1>1, <1>5, <1>6
  <2>2. Moves(u, t, {r.tone})
    <3>1. Moves(u, u, {r.tone})
      BY <1>1, MovesLemma
    <3> QED BY <2>1, <3>1, SameSeen
  <2>3. Moves(s, t, {r.tone})
    BY <1>1, <2>1, <2>2
  <2>4. Numbers(u, t, r.tone) /\ Hears(u, t, {r.tone})
    BY <2>1 DEF Numbers, Hears, Closed
  <2> QED BY <1>1, <2>1, <2>3, <2>4 DEF SameRest
<1>7. ASSUME NEW v \in tone_player_add(Created(u), p), t = Added(v)
      PROVE  /\ t \in Bud /\ t.queue = s.queue /\ t.tries = s.tries
             /\ Sounding(s.list, s.queue) => Sounding(t.list, t.queue)
             /\ t.held = s.held /\ t.adding = FALSE /\ Moves(s, t, {r.tone})
             /\ Numbers(s, t, r.tone) /\ Hears(s, t, {r.tone})
  <2> DEFINE c == Created(u)
  <2>0. /\ c \in Bud /\ SameRest(u, c) /\ c.list = u.list /\ c.heard = u.heard
        /\ c.g_player_id = (u.g_player_id + 1) % IdSpan
    BY <1>1, CreatedLemma
  <2>1. /\ v \in Bud /\ SameRest(c, v) /\ Moves(c, v, {r.tone})
        /\ Sounding(c.list, c.queue) => Sounding(v.list, v.queue)
        /\ v.g_player_id = c.g_player_id
        /\ ListTags(v.list) \subseteq ListTags(c.list) \cup {<<p.id, p.tone>>}
        /\ p.tone \in Done(v) /\ Hears(c, v, {p.tone})
    BY <1>1, <1>3, <1>7, <2>0, AddLemma
  <2> HIDE DEF c
  <2>2. /\ t \in Bud /\ t.queue = v.queue /\ t.tries = v.tries /\ t.held = v.held
        /\ t.adding = FALSE /\ t.list = v.list /\ t.heard = v.heard
        /\ t.g_player_id = v.g_player_id
    BY <1>5, <1>7, <2>1
  <2>3. Moves(u, v, {r.tone})
    BY <1>1, <2>0, <2>1, SameMoves
  <2>4. Moves(s, v, {r.tone})
    BY <1>1, <2>1, <2>3
  <2>5. Moves(s, t, {r.tone})
    BY <2>2, <2>4, SameSeen
  <2>6. Numbers(u, t, r.tone)
    <3>1. r.tone \in Done(t)
      BY <1>3, <2>1, <2>2 DEF Done, Told
    <3> QED BY <1>3, <2>0, <2>1, <2>2, <3>1 DEF Numbers
  <2>7. Hears(u, t, {r.tone})
    <3>1. Hears(u, v, {r.tone})
      BY <1>3, <2>0, <2>1, SameHears
    <3> QED BY <2>2, <3>1 DEF Hears, Closed
  <2> QED BY <1>1, <2>0, <2>1, <2>2, <2>5, <2>6, <2>7 DEF SameRest
<1>8. CASE tone_player_runing(u) /\ t = [Created(u) EXCEPT !.held = @ \cup {p}]
  <2> DEFINE c == Created(u)
  <2>1. u = s
    BY <1>4, <1>8 DEF tone_player_runing
  <2>2. /\ c \in Bud /\ SameRest(s, c) /\ c.list = s.list /\ c.heard = s.heard
        /\ c.g_player_id = (s.g_player_id + 1) % IdSpan
    BY <1>1, <2>1, CreatedLemma
  <2>3. t = [c EXCEPT !.held = @ \cup {p}]
    BY <1>8
  <2> HIDE DEF c
  <2>4. /\ t \in Bud /\ t.queue = c.queue /\ t.tries = c.tries /\ t.held = c.held \cup {p}
        /\ t.list = c.list /\ t.heard = c.heard /\ t.g_player_id = c.g_player_id
    BY <1>3, <2>2, <2>3 DEF Bud
  <2>5. Moves(s, t, {})
    <3>1. Moves(s, s, {})
      BY MovesLemma
    <3> QED BY <2>2, <2>4, <3>1, SameSeen
  <2>6. Hears(s, t, {r.tone})
    BY <2>2, <2>4 DEF Hears, Closed
  <2> QED BY <1>3, <2>1, <2>2, <2>4, <2>5, <2>6 DEF SameRest
<1> QED BY <1>2, <1>6, <1>7, <1>8

-----------------------------------------------------------------------------
(* Tones on their way to a bud: in the messages of app_core, on the air.   *)

Plays(q) == {q[i].req.tone : i \in {j \in DOMAIN q : q[j].do = "play"}}
OncePlays(q) ==
  \A i, j \in DOMAIN q :
    q[i].do = "play" /\ q[j].do = "play" /\ q[i].req.tone = q[j].req.tone => i = j

\* The identifiers of the events that wait, each with its tone.
EventTags(q) == {<<q[i].id, q[i].tone>> : i \in {j \in DOMAIN q : q[j].do # "play"}}

Flying(a) == {a[i].tone : i \in DOMAIN a}
OnceFlying(a) == \A i, j \in DOMAIN a : a[i].tone = a[j].tone => i = j

LEMMA TailAt ==
  ASSUME NEW S, NEW q \in Seq(S), q # << >>
  PROVE  /\ Tail(q) \in Seq(S) /\ Head(q) = q[1] /\ Head(q) \in S /\ 1 \in DOMAIN q
         /\ \A i \in DOMAIN Tail(q) : i + 1 \in DOMAIN q /\ Tail(q)[i] = q[i + 1] /\ i + 1 # 1
         /\ \A i \in DOMAIN q : i = 1 \/ (i - 1 \in DOMAIN Tail(q) /\ q[i] = Tail(q)[i - 1])
         /\ \A i, j \in DOMAIN q : i - 1 = j - 1 => i = j
         /\ \A i, j \in DOMAIN Tail(q) : i + 1 = j + 1 => i = j
<1> DEFINE n == Len(q)
<1>1. n \in Nat /\ n > 0 /\ DOMAIN q = 1 .. n
  BY SeqFacts
<1>2. /\ Head(q) = q[1] /\ Tail(q) \in Seq(S) /\ Len(Tail(q)) = n - 1
      /\ \A i \in 1 .. Len(Tail(q)) : Tail(q)[i] = q[i + 1]
  BY HeadTailProperties
<1>3. DOMAIN Tail(q) = 1 .. n - 1
  BY <1>2, SeqFacts
<1>4. Head(q) \in S /\ 1 \in DOMAIN q
  <2>1. 1 \in 1 .. n
    BY <1>1
  <2> QED BY <1>1, <1>2, <2>1, SeqFacts
<1>5. \A i \in 1 .. n - 1 : i + 1 \in 1 .. n /\ i + 1 # 1
  BY <1>1
<1>6. \A i \in 1 .. n : i = 1 \/ (i - 1 \in 1 .. n - 1 /\ (i - 1) + 1 = i)
  BY <1>1
<1>7. /\ \A i, j \in 1 .. n : i - 1 = j - 1 => i = j
      /\ \A i, j \in 1 .. n - 1 : i + 1 = j + 1 => i = j
  BY <1>1
<1> HIDE DEF n
<1> QED BY <1>1, <1>2, <1>3, <1>4, <1>5, <1>6, <1>7

LEMMA AppendAt ==
  ASSUME NEW S, NEW q \in Seq(S), NEW m \in S
  PROVE  LET n == Len(q) + 1 IN
         /\ Append(q, m) \in Seq(S) /\ n \in DOMAIN Append(q, m) /\ n \notin DOMAIN q
         /\ Append(q, m)[n] = m
         /\ \A i \in DOMAIN q : i \in DOMAIN Append(q, m) /\ Append(q, m)[i] = q[i]
         /\ \A i \in DOMAIN Append(q, m) : i \in DOMAIN q \/ i = n
<1> DEFINE l == Len(q)
           a == Append(q, m)
<1>1. l \in Nat /\ DOMAIN q = 1 .. l
  BY SeqFacts
<1>2. a \in Seq(S) /\ Len(a) = l + 1 /\ a[l + 1] = m /\ \A i \in 1 .. l : a[i] = q[i]
  BY AppendProperties
<1> HIDE DEF a
<1>3. DOMAIN a = 1 .. l + 1
  BY <1>2, SeqFacts
<1>4. /\ l + 1 \in 1 .. l + 1 /\ l + 1 \notin 1 .. l
      /\ \A i \in 1 .. l : i \in 1 .. l + 1
      /\ \A i \in 1 .. l + 1 : i \in 1 .. l \/ i = l + 1
  BY <1>1
<1> HIDE DEF l
<1>5. /\ a \in Seq(S) /\ l + 1 \in DOMAIN a /\ l + 1 \notin DOMAIN q
      /\ a[l + 1] = m
      /\ \A i \in DOMAIN q : i \in DOMAIN a /\ a[i] = q[i]
      /\ \A i \in DOMAIN a : i \in DOMAIN q \/ i = l + 1
  BY <1>1, <1>2, <1>3, <1>4
<1> QED BY <1>5 DEF a, l

\* A queue that has lost nothing is not its tail.
LEMMA LongerLemma ==
  ASSUME NEW S, NEW q \in Seq(S), q # << >>
  PROVE  /\ q # Tail(q)
         /\ \A m \in S : Append(q, m) # Tail(q)
<1> DEFINE u == Tail(q)
<1>1. Len(q) \in Nat /\ Len(q) > 0 /\ Len(u) = Len(q) - 1
  BY SeqFacts, HeadTailProperties
<1> HIDE DEF u
<1>2. q # u
  BY <1>1
<1>3. ASSUME NEW m \in S PROVE Append(q, m) # u
  <2> DEFINE a == Append(q, m)
  <2>1. Len(a) = Len(q) + 1
    BY AppendProperties
  <2> HIDE DEF a
  <2>2. a # u
    BY <1>1, <2>1
  <2> QED BY <2>2 DEF a
<1> QED BY <1>2, <1>3 DEF u

LEMMA PlaysTail ==
  ASSUME NEW q \in Seq(Messages), q # << >>, OncePlays(q)
  PROVE  /\ Tail(q) \in Seq(Messages) /\ Head(q) \in Messages /\ OncePlays(Tail(q))
         /\ Plays(Tail(q)) \subseteq Plays(q)
         /\ Head(q).do = "play" => Head(q).req.tone \in Plays(q) \ Plays(Tail(q))
         /\ Head(q).do # "play" => Plays(Tail(q)) = Plays(q)
         /\ \A l : EndWaits(l, q) => \/ Head(q).id = l[1].id /\ Head(q).do \in {"STOP", "FAILED"}
                                     \/ EndWaits(l, Tail(q))
         /\ EventTags(Tail(q)) \subseteq EventTags(q)
         /\ Head(q).do # "play" => <<Head(q).id, Head(q).tone>> \in EventTags(q)
<1> DEFINE u == Tail(q)
           h == Head(q)
<1>1. /\ u \in Seq(Messages) /\ h = q[1] /\ h \in Messages /\ 1 \in DOMAIN q
      /\ \A i \in DOMAIN u : i + 1 \in DOMAIN q /\ u[i] = q[i + 1] /\ i + 1 # 1
      /\ \A i \in DOMAIN q : i = 1 \/ (i - 1 \in DOMAIN u /\ q[i] = u[i - 1])
      /\ \A i, j \in DOMAIN u : i + 1 = j + 1 => i = j
  BY TailAt
<1> HIDE DEF u, h
<1>2. OncePlays(u)
  BY <1>1, SMTT(30) DEF OncePlays
<1>3. Plays(u) \subseteq Plays(q)
  BY <1>1 DEF Plays
<1>4. h.do = "play" => h.req.tone \in Plays(q) \ Plays(u)
  BY <1>1 DEF Plays, OncePlays
<1>5. h.do # "play" => Plays(u) = Plays(q)
  <2> SUFFICES ASSUME h.do # "play", NEW x \in Plays(q) PROVE x \in Plays(u)
    BY <1>3
  <2>1. PICK i \in DOMAIN q : q[i].do = "play" /\ x = q[i].req.tone
    BY DEF Plays
  <2>2. i - 1 \in DOMAIN u /\ q[i] = u[i - 1]
    BY <1>1, <2>1
  <2> QED BY <2>1, <2>2 DEF Plays
<1>6. \A l : EndWaits(l, q) => (h.id = l[1].id /\ h.do \in {"STOP", "FAILED"}) \/ EndWaits(l, u)
  BY <1>1 DEF EndWaits
<1>7. EventTags(u) \subseteq EventTags(q)
  BY <1>1 DEF EventTags
<1>8. h.do # "play" => <<h.id, h.tone>> \in EventTags(q)
  BY <1>1 DEF EventTags
<1> QED BY <1>1, <1>2, <1>3, <1>4, <1>5, <1>6, <1>7, <1>8 DEF u, h

LEMMA PlaysAppend ==
  ASSUME NEW q \in Seq(Messages), NEW m \in Messages, OncePlays(q),
         m.do = "play" => m.req.tone \notin Plays(q)
  PROVE  LET u == Append(q, m) IN
         /\ u \in Seq(Messages) /\ OncePlays(u)
         /\ Plays(u) = Plays(q) \cup (IF m.do = "play" THEN {m.req.tone} ELSE {})
         /\ \A l : EndWaits(l, q) => EndWaits(l, u)
         /\ \A l : m.do \in {"STOP", "FAILED"} /\ m.id = l[1].id => EndWaits(l, u)
         /\ EventTags(u) = EventTags(q) \cup (IF m.do # "play" THEN {<<m.id, m.tone>>} ELSE {})
         /\ q # << >> => u # Tail(q)
<1> DEFINE u == Append(q, m)
           n == Len(q) + 1
<1>1. /\ u \in Seq(Messages) /\ n \in DOMAIN u /\ n \notin DOMAIN q /\ u[n] = m
      /\ \A i \in DOMAIN q : i \in DOMAIN u /\ u[i] = q[i]
      /\ \A i \in DOMAIN u : i \in DOMAIN q \/ i = n
  BY AppendAt
<1> HIDE DEF u, n
<1>2. OncePlays(u)
  <2>1. \A i \in DOMAIN q : m.do = "play" /\ q[i].do = "play" => q[i].req.tone # m.req.tone
    BY DEF Plays
  <2> QED BY <1>1, <2>1 DEF OncePlays
<1>3. Plays(u) = Plays(q) \cup (IF m.do = "play" THEN {m.req.tone} ELSE {})
  BY <1>1 DEF Plays
<1>4. \A l : EndWaits(l, q) => EndWaits(l, u)
  BY <1>1 DEF EndWaits
<1>5. \A l : m.do \in {"STOP", "FAILED"} /\ m.id = l[1].id => EndWaits(l, u)
  BY <1>1 DEF EndWaits
<1>6. EventTags(u) = EventTags(q) \cup (IF m.do # "play" THEN {<<m.id, m.tone>>} ELSE {})
  BY <1>1 DEF EventTags
<1>7. q # << >> => u # Tail(q)
  BY LongerLemma DEF u
<1> QED BY <1>1, <1>2, <1>3, <1>4, <1>5, <1>6, <1>7 DEF u

LEMMA FlyingTail ==
  ASSUME NEW a \in Seq(Request), a # << >>, OnceFlying(a)
  PROVE  /\ Tail(a) \in Seq(Request) /\ Head(a) \in Request /\ OnceFlying(Tail(a))
         /\ Flying(a) = Flying(Tail(a)) \cup {Head(a).tone} /\ Head(a).tone \notin Flying(Tail(a))
         /\ \A b : (\E i \in DOMAIN a : Own(b, a[i])) =>
              Own(b, Head(a)) \/ \E i \in DOMAIN Tail(a) : Own(b, Tail(a)[i])
<1> DEFINE u == Tail(a)
           h == Head(a)
<1>1. /\ u \in Seq(Request) /\ h = a[1] /\ h \in Request /\ 1 \in DOMAIN a
      /\ \A i \in DOMAIN u : i + 1 \in DOMAIN a /\ u[i] = a[i + 1] /\ i + 1 # 1
      /\ \A i \in DOMAIN a : i = 1 \/ (i - 1 \in DOMAIN u /\ a[i] = u[i - 1])
      /\ \A i, j \in DOMAIN u : i + 1 = j + 1 => i = j
  BY TailAt
<1> HIDE DEF u, h
<1>2. OnceFlying(u)
  BY <1>1, SMTT(30) DEF OnceFlying
<1>3. Flying(a) = Flying(u) \cup {h.tone} /\ h.tone \notin Flying(u)
  BY <1>1, SMTT(30) DEF Flying, OnceFlying
<1>4. \A b : (\E i \in DOMAIN a : Own(b, a[i])) => Own(b, h) \/ \E i \in DOMAIN u : Own(b, u[i])
  BY <1>1
<1> QED BY <1>1, <1>2, <1>3, <1>4 DEF u, h

LEMMA FlyingAppend ==
  ASSUME NEW a \in Seq(Request), NEW r \in Request, OnceFlying(a), r.tone \notin Flying(a)
  PROVE  LET u == Append(a, r) IN
         /\ u \in Seq(Request) /\ OnceFlying(u) /\ Flying(u) = Flying(a) \cup {r.tone}
         /\ \A b : (\E i \in DOMAIN a : Own(b, a[i])) \/ Own(b, r) => \E i \in DOMAIN u : Own(b, u[i])
<1> DEFINE u == Append(a, r)
           n == Len(a) + 1
<1>1. /\ u \in Seq(Request) /\ n \in DOMAIN u /\ n \notin DOMAIN a /\ u[n] = r
      /\ \A i \in DOMAIN a : i \in DOMAIN u /\ u[i] = a[i]
      /\ \A i \in DOMAIN u : i \in DOMAIN a \/ i = n
  BY AppendAt
<1> HIDE DEF u, n
<1>2. OnceFlying(u)
  <2>1. \A i \in DOMAIN a : a[i].tone # r.tone
    BY DEF Flying
  <2> QED BY <1>1, <2>1 DEF OnceFlying
<1>3. Flying(u) = Flying(a) \cup {r.tone}
  BY <1>1 DEF Flying
<1>4. \A b : (\E i \in DOMAIN a : Own(b, a[i])) \/ Own(b, r) => \E i \in DOMAIN u : Own(b, u[i])
  BY <1>1
<1> QED BY <1>1, <1>2, <1>3, <1>4 DEF u

\* What is left of the air of a bud when the link breaks.
LEMMA OwnPartLemma ==
  ASSUME NEW b \in Buds, air[b] \in Seq(Request), OnceFlying(air[b]), NEW u \in OwnPart(b)
  PROVE  /\ u \in Seq(Request) /\ OnceFlying(u) /\ Flying(u) \subseteq Flying(air[b])
         /\ (\E i \in DOMAIN air[b] : Own(b, air[b][i])) => \E i \in DOMAIN u : Own(b, u[i])
<1> DEFINE a == air[b]
           own == {i \in DOMAIN a : Own(b, a[i])}
<1>0. PICK n \in 0 .. Len(a) :
        \E h \in [1 .. n -> own] :
          /\ \A i, j \in DOMAIN h : i < j => h[i] < h[j]
          /\ \A k \in own : \E i \in DOMAIN h : h[i] = k
          /\ u = [i \in DOMAIN h |-> a[h[i]]]
  BY DEF OwnPart
<1>1. PICK h \in [1 .. n -> own] :
        /\ \A i, j \in 1 .. n : i < j => h[i] < h[j]
        /\ \A k \in own : \E i \in 1 .. n : h[i] = k
        /\ u = [i \in 1 .. n |-> a[h[i]]]
  BY <1>0
<1>2. Len(a) \in Nat /\ DOMAIN a = 1 .. Len(a) /\ \A i \in DOMAIN a : a[i] \in Request
  BY SeqFacts
<1>3. /\ \A i \in 1 .. n : h[i] \in DOMAIN a /\ u[i] = a[h[i]] /\ Own(b, u[i])
      /\ DOMAIN u = 1 .. n /\ n \in Nat
  BY <1>1, <1>2
<1>4. u \in Seq(Request)
  <2>1. u \in [1 .. n -> Request]
    BY <1>1, <1>2, <1>3
  <2> QED BY <1>3, <2>1, SeqDef
<1>5. OnceFlying(u)
  <2> SUFFICES ASSUME NEW i \in 1 .. n, NEW j \in 1 .. n, u[i].tone = u[j].tone PROVE i = j
    BY <1>3 DEF OnceFlying
  <2>1. h[i] = h[j]
    BY <1>3 DEF OnceFlying
  <2>2. h[i] \in Nat /\ h[j] \in Nat
    BY <1>2, <1>3
  <2>3. ~(i < j) /\ ~(j < i)
    BY <1>1, <2>1, <2>2
  <2> QED BY <1>3, <2>3
<1>6. Flying(u) \subseteq Flying(a)
  BY <1>3 DEF Flying
<1>7. (\E i \in DOMAIN a : Own(b, a[i])) => \E i \in DOMAIN u : Own(b, u[i])
  BY <1>1, <1>3
<1> QED BY <1>4, <1>5, <1>6, <1>7

-----------------------------------------------------------------------------
(* The inductive invariant. *)

Held(s) == {p.tone : p \in s.held}
Tried(s) == {r.tone : r \in s.tries}
Waits(s, a) == Held(s) \cup Plays(s.queue) \cup Flying(a)
Gone(s, a) == Waits(s, a) \cup Done(s)

\* A tone waits in one place of a bud only, and not after it has been in the list.
Place(s, a) ==
  /\ \A p \in s.held : p.stream = "none" /\ \A q \in s.held : p.tone = q.tone => p = q
  /\ OncePlays(s.queue) /\ OnceFlying(a)
  /\ Held(s) \cap Plays(s.queue) = {}
  /\ Flying(a) \cap (Held(s) \cup Plays(s.queue)) = {}
  /\ Waits(s, a) \cap Done(s) = {}

\* The tone the flag of bud b stands for.
Adds(b, s, a) ==
  s.adding => (\E i \in DOMAIN a : Own(b, a[i])) \/ Plays(s.queue) # {} \/ s.held # {}

Mine(b, s) == \A r \in s.tries : r.by = b /\ \A q \in s.tries : r.tone = q.tone => r = q

\* What a bud has put off is nowhere else.
BudOK(b) ==
  /\ Sounding(bud[b].list, bud[b].queue) /\ Adds(b, bud[b], air[b])
  /\ Place(bud[b], air[b]) /\ Mine(b, bud[b])
  /\ \A c \in Buds : /\ Tried(bud[b]) \cap Gone(bud[c], air[c]) = {}
                     /\ b # c => Tried(bud[b]) \cap Tried(bud[c]) = {}
  /\ \A x \in Tried(bud[b]) \cup Gone(bud[b], air[b]) : asked[x] # NoRequest

IInv == TypeOK /\ \A b \in Buds : BudOK(b)

-----------------------------------------------------------------------------
(* Identifiers. *)

HeldTags(s) == {<<p.id, p.tone>> : p \in s.held}

\* The identifiers in use on a bud, by players and by the events of players that
\* may be gone.
Tags(s) == ListTags(s.list) \cup HeldTags(s) \cup EventTags(s.queue)
SameIds(s) == \A y, z \in Tags(s) : y[1] = z[1] => y[2] = z[2]

\* The tones a player has been created for, or that were refused.
Kept(s) == Done(s) \cup Held(s)

\* From s to t no tone is forgotten, and an identifier is handed out to a new one.
Handed(s, t) ==
  /\ Kept(s) \subseteq Kept(t)
  /\ \/ t.g_player_id = s.g_player_id /\ Tags(t) \subseteq Tags(s)
     \/ /\ t.g_player_id = (s.g_player_id + 1) % IdSpan
        /\ \E x \in Kept(t) \ Kept(s) : Tags(t) \subseteq Tags(s) \cup {<<s.g_player_id, x>>}

\* A step that takes an event from the queue leaves the list alone, or the event is
\* the head's.
Late(s, t) ==
  s.queue # << >> /\ t.queue = Tail(s.queue) /\ Head(s.queue).do # "play" =>
    t.list = s.list \/ Head(s.queue).tone = Head(s.list).tone

Advances(s, t, X) == Handed(s, t) /\ (SameIds(s) => Late(s, t) /\ Hears(s, t, X))

LEMMA HandedLemma ==
  ASSUME NEW s \in Bud, NEW t \in Bud, NEW X, X \subseteq Tones, Moves(s, t, X),
         t.held = s.held, EventTags(t.queue) \subseteq EventTags(s.queue),
         \/ t.g_player_id = s.g_player_id /\ ListTags(t.list) \subseteq ListTags(s.list)
         \/ \E x : x \notin Kept(s) /\ Numbers(s, t, x)
  PROVE  Handed(s, t)
<1>1. Done(s) \subseteq Done(t)
  BY MovesKeep
<1>2. Held(t) = Held(s) /\ HeldTags(t) = HeldTags(s)
  BY DEF Held, HeldTags
<1>3. Kept(s) \subseteq Kept(t)
  BY <1>1, <1>2 DEF Kept
<1>4. CASE t.g_player_id = s.g_player_id /\ ListTags(t.list) \subseteq ListTags(s.list)
  BY <1>2, <1>3, <1>4 DEF Handed, Tags
<1>5. ASSUME NEW x, x \notin Kept(s), x \in Done(t),
             t.g_player_id = (s.g_player_id + 1) % IdSpan,
             ListTags(t.list) \subseteq ListTags(s.list) \cup {<<s.g_player_id, x>>}
      PROVE  Handed(s, t)
  <2>1. x \in Kept(t) \ Kept(s) /\ Tags(t) \subseteq Tags(s) \cup {<<s.g_player_id, x>>}
    BY <1>2, <1>5 DEF Kept, Tags
  <2> QED BY <1>3, <1>5, <2>1 DEF Handed
<1> QED BY <1>4, <1>5 DEF Numbers

\* Nothing happens to the players of the bud.
LEMMA StayLemma ==
  ASSUME NEW s, NEW t, NEW X,
         In(t.list) = In(s.list), ListTags(t.list) = ListTags(s.list),
         t.heard = s.heard, t.held = s.held, t.g_player_id = s.g_player_id,
         EventTags(t.queue) \subseteq EventTags(s.queue) \cup ListTags(s.list),
         s.queue # << >> => t.list = s.list \/ t.queue # Tail(s.queue)
  PROVE  Advances(s, t, X)
<1>1. Kept(t) = Kept(s) /\ Tags(t) \subseteq Tags(s)
  BY DEF Kept, Done, Told, Held, Tags, HeldTags
<1>2. Late(s, t) /\ Hears(s, t, X)
  BY DEF Late, Hears, Closed
<1> QED BY <1>1, <1>2 DEF Advances, Handed

-----------------------------------------------------------------------------
(* Steps of one bud. *)

LEMMA TonesTyped ==
  ASSUME NEW s \in Bud, NEW a \in Seq(Request)
  PROVE  Tried(s) \cup Gone(s, a) \subseteq Tones
<1>1. s.queue \in Seq(Messages) /\ s.list \in Seq(Player)
  BY DEF Bud
<1>2. Tried(s) \subseteq Tones /\ Held(s) \subseteq Tones
  BY DEF Tried, Held, Bud, Request, Player
<1>3. Flying(a) \subseteq Tones
  <2>1. \A i \in DOMAIN a : a[i] \in Request
    BY SeqFacts
  <2> QED BY <2>1 DEF Flying, Request
<1>4. Plays(s.queue) \subseteq Tones
  <2>1. \A i \in DOMAIN s.queue : s.queue[i] \in Messages
    BY <1>1, SeqFacts
  <2>2. \A m \in Messages : m.do = "play" => m.req.tone \in Tones
    BY DEF Messages, StreamEvents, Request
  <2> QED BY <2>1, <2>2 DEF Plays
<1>5. Done(s) \subseteq Tones
  <2>1. \A i \in DOMAIN s.list : s.list[i].tone \in Tones
    BY <1>1, SeqFacts, TonesSeq
  <2> QED BY <2>1 DEF Done, In, Told
<1> QED BY <1>2, <1>3, <1>4, <1>5 DEF Gone, Waits

\* The players move, at most by tones that waited nowhere.
LEMMA PlaceLemma ==
  ASSUME NEW s \in Bud, NEW t \in Bud, NEW a, NEW X, Place(s, a), Moves(s, t, X),
         t.queue = s.queue, t.held = s.held, X \cap Waits(s, a) = {}
  PROVE  Place(t, a) /\ Gone(t, a) \subseteq Gone(s, a) \cup X
<1>1. Done(t) \subseteq Done(s) \cup X
  BY MovesDone
<1>2. Held(t) = Held(s) /\ Plays(t.queue) = Plays(s.queue) /\ Waits(t, a) = Waits(s, a)
  <2>1. Held(t) = Held(s) /\ Plays(t.queue) = Plays(s.queue)
    BY DEF Held
  <2> QED BY <2>1 DEF Waits
<1> QED BY <1>1, <1>2 DEF Place, Gone

\* Only bud b changes; the tones of X are new to it and at no other bud.
LEMMA OneLemma ==
  ASSUME IInv, NEW b \in Buds, NEW t \in Bud, NEW a \in Seq(Request), NEW X,
         bud' = [bud EXCEPT ![b] = t], air' = [air EXCEPT ![b] = a],
         linked' \in BOOLEAN,
         asked' \in [Tones -> [by : Buds, more : 0 .. 1] \cup {NoRequest}],
         \A x \in Tones : asked[x] # NoRequest \/ x \in X => asked'[x] # NoRequest,
         X \subseteq Tones,
         Sounding(t.list, t.queue), Adds(b, t, a), Place(t, a), Mine(b, t),
         Gone(t, a) \subseteq Gone(bud[b], air[b]) \cup X,
         Tried(t) \subseteq Tried(bud[b]) \cup X,
         Tried(t) \cap Gone(t, a) = {},
         \A c \in Buds \ {b} : X \cap (Tried(bud[c]) \cup Gone(bud[c], air[c])) = {}
  PROVE  IInv'
<1>1. /\ bud \in [Buds -> Bud] /\ air \in [Buds -> Seq(Request)]
      /\ \A c \in Buds : BudOK(c)
  BY DEF IInv, TypeOK
<1>2. /\ bud'[b] = t /\ air'[b] = a
      /\ \A c \in Buds : c # b => bud'[c] = bud[c] /\ air'[c] = air[c]
  BY <1>1
<1>3. TypeOK'
  BY <1>1 DEF TypeOK
<1>4. \A c \in Buds : Tried(bud[c]) \cup Gone(bud[c], air[c]) \subseteq Tones
  BY <1>1, TonesTyped
<1>5. BudOK(b)'
  <2>1. \A c \in Buds : /\ Tried(t) \cap Gone(bud'[c], air'[c]) = {}
                        /\ b # c => Tried(t) \cap Tried(bud'[c]) = {}
    <3> SUFFICES ASSUME NEW c \in Buds, c # b
                 PROVE  Tried(t) \cap (Tried(bud[c]) \cup Gone(bud[c], air[c])) = {}
      BY <1>2
    <3> QED BY <1>1 DEF BudOK
  <2>2. \A x \in Tried(t) \cup Gone(t, a) : asked'[x] # NoRequest
    BY <1>1, <1>4 DEF BudOK
  <2> QED BY <1>2, <2>1, <2>2 DEF BudOK
<1>6. ASSUME NEW c \in Buds, c # b PROVE BudOK(c)'
  <2>1. BudOK(c) /\ BudOK(b)
    BY <1>1
  <2>2. \A d \in Buds : /\ Tried(bud[c]) \cap Gone(bud'[d], air'[d]) = {}
                        /\ c # d => Tried(bud[c]) \cap Tried(bud'[d]) = {}
    <3> TAKE d \in Buds
    <3>1. CASE d = b
      <4>1. Tried(bud[c]) \cap Gone(bud[b], air[b]) = {} /\ Tried(bud[c]) \cap Tried(bud[b]) = {}
        BY <1>6, <2>1 DEF BudOK
      <4>2. X \cap Tried(bud[c]) = {}
        BY <1>6
      <4> QED BY <1>2, <3>1, <4>1, <4>2
    <3>2. CASE d # b
      BY <1>2, <2>1, <3>2 DEF BudOK
    <3> QED BY <3>1, <3>2
  <2>3. \A x \in Tried(bud[c]) \cup Gone(bud[c], air[c]) : asked'[x] # NoRequest
    BY <1>4, <2>1 DEF BudOK
  <2> QED BY <1>2, <1>6, <2>1, <2>2, <2>3 DEF BudOK
<1> QED BY <1>3, <1>5, <1>6 DEF IInv

\* The same, when only the players and messages of bud b change.
LEMMA QuietLemma ==
  ASSUME IInv, NEW b \in Buds, NEW t \in Bud, NEW a \in Seq(Request),
         bud' = [bud EXCEPT ![b] = t], air' = [air EXCEPT ![b] = a], linked' = linked, asked' = asked,
         t.tries = bud[b].tries,
         Sounding(t.list, t.queue), Adds(b, t, a), Place(t, a),
         Gone(t, a) \subseteq Gone(bud[b], air[b])
  PROVE  IInv'
<1>1. BudOK(b) /\ TypeOK
  BY DEF IInv
<1>2. Tried(t) = Tried(bud[b])
  BY DEF Tried
<1>3. Mine(b, t)
  BY <1>1 DEF BudOK, Mine
<1>4. Tried(t) \cap Gone(t, a) = {}
  BY <1>1, <1>2 DEF BudOK
<1>5. /\ linked' \in BOOLEAN
      /\ asked' \in [Tones -> [by : Buds, more : 0 .. 1] \cup {NoRequest}]
  BY <1>1 DEF TypeOK
<1> DEFINE X == {}
<1>6. /\ \A x \in Tones : asked[x] # NoRequest \/ x \in X => asked'[x] # NoRequest
      /\ X \subseteq Tones
      /\ Gone(t, a) \subseteq Gone(bud[b], air[b]) \cup X
      /\ Tried(t) \subseteq Tried(bud[b]) \cup X
      /\ \A c \in Buds \ {b} : X \cap (Tried(bud[c]) \cup Gone(bud[c], air[c])) = {}
  BY <1>2
<1> HIDE DEF X
<1> QED BY <1>3, <1>4, <1>5, <1>6, OneLemma

\* The line of bud b moves by tones X that are new to it.
Turns(b, t, X) ==
  /\ bud' = [bud EXCEPT ![b] = t] /\ t \in Bud
  /\ X \subseteq Tones /\ X \cap Done(bud[b]) = {}
  /\ Moves(bud[b], t, X) /\ Advances(bud[b], t, X)

\* The line of a bud takes a turn, or stays.
Forward == (\E b \in Buds : \E t, X : Turns(b, t, X)) \/ bud' = bud

LEMMA TurnLemma ==
  ASSUME NEW b \in Buds, NEW t \in Bud, bud' = [bud EXCEPT ![b] = t],
         NEW X, X \subseteq Tones, X \cap Done(bud[b]) = {}, Moves(bud[b], t, X),
         Advances(bud[b], t, X)
  PROVE  Forward
BY DEF Turns, Forward

\* The promise of the line of tones.
LEMMA LineLemma ==
  ASSUME TypeOK, NEW b \in Buds, NEW t, NEW X, Turns(b, t, X)
  PROVE  Promise!Turn(b)
<1> DEFINE line == [c \in Buds |-> [i \in DOMAIN bud[c].list |-> bud[c].list[i].tone]]
           over == [c \in Buds |-> {x \in Tones : Over(c, x)}]
           s == bud[b]
<1>1. bud \in [Buds -> Bud] /\ s \in Bud /\ s.list \in Seq(Player)
  BY DEF TypeOK, Bud
<1>0. t \in Bud /\ X \subseteq Tones /\ X \cap Done(bud[b]) = {} /\ Moves(bud[b], t, X)
  BY DEF Turns
<1>2. bud'[b] = t /\ \A c \in Buds : c # b => bud'[c] = bud[c]
  BY <1>1 DEF Turns
<1>3. /\ line[b] = TonesOf(s.list) /\ over[b] = Told(s)
      /\ line' = [line EXCEPT ![b] = TonesOf(t.list)]
      /\ over' = [over EXCEPT ![b] = Told(t)]
  <2>1. line[b] = TonesOf(s.list) /\ over[b] = Told(s)
    BY DEF TonesOf, Told, Over
  <2>2. line' = [line EXCEPT ![b] = TonesOf(t.list)]
    <3>1. line = [c \in Buds |-> TonesOf(bud[c].list)]
      BY DEF TonesOf
    <3>2. line' = [c \in Buds |-> TonesOf(bud'[c].list)]
      BY DEF TonesOf
    <3>3. \A c \in Buds : TonesOf(bud'[c].list) = IF c = b THEN TonesOf(t.list)
                                                  ELSE TonesOf(bud[c].list)
      BY <1>2
    <3> HIDE DEF line
    <3> QED BY <3>1, <3>2, <3>3
  <2>3. over' = [over EXCEPT ![b] = Told(t)]
    <3>1. over = [c \in Buds |-> Told(bud[c])]
      BY DEF Told, Over
    <3>2. over' = [c \in Buds |-> Told(bud'[c])]
      BY DEF Told, Over
    <3>3. \A c \in Buds : Told(bud'[c]) = IF c = b THEN Told(t) ELSE Told(bud[c])
      BY <1>2
    <3> HIDE DEF over
    <3> QED BY <3>1, <3>2, <3>3
  <2> QED BY <2>1, <2>2, <2>3
<1>4. /\ Len(line[b]) = Len(s.list) /\ Len(s.list) \in Nat
      /\ \A i \in 1 .. Len(s.list) : line[b][i] = s.list[i].tone
      /\ DOMAIN line[b] = DOMAIN s.list
  BY <1>1, <1>3, TonesSeq, SeqFacts DEF TonesOf
<1>5. {line[b][i] : i \in DOMAIN line[b]} = In(s.list)
  BY <1>3 DEF In, TonesOf
<1> HIDE DEF line, over
<1>6. PICK k \in 0 .. Len(s.list) :
        LET rest == SubSeq(TonesOf(s.list), k + 1, Len(s.list))
            left == Told(s) \cup {s.list[i].tone : i \in 1 .. k}
        IN \/ TonesOf(t.list) = rest /\ Told(t) = left
           \/ \E x \in X : \/ TonesOf(t.list) = Append(rest, x) /\ Told(t) = left
                           \/ TonesOf(t.list) = rest /\ Told(t) = left \cup {x}
  BY <1>0 DEF Moves
<1>7. {s.list[i].tone : i \in 1 .. k} = {line[b][i] : i \in 1 .. k}
  <2>1. \A i \in 1 .. k : line[b][i] = s.list[i].tone
    BY <1>4
  <2> QED BY <2>1
<1>8. X \subseteq Tones \ (over[b] \cup {line[b][i] : i \in DOMAIN line[b]})
  BY <1>0, <1>3, <1>5 DEF Done
<1>9. \E gone \in 0 .. Len(line[b]) :
        LET rest == SubSeq(line[b], gone + 1, Len(line[b]))
            left == over[b] \cup {line[b][i] : i \in 1 .. gone}
            New == Tones \ (over[b] \cup {line[b][i] : i \in DOMAIN line[b]})
        IN \/ line' = [line EXCEPT ![b] = rest] /\ over' = [over EXCEPT ![b] = left]
           \/ \E x \in New :
                \/ line' = [line EXCEPT ![b] = Append(rest, x)] /\ over' = [over EXCEPT ![b] = left]
                \/ line' = [line EXCEPT ![b] = rest] /\ over' = [over EXCEPT ![b] = left \cup {x}]
  BY <1>3, <1>4, <1>6, <1>7, <1>8
<1> QED BY <1>9 DEF Promise!Turn, Promise!InLine, line, over

-----------------------------------------------------------------------------
(* app_core. *)

LEMMA HandleMsgLemma ==
  ASSUME IInv, NEW b \in Buds, HandleMsg(b)
  PROVE  IInv' /\ Forward
<1> DEFINE o == bud[b]
           q == Tail(o.queue)
           s == [o EXCEPT !.queue = q]
           m == Head(o.queue)
           a == air[b]
<1>1. /\ BudOK(b) /\ TypeOK /\ bud \in [Buds -> Bud] /\ air \in [Buds -> Seq(Request)]
      /\ o \in Bud /\ o.queue \in Seq(Messages) /\ a \in Seq(Request)
  BY DEF IInv, TypeOK, Bud
<1>2. o.queue # << >> /\ OncePlays(o.queue) /\ Place(o, a) /\ Adds(b, o, a)
      /\ Sounding(o.list, o.queue)
  BY <1>1 DEF HandleMsg, BudOK, Place
<1>3. /\ q \in Seq(Messages) /\ m \in Messages /\ OncePlays(q)
      /\ Plays(q) \subseteq Plays(o.queue)
      /\ m.do = "play" => m.req.tone \in Plays(o.queue) \ Plays(q)
      /\ m.do # "play" => Plays(q) = Plays(o.queue)
      /\ \A l : EndWaits(l, o.queue) => \/ m.id = l[1].id /\ m.do \in {"STOP", "FAILED"}
                                        \/ EndWaits(l, q)
      /\ EventTags(q) \subseteq EventTags(o.queue)
      /\ m.do # "play" => <<m.id, m.tone>> \in EventTags(o.queue)
  BY <1>1, <1>2, PlaysTail
<1>4. \/ m.do = "play" /\ \E t \in tws_tone_play_in_task(s, m.req) : bud' = [bud EXCEPT ![b] = t]
      \/ m.do # "play" /\ \E t \in tone_player_callback(s, m) : bud' = [bud EXCEPT ![b] = t]
  BY DEF HandleMsg
<1>5. linked' = linked /\ asked' = asked /\ air' = [air EXCEPT ![b] = a]
  BY <1>1 DEF HandleMsg, Quiet
<1> HIDE DEF q, m, a
<1>6. /\ s \in Bud /\ s.queue = q /\ s.list = o.list /\ s.heard = o.heard /\ s.tries = o.tries
      /\ s.held = o.held /\ s.adding = o.adding /\ s.g_player_id = o.g_player_id
  BY <1>1, <1>3 DEF Bud
<1> HIDE DEF s
<1>7. Held(s) = Held(o) /\ Done(s) = Done(o)
  <2>1. Told(s) = Told(o)
    BY <1>6 DEF Told
  <2> QED BY <1>6, <2>1 DEF Held, Done
<1>8. Place(s, a) /\ Gone(s, a) \subseteq Gone(o, a)
  BY <1>2, <1>3, <1>6, <1>7 DEF Place, Waits, Gone
<1>9. ASSUME NEW t \in Bud, bud' = [bud EXCEPT ![b] = t], NEW X, Moves(s, t, X),
             X \subseteq Tones, X \cap Done(o) = {}, Advances(o, t, X)
      PROVE  Forward
  <2>1. Moves(o, t, X)
    BY <1>6, <1>9, SameMoves
  <2> QED BY <1>1, <1>9, <2>1, TurnLemma
<1>10. CASE m.do = "play"
  <2>1. PICK t \in tws_tone_play_in_task(s, m.req) : bud' = [bud EXCEPT ![b] = t]
    BY <1>4, <1>10
  <2> DEFINE x == m.req.tone
             X == {x}
  <2>2. m.req \in Request /\ x \in Tones
    BY <1>3, <1>10 DEF Messages, StreamEvents, Request
  <2>3. x \in Plays(o.queue) /\ x \notin Plays(q)
    BY <1>3, <1>10
  <2>4. x \notin Waits(s, a) /\ x \notin Done(o) /\ x \in Gone(o, a)
    BY <1>2, <1>6, <1>7, <2>3 DEF Place, Waits, Gone
  <2>5. Sounding(s.list, s.queue)
    BY <1>2, <1>3, <1>6, <1>10 DEF Sounding
  <2>6. /\ t \in Bud /\ t.queue = s.queue /\ t.tries = s.tries /\ Sounding(t.list, t.queue)
        /\ Hears(s, t, {m.req.tone})
        /\ \/ /\ t.held = s.held /\ t.adding = FALSE /\ Moves(s, t, {m.req.tone})
              /\ Numbers(s, t, m.req.tone)
           \/ \E p \in Player : /\ p.tone = m.req.tone /\ p.stream = "none" /\ p.id = s.g_player_id
                                /\ t.held = s.held \cup {p} /\ Moves(s, t, {})
                                /\ t.list = s.list /\ t.heard = s.heard
                                /\ t.g_player_id = (s.g_player_id + 1) % IdSpan
    BY <1>6, <2>1, <2>2, <2>5, ArriveLemma
  <2> HIDE DEF x
  <2>10. EventTags(t.queue) \subseteq EventTags(o.queue) /\ x \notin Kept(o) /\ Late(o, t)
    BY <1>3, <1>6, <1>7, <1>10, <2>4, <2>6 DEF Kept, Waits, Late, m
  <2>7. CASE t.held = s.held /\ t.adding = FALSE /\ Moves(s, t, X) /\ Numbers(s, t, x)
    <3>1. Place(t, a) /\ Gone(t, a) \subseteq Gone(s, a) \cup X
      BY <1>6, <1>8, <2>4, <2>6, <2>7, PlaceLemma
    <3>2. Gone(t, a) \subseteq Gone(o, a)
      BY <1>8, <2>4, <3>1
    <3>3. Adds(b, t, a)
      BY <2>7 DEF Adds
    <3>4. IInv'
      BY <1>1, <1>5, <1>6, <2>1, <2>6, <3>1, <3>2, <3>3, QuietLemma DEF a
    <3>5. Forward
      <4>1. X \subseteq Tones /\ X \cap Done(o) = {} /\ Hears(s, t, X)
        BY <2>2, <2>4, <2>6 DEF x
      <4> HIDE DEF X
      <4>2. Moves(o, t, X) /\ Hears(o, t, X)
        BY <1>6, <2>7, <4>1, SameMoves, SameHears
      <4>3. Numbers(o, t, x)
        BY <1>6, <2>7 DEF Numbers
      <4>4. Handed(o, t)
        BY <1>1, <1>6, <2>6, <2>7, <2>10, <4>1, <4>2, <4>3, HandedLemma
      <4> QED BY <1>9, <2>1, <2>6, <2>7, <2>10, <4>1, <4>2, <4>4 DEF Advances
    <3> QED BY <3>4, <3>5
  <2>8. ASSUME NEW p \in Player, p.tone = x, p.stream = "none", p.id = s.g_player_id,
               t.held = s.held \cup {p}, Moves(s, t, {}), t.list = s.list, t.heard = s.heard,
               t.g_player_id = (s.g_player_id + 1) % IdSpan
        PROVE  IInv' /\ Forward
    <3>1. Done(t) \subseteq Done(s)
      BY <1>6, <2>6, <2>8, MovesDone
    <3>2. Held(t) = Held(s) \cup {x} /\ t.held # {}
      BY <2>8 DEF Held
    <3>3. Waits(t, a) = Waits(s, a) \cup {x}
      BY <2>6, <3>2 DEF Waits
    <3>4. Place(t, a)
      <4>1. \A h \in s.held : h.tone # x
        BY <2>4 DEF Waits, Held
      <4>2. \A h \in t.held : h.stream = "none" /\ \A g \in t.held : h.tone = g.tone => h = g
        BY <1>8, <2>8, <4>1 DEF Place
      <4>3. Held(t) \cap Plays(t.queue) = {} /\ Flying(a) \cap (Held(t) \cup Plays(t.queue)) = {}
        BY <1>8, <2>4, <2>6, <3>2 DEF Place, Waits
      <4>4. Waits(t, a) \cap Done(t) = {}
        BY <1>7, <1>8, <2>4, <3>1, <3>3 DEF Place
      <4> QED BY <1>8, <2>6, <4>2, <4>3, <4>4 DEF Place
    <3>5. Gone(t, a) \subseteq Gone(o, a)
      BY <1>7, <1>8, <2>4, <3>1, <3>3 DEF Gone
    <3>6. Adds(b, t, a)
      BY <3>2 DEF Adds
    <3>7. IInv'
      BY <1>1, <1>5, <1>6, <2>1, <2>6, <3>4, <3>5, <3>6, QuietLemma DEF a
    <3>8. Forward
      <4> DEFINE N == {}
      <4>1. N \subseteq Tones /\ N \cap Done(o) = {} /\ Moves(s, t, N)
        BY <2>8
      <4> HIDE DEF N
      <4>2. /\ Done(t) = Done(o) /\ Held(t) = Held(o) \cup {x}
            /\ HeldTags(t) = HeldTags(o) \cup {<<o.g_player_id, x>>}
        BY <1>6, <2>8 DEF Done, Told, Held, HeldTags
      <4>3. /\ Kept(o) \subseteq Kept(t) /\ x \in Kept(t) \ Kept(o)
            /\ Tags(t) \subseteq Tags(o) \cup {<<o.g_player_id, x>>}
        BY <1>6, <2>8, <2>10, <4>2 DEF Kept, Tags
      <4>4. Handed(o, t)
        BY <1>6, <2>8, <4>3 DEF Handed
      <4>5. Hears(o, t, N)
        BY <1>6, <2>8 DEF Hears, Closed
      <4> QED BY <1>9, <2>1, <2>6, <2>10, <4>1, <4>4, <4>5 DEF Advances
    <3> QED BY <3>7, <3>8
  <2> QED BY <2>6, <2>7, <2>8 DEF x
<1>11. CASE m.do # "play"
  <2>1. PICK t \in tone_player_callback(s, m) : bud' = [bud EXCEPT ![b] = t]
    BY <1>4, <1>11
  <2>2. m \in StreamEvents
    BY <1>3, <1>11 DEF Messages
  <2>3. /\ t \in Bud /\ SameRest(s, t) /\ Moves(s, t, {}) /\ t.g_player_id = s.g_player_id
        /\ ListTags(t.list) \subseteq ListTags(s.list)
        /\ \/ t = s
           \/ /\ s.list # << >> /\ s.list[1].id = m.id
              /\ m.tone = s.list[1].tone => Hears(s, t, {})
        /\ \A r : /\ Sounding(s.list, r)
                  /\ s.list # << >> /\ EndWaits(s.list, r) =>
                       \/ m.id = s.list[1].id /\ m.do \in {"STOP", "FAILED"}
                       \/ EndWaits(s.list, s.queue)
                  => Sounding(t.list, t.queue)
    BY <1>6, <2>1, <2>2, CallbackLemma
  <2>4. Sounding(t.list, t.queue)
    BY <1>2, <1>3, <1>6, <2>3
  <2>5. Place(t, a) /\ Gone(t, a) \subseteq Gone(s, a) \cup {}
    BY <1>6, <1>8, <2>3, PlaceLemma DEF SameRest
  <2>6. Adds(b, t, a)
    BY <1>2, <1>3, <1>6, <1>11, <2>3 DEF Adds, SameRest
  <2>7. IInv'
    <3>1. t.tries = bud[b].tries /\ Gone(t, a) \subseteq Gone(o, a)
      BY <1>6, <1>8, <2>3, <2>5 DEF SameRest
    <3> QED BY <1>1, <1>5, <2>1, <2>3, <2>4, <2>5, <2>6, <3>1, QuietLemma DEF a
  <2>8. Forward
    <3> DEFINE N == {}
    <3>1. /\ N \subseteq Tones /\ N \cap Done(o) = {} /\ Moves(s, t, N)
          /\ \/ t = s
             \/ /\ s.list # << >> /\ s.list[1].id = m.id
                /\ m.tone = s.list[1].tone => Hears(s, t, N)
      BY <2>3
    <3> HIDE DEF N
    <3>2. Moves(o, t, N)
      BY <1>6, <3>1, SameMoves
    <3>3. Handed(o, t)
      BY <1>1, <1>3, <1>6, <2>3, <3>1, <3>2, HandedLemma DEF SameRest
    <3>4. o.list # << >> => <<o.list[1].id, o.list[1].tone>> \in Tags(o) /\ Head(o.list) = o.list[1]
      <4>1. o.list \in Seq(Player)
        BY <1>1 DEF Bud
      <4> QED BY <4>1, TailAt DEF Tags, ListTags
    <3>5. <<m.id, m.tone>> \in Tags(o)
      BY <1>3, <1>11 DEF Tags
    <3>6. ASSUME SameIds(o), o.list # << >>, o.list[1].id = m.id
          PROVE  m.tone = o.list[1].tone
      BY <3>4, <3>5, <3>6 DEF SameIds
    <3>7. SameIds(o) => Late(o, t)
      BY <1>6, <3>1, <3>4, <3>6 DEF Late, m
    <3>8. SameIds(o) => Hears(o, t, N)
      <4>1. Hears(s, s, N)
        BY DEF Hears
      <4> QED BY <1>6, <3>1, <3>6, <4>1, SameHears
    <3> QED BY <1>9, <2>1, <2>3, <3>1, <3>3, <3>7, <3>8 DEF Advances
  <2> QED BY <2>7, <2>8
<1> QED BY <1>10, <1>11

\* The tone held back takes its place when the list is empty.
LEMMA AddTimeoutLemma ==
  ASSUME IInv, NEW b \in Buds, tws_tone_player_add_timeout(b)
  PROVE  IInv' /\ Forward
<1> DEFINE o == bud[b]
           a == air[b]
<1>1. /\ BudOK(b) /\ TypeOK /\ bud \in [Buds -> Bud] /\ air \in [Buds -> Seq(Request)]
      /\ o \in Bud /\ a \in Seq(Request)
  BY DEF IInv, TypeOK
<1>2. Place(o, a) /\ Sounding(o.list, o.queue)
  BY <1>1 DEF BudOK
<1>3. linked' = linked /\ asked' = asked /\ air' = [air EXCEPT ![b] = a]
  BY <1>1 DEF tws_tone_player_add_timeout, Quiet
<1>4. PICK p \in o.held : \E t \in tone_player_add([o EXCEPT !.held = o.held \ {p}], p) :
                             bud' = [bud EXCEPT ![b] = Added(t)]
  BY DEF tws_tone_player_add_timeout
<1> DEFINE s == [o EXCEPT !.held = o.held \ {p}]
           x == p.tone
           X == {x}
<1>5. PICK t \in tone_player_add(s, p) : bud' = [bud EXCEPT ![b] = Added(t)]
  BY <1>4
<1>6. /\ s \in Bud /\ s.queue = o.queue /\ s.list = o.list /\ s.heard = o.heard /\ s.tries = o.tries
      /\ s.held = o.held \ {p} /\ s.g_player_id = o.g_player_id
  BY <1>1 DEF Bud
<1>7. p \in Player /\ p.stream = "none" /\ x \in Tones
  BY <1>1, <1>2 DEF Bud, Place, Player
<1> HIDE DEF s, a
<1>8. /\ t \in Bud /\ SameRest(s, t) /\ Moves(s, t, {p.tone}) /\ Sounding(t.list, t.queue)
      /\ t.g_player_id = s.g_player_id /\ x \in Done(t) /\ Hears(s, t, X)
      /\ ListTags(t.list) \subseteq ListTags(s.list) \cup {<<p.id, p.tone>>}
  BY <1>2, <1>5, <1>6, <1>7, AddLemma
<1> DEFINE u == Added(t)
<1>9. /\ u \in Bud /\ u.queue = t.queue /\ u.tries = t.tries /\ u.held = t.held
      /\ u.adding = FALSE /\ u.list = t.list /\ u.heard = t.heard
      /\ u.g_player_id = t.g_player_id
  BY <1>8 DEF Added, Bud
<1>10. bud' = [bud EXCEPT ![b] = u]
  BY <1>5
<1> HIDE DEF u
<1>11. Moves(s, u, X) /\ Moves(o, u, X)
  <2>1. Moves(s, u, X)
    BY <1>8, <1>9, SameSeen
  <2> QED BY <1>6, <2>1, SameMoves
<1>12. x \in Held(o) /\ Held(s) = Held(o) \ {x} /\ Done(s) = Done(o)
  <2>1. Told(s) = Told(o)
    BY <1>6 DEF Told
  <2>2. \A h \in o.held : h.tone = p.tone => h = p
    BY <1>2 DEF Place
  <2>3. Held(s) = Held(o) \ {x} /\ x \in Held(o)
    BY <1>6, <2>2 DEF Held
  <2> QED BY <1>6, <2>1, <2>3 DEF Done
<1> HIDE DEF x
<1>13. Place(s, a) /\ x \notin Waits(s, a) /\ x \notin Done(o) /\ Gone(s, a) \subseteq Gone(o, a)
       /\ x \in Gone(o, a)
  BY <1>2, <1>6, <1>12 DEF Place, Waits, Gone
<1>14. Place(u, a) /\ Gone(u, a) \subseteq Gone(s, a) \cup X
  BY <1>6, <1>8, <1>9, <1>11, <1>13, PlaceLemma, SMTT(30) DEF SameRest
<1>15. IInv'
  <2>1. /\ u.tries = bud[b].tries /\ Gone(u, a) \subseteq Gone(o, a) /\ Adds(b, u, a)
        /\ Sounding(u.list, u.queue)
    BY <1>6, <1>8, <1>9, <1>13, <1>14 DEF SameRest, Adds
  <2> QED BY <1>1, <1>3, <1>9, <1>10, <1>14, <2>1, QuietLemma DEF a
<1>16. Forward
  <2>1. X \subseteq Tones /\ X \cap Done(bud[b]) = {}
    BY <1>7, <1>13 DEF x
  <2>2. /\ Done(o) \subseteq Done(u) /\ x \in Done(u)
        /\ Held(o) \subseteq Held(u) \cup {x}
    <3>1. Done(o) \subseteq Done(u)
      BY <1>1, <1>9, <1>11, <2>1, MovesKeep
    <3>2. x \in Done(u) /\ Held(u) = Held(s)
      BY <1>8, <1>9 DEF Done, Told, Held, SameRest
    <3> QED BY <1>12, <3>1, <3>2
  <2>3. Tags(u) \subseteq Tags(o)
    <3>1. <<p.id, p.tone>> \in HeldTags(o) /\ HeldTags(u) \subseteq HeldTags(o)
      BY <1>6, <1>8, <1>9 DEF HeldTags, SameRest
    <3> QED BY <1>6, <1>8, <1>9, <3>1 DEF Tags, SameRest
  <2>4. Handed(o, u)
    BY <1>6, <1>8, <1>9, <2>2, <2>3 DEF Handed, Kept
  <2>5. Hears(o, u, X)
    <3>1. Hears(s, u, X)
      BY <1>8, <1>9 DEF Hears, Closed
    <3> QED BY <1>6, <3>1, SameHears
  <2>6. Late(o, u)
    <3>1. u.queue = o.queue /\ o.queue \in Seq(Messages)
      BY <1>1, <1>6, <1>8, <1>9 DEF SameRest, Bud
    <3> QED BY <3>1, LongerLemma DEF Late
  <2> HIDE DEF X
  <2> QED BY <1>1, <1>9, <1>10, <1>11, <2>1, <2>4, <2>5, <2>6, TurnLemma DEF Advances
<1> QED BY <1>15, <1>16

\* Everything in the list leaves.
LEMMA SilenceLemma ==
  ASSUME IInv, NEW b \in Buds, Silence(b)
  PROVE  IInv' /\ Forward
<1> DEFINE o == bud[b]
           a == air[b]
           t == tone_player_stop(o)
           X == {}
<1>1. /\ BudOK(b) /\ TypeOK /\ bud \in [Buds -> Bud] /\ air \in [Buds -> Seq(Request)]
      /\ o \in Bud /\ a \in Seq(Request) /\ o.list \in Seq(Player)
  BY DEF IInv, TypeOK, Bud
<1>2. Place(o, a) /\ Adds(b, o, a)
  BY <1>1 DEF BudOK
<1>3. /\ linked' = linked /\ asked' = asked /\ air' = [air EXCEPT ![b] = a]
      /\ bud' = [bud EXCEPT ![b] = t]
  BY <1>1 DEF Silence, Quiet
<1>4. /\ t \in Bud /\ SameRest(o, t) /\ t.list = << >> /\ Told(t) = Told(o) \cup In(o.list)
      /\ t.g_player_id = o.g_player_id /\ Hears(o, t, X)
  BY <1>1, StopLemma
<1> HIDE DEF t, a
<1>5. Moves(o, t, X)
  <2> DEFINE n == Len(o.list)
  <2>1. n \in 0 .. n /\ DOMAIN o.list = 1 .. n
    BY <1>1, SeqFacts
  <2>2. In(o.list) = {o.list[i].tone : i \in 1 .. n}
    BY <2>1 DEF In
  <2>3. TonesOf(t.list) = SubSeq(TonesOf(o.list), n + 1, n)
    <3>1. TonesOf(t.list) = << >>
      BY <1>4 DEF TonesOf
    <3>2. n \in Nat /\ \A i \in n + 1 .. n : TonesOf(o.list)[i] \in Tones
      BY <1>1, SeqFacts
    <3>3. Len(SubSeq(TonesOf(o.list), n + 1, n)) = 0 /\ SubSeq(TonesOf(o.list), n + 1, n) \in Seq(Tones)
      BY <3>2, SubSeqProperties
    <3> QED BY <3>1, <3>3, SeqFacts
  <2> HIDE DEF n
  <2> QED BY <1>4, <2>1, <2>2, <2>3 DEF Moves, n
<1>6. X \subseteq Tones /\ X \cap Done(o) = {} /\ X \cap Waits(o, a) = {} /\ Gone(o, a) \cup X = Gone(o, a)
  OBVIOUS
<1> HIDE DEF X
<1>7. Place(t, a) /\ Gone(t, a) \subseteq Gone(o, a)
  BY <1>1, <1>2, <1>4, <1>5, <1>6, PlaceLemma DEF SameRest
<1>8. IInv'
  <2>1. t.tries = bud[b].tries /\ Adds(b, t, a) /\ Sounding(t.list, t.queue)
    BY <1>2, <1>4 DEF SameRest, Adds, Sounding
  <2> QED BY <1>1, <1>3, <1>4, <1>7, <2>1, QuietLemma DEF a
<1>9. Handed(o, t)
  <2>1. ListTags(t.list) \subseteq ListTags(o.list)
    BY <1>4 DEF ListTags
  <2> QED BY <1>1, <1>4, <1>5, <1>6, <2>1, HandedLemma DEF SameRest
<1>10. Late(o, t)
  <2>1. t.queue = o.queue /\ o.queue \in Seq(Messages)
    BY <1>1, <1>4 DEF SameRest, Bud
  <2> QED BY <2>1, LongerLemma DEF Late
<1>11. Forward
  BY <1>1, <1>3, <1>4, <1>5, <1>6, <1>9, <1>10, TurnLemma DEF Advances
<1> QED BY <1>8, <1>11

-----------------------------------------------------------------------------
(* The stream. *)

\* Only the head changes, and keeps its tone.
LEMMA HeadLemma ==
  ASSUME NEW l \in Seq(Player), l # << >>, NEW p \in Player, p.tone = l[1].tone, p.id = l[1].id
  PROVE  LET r == [l EXCEPT ![1] = p] IN
         /\ r \in Seq(Player) /\ r # << >> /\ r[1] = p /\ DOMAIN r = DOMAIN l
         /\ \A i \in DOMAIN r : i > 1 => r[i] = l[i]
         /\ TonesOf(r) = TonesOf(l) /\ In(r) = In(l) /\ ListTags(r) = ListTags(l)
<1> DEFINE r == [l EXCEPT ![1] = p]
           n == Len(l)
<1>1. n \in Nat /\ n > 0 /\ DOMAIN l = 1 .. n /\ 1 \in 1 .. n
  BY SeqFacts
<1>2. r \in Seq(Player) /\ Len(r) = n /\ \A i \in 1 .. n : r[i] = IF i = 1 THEN p ELSE l[i]
  BY <1>1, ExceptSeq
<1> HIDE DEF r
<1>3. DOMAIN r = 1 .. n /\ r # << >>
  BY <1>1, <1>2, SeqFacts
<1>4. TonesOf(r) = TonesOf(l)
  BY <1>1, <1>2, TonesSeq, SeqEqual
<1>5. In(r) = In(l)
  BY <1>1, <1>2, <1>3 DEF In
<1>7. ListTags(r) = ListTags(l)
  BY <1>1, <1>2, <1>3 DEF ListTags
<1>6. /\ r \in Seq(Player) /\ r # << >> /\ r[1] = p /\ DOMAIN r = DOMAIN l
      /\ \A i \in DOMAIN r : i > 1 => r[i] = l[i]
      /\ TonesOf(r) = TonesOf(l) /\ In(r) = In(l) /\ ListTags(r) = ListTags(l)
  BY <1>1, <1>2, <1>3, <1>4, <1>5, <1>7
<1> QED BY <1>6 DEF r

\* The line stays as it is, and an event may be posted.
LEMMA StandLemma ==
  ASSUME IInv, NEW b \in Buds, NEW t \in Bud, bud' = [bud EXCEPT ![b] = t], Quiet,
         TonesOf(t.list) = TonesOf(bud[b].list), In(t.list) = In(bud[b].list),
         t.heard = bud[b].heard, t.held = bud[b].held, t.tries = bud[b].tries,
         t.adding = bud[b].adding, Plays(t.queue) = Plays(bud[b].queue), OncePlays(t.queue),
         Sounding(t.list, t.queue), ListTags(t.list) = ListTags(bud[b].list),
         t.g_player_id = bud[b].g_player_id,
         EventTags(t.queue) \subseteq EventTags(bud[b].queue) \cup ListTags(bud[b].list),
         bud[b].queue # << >> => t.queue # Tail(bud[b].queue)
  PROVE  IInv' /\ Forward
<1> DEFINE o == bud[b]
           a == air[b]
           X == {}
<1>1. /\ BudOK(b) /\ TypeOK /\ bud \in [Buds -> Bud] /\ air \in [Buds -> Seq(Request)]
      /\ o \in Bud /\ a \in Seq(Request)
  BY DEF IInv, TypeOK
<1>2. Place(o, a) /\ Adds(b, o, a)
  BY <1>1 DEF BudOK
<1>3. linked' = linked /\ asked' = asked /\ air' = [air EXCEPT ![b] = a]
  BY <1>1 DEF Quiet
<1>4. Told(t) = Told(o) /\ Held(t) = Held(o)
  BY DEF Told, Held
<1>5. Done(t) = Done(o) /\ Waits(t, a) = Waits(o, a)
  BY <1>4 DEF Done, Waits
<1>6. Place(t, a) /\ Gone(t, a) \subseteq Gone(o, a)
  BY <1>2, <1>4, <1>5 DEF Place, Gone
<1>7. Adds(b, t, a)
  BY <1>2 DEF Adds
<1>8. IInv'
  BY <1>1, <1>3, <1>6, <1>7, QuietLemma
<1>9. Moves(o, t, X)
  BY <1>1, <1>4, MovesLemma
<1>10. X \subseteq Tones /\ X \cap Done(o) = {} /\ Advances(o, t, X)
  BY StayLemma
<1> HIDE DEF X
<1>11. Forward
  BY <1>1, <1>9, <1>10, TurnLemma
<1> QED BY <1>8, <1>11

\* An event of the head goes to app_core; the one that ends it is waiting then.
LEMMA PlayingLemma ==
  ASSUME IInv, NEW b \in Buds, NEW from, NEW to, NEW event, Playing(b, from, to, event),
         \/ to = "playing" /\ event = "START"
         \/ to = "over" /\ event \in {"STOP", "FAILED"}
  PROVE  IInv' /\ Forward
<1> DEFINE o == bud[b]
           p == Head(o.list)
           m == [do |-> event, id |-> p.id, tone |-> p.tone]
           r == [p EXCEPT !.stream = to]
           l == [o.list EXCEPT ![1] = r]
           q == Append(o.queue, m)
           t == [o EXCEPT !.list = l, !.queue = q]
<1>1. /\ BudOK(b) /\ bud \in [Buds -> Bud] /\ o \in Bud /\ o.list \in Seq(Player)
      /\ o.queue \in Seq(Messages) /\ o.list # << >>
  BY DEF IInv, TypeOK, Bud, Playing
<1>2. p = o.list[1] /\ p \in Player /\ 1 \in DOMAIN o.list
  BY <1>1, TailAt
<1>3. bud' = [bud EXCEPT ![b] = t] /\ Quiet
  BY <1>1, <1>2 DEF Playing
<1>4. m \in StreamEvents /\ m \in Messages /\ m.do = event /\ m.id = p.id /\ m.tone = p.tone
  BY <1>2 DEF Messages, StreamEvents, Player
<1>5. r \in Player /\ r.tone = p.tone /\ r.id = p.id /\ r.stream = to
  BY <1>2 DEF Player
<1>6. Sounding(o.list, o.queue) /\ OncePlays(o.queue)
  BY <1>1 DEF BudOK, Place
<1> HIDE DEF m, r, p
<1>7. /\ l \in Seq(Player) /\ l # << >> /\ l[1] = r /\ DOMAIN l = DOMAIN o.list
      /\ \A i \in DOMAIN l : i > 1 => l[i] = o.list[i]
      /\ TonesOf(l) = TonesOf(o.list) /\ In(l) = In(o.list) /\ ListTags(l) = ListTags(o.list)
  BY <1>1, <1>2, <1>5, HeadLemma
<1>8. /\ q \in Seq(Messages) /\ OncePlays(q) /\ Plays(q) = Plays(o.queue)
      /\ event \in {"STOP", "FAILED"} => EndWaits(l, q)
      /\ EventTags(q) \subseteq EventTags(o.queue) \cup ListTags(o.list)
      /\ o.queue # << >> => q # Tail(o.queue)
  <2>1. /\ q \in Seq(Messages) /\ OncePlays(q)
        /\ EventTags(q) = EventTags(o.queue) \cup (IF m.do # "play" THEN {<<m.id, m.tone>>} ELSE {})
        /\ o.queue # << >> => q # Tail(o.queue)
        /\ Plays(q) = Plays(o.queue) \cup (IF m.do = "play" THEN {m.req.tone} ELSE {})
        /\ \A k : m.do \in {"STOP", "FAILED"} /\ m.id = k[1].id => EndWaits(k, q)
    BY <1>1, <1>4, <1>6, PlaysAppend
  <2>2. <<m.id, m.tone>> \in ListTags(o.list)
    BY <1>2, <1>4 DEF ListTags
  <2> HIDE DEF q, l
  <2> QED BY <1>4, <1>5, <1>7, <2>1, <2>2
<1> HIDE DEF l, q
<1>9. /\ t \in Bud /\ t.list = l /\ t.queue = q /\ t.heard = o.heard /\ t.held = o.held
      /\ t.tries = o.tries /\ t.adding = o.adding /\ t.g_player_id = o.g_player_id
  BY <1>1, <1>7, <1>8 DEF Bud
<1>10. Sounding(l, q)
  BY <1>5, <1>6, <1>7, <1>8 DEF Sounding
<1> HIDE DEF t
<1> QED BY <1>3, <1>7, <1>8, <1>9, <1>10, StandLemma

LEMMA ReadsOnLemma ==
  ASSUME IInv, NEW b \in Buds, ReadsOn(b)
  PROVE  IInv' /\ Forward
<1> DEFINE o == bud[b]
           n == o.list[1].more - 1
           r == [o.list[1] EXCEPT !.more = n]
           l == [o.list EXCEPT ![1] = r]
           t == [o EXCEPT !.list = l]
<1>1. /\ BudOK(b) /\ bud \in [Buds -> Bud] /\ o \in Bud /\ o.list \in Seq(Player)
      /\ o.queue \in Seq(Messages) /\ o.list # << >>
  BY DEF IInv, TypeOK, Bud, ReadsOn
<1>2. Head(o.list) = o.list[1] /\ o.list[1] \in Player /\ 1 \in DOMAIN o.list
  BY <1>1, TailAt
<1>3. o.list[1].more > 0 /\ o.list[1].stream = "playing"
  BY <1>2 DEF ReadsOn
<1>4. n \in 0 .. 1
  BY <1>2, <1>3 DEF Player
<1>5. bud' = [bud EXCEPT ![b] = t] /\ Quiet
  BY <1>1, <1>2 DEF ReadsOn
<1> HIDE DEF n
<1>6. r \in Player /\ r.tone = o.list[1].tone /\ r.stream = "playing" /\ r.id = o.list[1].id
  BY <1>2, <1>3, <1>4 DEF Player
<1> HIDE DEF r
<1>7. /\ l \in Seq(Player) /\ l # << >> /\ l[1] = r /\ DOMAIN l = DOMAIN o.list
      /\ \A i \in DOMAIN l : i > 1 => l[i] = o.list[i]
      /\ TonesOf(l) = TonesOf(o.list) /\ In(l) = In(o.list) /\ ListTags(l) = ListTags(o.list)
  BY <1>1, <1>6, HeadLemma
<1> HIDE DEF l
<1>8. /\ t \in Bud /\ t.list = l /\ t.queue = o.queue /\ t.heard = o.heard /\ t.held = o.held
      /\ t.tries = o.tries /\ t.adding = o.adding /\ t.g_player_id = o.g_player_id
  BY <1>1, <1>7 DEF Bud
<1>9. Sounding(o.list, o.queue) /\ OncePlays(o.queue)
  BY <1>1 DEF BudOK, Place
<1>10. Sounding(l, o.queue)
  BY <1>6, <1>7, <1>9 DEF Sounding
<1>11. o.queue # << >> => o.queue # Tail(o.queue)
  BY <1>1, LongerLemma
<1> HIDE DEF t
<1> QED BY <1>5, <1>7, <1>8, <1>9, <1>10, <1>11, StandLemma

-----------------------------------------------------------------------------
(* The link. *)

LEMMA DeliverLemma ==
  ASSUME IInv, NEW b \in Buds, Deliver(b)
  PROVE  IInv' /\ Forward
<1> DEFINE o == bud[b]
           a == air[b]
           u == Tail(a)
           h == Head(a)
           m == [do |-> "play", req |-> h]
           q == Append(o.queue, m)
           t == [o EXCEPT !.queue = q]
           X == {}
<1>1. /\ BudOK(b) /\ TypeOK /\ bud \in [Buds -> Bud] /\ air \in [Buds -> Seq(Request)]
      /\ o \in Bud /\ a \in Seq(Request) /\ o.queue \in Seq(Messages)
  BY DEF IInv, TypeOK, Bud
<1>2. Place(o, a) /\ Adds(b, o, a) /\ Sounding(o.list, o.queue)
  BY <1>1 DEF BudOK
<1>3. a # << >> /\ OnceFlying(a) /\ OncePlays(o.queue)
  BY <1>2 DEF Deliver, Place
<1>4. /\ linked' = linked /\ asked' = asked /\ air' = [air EXCEPT ![b] = u]
      /\ bud' = [bud EXCEPT ![b] = t]
  BY <1>1 DEF Deliver
<1>5. /\ u \in Seq(Request) /\ h \in Request /\ OnceFlying(u)
      /\ Flying(a) = Flying(u) \cup {h.tone} /\ h.tone \notin Flying(u)
      /\ (\E i \in DOMAIN a : Own(b, a[i])) => Own(b, h) \/ \E i \in DOMAIN u : Own(b, u[i])
  BY <1>1, <1>3, FlyingTail
<1>6. m \in Messages /\ m.do = "play" /\ m.req = h
  BY <1>5 DEF Messages
<1>7. h.tone \notin Plays(o.queue)
  BY <1>2, <1>5 DEF Place
<1> HIDE DEF u, h, m
<1>8. /\ q \in Seq(Messages) /\ OncePlays(q)
      /\ Plays(q) = Plays(o.queue) \cup {h.tone}
      /\ \A l : EndWaits(l, o.queue) => EndWaits(l, q)
      /\ EventTags(q) = EventTags(o.queue)
  <2>1. /\ q \in Seq(Messages) /\ OncePlays(q)
        /\ Plays(q) = Plays(o.queue) \cup (IF m.do = "play" THEN {m.req.tone} ELSE {})
        /\ \A l : EndWaits(l, o.queue) => EndWaits(l, q)
        /\ EventTags(q) = EventTags(o.queue) \cup (IF m.do # "play" THEN {<<m.id, m.tone>>} ELSE {})
    BY <1>1, <1>3, <1>6, <1>7, PlaysAppend
  <2> HIDE DEF q
  <2> QED BY <1>6, <2>1
<1> HIDE DEF q
<1>9. /\ t \in Bud /\ t.queue = q /\ t.list = o.list /\ t.heard = o.heard /\ t.held = o.held
      /\ t.tries = o.tries /\ t.adding = o.adding /\ t.g_player_id = o.g_player_id
  BY <1>1, <1>8 DEF Bud
<1> HIDE DEF t
<1>10. Told(t) = Told(o) /\ Held(t) = Held(o) /\ Done(t) = Done(o)
  <2>1. Told(t) = Told(o) /\ Held(t) = Held(o)
    BY <1>9 DEF Told, Held
  <2> QED BY <1>9, <2>1 DEF Done
<1>11. Waits(t, u) = Waits(o, a)
  BY <1>5, <1>8, <1>9, <1>10 DEF Waits
<1>12. Place(t, u) /\ Gone(t, u) \subseteq Gone(o, a)
  BY <1>2, <1>5, <1>8, <1>9, <1>10, <1>11 DEF Place, Gone
<1>13. Adds(b, t, u)
  BY <1>2, <1>5, <1>8, <1>9 DEF Adds
<1>14. Sounding(t.list, t.queue)
  BY <1>2, <1>8, <1>9 DEF Sounding
<1>15. IInv'
  BY <1>1, <1>4, <1>5, <1>9, <1>12, <1>13, <1>14, QuietLemma
<1>16. Moves(o, t, X)
  BY <1>1, <1>9, <1>10, MovesLemma
<1>17. X \subseteq Tones /\ X \cap Done(o) = {} /\ Advances(o, t, X)
  BY <1>8, <1>9, StayLemma
<1> HIDE DEF X
<1>18. Forward
  BY <1>1, <1>4, <1>9, <1>16, <1>17, TurnLemma
<1> QED BY <1>15, <1>18

LEMMA LinkFormsLemma ==
  ASSUME IInv, LinkForms
  PROVE  IInv' /\ Forward
<1>1. bud' = bud /\ air' = air /\ asked' = asked /\ linked' \in BOOLEAN
  BY DEF LinkForms
<1>2. TypeOK'
  BY <1>1 DEF IInv, TypeOK
<1>3. ASSUME NEW b \in Buds PROVE BudOK(b)'
  <2>1. BudOK(b)
    BY DEF IInv
  <2> QED BY <1>1, <2>1 DEF BudOK
<1> QED BY <1>1, <1>2, <1>3 DEF IInv, Forward

\* A request that is lost waits nowhere, and a bud's own are not lost.
LEMMA LinkDropsLemma ==
  ASSUME IInv, LinkDrops
  PROVE  IInv' /\ Forward
<1>1. /\ TypeOK /\ bud \in [Buds -> Bud] /\ air \in [Buds -> Seq(Request)]
      /\ bud' = bud /\ asked' = asked /\ linked' \in BOOLEAN
  BY DEF IInv, TypeOK, LinkDrops
<1>2. air' \in [Buds -> Seq(Request)]
      /\ \A c \in Buds : /\ OnceFlying(air'[c]) /\ Flying(air'[c]) \subseteq Flying(air[c])
                         /\ (\E i \in DOMAIN air[c] : Own(c, air[c][i]))
                              => \E i \in DOMAIN air'[c] : Own(c, air'[c][i])
  <2>1. \A c \in Buds : OnceFlying(air[c])
    BY DEF IInv, BudOK, Place
  <2>2. CASE air' = air
    BY <1>1, <2>1, <2>2
  <2>3. ASSUME air' \in [Buds -> UNION {OwnPart(b) : b \in Buds}],
               \A c \in Buds : air'[c] \in OwnPart(c), NEW c \in Buds
        PROVE  /\ air'[c] \in Seq(Request)
               /\ OnceFlying(air'[c]) /\ Flying(air'[c]) \subseteq Flying(air[c])
               /\ (\E i \in DOMAIN air[c] : Own(c, air[c][i]))
                    => \E i \in DOMAIN air'[c] : Own(c, air'[c][i])
    <3>1. air'[c] \in OwnPart(c) /\ air[c] \in Seq(Request)
      BY <1>1, <2>3
    <3> QED BY <2>1, <3>1, OwnPartLemma
  <2>4. \/ air' = air
        \/ /\ air' \in [Buds -> UNION {OwnPart(b) : b \in Buds}]
           /\ \A c \in Buds : air'[c] \in OwnPart(c)
    BY DEF LinkDrops
  <2>5. CASE /\ air' \in [Buds -> UNION {OwnPart(b) : b \in Buds}]
             /\ \A c \in Buds : air'[c] \in OwnPart(c)
    <3>1. \A c \in Buds : /\ air'[c] \in Seq(Request)
                          /\ OnceFlying(air'[c]) /\ Flying(air'[c]) \subseteq Flying(air[c])
                          /\ (\E i \in DOMAIN air[c] : Own(c, air[c][i]))
                               => \E i \in DOMAIN air'[c] : Own(c, air'[c][i])
      BY <2>3, <2>5
    <3>2. air' \in [Buds -> Seq(Request)]
      BY <2>5, <3>1
    <3> QED BY <3>1, <3>2
  <2> QED BY <2>2, <2>4, <2>5
<1>3. TypeOK'
  BY <1>1, <1>2 DEF TypeOK
<1>4. ASSUME NEW c \in Buds
      PROVE  /\ Place(bud[c], air'[c]) /\ Adds(c, bud[c], air'[c])
             /\ Gone(bud[c], air'[c]) \subseteq Gone(bud[c], air[c])
  <2>1. Place(bud[c], air[c]) /\ Adds(c, bud[c], air[c])
    BY DEF IInv, BudOK
  <2>2. Waits(bud[c], air'[c]) \subseteq Waits(bud[c], air[c])
    BY <1>2 DEF Waits
  <2>3. Place(bud[c], air'[c])
    BY <1>2, <2>1, <2>2 DEF Place
  <2>4. Adds(c, bud[c], air'[c])
    BY <1>2, <2>1 DEF Adds
  <2> QED BY <2>2, <2>3, <2>4 DEF Gone
<1>5. ASSUME NEW b \in Buds PROVE BudOK(b)'
  <2>1. BudOK(b)
    BY DEF IInv
  <2>2. \A c \in Buds : Tried(bud[b]) \cap Gone(bud[c], air'[c]) = {}
    BY <1>4, <2>1 DEF BudOK
  <2> QED BY <1>1, <1>4, <2>1, <2>2 DEF BudOK
<1> QED BY <1>1, <1>3, <1>5 DEF IInv, Forward

-----------------------------------------------------------------------------
(* Requests of bud b, whose players are in state s when tone x is played:  *)
(* x is new, or has just been taken from the tries.                        *)

Ready(b, s, x) ==
  /\ s \in Bud /\ s.list = bud[b].list /\ s.heard = bud[b].heard /\ s.queue = bud[b].queue
  /\ s.held = bud[b].held /\ s.adding = bud[b].adding /\ s.tries \subseteq bud[b].tries
  /\ s.g_player_id = bud[b].g_player_id
  /\ x \in Tones \ Tried(s)
  /\ \A c \in Buds : x \notin Gone(bud[c], air[c]) /\ (c # b => x \notin Tried(bud[c]))
  /\ asked' \in [Tones -> [by : Buds, more : 0 .. 1] \cup {NoRequest}]
  /\ \A y \in Tones : asked[y] # NoRequest \/ y = x => asked'[y] # NoRequest
  /\ linked' = linked

\* What Ready(b, s, x) says of bud b and the step that follows.
LEMMA ReadyLemma ==
  ASSUME IInv, NEW b \in Buds, NEW s, NEW x, Ready(b, s, x)
  PROVE  /\ Done(s) = Done(bud[b]) /\ Held(s) = Held(bud[b]) /\ Tried(s) \subseteq Tried(bud[b])
         /\ Waits(s, air[b]) = Waits(bud[b], air[b]) /\ Gone(s, air[b]) = Gone(bud[b], air[b])
         /\ Place(s, air[b]) /\ Adds(b, s, air[b]) /\ Sounding(s.list, s.queue) /\ Mine(b, s)
         /\ Tried(bud[b]) \cap Gone(bud[b], air[b]) = {}
         /\ bud[b] \in Bud /\ air[b] \in Seq(Request) /\ air \in [Buds -> Seq(Request)]
         /\ bud \in [Buds -> Bud] /\ linked' \in BOOLEAN
<1>1. /\ BudOK(b) /\ TypeOK /\ bud \in [Buds -> Bud] /\ air \in [Buds -> Seq(Request)]
  BY DEF IInv, TypeOK
<1>2. Told(s) = Told(bud[b]) /\ Held(s) = Held(bud[b]) /\ Tried(s) \subseteq Tried(bud[b])
  BY DEF Ready, Told, Held, Tried
<1>3. /\ Done(s) = Done(bud[b]) /\ Waits(s, air[b]) = Waits(bud[b], air[b])
      /\ Gone(s, air[b]) = Gone(bud[b], air[b])
  BY <1>2 DEF Ready, Done, Waits, Gone
<1>4. Place(s, air[b])
  BY <1>1, <1>2, <1>3 DEF Ready, BudOK, Place
<1>5. Adds(b, s, air[b]) /\ Sounding(s.list, s.queue) /\ Mine(b, s)
  BY <1>1 DEF Ready, BudOK, Adds, Mine
<1>6. linked' \in BOOLEAN /\ Tried(bud[b]) \cap Gone(bud[b], air[b]) = {}
  BY <1>1 DEF Ready, TypeOK, BudOK
<1> QED BY <1>1, <1>2, <1>3, <1>4, <1>5, <1>6

\* The tone joins the line of its bud, or is refused.
LEMMA JoinLemma ==
  ASSUME IInv, NEW b \in Buds, NEW s, NEW x, Ready(b, s, x), NEW t \in Bud, SameRest(s, t),
         Moves(s, t, {x}), Sounding(t.list, t.queue), bud' = [bud EXCEPT ![b] = t], air' = air,
         Numbers(s, t, x), Hears(s, t, {x})
  PROVE  IInv' /\ Forward
<1> DEFINE a == air[b]
           o == bud[b]
           X == {x}
<1>0. s \in Bud
  BY DEF Ready
<1>1. /\ Done(s) = Done(o) /\ Tried(s) \subseteq Tried(o)
      /\ Waits(s, a) = Waits(o, a) /\ Gone(s, a) = Gone(o, a)
      /\ Place(s, a) /\ Adds(b, s, a) /\ Mine(b, s)
      /\ Tried(o) \cap Gone(o, a) = {}
      /\ o \in Bud /\ a \in Seq(Request) /\ air \in [Buds -> Seq(Request)]
      /\ bud \in [Buds -> Bud] /\ linked' \in BOOLEAN
  BY ReadyLemma
<1>2. /\ X \subseteq Tones /\ X \cap Gone(o, a) = {} /\ X \cap Tried(s) = {} /\ Moves(s, t, X)
      /\ Hears(s, t, X) /\ x \notin Gone(o, a)
  BY DEF Ready
<1>3. \A c \in Buds \ {b} : X \cap (Tried(bud[c]) \cup Gone(bud[c], air[c])) = {}
  BY DEF Ready
<1>4. /\ \A y \in Tones : asked[y] # NoRequest \/ y \in X => asked'[y] # NoRequest
      /\ asked' \in [Tones -> [by : Buds, more : 0 .. 1] \cup {NoRequest}]
  BY DEF Ready
<1>5. air' = [air EXCEPT ![b] = a]
  BY <1>1
<1> HIDE DEF X, a
<1>6. X \cap Waits(s, a) = {} /\ X \cap Done(o) = {}
  BY <1>1, <1>2 DEF Gone
<1>7. Place(t, a) /\ Gone(t, a) \subseteq Gone(s, a) \cup X
  BY <1>0, <1>1, <1>2, <1>6, PlaceLemma DEF SameRest
<1>8. Tried(t) = Tried(s) /\ Mine(b, t) /\ Adds(b, t, a)
  BY <1>1 DEF SameRest, Tried, Mine, Adds
<1>9. /\ Gone(t, a) \subseteq Gone(o, a) \cup X /\ Tried(t) \subseteq Tried(o) \cup X
      /\ Tried(t) \cap Gone(t, a) = {}
  BY <1>1, <1>2, <1>7, <1>8
<1>10. IInv'
  BY <1>1, <1>2, <1>3, <1>4, <1>5, <1>7, <1>8, <1>9, OneLemma, ZenonT(60)
<1>11. Moves(o, t, X) /\ Hears(o, t, X)
  BY <1>2, SameMoves, SameHears DEF Ready
<1>12. Handed(o, t)
  <2>1. Numbers(o, t, x) /\ t.held = o.held /\ t.queue = o.queue
    BY DEF Numbers, Ready, SameRest
  <2>2. x \notin Kept(o)
    BY <1>2 DEF Kept, Gone, Waits
  <2> QED BY <1>1, <1>2, <1>11, <2>1, <2>2, HandedLemma
<1>13. Late(o, t)
  <2>1. t.queue = o.queue /\ o.queue \in Seq(Messages)
    BY <1>1 DEF SameRest, Ready, Bud
  <2> QED BY <2>1, LongerLemma DEF Late
<1>14. Forward
  BY <1>2, <1>6, <1>11, <1>12, <1>13, TurnLemma DEF Advances
<1> QED BY <1>10, <1>14

LEMMA LaterLemma ==
  ASSUME NEW r \in Request
  PROVE  Later(r) \in Request /\ Later(r).tone = r.tone /\ Later(r).by = r.by
<1>1. 0 \in 0 .. 1 /\ FALSE \in BOOLEAN
  OBVIOUS
<1>2. Later(r) = [r EXCEPT !.more = 0, !.preempt = FALSE]
  BY DEF Later
<1> QED BY <1>1, <1>2 DEF Request

\* The tone is put off.
LEMMA PutOffLemma ==
  ASSUME IInv, NEW b \in Buds, NEW s, NEW r \in Request, r.by = b, Ready(b, s, r.tone),
         bud' = [bud EXCEPT ![b] = PutOff(s, r)], air' = air
  PROVE  IInv' /\ Forward
<1> DEFINE a == air[b]
           o == bud[b]
           x == r.tone
           X == {x}
           l == Later(r)
           t == PutOff(s, r)
<1>0. s \in Bud
  BY DEF Ready
<1>1. /\ Done(s) = Done(o) /\ Tried(s) \subseteq Tried(o)
      /\ Waits(s, a) = Waits(o, a) /\ Gone(s, a) = Gone(o, a)
      /\ Place(s, a) /\ Adds(b, s, a) /\ Mine(b, s) /\ Sounding(s.list, s.queue)
      /\ Tried(o) \cap Gone(o, a) = {}
      /\ o \in Bud /\ a \in Seq(Request) /\ air \in [Buds -> Seq(Request)]
      /\ bud \in [Buds -> Bud] /\ linked' \in BOOLEAN
  BY ReadyLemma
<1>2. X \subseteq Tones /\ X \cap Gone(o, a) = {} /\ X \cap Tried(s) = {}
  BY DEF Ready
<1>3. \A c \in Buds \ {b} : X \cap (Tried(bud[c]) \cup Gone(bud[c], air[c])) = {}
  BY DEF Ready
<1>4. /\ \A y \in Tones : asked[y] # NoRequest \/ y \in X => asked'[y] # NoRequest
      /\ asked' \in [Tones -> [by : Buds, more : 0 .. 1] \cup {NoRequest}]
  BY DEF Ready
<1>5. air' = [air EXCEPT ![b] = a]
  BY <1>1
<1>6. l \in Request /\ l.tone = x /\ l.by = b
  BY LaterLemma
<1>7. /\ t \in Bud /\ t.list = s.list /\ t.heard = s.heard /\ t.queue = s.queue
      /\ t.held = s.held /\ t.adding = s.adding /\ t.tries = s.tries \cup {l}
      /\ t.g_player_id = s.g_player_id
  BY <1>0, <1>6 DEF PutOff, Bud
<1> HIDE DEF t, l, x
<1>8. Told(t) = Told(s) /\ Held(t) = Held(s) /\ Tried(t) = Tried(s) \cup {x}
  BY <1>6, <1>7 DEF Told, Held, Tried
<1>9. Done(t) = Done(s) /\ Waits(t, a) = Waits(s, a)
  BY <1>7, <1>8 DEF Done, Waits
<1>10. Place(t, a) /\ Gone(t, a) = Gone(o, a) /\ Adds(b, t, a) /\ Sounding(t.list, t.queue)
  BY <1>1, <1>7, <1>8, <1>9 DEF Place, Gone, Adds
<1>11. Mine(b, t)
  <2>1. \A q \in s.tries : q.tone # x
    BY <1>2 DEF Tried
  <2> QED BY <1>1, <1>6, <1>7, <2>1 DEF Mine
<1> HIDE DEF X, a
<1>12. /\ Gone(t, a) \subseteq Gone(o, a) \cup X /\ Tried(t) \subseteq Tried(o) \cup X
       /\ Tried(t) \cap Gone(t, a) = {}
  BY <1>1, <1>2, <1>8, <1>10 DEF X
<1>13. bud' = [bud EXCEPT ![b] = t]
  BY DEF t
<1>14. IInv'
  <2>1. /\ t \in Bud /\ a \in Seq(Request) /\ linked' \in BOOLEAN
        /\ Sounding(t.list, t.queue) /\ Adds(b, t, a) /\ Place(t, a) /\ Mine(b, t)
    BY <1>1, <1>7, <1>10, <1>11
  <2>2. /\ Gone(t, a) \subseteq Gone(bud[b], air[b]) \cup X
        /\ Tried(t) \subseteq Tried(bud[b]) \cup X
    BY <1>12 DEF a
  <2> QED BY <1>2, <1>3, <1>4, <1>5, <1>12, <1>13, <2>1, <2>2, OneLemma
<1>15. Moves(o, t, {})
  <2>1. t.list = o.list /\ Told(t) = Told(o)
    BY <1>7, <1>8 DEF Ready, Told
  <2> QED BY <1>1, <1>7, <2>1, MovesLemma
<1> DEFINE N == {}
<1>16. N \subseteq Tones /\ N \cap Done(o) = {} /\ Moves(o, t, N)
  BY <1>15
<1> HIDE DEF N
<1>18. Advances(o, t, N)
  BY <1>7, StayLemma DEF Ready
<1>17. Forward
  BY <1>7, <1>13, <1>16, <1>18, TurnLemma
<1> QED BY <1>14, <1>17

\* The tone is sent to both buds.
LEMMA BothLemma ==
  ASSUME IInv, NEW b \in Buds, NEW s, NEW r \in Request, r.by = b, Ready(b, s, r.tone),
         bud' = [bud EXCEPT ![b] = [s EXCEPT !.adding = TRUE]], air' = Both(r)
  PROVE  IInv' /\ Forward
<1> DEFINE x == r.tone
           t == [s EXCEPT !.adding = TRUE]
<1>0. s \in Bud /\ x \in Tones
  BY DEF Ready
<1>1. /\ Done(s) = Done(bud[b]) /\ Tried(s) \subseteq Tried(bud[b]) /\ Held(s) = Held(bud[b])
      /\ Mine(b, s) /\ air \in [Buds -> Seq(Request)]
      /\ bud \in [Buds -> Bud] /\ linked' \in BOOLEAN
  BY ReadyLemma
<1>2. /\ asked' \in [Tones -> [by : Buds, more : 0 .. 1] \cup {NoRequest}]
      /\ \A y \in Tones : asked[y] # NoRequest \/ y = x => asked'[y] # NoRequest
      /\ \A c \in Buds : x \notin Gone(bud[c], air[c]) /\ (c # b => x \notin Tried(bud[c]))
      /\ x \notin Tried(s)
  BY DEF Ready
<1>3. /\ t \in Bud /\ t.list = bud[b].list /\ t.heard = bud[b].heard /\ t.queue = bud[b].queue
      /\ t.held = bud[b].held /\ t.tries = s.tries /\ t.g_player_id = bud[b].g_player_id
  BY <1>0 DEF Ready, Bud
<1>4. bud'[b] = t /\ bud' \in [Buds -> Bud] /\ \A c \in Buds : c # b => bud'[c] = bud[c]
  BY <1>1, <1>3
<1> HIDE DEF t, x
<1>5. ASSUME NEW c \in Buds
      PROVE  /\ bud'[c].list = bud[c].list /\ bud'[c].heard = bud[c].heard
             /\ bud'[c].queue = bud[c].queue /\ bud'[c].held = bud[c].held
             /\ bud'[c].tries \subseteq bud[c].tries /\ x \notin Tried(bud'[c])
  <2>1. CASE c = b
    <3>1. s.tries \subseteq bud[b].tries
      BY DEF Ready
    <3>2. Tried(t) = Tried(s)
      BY <1>3 DEF Tried
    <3> QED BY <1>2, <1>3, <1>4, <2>1, <3>1, <3>2
  <2>2. CASE c # b
    BY <1>2, <1>4, <2>2
  <2> QED BY <2>1, <2>2
<1>6. ASSUME NEW c \in Buds
      PROVE  /\ air'[c] \in Seq(Request) /\ OnceFlying(air'[c])
             /\ Flying(air'[c]) = Flying(air[c]) \cup {x}
             /\ (\E i \in DOMAIN air[c] : Own(c, air[c][i])) \/ c = b
                  => \E i \in DOMAIN air'[c] : Own(c, air'[c][i])
  <2>1. air'[c] = Append(air[c], r) /\ air[c] \in Seq(Request)
    BY <1>1 DEF Both
  <2>2. OnceFlying(air[c]) /\ x \notin Flying(air[c])
    BY <1>2 DEF IInv, BudOK, Place, Gone, Waits
  <2>3. Own(b, r)
    BY DEF Own
  <2> QED BY <2>1, <2>2, <2>3, FlyingAppend DEF x
<1>7. air' \in [Buds -> Seq(Request)]
  <2>1. air' = [c \in Buds |-> Append(air[c], r)]
    BY DEF Both
  <2> QED BY <1>6, <2>1
<1>8. TypeOK'
  BY <1>1, <1>2, <1>4, <1>7 DEF TypeOK
<1>9. ASSUME NEW c \in Buds
      PROVE  /\ Tried(bud'[c]) \subseteq Tried(bud[c])
             /\ Gone(bud'[c], air'[c]) = Gone(bud[c], air[c]) \cup {x}
             /\ Place(bud'[c], air'[c]) /\ Adds(c, bud'[c], air'[c])
             /\ Sounding(bud'[c].list, bud'[c].queue) /\ Mine(c, bud'[c])
  <2>1. BudOK(c)
    BY DEF IInv
  <2>2. Told(bud'[c]) = Told(bud[c]) /\ Held(bud'[c]) = Held(bud[c])
    BY <1>5 DEF Told, Held
  <2>3. Tried(bud'[c]) \subseteq Tried(bud[c])
    BY <1>5 DEF Tried
  <2>4. /\ Done(bud'[c]) = Done(bud[c])
        /\ Waits(bud'[c], air'[c]) = Waits(bud[c], air[c]) \cup {x}
    BY <1>5, <1>6, <2>2 DEF Done, Waits
  <2>5. Gone(bud'[c], air'[c]) = Gone(bud[c], air[c]) \cup {x}
    BY <2>4 DEF Gone
  <2>6. Place(bud'[c], air'[c])
    <3>1. x \notin Held(bud[c]) /\ x \notin Plays(bud[c].queue) /\ x \notin Done(bud[c])
      BY <1>2 DEF Gone, Waits
    <3>2. Place(bud[c], air[c])
      BY <2>1 DEF BudOK
    <3> QED BY <1>5, <1>6, <2>2, <2>4, <3>1, <3>2 DEF Place
  <2>7. Adds(c, bud'[c], air'[c])
    <3>1. CASE c = b
      BY <1>6, <3>1 DEF Adds
    <3>2. CASE c # b
      <4>1. Adds(c, bud[c], air[c])
        BY <2>1 DEF BudOK
      <4> QED BY <1>4, <1>6, <3>2, <4>1 DEF Adds
    <3> QED BY <3>1, <3>2
  <2>8. Sounding(bud'[c].list, bud'[c].queue) /\ Mine(c, bud'[c])
    BY <1>5, <2>1 DEF BudOK, Mine
  <2> QED BY <2>3, <2>5, <2>6, <2>7, <2>8
<1>10. ASSUME NEW c \in Buds PROVE BudOK(c)'
  <2>1. BudOK(c)
    BY DEF IInv
  <2>2. ASSUME NEW d \in Buds
        PROVE  /\ Tried(bud'[c]) \cap Gone(bud'[d], air'[d]) = {}
               /\ c # d => Tried(bud'[c]) \cap Tried(bud'[d]) = {}
    <3>1. /\ Tried(bud[c]) \cap Gone(bud[d], air[d]) = {}
          /\ c # d => Tried(bud[c]) \cap Tried(bud[d]) = {}
      BY <2>1 DEF BudOK
    <3>2. x \notin Tried(bud'[c]) /\ Tried(bud'[c]) \subseteq Tried(bud[c])
      BY <1>5, <1>9
    <3>3. /\ Gone(bud'[d], air'[d]) = Gone(bud[d], air[d]) \cup {x}
          /\ Tried(bud'[d]) \subseteq Tried(bud[d])
      BY <1>9
    <3> QED BY <3>1, <3>2, <3>3
  <2>3. \A y \in Tried(bud'[c]) \cup Gone(bud'[c], air'[c]) : asked'[y] # NoRequest
    <3>1. Tried(bud[c]) \cup Gone(bud[c], air[c]) \subseteq Tones
      BY <1>1, TonesTyped
    <3>2. \A y \in Tried(bud[c]) \cup Gone(bud[c], air[c]) : asked[y] # NoRequest
      BY <2>1 DEF BudOK
    <3>3. asked'[x] # NoRequest
      BY <1>0, <1>2 DEF x
    <3>4. Tried(bud'[c]) \cup Gone(bud'[c], air'[c]) \subseteq Tried(bud[c]) \cup Gone(bud[c], air[c]) \cup {x}
      BY <1>9
    <3> SUFFICES ASSUME NEW y \in Tried(bud[c]) \cup Gone(bud[c], air[c]) PROVE asked'[y] # NoRequest
      BY <3>3, <3>4
    <3> QED BY <1>2, <3>1, <3>2
  <2> QED BY <1>9, <2>2, <2>3 DEF BudOK
<1>11. IInv'
  BY <1>8, <1>10 DEF IInv
<1> DEFINE N == {}
<1>12. N \subseteq Tones /\ N \cap Done(bud[b]) = {} /\ Moves(bud[b], t, N)
  <2>1. Told(t) = Told(bud[b])
    BY <1>3 DEF Told
  <2> QED BY <1>1, <1>3, <2>1, MovesLemma
<1> HIDE DEF N
<1>13. bud' = [bud EXCEPT ![b] = t]
  BY DEF t
<1>15. Advances(bud[b], t, N)
  BY <1>3, StayLemma
<1>14. Forward
  BY <1>3, <1>12, <1>13, <1>15, TurnLemma
<1> QED BY <1>11, <1>14

LEMMA PlayLemma ==
  ASSUME IInv, NEW b \in Buds, NEW s, NEW r \in Request, r.by = b, Ready(b, s, r.tone),
         tws_play_tone(b, s, r)
  PROVE  IInv' /\ Forward
<1>1. CASE bud' = [bud EXCEPT ![b] = PutOff(s, r)] /\ air' = air
  BY <1>1, PutOffLemma
<1>2. CASE air' = Both(r) /\ bud' = [bud EXCEPT ![b] = [s EXCEPT !.adding = TRUE]]
  BY <1>2, BothLemma
<1>3. ASSUME NEW t \in play_tone_file(Preempted(s, r), r), bud' = [bud EXCEPT ![b] = t], air' = air
      PROVE  IInv' /\ Forward
  <2>1. s \in Bud
    BY DEF Ready
  <2>2. Sounding(s.list, s.queue)
    BY ReadyLemma
  <2>3. /\ t \in Bud /\ SameRest(s, t) /\ Moves(s, t, {r.tone}) /\ Sounding(t.list, t.queue)
        /\ Numbers(s, t, r.tone) /\ Hears(s, t, {r.tone})
    BY <1>3, <2>1, <2>2, LocalLemma
  <2> QED BY <1>3, <2>3, JoinLemma
<1>4. \/ bud' = [bud EXCEPT ![b] = PutOff(s, r)] /\ air' = air
      \/ air' = Both(r) /\ bud' = [bud EXCEPT ![b] = [s EXCEPT !.adding = TRUE]]
      \/ /\ \E t \in play_tone_file(Preempted(s, r), r) : bud' = [bud EXCEPT ![b] = t]
         /\ air' = air
  BY DEF tws_play_tone, Preempted
<1> QED BY <1>1, <1>2, <1>3, <1>4

\* A new tone is nowhere.
LEMMA AskLemma ==
  ASSUME IInv, NEW b \in Buds, NEW r \in Request, r.by = b, Asks(r), linked' = linked
  PROVE  Ready(b, bud[b], r.tone)
<1> DEFINE x == r.tone
           y == [by |-> r.by, more |-> r.more]
<1>1. /\ bud \in [Buds -> Bud] /\ air \in [Buds -> Seq(Request)] /\ bud[b] \in Bud
      /\ asked \in [Tones -> [by : Buds, more : 0 .. 1] \cup {NoRequest}]
  BY DEF IInv, TypeOK
<1>2. x \in Tones /\ y \in [by : Buds, more : 0 .. 1]
  BY DEF Request
<1>3. asked[x] = NoRequest /\ asked' = [asked EXCEPT ![x] = y]
  BY DEF Asks
<1>4. y # NoRequest
  BY <1>2, ToneAssumption
<1> HIDE DEF x, y
<1>5. \A c \in Buds : x \notin Tried(bud[c]) \cup Gone(bud[c], air[c])
  BY <1>3 DEF IInv, BudOK
<1>6. /\ asked' \in [Tones -> [by : Buds, more : 0 .. 1] \cup {NoRequest}]
      /\ \A z \in Tones : asked[z] # NoRequest \/ z = x => asked'[z] # NoRequest
  BY <1>1, <1>2, <1>3, <1>4
<1> QED BY <1>1, <1>2, <1>5, <1>6 DEF Ready, x

LEMMA PlayLocalLemma ==
  ASSUME IInv, NEW b \in Buds, NEW x \in Tones, PlayLocal(b, x)
  PROVE  IInv' /\ Forward
<1>1. PICK more \in Lists :
        LET r == [tone |-> x, by |-> b, more |-> more, alone |-> FALSE, preempt |-> FALSE]
        IN Asks(r) /\ \E u \in play_tone_file(bud[b], r) : bud' = [bud EXCEPT ![b] = u]
  BY DEF PlayLocal
<1> DEFINE r == [tone |-> x, by |-> b, more |-> more, alone |-> FALSE, preempt |-> FALSE]
<1>2. PICK t \in play_tone_file(bud[b], r) : bud' = [bud EXCEPT ![b] = t]
  BY <1>1
<1>3. r \in Request /\ r.by = b /\ r.tone = x
  <2>1. more \in 0 .. 1
    BY DEF Lists
  <2> QED BY <2>1 DEF Request
<1>4. Asks(r)
  BY <1>1
<1> HIDE DEF r
<1>5. bud[b] \in Bud /\ Sounding(bud[b].list, bud[b].queue)
  BY DEF IInv, TypeOK, BudOK
<1>6. /\ t \in Bud /\ SameRest(bud[b], t) /\ Moves(bud[b], t, {x}) /\ Sounding(t.list, t.queue)
      /\ Numbers(bud[b], t, x) /\ Hears(bud[b], t, {x})
  BY <1>2, <1>3, <1>5, PlayFileLemma
<1>7. linked' = linked /\ air' = air
  BY DEF PlayLocal
<1>8. Ready(b, bud[b], x)
  BY <1>3, <1>4, <1>7, AskLemma
<1> QED BY <1>2, <1>6, <1>7, <1>8, JoinLemma

LEMMA PlayTwsLemma ==
  ASSUME IInv, NEW b \in Buds, NEW x \in Tones, PlayTws(b, x)
  PROVE  IInv' /\ Forward
<1>1. PICK more \in Lists, alone \in BOOLEAN, preempt \in BOOLEAN :
        LET r == [tone |-> x, by |-> b, more |-> more, alone |-> alone, preempt |-> preempt]
        IN Asks(r) /\ tws_play_tone(b, bud[b], r)
  BY DEF PlayTws
<1> DEFINE r == [tone |-> x, by |-> b, more |-> more, alone |-> alone, preempt |-> preempt]
<1>2. r \in Request /\ r.by = b
  <2>1. more \in 0 .. 1
    BY DEF Lists
  <2> QED BY <2>1 DEF Request
<1>3. Asks(r) /\ tws_play_tone(b, bud[b], r) /\ linked' = linked
  BY <1>1 DEF PlayTws
<1> HIDE DEF r
<1> QED BY <1>2, <1>3, AskLemma, PlayLemma

LEMMA TryTimeoutLemma ==
  ASSUME IInv, NEW b \in Buds, tws_play_tone_try_timeout(b)
  PROVE  IInv' /\ Forward
<1> DEFINE o == bud[b]
<1>1. /\ BudOK(b) /\ o \in Bud
      /\ asked \in [Tones -> [by : Buds, more : 0 .. 1] \cup {NoRequest}]
  BY DEF IInv, TypeOK
<1>2. PICK r \in o.tries : tws_play_tone(b, [o EXCEPT !.tries = o.tries \ {r}], r)
  BY DEF tws_play_tone_try_timeout
<1> DEFINE s == [o EXCEPT !.tries = o.tries \ {r}]
           x == r.tone
<1>3. /\ s \in Bud /\ s.list = o.list /\ s.heard = o.heard /\ s.queue = o.queue
      /\ s.held = o.held /\ s.adding = o.adding /\ s.tries = o.tries \ {r}
      /\ s.g_player_id = o.g_player_id
  BY <1>1 DEF Bud
<1>4. tws_play_tone(b, s, r)
  BY <1>2
<1> HIDE DEF s
<1>5. r \in Request /\ x \in Tones /\ r.by = b
  BY <1>1 DEF Bud, Request, BudOK, Mine
<1>6. x \in Tried(o)
  BY DEF Tried
<1>7. x \notin Tried(s)
  BY <1>1, <1>3 DEF BudOK, Mine, Tried
<1> HIDE DEF x
<1>8. \A c \in Buds : x \notin Gone(bud[c], air[c]) /\ (c # b => x \notin Tried(bud[c]))
  BY <1>1, <1>6 DEF BudOK
<1>9. asked' = asked /\ linked' = linked /\ asked[x] # NoRequest
  BY <1>1, <1>6 DEF tws_play_tone_try_timeout, BudOK
<1>10. Ready(b, s, x)
  BY <1>1, <1>3, <1>5, <1>7, <1>8, <1>9 DEF Ready
<1> QED BY <1>4, <1>5, <1>10, PlayLemma DEF x

-----------------------------------------------------------------------------
(* The program. *)

LEMMA InitLemma ==
  ASSUME Init
  PROVE  IInv /\ Promise!Init
<1>1. IdSpan - 1 \in 0 .. IdSpan - 1
  BY ToneAssumption
<1>2. \A b \in Buds : bud[b] = [list |-> << >>, g_player_id |-> IdSpan - 1, adding |-> FALSE,
                                tries |-> {}, held |-> {}, queue |-> << >>,
                                heard |-> [t \in Tones |-> << >>]]
  BY DEF Init
<1>3. [t \in Tones |-> << >>] \in [Tones -> Seq({"START", "STOP"})]
  OBVIOUS
<1>4. TypeOK
  <2>1. ASSUME NEW b \in Buds PROVE bud[b] \in Bud
    <3> DEFINE h == [t \in Tones |-> << >>]
               n == IdSpan - 1
    <3>1. bud[b] = [list |-> << >>, g_player_id |-> n, adding |-> FALSE,
                    tries |-> {}, held |-> {}, queue |-> << >>, heard |-> h]
      BY <1>2
    <3>2. /\ h \in [Tones -> Seq({"START", "STOP"})] /\ n \in 0 .. IdSpan - 1
          /\ << >> \in Seq(Player) /\ << >> \in Seq(Messages)
      BY <1>1, <1>3
    <3> HIDE DEF h, n
    <3> QED BY <3>1, <3>2 DEF Bud
  <2>2. bud \in [Buds -> Bud]
    BY <2>1 DEF Init
  <2>3. air \in [Buds -> Seq(Request)]
    BY DEF Init
  <2>4. asked \in [Tones -> [by : Buds, more : 0 .. 1] \cup {NoRequest}]
    BY DEF Init
  <2> QED BY <2>2, <2>3, <2>4 DEF TypeOK, Init
<1>5. ASSUME NEW b \in Buds
      PROVE  /\ Tried(bud[b]) = {} /\ Gone(bud[b], air[b]) = {} /\ Told(bud[b]) = {}
             /\ Place(bud[b], air[b]) /\ Adds(b, bud[b], air[b]) /\ Mine(b, bud[b])
             /\ Sounding(bud[b].list, bud[b].queue)
  <2>1. /\ bud[b].list = << >> /\ bud[b].queue = << >> /\ bud[b].held = {} /\ bud[b].tries = {}
        /\ bud[b].adding = FALSE /\ air[b] = << >>
        /\ bud[b].heard = [t \in Tones |-> << >>]
    BY <1>2 DEF Init
  <2>2. Tried(bud[b]) = {} /\ Held(bud[b]) = {} /\ Told(bud[b]) = {} /\ In(bud[b].list) = {}
        /\ Plays(bud[b].queue) = {} /\ Flying(air[b]) = {}
    BY <2>1 DEF Tried, Held, Told, In, Plays, Flying
  <2>3. OncePlays(bud[b].queue) /\ OnceFlying(air[b])
    BY <2>1 DEF OncePlays, OnceFlying
  <2> QED BY <2>1, <2>2, <2>3 DEF Gone, Waits, Done, Place, Adds, Mine, Sounding
<1>6. IInv
  BY <1>4, <1>5 DEF IInv, BudOK
<1>7. Promise!Init
  <2>1. ASSUME NEW b \in Buds
        PROVE  /\ [i \in DOMAIN bud[b].list |-> bud[b].list[i].tone] = << >>
               /\ {t \in Tones : Over(b, t)} = {}
    BY <1>2 DEF Over
  <2> QED BY <2>1 DEF Promise!Init
<1> QED BY <1>6, <1>7

LEMMA StepLemma ==
  ASSUME IInv, [Next]_vars
  PROVE  IInv' /\ Forward
<1>1. CASE UNCHANGED vars
  <2>1. bud' = bud /\ air' = air /\ asked' = asked /\ linked' = linked
    BY <1>1 DEF vars
  <2>2. TypeOK'
    BY <2>1 DEF IInv, TypeOK
  <2>3. ASSUME NEW b \in Buds PROVE BudOK(b)'
    <3>1. BudOK(b)
      BY DEF IInv
    <3> QED BY <2>1, <3>1 DEF BudOK
  <2> QED BY <2>1, <2>2, <2>3 DEF IInv, Forward
<1>2. ASSUME NEW b \in Buds, Program(b) PROVE IInv' /\ Forward
  BY <1>2, HandleMsgLemma, AddTimeoutLemma, TryTimeoutLemma DEF Program
<1>3. ASSUME NEW b \in Buds, Stream(b) PROVE IInv' /\ Forward
  <2>1. CASE StreamStarts(b)
    BY <2>1, PlayingLemma DEF StreamStarts
  <2>2. CASE StreamEnds(b)
    BY <2>2, PlayingLemma DEF StreamEnds
  <2>3. CASE StreamFails(b)
    BY <2>3, PlayingLemma DEF StreamFails
  <2>4. CASE ReadsOn(b)
    BY <2>4, ReadsOnLemma
  <2> QED BY <1>3, <2>1, <2>2, <2>3, <2>4 DEF Stream
<1>4. ASSUME NEW b \in Buds, Deliver(b) PROVE IInv' /\ Forward
  BY <1>4, DeliverLemma
<1>5. ASSUME NEW b \in Buds, Silence(b) PROVE IInv' /\ Forward
  BY <1>5, SilenceLemma
<1>6. ASSUME NEW b \in Buds, NEW t \in Tones, PlayLocal(b, t) \/ PlayTws(b, t)
      PROVE  IInv' /\ Forward
  BY <1>6, PlayLocalLemma, PlayTwsLemma
<1>7. CASE LinkForms
  BY <1>7, LinkFormsLemma
<1>8. CASE LinkDrops
  BY <1>8, LinkDropsLemma
<1> QED BY <1>1, <1>2, <1>3, <1>4, <1>5, <1>6, <1>7, <1>8 DEF Next

\* In every reachable state a tone has one place on each bud.
THEOREM ToneInvariant == Spec => []IInv
<1>1. Init => IInv
  BY InitLemma
<1>2. IInv /\ [Next]_vars => IInv'
  BY StepLemma
<1> QED BY <1>1, <1>2, PTL DEF Spec

\* The players, the messages, the air and the requests keep their shape.
THEOREM ToneTypes == Spec => []TypeOK
<1>1. IInv => TypeOK
  BY DEF IInv
<1> QED BY <1>1, ToneInvariant, PTL

\* The list never hangs: its head sounds, or the event that ends it waits.
THEOREM ToneHeadSounds == Spec => []HeadSounds
<1>1. IInv => HeadSounds
  BY DEF IInv, BudOK, Sounding, EndWaits, HeadSounds
<1> QED BY <1>1, ToneInvariant, PTL

\* g_tws_tone_adding always stands for a tone that is still on its way.
THEOREM ToneAddingEnds == Spec => []AddingEnds
<1>1. ASSUME NEW b \in Buds PROVE Plays(bud[b].queue) # {} <=>
                                    \E i \in DOMAIN bud[b].queue : bud[b].queue[i].do = "play"
  BY DEF Plays
<1>2. IInv => AddingEnds
  BY <1>1 DEF IInv, BudOK, Adds, AddingEnds
<1> QED BY <1>2, ToneInvariant, PTL

\* The players of the two buds do what ToneQueue promises: tones queue, leave from
\* the front, and a tone that is over never comes back.
THEOREM ToneRefines == Spec => TonesQueue
<1>1. Init => Promise!Init
  BY InitLemma
<1>2. IInv /\ [Next]_vars => [Promise!Next]_(Promise!vars)
  <2> SUFFICES ASSUME IInv, [Next]_vars PROVE [Promise!Next]_(Promise!vars)
    OBVIOUS
  <2>1. Forward
    BY StepLemma
  <2>2. ASSUME NEW b \in Buds, NEW t, NEW X, Turns(b, t, X)
        PROVE  Promise!Next
    BY <2>2, LineLemma DEF Promise!Next, IInv
  <2>3. CASE bud' = bud
    BY <2>3 DEF Promise!vars, Over
  <2> QED BY <2>1, <2>2, <2>3 DEF Forward
<1> QED BY <1>1, <1>2, ToneInvariant, PTL DEF Spec, TonesQueue, Promise!Spec

-----------------------------------------------------------------------------
(* What the callback of a tone hears, as long as the next identifier is on  *)
(* no player and in no event of the bud.                                    *)

IdsFresh == \A b \in Buds : \A y \in Tags(bud[b]) : y[1] # bud[b].g_player_id

\* Tones queue, their callbacks hear STOP last, and an identifier names one tone.
Ordered == \A b \in Buds : Once(bud[b]) /\ Closed(bud[b]) /\ SameIds(bud[b])

LEMMA OrderedInit ==
  ASSUME Init
  PROVE  Ordered
<1> SUFFICES ASSUME NEW b \in Buds PROVE Once(bud[b]) /\ Closed(bud[b]) /\ SameIds(bud[b])
  BY DEF Ordered
<1>1. /\ bud[b].list = << >> /\ bud[b].queue = << >> /\ bud[b].held = {}
      /\ bud[b].heard = [t \in Tones |-> << >>]
  BY DEF Init
<1>2. Once(bud[b]) /\ Closed(bud[b])
  BY <1>1 DEF Once, Closed, In
<1>3. Tags(bud[b]) = {}
  BY <1>1 DEF Tags, ListTags, HeldTags, EventTags
<1> QED BY <1>2, <1>3 DEF SameIds

\* A step of a bud that is in order, with a fresh identifier to hand out.
LEMMA OrderedTurn ==
  ASSUME NEW s \in Bud, NEW t \in Bud, NEW X, X \subseteq Tones, X \cap Done(s) = {},
         Moves(s, t, X), Advances(s, t, X),
         Once(s), Closed(s), SameIds(s), \A y \in Tags(s) : y[1] # s.g_player_id
  PROVE  Once(t) /\ Closed(t) /\ SameIds(t) /\ Late(s, t)
<1>1. Once(t)
  BY MovesKeep
<1>2. Closed(t) /\ Late(s, t)
  BY DEF Advances, Hears
<1>3. \E x : Tags(t) \subseteq Tags(s) \cup {<<s.g_player_id, x>>}
  BY DEF Advances, Handed
<1>4. PICK x : Tags(t) \subseteq Tags(s) \cup {<<s.g_player_id, x>>}
  BY <1>3
<1>5. SameIds(t)
  BY <1>4 DEF SameIds
<1> QED BY <1>1, <1>2, <1>5

LEMMA OrderedStep ==
  ASSUME IInv, Ordered, IdsFresh, [Next]_vars
  PROVE  /\ Ordered'
         /\ \A b \in Buds : bud'[b].list = bud[b].list \/ Late(bud[b], bud'[b])
<1>1. Forward /\ bud \in [Buds -> Bud]
  BY StepLemma DEF IInv, TypeOK
<1>2. CASE bud' = bud
  BY <1>2 DEF Ordered
<1>3. ASSUME NEW b \in Buds, NEW t, NEW X, Turns(b, t, X)
      PROVE  /\ Ordered'
             /\ \A c \in Buds : bud'[c].list = bud[c].list \/ Late(bud[c], bud'[c])
  <2>1. /\ bud' = [bud EXCEPT ![b] = t] /\ t \in Bud /\ bud[b] \in Bud
        /\ X \subseteq Tones /\ X \cap Done(bud[b]) = {}
        /\ Moves(bud[b], t, X) /\ Advances(bud[b], t, X)
    BY <1>1, <1>3 DEF Turns
  <2>2. bud'[b] = t /\ \A c \in Buds : c # b => bud'[c] = bud[c]
    BY <1>1, <2>1
  <2>3. Once(t) /\ Closed(t) /\ SameIds(t) /\ Late(bud[b], t)
    BY <2>1, OrderedTurn DEF Ordered, IdsFresh
  <2>4. ASSUME NEW c \in Buds
        PROVE  Once(bud'[c]) /\ Closed(bud'[c]) /\ SameIds(bud'[c])
    BY <2>2, <2>3 DEF Ordered
  <2>5. \A c \in Buds : bud'[c].list = bud[c].list \/ Late(bud[c], bud'[c])
    BY <2>2, <2>3
  <2> QED BY <2>4, <2>5 DEF Ordered
<1> QED BY <1>1, <1>2, <1>3 DEF Forward

\* The callback of a tone hears STOP once and nothing after it, however late the
\* events of streams that are gone arrive.
THEOREM ToneStopIsLast == Spec /\ []IdsFresh => []StopIsLast
<1>1. Init => Ordered
  BY OrderedInit
<1>2. IInv /\ Ordered /\ IdsFresh /\ [Next]_vars => Ordered'
  BY OrderedStep
<1>3. Ordered => StopIsLast
  BY DEF Ordered, Closed, StopIsLast
<1> QED BY <1>1, <1>2, <1>3, ToneInvariant, PTL DEF Spec

\* An event that waited in app_core while its stream was stopped never ends the
\* tone that sounds now.
THEOREM ToneLateEvents == Spec /\ []IdsFresh => LateEventsHarmless
<1> DEFINE Harmless ==
      \A b \in Buds :
        LET q == bud[b].queue IN
        q # << >> /\ bud'[b].queue = Tail(q) /\ Head(q).do # "play"
          => \/ bud'[b].list = bud[b].list
             \/ Head(q).tone = Head(bud[b].list).tone
<1>1. Init => Ordered
  BY OrderedInit
<1>2. IInv /\ Ordered /\ IdsFresh /\ [Next]_vars => Ordered'
  BY OrderedStep
<1>3. IInv /\ Ordered /\ IdsFresh /\ [Next]_vars => [Harmless]_vars
  BY OrderedStep DEF Late
<1> QED BY <1>1, <1>2, <1>3, ToneInvariant, PTL DEF Spec, LateEventsHarmless

-----------------------------------------------------------------------------
(* With fewer tones than identifiers the next identifier is always fresh.   *)

\* A bud has created n players at most as many as the tones it keeps: the first has
\* the identifier IdSpan - 1, the others 0, 1, ...
Counted(s) ==
  \E n \in 0 .. Cardinality(Kept(s)) :
    /\ s.g_player_id = IF n = 0 THEN IdSpan - 1 ELSE n - 1
    /\ \A y \in Tags(s) : n > 0 /\ (y[1] = IdSpan - 1 \/ y[1] \in 0 .. n - 2)

LEMMA KeptFinite ==
  ASSUME IsFiniteSet(Tones), NEW s \in Bud
  PROVE  /\ IsFiniteSet(Kept(s)) /\ Kept(s) \subseteq Tones
         /\ Cardinality(Kept(s)) \in Nat /\ Cardinality(Kept(s)) <= Cardinality(Tones)
         /\ Cardinality(Tones) \in Nat
<1>1. << >> \in Seq(Request)
  OBVIOUS
<1>2. Kept(s) \subseteq Tones
  BY <1>1, TonesTyped DEF Kept, Gone, Waits
<1> QED BY <1>2, FS_Subset, FS_CardinalityType

LEMMA CountedTurn ==
  ASSUME IsFiniteSet(Tones), Cardinality(Tones) < IdSpan,
         NEW s \in Bud, NEW t \in Bud, Counted(s), Handed(s, t)
  PROVE  Counted(t)
<1> DEFINE k == Cardinality(Kept(s))
           l == Cardinality(Kept(t))
<1>1. /\ k \in Nat /\ l \in Nat /\ l < IdSpan /\ k <= l
      /\ Kept(t) # Kept(s) => k < l
      /\ IdSpan \in Nat /\ IdSpan > 0
  <2>1. /\ IsFiniteSet(Kept(s)) /\ IsFiniteSet(Kept(t)) /\ Kept(s) \subseteq Kept(t)
        /\ k \in Nat /\ l \in Nat /\ l <= Cardinality(Tones) /\ Cardinality(Tones) \in Nat
    BY KeptFinite DEF Handed
  <2>2. k <= l /\ (Kept(t) # Kept(s) => k < l)
    BY <2>1, FS_Subset
  <2>3. IdSpan \in Nat /\ IdSpan > 0
    BY ToneAssumption
  <2> HIDE DEF k, l
  <2> QED BY <2>1, <2>2, <2>3
<1>2. PICK n \in 0 .. k :
        /\ s.g_player_id = IF n = 0 THEN IdSpan - 1 ELSE n - 1
        /\ \A y \in Tags(s) : n > 0 /\ (y[1] = IdSpan - 1 \/ y[1] \in 0 .. n - 2)
  BY DEF Counted
<1> HIDE DEF k, l
<1>3. CASE t.g_player_id = s.g_player_id /\ Tags(t) \subseteq Tags(s)
  <2>1. n \in 0 .. l
    BY <1>1
  <2> QED BY <1>2, <1>3, <2>1 DEF Counted, l
<1>4. ASSUME NEW x \in Kept(t) \ Kept(s), t.g_player_id = (s.g_player_id + 1) % IdSpan,
             Tags(t) \subseteq Tags(s) \cup {<<s.g_player_id, x>>}
      PROVE  Counted(t)
  <2> DEFINE m == n + 1
  <2>1. k < l
    BY <1>1, <1>4
  <2>2. m \in 0 .. l /\ m > 0 /\ n < IdSpan
    BY <1>1, <2>1
  <2>3. t.g_player_id = m - 1
    <3>1. CASE n = 0
      BY <1>1, <1>2, <1>4, <3>1
    <3>2. CASE n # 0
      <4>1. s.g_player_id + 1 = n
        BY <1>1, <1>2, <3>2
      <4>2. n % IdSpan = n
        BY <1>1, <2>2
      <4> QED BY <1>4, <4>1, <4>2
    <3> QED BY <3>1, <3>2
  <2>4. ASSUME NEW y \in Tags(t)
        PROVE  y[1] = IdSpan - 1 \/ y[1] \in 0 .. m - 2
    <3>1. CASE y \in Tags(s)
      <4>1. \A i \in 0 .. n - 2 : i \in 0 .. m - 2
        BY <1>1
      <4> QED BY <1>2, <3>1, <4>1
    <3>2. CASE y = <<s.g_player_id, x>>
      <4>1. n # 0 => n - 1 \in 0 .. m - 2
        BY <1>1
      <4> QED BY <1>2, <3>2, <4>1
    <3> QED BY <1>4, <3>1, <3>2
  <2> HIDE DEF m
  <2>5. t.g_player_id = IF m = 0 THEN IdSpan - 1 ELSE m - 1
    BY <2>2, <2>3
  <2> QED BY <2>2, <2>4, <2>5 DEF Counted, l
<1> QED BY <1>3, <1>4 DEF Handed

LEMMA CountedFresh ==
  ASSUME IsFiniteSet(Tones), Cardinality(Tones) < IdSpan, NEW s \in Bud, Counted(s),
         NEW y \in Tags(s)
  PROVE  y[1] # s.g_player_id
<1> DEFINE k == Cardinality(Kept(s))
<1>1. k \in Nat /\ k < IdSpan /\ IdSpan \in Nat
  BY KeptFinite, ToneAssumption
<1>2. PICK n \in 0 .. k :
        /\ s.g_player_id = IF n = 0 THEN IdSpan - 1 ELSE n - 1
        /\ n > 0 /\ (y[1] = IdSpan - 1 \/ y[1] \in 0 .. n - 2)
  BY DEF Counted
<1> HIDE DEF k
<1> QED BY <1>1, <1>2

\* As long as fewer tones are asked for than there are identifiers, none is handed out
\* while a player or an event of the bud still has it.
THEOREM ToneIdsFresh ==
  ASSUME IsFiniteSet(Tones), Cardinality(Tones) < IdSpan
  PROVE  Spec => []IdsFresh
<1> DEFINE Inv == \A b \in Buds : Counted(bud[b])
<1>1. Init => Inv
  <2> SUFFICES ASSUME Init, NEW b \in Buds PROVE Counted(bud[b])
    OBVIOUS
  <2>1. /\ bud[b].list = << >> /\ bud[b].queue = << >> /\ bud[b].held = {}
        /\ bud[b].heard = [t \in Tones |-> << >>] /\ bud[b].g_player_id = IdSpan - 1
    BY DEF Init
  <2>2. Tags(bud[b]) = {} /\ Kept(bud[b]) = {}
    BY <2>1 DEF Tags, ListTags, HeldTags, EventTags, Kept, Done, Held, In, Told
  <2>3. 0 \in 0 .. Cardinality(Kept(bud[b]))
    BY <2>2, FS_EmptySet
  <2> QED BY <2>1, <2>2, <2>3 DEF Counted
<1>2. IInv /\ Inv /\ [Next]_vars => Inv'
  <2> SUFFICES ASSUME IInv, Inv, [Next]_vars, NEW c \in Buds PROVE Counted(bud'[c])
    BY DEF Counted, Kept, Done, Held, In, Told, Tags, ListTags, HeldTags, EventTags
  <2>1. Forward /\ bud \in [Buds -> Bud]
    BY StepLemma DEF IInv, TypeOK
  <2>2. CASE bud' = bud
    BY <2>2
  <2>3. ASSUME NEW b \in Buds, NEW t, NEW X, Turns(b, t, X)
        PROVE  Counted(bud'[c])
    <3>1. bud'[b] = t /\ \A d \in Buds : d # b => bud'[d] = bud[d]
      BY <2>1, <2>3 DEF Turns
    <3>2. t \in Bud /\ Handed(bud[b], t)
      BY <2>3 DEF Turns, Advances
    <3> QED BY <2>1, <3>1, <3>2, CountedTurn
  <2> QED BY <2>1, <2>2, <2>3 DEF Forward
<1>3. IInv /\ Inv => IdsFresh
  BY CountedFresh DEF IdsFresh, IInv, TypeOK
<1> QED BY <1>1, <1>2, <1>3, ToneInvariant, PTL DEF Spec
=============================================================================
