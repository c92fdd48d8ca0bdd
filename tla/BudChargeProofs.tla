-------------------------- MODULE BudChargeProofs --------------------------
(***************************************************************************)
(* A bud and its case for any filters, any count of low readings and any   *)
(* bound on the queue.  What the last event of the line says is what the   *)
(* driver believes; the invariant IInv follows that event through the      *)
(* queue of app_core, past power-offs and mode switches, to the charger,   *)
(* the long-press reset and the mode.                                      *)
(*                                                                         *)
(* Two of the rarer events break what IInv says of the charger and the     *)
(* mode, as the parts that name them state: a late message, and a line     *)
(* that moves while the bud starts.                                        *)
(***************************************************************************)
EXTENDS BudCharge, TLAPS, SequenceTheorems

NoLate == "late" \notin Happenings
NoBoot == "boot" \notin Happenings

Has(q, m) == \E i \in DOMAIN q : q[i] = m
HasLine(q) == \E i \in DOMAIN q : q[i] \in LineEvents

\* The last event of the line that waits in q tells of level l.
LastLine(q, l) ==
  l \in Lines /\ \E i \in DOMAIN q : /\ q[i] = Event(l)
                                     /\ \A j \in DOMAIN q : j > i => q[j] \notin LineEvents

NoneAfter(q, a, b) == \A i, j \in DOMAIN q : i < j /\ q[i] = a => q[j] # b

\* Idle mode with the flag set: the power-off is at its last stage.
Ending(t) == t.mode = "idle" /\ t.flag

-----------------------------------------------------------------------------
(* The inductive invariant, for program state t and long-press level p.    *)

\* What waits is what was last accepted; all handled, the level and the charger follow.
Follows(t, p) ==
  /\ t.charge_event_flag
  /\ HasLine(t.queue) => LastLine(t.queue, t.charge_flag)
  /\ ~HasLine(t.queue) /\ ~Ending(t) => /\ p <=> t.charge_flag \in {"off", "none"}
                                        /\ t.charging => t.charge_flag = "in"

\* A power-off is carried from stage to stage, and only the charger's removal clears it.
Carried(t) ==
  /\ Ending(t) => /\ t.tone = "power_off" \/ Has(t.queue, "SOFT_POWEROFF")
                  /\ ~Has(t.queue, "GOTO_BT")
  /\ t.flag /\ t.mode # "idle" => t.detach # << >> \/ Has(t.queue, "GOTO_IDLE")
  /\ Has(t.queue, "GOTO_IDLE") \/ t.detach # << >> => t.flag \/ t.pulled
  /\ t.mode = "poweron" => t.tone = "power_on" \/ Has(t.queue, "GOTO_BT")

\* Out of its case the battery is watched; nothing told in the case is handled after it.
Watched(t) ==
  /\ NoneAfter(t.queue, "OFF", "FULL") /\ NoneAfter(t.queue, "OFF", "IN")
  /\ ~HasLine(t.queue) /\ t.charge_flag \in {"off", "none"} /\ ~t.flag =>
       t.slow /\ ~Has(t.queue, "FULL")

IdleCharge(t) ==
  ~t.pulled => /\ t.charging => t.mode = "idle"
               /\ t.mode = "idle" /\ Has(t.queue, "GOTO_BT") =>
                    ~t.charging /\ NoneAfter(t.queue, "IN", "GOTO_BT")

Placed(t) ==
  ~HasLine(t.queue) /\ ~t.flag /\ ~t.pulled =>
    /\ t.charge_flag = "off" => t.mode \in {"bt", "poweron"} \/ Has(t.queue, "GOTO_BT")
    /\ t.charge_flag = "in" => /\ t.mode = "idle" /\ ~Has(t.queue, "GOTO_BT")
                               /\ t.charging \/ t.charge_full_flag
    /\ t.charge_flag # "keep"

OnInv(t, p) ==
  /\ Follows(t, p) /\ Carried(t)
  /\ NoLate => Watched(t) /\ IdleCharge(t)
  /\ NoLate /\ NoBoot => Placed(t)

\* The driver is counting, an edge comes, or what it knows is what is.
Seen(t, l, e) ==
  t.power # "off" /\ ~e /\ ~t.ldo5v_timer =>
    t.charge_flag = l /\ t.charge_online_flag = (l # "off")

\* What a reset and start-up leave; off, the charger is off too.
Fresh(t, p, l, e) ==
  /\ t.power = "off" => ~t.charging
  /\ t.power = "booting" =>
       /\ p /\ t.queue = << >> /\ t.tone = "none" /\ t.detach = << >>
       /\ ~t.flag /\ ~t.charging /\ ~t.pulled /\ ~t.charge_event_flag
       /\ t.charge_flag \in {"none", "off"}
       /\ NoBoot => /\ ~e /\ t.charge_online_flag = (l # "off")
                    /\ t.charge_flag = "off" <=> l = "off"

IInv ==
  /\ TypeOK
  /\ Seen(s, line, edge) /\ Fresh(s, pinr, line, edge)
  /\ s.power = "on" => OnInv(s, pinr)

-----------------------------------------------------------------------------
(* Queues. *)

LEMMA SeqFacts ==
  ASSUME NEW S, NEW q \in Seq(S)
  PROVE  /\ Len(q) \in Nat /\ DOMAIN q = 1 .. Len(q)
         /\ \A i \in 1 .. Len(q) : q[i] \in S
         /\ q = << >> <=> Len(q) = 0
<1>1. Len(q) \in Nat /\ DOMAIN q = 1 .. Len(q) /\ q \in [1 .. Len(q) -> S]
  BY LenProperties
<1>2. q = << >> <=> Len(q) = 0
  BY EmptySeq
<1> QED BY <1>1, <1>2

LEMMA EmptyQueue ==
  /\ ~HasLine(<< >>) /\ << >> \in Seq(Messages)
  /\ \A m : ~Has(<< >>, m)
  /\ \A a, b : NoneAfter(<< >>, a, b)
BY DEF HasLine, Has, NoneAfter

LEMMA AppendQueue ==
  ASSUME NEW q \in Seq(Messages), NEW m \in Messages
  PROVE  LET u == Append(q, m) IN
         /\ u \in Seq(Messages) /\ u # << >>
         /\ \A x : Has(u, x) <=> Has(q, x) \/ x = m
         /\ HasLine(u) <=> HasLine(q) \/ m \in LineEvents
         /\ \A l : LastLine(q, l) /\ m \notin LineEvents => LastLine(u, l)
         /\ \A l \in Lines : m = Event(l) => LastLine(u, l)
         /\ \A a, b : NoneAfter(q, a, b) /\ (b = m => ~Has(q, a)) => NoneAfter(u, a, b)
<1> DEFINE u == Append(q, m)
           n == Len(q) + 1
<1>1. /\ Len(q) \in Nat /\ DOMAIN q = 1 .. Len(q) /\ \A i \in 1 .. Len(q) : q[i] \in Messages
      /\ u \in Seq(Messages) /\ Len(u) = n /\ u[n] = m /\ \A i \in 1 .. Len(q) : u[i] = q[i]
  BY SeqFacts, AppendProperties
<1> HIDE DEF u
<1>2. DOMAIN u = 1 .. n /\ u # << >>
  BY <1>1, SeqFacts
<1>3. /\ n \in DOMAIN u
      /\ \A i \in DOMAIN q : i \in DOMAIN u /\ u[i] = q[i] /\ i < n /\ i \in Nat
      /\ \A i \in DOMAIN u : (i \in DOMAIN q \/ i = n) /\ i \in Nat /\ ~(i > n)
  <2>1. /\ n \in 1 .. n
        /\ \A i \in 1 .. Len(q) : i \in 1 .. n /\ i < n /\ i \in Nat
        /\ \A i \in 1 .. n : (i \in 1 .. Len(q) \/ i = n) /\ i \in Nat /\ ~(i > n)
    BY <1>1
  <2> QED BY <1>1, <1>2, <2>1
<1>4. n \in Nat /\ \A i, j \in Nat : ~(i < j /\ i > j) /\ ~(i < i) /\ (i < j <=> j > i)
  BY <1>1
<1> HIDE DEF n
<1>5. \A x : Has(u, x) <=> Has(q, x) \/ x = m
  BY <1>1, <1>3 DEF Has
<1>6. HasLine(u) <=> HasLine(q) \/ m \in LineEvents
  BY <1>1, <1>3 DEF HasLine
<1>7. ASSUME NEW l, LastLine(q, l), m \notin LineEvents PROVE LastLine(u, l)
  BY <1>1, <1>3, <1>7 DEF LastLine
<1>8. ASSUME NEW l \in Lines, m = Event(l) PROVE LastLine(u, l)
  BY <1>1, <1>3, <1>8 DEF LastLine
<1>9. ASSUME NEW a, NEW b, NoneAfter(q, a, b), b = m => ~Has(q, a) PROVE NoneAfter(u, a, b)
  <2> SUFFICES ASSUME NEW i \in DOMAIN u, NEW j \in DOMAIN u, i < j, u[i] = a PROVE u[j] # b
    BY DEF NoneAfter
  <2>1. i \in DOMAIN q
    BY <1>3, <1>4
  <2>2. CASE j \in DOMAIN q
    BY <1>3, <1>9, <2>1, <2>2 DEF NoneAfter
  <2>3. CASE j = n
    BY <1>1, <1>3, <1>9, <2>1, <2>3 DEF Has
  <2> QED BY <1>3, <2>2, <2>3
<1> QED BY <1>1, <1>2, <1>5, <1>6, <1>7, <1>8, <1>9 DEF u

LEMMA TailQueue ==
  ASSUME NEW q \in Seq(Messages), q # << >>
  PROVE  LET u == Tail(q)
             h == Head(q)
         IN
         /\ u \in Seq(Messages) /\ h \in Messages
         /\ \A x : Has(q, x) <=> Has(u, x) \/ x = h
         /\ HasLine(q) <=> HasLine(u) \/ h \in LineEvents
         /\ \A l : LastLine(q, l) /\ HasLine(u) => LastLine(u, l)
         /\ \A l : LastLine(q, l) /\ ~HasLine(u) => h = Event(l) /\ l \in Lines
         /\ \A a, b : NoneAfter(q, a, b) => NoneAfter(u, a, b) /\ (h = a => ~Has(u, b))
<1> DEFINE u == Tail(q)
           h == Head(q)
           n == Len(q)
<1>1. /\ n \in Nat /\ n > 0 /\ DOMAIN q = 1 .. n /\ \A i \in 1 .. n : q[i] \in Messages
      /\ h = q[1] /\ u \in Seq(Messages) /\ Len(u) = n - 1
      /\ \A i \in 1 .. n - 1 : u[i] = q[i + 1]
  BY SeqFacts, HeadTailProperties
<1> HIDE DEF u, h
<1>2. DOMAIN u = 1 .. n - 1
  BY <1>1, SeqFacts
<1>3. /\ 1 \in DOMAIN q
      /\ \A i \in DOMAIN u : i + 1 \in DOMAIN q /\ u[i] = q[i + 1] /\ 1 < i + 1 /\ i + 1 # 1
      /\ \A i, j \in DOMAIN u : (i < j <=> i + 1 < j + 1) /\ (j > i <=> j + 1 > i + 1)
      /\ \A i \in DOMAIN q : i = 1 \/ (i - 1 \in DOMAIN u /\ q[i] = u[i - 1] /\ i > 1)
      /\ \A i, j \in DOMAIN q : j > i => j - 1 > i - 1
  <2>1. /\ 1 \in 1 .. n
        /\ \A i \in 1 .. n - 1 : i + 1 \in 1 .. n /\ 1 < i + 1 /\ i + 1 # 1
        /\ \A i, j \in 1 .. n - 1 : (i < j <=> i + 1 < j + 1) /\ (j > i <=> j + 1 > i + 1)
        /\ \A i \in 1 .. n : i = 1 \/ (i - 1 \in 1 .. n - 1 /\ i - 1 + 1 = i /\ i > 1)
        /\ \A i, j \in 1 .. n : j > i => j - 1 > i - 1
    BY <1>1
  <2> QED BY <1>1, <1>2, <2>1
<1> HIDE DEF n
<1>4. \A x : Has(q, x) <=> Has(u, x) \/ x = h
  BY <1>1, <1>3 DEF Has
<1>5. HasLine(q) <=> HasLine(u) \/ h \in LineEvents
  BY <1>1, <1>3 DEF HasLine
<1>6. ASSUME NEW l, LastLine(q, l)
      PROVE  /\ HasLine(u) => LastLine(u, l)
             /\ ~HasLine(u) => h = Event(l) /\ l \in Lines
  <2>1. PICK i \in DOMAIN q : /\ q[i] = Event(l)
                              /\ \A j \in DOMAIN q : j > i => q[j] \notin LineEvents
    BY <1>6 DEF LastLine
  <2>2. l \in Lines /\ Event(l) \in LineEvents
    BY <1>6 DEF LastLine, Lines, Event, LineEvents
  <2>3. CASE i = 1
    <3>1. \A j \in DOMAIN u : u[j] \notin LineEvents
      BY <1>3, <2>1, <2>3
    <3> QED BY <1>1, <2>1, <2>2, <2>3, <3>1 DEF HasLine
  <2>4. CASE i # 1
    <3>1. i - 1 \in DOMAIN u /\ u[i - 1] = Event(l)
      BY <1>3, <2>1, <2>4
    <3>2. ASSUME NEW j \in DOMAIN u, j > i - 1 PROVE u[j] \notin LineEvents
      <4>1. j + 1 > i
        BY <1>1, <1>2, <3>2
      <4> QED BY <1>3, <2>1, <4>1
    <3> QED BY <2>2, <3>1, <3>2 DEF HasLine, LastLine
  <2> QED BY <2>3, <2>4
<1>7. ASSUME NEW a, NEW b, NoneAfter(q, a, b) PROVE NoneAfter(u, a, b) /\ (h = a => ~Has(u, b))
  BY <1>1, <1>3, <1>7 DEF NoneAfter, Has
<1> QED BY <1>1, <1>3, <1>4, <1>5, <1>6, <1>7 DEF u, h

-----------------------------------------------------------------------------
(* Resets and steps of a bud that is on. *)

LEMMA BlankLemma ==
  /\ Blank \in Program
  /\ Blank.queue = << >> /\ Blank.tone = "none" /\ Blank.detach = << >> /\ Blank.mode = "poweron"
  /\ ~Blank.flag /\ ~Blank.charging /\ ~Blank.pulled /\ ~Blank.charge_event_flag
<1> DEFINE c == [l \in Lines |-> 0]
<1>1. c \in [Lines -> Nat] /\ << >> \in Seq(Messages) /\ << >> \in Seq([cb : Waits, why : Reasons])
  OBVIOUS
<1>2. Blank = [power |-> "off", why |-> "soft", mode |-> "poweron", flag |-> FALSE,
               detach |-> << >>, handle |-> FALSE, retried |-> FALSE, tone |-> "none",
               charge_event_flag |-> FALSE, charge_online_flag |-> FALSE, charge_flag |-> "none",
               ldo5v_timer |-> FALSE, cnt |-> c, charging |-> FALSE, chgfl |-> FALSE,
               charge_timer |-> FALSE, cc_timer |-> FALSE, charge_full_flag |-> FALSE,
               slow |-> FALSE, fast |-> FALSE, low_power_cnt |-> 0, lowpower |-> FALSE,
               low |-> FALSE, pulled |-> FALSE, lost |-> FALSE, queue |-> << >>]
  BY DEF Blank
<1> HIDE DEF c
<1> QED BY <1>1, <1>2 DEF Program

\* A reset: the driver counts if there is a supply.
LEMMA BootLemma ==
  ASSUME TypeOK, NEW why \in {"soft", "line", "key", "pinr"}, Boot(why)
  PROVE  IInv'
<1> DEFINE on == get_ldo5v_online_hw
           f == IF on THEN "none" ELSE "off"
           t == [Blank EXCEPT !.power = "booting", !.why = why, !.charge_online_flag = on,
                              !.ldo5v_timer = on, !.charge_flag = f]
<1>1. s' = t /\ pinr' = TRUE /\ edge' = FALSE /\ line' = line /\ cell' = cell
  BY DEF Boot
<1>2. on \in BOOLEAN /\ (on <=> line # "off") /\ line \in Lines
  BY DEF get_ldo5v_online_hw, TypeOK
<1>3. f \in Lines \cup {"none"} /\ f \in {"none", "off"} /\ (f = "off" <=> line = "off")
  BY <1>2 DEF Lines
<1> HIDE DEF on, f
<1>4. /\ t \in Program /\ t.power = "booting" /\ t.charge_online_flag = on
      /\ t.ldo5v_timer = on /\ t.charge_flag = f
      /\ t.queue = << >> /\ t.tone = "none" /\ t.detach = << >>
      /\ ~t.flag /\ ~t.charging /\ ~t.pulled /\ ~t.charge_event_flag
  BY <1>2, <1>3, BlankLemma, ZenonT(60) DEF Program
<1> HIDE DEF t
<1>5. TypeOK'
  BY <1>1, <1>4 DEF TypeOK
<1>6. Seen(t, line, FALSE) /\ Fresh(t, TRUE, line, FALSE)
  BY <1>2, <1>3, <1>4 DEF Seen, Fresh
<1> QED BY <1>1, <1>4, <1>5, <1>6 DEF IInv

LEMMA OffLemma ==
  ASSUME TypeOK, NEW level \in BOOLEAN, power_set_soft_poweroff(level)
  PROVE  IInv'
<1> DEFINE t == [Blank EXCEPT !.lost = s.lost]
<1>1. s' = t /\ pinr' = level /\ edge' = edge /\ line' = line /\ cell' = cell
  BY DEF power_set_soft_poweroff
<1>2. s.lost \in BOOLEAN /\ Blank.power = "off" /\ Blank.charging = FALSE
  BY DEF TypeOK, Program, Blank
<1>3. t \in Program /\ t.power = "off" /\ ~t.charging
  BY <1>2, BlankLemma DEF Program
<1> HIDE DEF t
<1>4. TypeOK'
  BY <1>1, <1>3 DEF TypeOK
<1> QED BY <1>1, <1>3, <1>4 DEF IInv, Seen, Fresh

\* A bud that is on takes a step that leaves the filter of the line alone.
LEMMA OnStep ==
  ASSUME IInv, s.power = "on", NEW t \in Program, NEW p \in BOOLEAN, s' = t, pinr' = p,
         line' = line, edge' = edge, cell' = cell, t.power = "on",
         t.ldo5v_timer = s.ldo5v_timer, t.charge_flag = s.charge_flag,
         t.charge_online_flag = s.charge_online_flag, OnInv(t, p)
  PROVE  IInv'
<1>1. TypeOK'
  BY DEF IInv, TypeOK
<1>2. Seen(t, line, edge) /\ Fresh(t, p, line, edge)
  BY DEF IInv, Seen, Fresh
<1> QED BY <1>1, <1>2 DEF IInv

\* What the invariant looks at.
Alike(t, u) ==
  /\ u.power = t.power /\ u.mode = t.mode /\ u.flag = t.flag /\ u.detach = t.detach
  /\ u.tone = t.tone /\ u.charge_event_flag = t.charge_event_flag
  /\ u.charge_flag = t.charge_flag /\ u.charging = t.charging
  /\ u.charge_full_flag = t.charge_full_flag /\ u.slow = t.slow
  /\ u.pulled = t.pulled /\ u.queue = t.queue

LEMMA AlikeLemma ==
  ASSUME NEW t, NEW u, NEW p, OnInv(t, p), Alike(t, u)
  PROVE  OnInv(u, p)
<1>1. Follows(u, p)
  BY DEF OnInv, Alike, Follows, Ending
<1>2. Carried(u)
  BY DEF OnInv, Alike, Carried, Ending
<1>3. NoLate => Watched(u) /\ IdleCharge(u)
  BY DEF OnInv, Alike, Watched, IdleCharge
<1>4. NoLate /\ NoBoot => Placed(u)
  BY DEF OnInv, Alike, Placed
<1> QED BY <1>1, <1>2, <1>3, <1>4 DEF OnInv

\* A message that tells nothing of the line, and that the invariant lets wait.
LEMMA PostLemma ==
  ASSUME NEW t \in Program, NEW p, OnInv(t, p), NEW m \in Messages, m \notin LineEvents,
         NEW u \in Program, u.queue = Append(t.queue, m),
         u.mode = t.mode /\ u.flag = t.flag /\ u.detach = t.detach /\ u.tone = t.tone
         /\ u.charge_event_flag = t.charge_event_flag /\ u.charge_flag = t.charge_flag
         /\ u.charging = t.charging /\ u.charge_full_flag = t.charge_full_flag
         /\ u.slow = t.slow /\ u.pulled = t.pulled,
         m = "GOTO_BT" => t.mode = "poweron",
         m = "GOTO_IDLE" => t.flag \/ t.pulled,
         m = "FULL" => t.charging /\ (NoLate => ~Has(t.queue, "OFF"))
  PROVE  OnInv(u, p)
<1> DEFINE q == t.queue
           r == u.queue
<1>1. q \in Seq(Messages)
  BY DEF Program
<1>2. /\ \A x : Has(r, x) <=> Has(q, x) \/ x = m
      /\ HasLine(r) <=> HasLine(q)
      /\ \A l : LastLine(q, l) => LastLine(r, l)
      /\ \A a, b : NoneAfter(q, a, b) /\ (b = m => ~Has(q, a)) => NoneAfter(r, a, b)
  BY <1>1, AppendQueue
<1> HIDE DEF q, r
<1>3. Follows(u, p)
  BY <1>2 DEF OnInv, Follows, Ending, q, r
<1>4. Carried(u)
  BY <1>2 DEF OnInv, Carried, Ending, q, r
<1>5. NoLate => Watched(u)
  <2> SUFFICES ASSUME NoLate PROVE Watched(u)
    OBVIOUS
  <2>1. Watched(t) /\ Follows(t, p)
    BY DEF OnInv
  <2>2. NoneAfter(r, "OFF", "FULL") /\ NoneAfter(r, "OFF", "IN")
    BY <1>2, <2>1 DEF Watched, LineEvents, q
  <2>3. ~HasLine(r) /\ t.charge_flag \in {"off", "none"} /\ ~t.flag => ~Has(r, "FULL")
    BY <1>2, <2>1 DEF Watched, Follows, Ending, q
  <2> QED BY <1>2, <2>1, <2>2, <2>3 DEF Watched, q, r
<1>6. NoLate => IdleCharge(u)
  BY <1>2 DEF OnInv, IdleCharge, LineEvents, q, r
<1>7. NoLate /\ NoBoot => Placed(u)
  BY <1>2 DEF OnInv, Placed, q, r
<1> QED BY <1>3, <1>4, <1>5, <1>6, <1>7 DEF OnInv

-----------------------------------------------------------------------------
(* Messages of app_core. *)

\* What is left when m has been taken from the queue.
LEMMA TookLemma ==
  ASSUME TypeOK, NEW m, Took(m)
  PROVE  /\ s.power = "on" /\ m \in Messages /\ s \in Program
         /\ Rest \in Program
         /\ Rest.queue = Tail(s.queue) /\ Rest.power = s.power /\ Rest.mode = s.mode
         /\ Rest.flag = s.flag /\ Rest.detach = s.detach /\ Rest.tone = s.tone
         /\ Rest.charge_event_flag = s.charge_event_flag
         /\ Rest.charge_online_flag = s.charge_online_flag /\ Rest.charge_flag = s.charge_flag
         /\ Rest.ldo5v_timer = s.ldo5v_timer /\ Rest.charging = s.charging
         /\ Rest.charge_full_flag = s.charge_full_flag /\ Rest.slow = s.slow
         /\ Rest.pulled = s.pulled
         /\ \A x : Has(s.queue, x) <=> Has(Tail(s.queue), x) \/ x = m
         /\ HasLine(s.queue) <=> HasLine(Tail(s.queue)) \/ m \in LineEvents
         /\ \A l : LastLine(s.queue, l) /\ HasLine(Tail(s.queue)) => LastLine(Tail(s.queue), l)
         /\ \A l : LastLine(s.queue, l) /\ ~HasLine(Tail(s.queue)) => m = Event(l) /\ l \in Lines
         /\ \A a, b : NoneAfter(s.queue, a, b) => /\ NoneAfter(Tail(s.queue), a, b)
                                                  /\ m = a => ~Has(Tail(s.queue), b)
         /\ Tail(s.queue) \in Seq(Messages)
<1>1. s \in Program /\ s.queue \in Seq(Messages) /\ s.queue # << >> /\ Head(s.queue) = m /\ s.power = "on"
  BY DEF TypeOK, Program, Took
<1> DEFINE u == Tail(s.queue)
<1>2. /\ u \in Seq(Messages) /\ m \in Messages
      /\ \A x : Has(s.queue, x) <=> Has(u, x) \/ x = m
      /\ HasLine(s.queue) <=> HasLine(u) \/ m \in LineEvents
      /\ \A l : LastLine(s.queue, l) /\ HasLine(u) => LastLine(u, l)
      /\ \A l : LastLine(s.queue, l) /\ ~HasLine(u) => m = Event(l) /\ l \in Lines
      /\ \A a, b : NoneAfter(s.queue, a, b) => NoneAfter(u, a, b) /\ (m = a => ~Has(u, b))
  BY <1>1, TailQueue
<1> HIDE DEF u
<1>3. Rest = [s EXCEPT !.queue = u]
  BY DEF Rest, u
<1> DEFINE r == [s EXCEPT !.queue = u]
<1>4. /\ r \in Program
      /\ r.queue = u /\ r.power = s.power /\ r.mode = s.mode
      /\ r.flag = s.flag /\ r.detach = s.detach /\ r.tone = s.tone
      /\ r.charge_event_flag = s.charge_event_flag
      /\ r.charge_online_flag = s.charge_online_flag /\ r.charge_flag = s.charge_flag
      /\ r.ldo5v_timer = s.ldo5v_timer /\ r.charging = s.charging
      /\ r.charge_full_flag = s.charge_full_flag /\ r.slow = s.slow
      /\ r.pulled = s.pulled
  BY <1>1, <1>2 DEF Program
<1> HIDE DEF r
<1>5. Rest = r
  BY <1>3 DEF r
<1> QED BY <1>1, <1>2, <1>4, <1>5 DEF u

\* Which level a message of the line tells of.
LEMMA EventLemma ==
  ASSUME NEW l \in Lines
  PROVE  /\ Event(l) = "IN" <=> l = "in"
         /\ Event(l) = "KEEP" <=> l = "keep"
         /\ Event(l) = "OFF" <=> l = "off"
         /\ Event(l) \in Messages /\ Event(l) \in LineEvents
BY DEF Event, Lines, Messages, LineEvents

\* What the driver knows of the line; what the bud is doing.
SameView(t, u) ==
  /\ u.power = t.power /\ u.charge_event_flag = t.charge_event_flag
  /\ u.charge_online_flag = t.charge_online_flag /\ u.charge_flag = t.charge_flag
  /\ u.ldo5v_timer = t.ldo5v_timer

SameRun(t, u) ==
  /\ u.mode = t.mode /\ u.tone = t.tone /\ u.pulled = t.pulled /\ u.queue = t.queue
  /\ u.flag = t.flag /\ u.detach = t.detach

\* As SameRun, but for the message taken.
RestRun ==
  /\ Rest.mode = s.mode /\ Rest.tone = s.tone /\ Rest.pulled = s.pulled
  /\ Rest.queue = Tail(s.queue) /\ Rest.flag = s.flag /\ Rest.detach = s.detach

LEMMA StartLemma ==
  ASSUME NEW t \in Program, TypeOK
  PROVE  LET u == charge_start(t) IN
         /\ u \in Program /\ SameView(t, u) /\ SameRun(t, u) /\ u.charging
         /\ u.charge_full_flag = t.charge_full_flag /\ u.slow = t.slow
<1> DEFINE full == cell = "full" /\ line = "in"
           wakes == t.chgfl \/ cell # "low"
           cc == t.cc_timer \/ cell = "low"
<1>1. full \in BOOLEAN /\ wakes \in BOOLEAN /\ cc \in BOOLEAN
  BY DEF Program
<1>2. charge_start(t) = [t EXCEPT !.charging = TRUE, !.charge_timer = full, !.chgfl = wakes,
                                  !.cc_timer = cc]
  BY DEF charge_start
<1> HIDE DEF full, wakes, cc
<1> DEFINE u == [t EXCEPT !.charging = TRUE, !.charge_timer = full, !.chgfl = wakes,
                          !.cc_timer = cc]
<1>3. u \in Program
  BY <1>1 DEF Program
<1>4. /\ SameView(t, u) /\ SameRun(t, u) /\ u.charging
      /\ u.charge_full_flag = t.charge_full_flag /\ u.slow = t.slow
  BY DEF SameView, SameRun, Program
<1> HIDE DEF u
<1>5. charge_start(t) = u
  BY <1>2 DEF u
<1> QED BY <1>3, <1>4, <1>5

LEMMA CloseLemma ==
  ASSUME NEW t \in Program
  PROVE  LET u == charge_close(t) IN
         /\ u \in Program /\ SameView(t, u) /\ SameRun(t, u) /\ ~u.charging
         /\ u.charge_full_flag = t.charge_full_flag /\ u.slow = t.slow
BY ZenonT(60) DEF charge_close, SameView, SameRun, Program

LEMMA WatchLemma ==
  ASSUME NEW t \in Program, NEW u \in {vbat_check_init(t), vbat_timer_delete(t)}
  PROVE  /\ u \in Program /\ SameView(t, u) /\ SameRun(t, u)
         /\ u.charging = t.charging /\ u.charge_full_flag = t.charge_full_flag
         /\ u = vbat_check_init(t) => u.slow
<1>1. CASE u = vbat_check_init(t)
  BY <1>1 DEF vbat_check_init, SameView, SameRun, Program
<1>2. CASE u # vbat_check_init(t) /\ u = vbat_timer_delete(t)
  BY <1>2, ZenonT(60) DEF vbat_timer_delete, SameView, SameRun, Program
<1> QED BY <1>1, <1>2

LEMMA EnterLemma ==
  ASSUME NEW t \in Program, NEW why \in Reasons
  PROVE  LET u == Enter(t, why) IN
         /\ u \in Program /\ SameView(t, u)
         /\ u.mode = t.mode /\ u.tone = t.tone /\ u.pulled = t.pulled /\ u.queue = t.queue
         /\ u.flag /\ (t.flag => u = t) /\ (~t.flag => u.detach # << >>)
         /\ u.charging = t.charging /\ u.charge_full_flag = t.charge_full_flag
         /\ u.slow = t.slow
<1>1. CASE t.flag
  BY <1>1 DEF Enter, SameView
<1>2. CASE ~t.flag
  <2> DEFINE d == Append(t.detach, Timer("wait_tws_detach_handler", why))
             u == [t EXCEPT !.flag = TRUE, !.detach = d, !.handle = TRUE]
  <2>1. t.detach \in Seq([cb : Waits, why : Reasons])
        /\ Timer("wait_tws_detach_handler", why) \in [cb : Waits, why : Reasons]
    BY DEF Program, Timer, Waits
  <2>2. d \in Seq([cb : Waits, why : Reasons]) /\ d # << >>
    BY <2>1, AppendProperties
  <2>3. Enter(t, why) = u
    BY <1>2 DEF Enter
  <2> HIDE DEF d
  <2>4. /\ u \in Program /\ SameView(t, u) /\ u.flag /\ u.detach = d
        /\ u.mode = t.mode /\ u.tone = t.tone /\ u.pulled = t.pulled /\ u.queue = t.queue
        /\ u.charging = t.charging /\ u.charge_full_flag = t.charge_full_flag
        /\ u.slow = t.slow
    BY <2>2 DEF Program, SameView
  <2> HIDE DEF u
  <2> QED BY <1>2, <2>2, <2>3, <2>4
<1> QED BY <1>1, <1>2

LEMMA FlagLemma ==
  ASSUME NEW t \in Program, NEW b \in BOOLEAN
  PROVE  LET u == [t EXCEPT !.charge_full_flag = b] IN
         /\ u \in Program /\ SameView(t, u) /\ SameRun(t, u)
         /\ u.charging = t.charging /\ u.charge_full_flag = b /\ u.slow = t.slow
BY DEF SameView, SameRun, Program

-----------------------------------------------------------------------------
(* Messages of the line. *)

LEMMA LineInLemma ==
  ASSUME IInv, LineIn
  PROVE  IInv'
<1> DEFINE q == Tail(s.queue)
           t == [Rest EXCEPT !.charge_full_flag = FALSE]
<1>1. TypeOK /\ Took("IN") /\ s.power = "on" /\ OnInv(s, pinr) /\ s \in Program
  BY DEF IInv, LineIn, Took, TypeOK
<1>2. /\ \A x : Has(s.queue, x) <=> Has(q, x) \/ x = "IN"
      /\ HasLine(s.queue)
      /\ \A l : LastLine(s.queue, l) /\ HasLine(q) => LastLine(q, l)
      /\ \A l : LastLine(s.queue, l) /\ ~HasLine(q) => "IN" = Event(l) /\ l \in Lines
      /\ \A a, b : NoneAfter(s.queue, a, b) => NoneAfter(q, a, b) /\ ("IN" = a => ~Has(q, b))
      /\ Rest \in Program /\ SameView(s, Rest) /\ RestRun
      /\ Rest.charging = s.charging /\ Rest.slow = s.slow
  BY <1>1, TookLemma DEF LineEvents, SameView, RestRun
<1>3. /\ t \in Program /\ SameView(s, t) /\ t.queue = q /\ t.mode = s.mode /\ t.tone = s.tone
      /\ t.pulled = s.pulled /\ t.flag = s.flag /\ t.detach = s.detach
      /\ t.charging = s.charging /\ t.charge_full_flag = FALSE /\ t.slow = s.slow
  BY <1>2, FlagLemma DEF SameView, SameRun, RestRun
<1>4. ~(s.mode = "idle" /\ s.flag) =>
        /\ pinr' = FALSE /\ line' = line /\ edge' = edge /\ cell' = cell
        /\ s' = IF s.mode = "idle" THEN charge_start(t) ELSE Enter(t, "RESET")
  BY DEF LineIn
<1> HIDE DEF q, t
<1>5. /\ HasLine(q) => LastLine(q, s.charge_flag)
      /\ ~HasLine(q) => s.charge_flag = "in"
  BY <1>1, <1>2, EventLemma DEF OnInv, Follows
<1>6. CASE s.mode = "idle" /\ s.flag
  BY <1>1, <1>6, BootLemma DEF LineIn, cpu_reset
<1>7. CASE s.mode = "idle" /\ ~s.flag
  <2> DEFINE u == charge_start(t)
  <2>1. /\ s' = u /\ pinr' = FALSE /\ line' = line /\ edge' = edge /\ cell' = cell
    BY <1>4, <1>7
  <2>2. /\ u \in Program /\ SameView(s, u) /\ u.queue = q /\ u.mode = s.mode /\ u.tone = s.tone
        /\ u.pulled = s.pulled /\ u.flag = s.flag /\ u.detach = s.detach
        /\ u.charging /\ u.slow = s.slow
    BY <1>1, <1>3, StartLemma DEF SameView, SameRun
  <2> HIDE DEF u
  <2>3. Follows(u, FALSE)
    BY <1>1, <1>5, <2>2 DEF OnInv, Follows, SameView
  <2>4. Carried(u)
    BY <1>1, <1>2, <1>7, <2>2 DEF OnInv, Carried, Ending
  <2>5. NoLate => Watched(u)
    BY <1>1, <1>2, <1>5, <2>2 DEF OnInv, Watched, SameView
  <2>6. NoLate => IdleCharge(u) /\ (~u.pulled => ~Has(q, "GOTO_BT"))
    BY <1>1, <1>2, <1>7, <2>2 DEF OnInv, IdleCharge
  <2>7. NoLate /\ NoBoot => Placed(u)
    BY <1>5, <1>7, <2>2, <2>6 DEF Placed, SameView
  <2> QED BY <1>1, <2>1, <2>2, <2>3, <2>4, <2>5, <2>6, <2>7, OnStep DEF OnInv, SameView
<1>8. CASE s.mode # "idle"
  <2> DEFINE u == Enter(t, "RESET")
  <2>1. /\ s' = u /\ pinr' = FALSE /\ line' = line /\ edge' = edge /\ cell' = cell
    BY <1>4, <1>8
  <2>2. /\ u \in Program /\ SameView(s, u) /\ u.queue = q /\ u.mode = s.mode /\ u.tone = s.tone
        /\ u.pulled = s.pulled /\ u.flag /\ (s.flag => u.detach = s.detach)
        /\ (~s.flag => u.detach # << >>) /\ u.charging = s.charging /\ u.slow = s.slow
    BY <1>3, EnterLemma DEF SameView, Reasons
  <2> HIDE DEF u
  <2>3. Follows(u, FALSE)
    BY <1>1, <1>5, <2>2 DEF OnInv, Follows, SameView
  <2>4. Carried(u)
    BY <1>1, <1>2, <1>8, <2>2 DEF OnInv, Carried, Ending
  <2>5. NoLate => Watched(u) /\ IdleCharge(u)
    BY <1>1, <1>2, <1>8, <2>2 DEF OnInv, Watched, IdleCharge
  <2>6. Placed(u)
    BY <2>2 DEF Placed
  <2> QED BY <1>1, <2>1, <2>2, <2>3, <2>4, <2>5, <2>6, OnStep DEF OnInv, SameView
<1> QED BY <1>6, <1>7, <1>8

LEMMA LineOffLemma ==
  ASSUME IInv, LineOff
  PROVE  IInv'
<1> DEFINE q == Tail(s.queue)
           r == [Rest EXCEPT !.charge_full_flag = FALSE]
           t == vbat_check_init(charge_close(r))
           b == s.pulled \/ s.flag
           on == [t EXCEPT !.flag = FALSE, !.pulled = b]
           u == IF s.mode = "idle" THEN post(on, "GOTO_BT") ELSE on
           g == IF s.mode = "idle" THEN Append(q, "GOTO_BT") ELSE q
<1>1. TypeOK /\ Took("OFF") /\ s.power = "on" /\ OnInv(s, pinr) /\ s \in Program
  BY DEF IInv, LineOff, Took, TypeOK
<1>2. /\ \A x : Has(s.queue, x) <=> Has(q, x) \/ x = "OFF"
      /\ HasLine(s.queue)
      /\ \A l : LastLine(s.queue, l) /\ HasLine(q) => LastLine(q, l)
      /\ \A l : LastLine(s.queue, l) /\ ~HasLine(q) => "OFF" = Event(l) /\ l \in Lines
      /\ \A a, c : NoneAfter(s.queue, a, c) => NoneAfter(q, a, c) /\ ("OFF" = a => ~Has(q, c))
      /\ Rest \in Program /\ SameView(s, Rest) /\ RestRun /\ q \in Seq(Messages)
  BY <1>1, TookLemma DEF LineEvents, SameView, RestRun
<1>3. /\ r \in Program /\ SameView(s, r) /\ r.queue = q /\ r.mode = s.mode /\ r.tone = s.tone
      /\ r.pulled = s.pulled /\ r.flag = s.flag /\ r.detach = s.detach
  BY <1>2, FlagLemma DEF SameView, SameRun, RestRun
<1> HIDE DEF r, q
<1>4. /\ charge_close(r) \in Program /\ SameView(s, charge_close(r)) /\ SameRun(r, charge_close(r))
      /\ ~charge_close(r).charging
  BY <1>3, CloseLemma DEF SameView
<1>5. /\ t \in Program /\ SameView(s, t) /\ t.queue = q /\ t.mode = s.mode /\ t.tone = s.tone
      /\ t.pulled = s.pulled /\ t.flag = s.flag /\ t.detach = s.detach /\ ~t.charging /\ t.slow
  BY <1>3, <1>4, WatchLemma DEF SameView, SameRun
<1>6. ~(~s.flag /\ s.mode # "bt" /\ (s.low \/ cell = "low")) =>
        /\ pinr' = TRUE /\ line' = line /\ edge' = edge /\ cell' = cell /\ s' = u
  <2>1. [t EXCEPT !.flag = FALSE, !.pulled = @ \/ s.flag] = on
    BY <1>5 DEF Program
  <2> QED BY <2>1 DEF LineOff, r
<1> HIDE DEF t
<1>7. b \in BOOLEAN
  BY <1>1 DEF Program
<1> HIDE DEF b
<1>8. /\ on \in Program /\ SameView(s, on) /\ on.queue = q /\ on.mode = s.mode /\ on.tone = s.tone
      /\ on.pulled = b /\ ~on.flag /\ on.detach = s.detach /\ ~on.charging /\ on.slow
  BY <1>5, <1>7, ZenonT(60) DEF Program, SameView
<1> HIDE DEF on
<1>9. /\ g \in Seq(Messages) /\ (HasLine(g) <=> HasLine(q))
      /\ \A x : Has(g, x) <=> Has(q, x) \/ (s.mode = "idle" /\ x = "GOTO_BT")
      /\ \A l : LastLine(q, l) => LastLine(g, l)
      /\ \A a, c : NoneAfter(q, a, c) /\ (c = "GOTO_BT" => ~Has(q, a)) => NoneAfter(g, a, c)
  BY <1>2, AppendQueue DEF Messages, LineEvents
<1>10. u = [on EXCEPT !.queue = g]
  BY <1>8 DEF post, Program
<1> HIDE DEF g, u
<1>11. /\ u \in Program /\ SameView(s, u) /\ u.queue = g /\ u.mode = s.mode /\ u.tone = s.tone
       /\ u.pulled = b /\ ~u.flag /\ u.detach = s.detach /\ ~u.charging /\ u.slow
  BY <1>8, <1>9, <1>10 DEF Program, SameView
<1>12. /\ HasLine(q) => LastLine(q, s.charge_flag)
       /\ ~HasLine(q) => s.charge_flag = "off"
  BY <1>1, <1>2, EventLemma DEF OnInv, Follows
<1>13. CASE ~s.flag /\ s.mode # "bt" /\ (s.low \/ cell = "low")
  BY <1>1, <1>13, OffLemma DEF LineOff
<1>14. CASE ~(~s.flag /\ s.mode # "bt" /\ (s.low \/ cell = "low"))
  <2>1. Follows(u, TRUE)
    BY <1>1, <1>9, <1>11, <1>12 DEF OnInv, Follows, SameView
  <2>2. Carried(u)
    BY <1>1, <1>2, <1>9, <1>11 DEF OnInv, Carried, Ending, b
  <2>3. ASSUME NoLate PROVE Watched(u) /\ IdleCharge(u)
    <3>1. Watched(s)
      BY <1>1, <2>3 DEF OnInv
    <3>2. /\ NoneAfter(q, "OFF", "FULL") /\ NoneAfter(q, "OFF", "IN")
          /\ ~Has(q, "FULL") /\ ~Has(q, "IN")
      BY <1>2, <3>1 DEF Watched
    <3>3. NoneAfter(q, "IN", "GOTO_BT")
      BY <3>2 DEF NoneAfter, Has
    <3>4. NoneAfter(g, "OFF", "FULL") /\ NoneAfter(g, "OFF", "IN") /\ NoneAfter(g, "IN", "GOTO_BT")
      BY <1>9, <3>2, <3>3
    <3> QED BY <1>9, <1>11, <3>2, <3>4 DEF Watched, IdleCharge
  <2>4. Placed(u)
    <3>1. s.mode \in {"poweron", "bt", "idle"}
      BY <1>1 DEF Program
    <3> QED BY <1>9, <1>11, <1>12, <3>1 DEF Placed, SameView
  <2> QED BY <1>1, <1>6, <1>11, <1>14, <2>1, <2>2, <2>3, <2>4, OnStep DEF OnInv, SameView
<1> QED BY <1>13, <1>14

LEMMA KeepModeLemma ==
  ASSUME TypeOK, NEW level \in BOOLEAN, app_charge_power_off_keep_mode(level)
  PROVE  IInv'
BY BootLemma, OffLemma DEF app_charge_power_off_keep_mode, cpu_reset

LEMMA LineKeepLemma ==
  ASSUME IInv, LineKeep
  PROVE  IInv'
<1> DEFINE q == Tail(s.queue)
           t == charge_close(Rest)
           u == Enter(t, "POWER_KEEP")
<1>1. TypeOK /\ Took("KEEP") /\ s.power = "on" /\ OnInv(s, pinr) /\ s \in Program
  BY DEF IInv, LineKeep, Took, TypeOK
<1>2. /\ \A x : Has(s.queue, x) <=> Has(q, x) \/ x = "KEEP"
      /\ HasLine(s.queue)
      /\ \A l : LastLine(s.queue, l) /\ HasLine(q) => LastLine(q, l)
      /\ \A l : LastLine(s.queue, l) /\ ~HasLine(q) => "KEEP" = Event(l) /\ l \in Lines
      /\ \A a, c : NoneAfter(s.queue, a, c) => NoneAfter(q, a, c) /\ ("KEEP" = a => ~Has(q, c))
      /\ Rest \in Program /\ SameView(s, Rest) /\ RestRun /\ Rest.slow = s.slow
  BY <1>1, TookLemma DEF LineEvents, SameView, RestRun
<1>3. /\ HasLine(q) => LastLine(q, s.charge_flag)
      /\ ~HasLine(q) => s.charge_flag = "keep"
  BY <1>1, <1>2, EventLemma DEF OnInv, Follows
<1>4. s.mode # "idle" => /\ s' = u /\ pinr' = FALSE
                         /\ line' = line /\ edge' = edge /\ cell' = cell
  BY DEF LineKeep
<1> HIDE DEF q
<1>5. /\ t \in Program /\ SameView(s, t) /\ t.queue = q /\ t.mode = s.mode /\ t.tone = s.tone
      /\ t.pulled = s.pulled /\ t.flag = s.flag /\ t.detach = s.detach /\ ~t.charging
      /\ t.slow = s.slow
  BY <1>2, CloseLemma DEF SameView, SameRun, RestRun, q
<1> HIDE DEF t
<1>6. /\ u \in Program /\ SameView(s, u) /\ u.queue = q /\ u.mode = s.mode /\ u.tone = s.tone
      /\ u.pulled = s.pulled /\ u.flag /\ (s.flag => u.detach = s.detach)
      /\ (~s.flag => u.detach # << >>) /\ ~u.charging
  BY <1>5, EnterLemma DEF SameView, Reasons
<1> HIDE DEF u
<1>7. CASE s.mode = "idle"
  BY <1>1, <1>7, KeepModeLemma DEF LineKeep
<1>8. CASE s.mode # "idle"
  <2>1. Follows(u, FALSE)
    BY <1>1, <1>3, <1>6 DEF OnInv, Follows, SameView
  <2>2. Carried(u)
    BY <1>1, <1>2, <1>6, <1>8 DEF OnInv, Carried, Ending
  <2>3. NoLate => Watched(u) /\ IdleCharge(u)
    BY <1>1, <1>2, <1>6, <1>8 DEF OnInv, Watched, IdleCharge
  <2>4. Placed(u)
    BY <1>6 DEF Placed
  <2> QED BY <1>1, <1>4, <1>6, <1>8, <2>1, <2>2, <2>3, <2>4, OnStep DEF OnInv, SameView
<1> QED BY <1>7, <1>8

-----------------------------------------------------------------------------
(* Messages of the battery and of the modes.                               *)

\* Taking one of them leaves what is known of the line.
LEMMA OtherLemma ==
  ASSUME IInv, NEW m, Took(m), m \notin LineEvents
  PROVE  LET q == Tail(s.queue) IN
         /\ TypeOK /\ s.power = "on" /\ OnInv(s, pinr) /\ s \in Program /\ m \in Messages
         /\ \A x : Has(s.queue, x) <=> Has(q, x) \/ x = m
         /\ HasLine(s.queue) <=> HasLine(q)
         /\ HasLine(q) => LastLine(q, s.charge_flag)
         /\ \A a, c : NoneAfter(s.queue, a, c) => NoneAfter(q, a, c)
         /\ Rest \in Program /\ SameView(s, Rest) /\ RestRun /\ q \in Seq(Messages)
         /\ Rest.charging = s.charging /\ Rest.charge_full_flag = s.charge_full_flag
         /\ Rest.slow = s.slow
<1>1. TypeOK /\ s.power = "on" /\ OnInv(s, pinr) /\ s \in Program
  BY DEF IInv, Took, TypeOK
<1> DEFINE q == Tail(s.queue)
<1>2. /\ \A x : Has(s.queue, x) <=> Has(q, x) \/ x = m
      /\ HasLine(s.queue) <=> HasLine(q) \/ m \in LineEvents
      /\ \A l : LastLine(s.queue, l) /\ HasLine(q) => LastLine(q, l)
      /\ \A a, c : NoneAfter(s.queue, a, c) => NoneAfter(q, a, c)
      /\ Rest \in Program /\ SameView(s, Rest) /\ RestRun /\ q \in Seq(Messages) /\ m \in Messages
      /\ Rest.charging = s.charging /\ Rest.charge_full_flag = s.charge_full_flag
      /\ Rest.slow = s.slow
  BY <1>1, TookLemma DEF SameView, RestRun
<1> HIDE DEF q
<1>3. HasLine(q) => LastLine(q, s.charge_flag)
  BY <1>1, <1>2 DEF OnInv, Follows
<1> QED BY <1>1, <1>2, <1>3 DEF q

LEMMA ChargeFullLemma ==
  ASSUME IInv, ChargeFull
  PROVE  IInv'
<1> DEFINE q == Tail(s.queue)
           r == [Rest EXCEPT !.charge_full_flag = TRUE]
           t == charge_close(r)
           u == vbat_timer_delete(t)
<1>1. /\ TypeOK /\ s.power = "on" /\ OnInv(s, pinr) /\ s \in Program
      /\ \A x : Has(s.queue, x) <=> Has(q, x) \/ x = "FULL"
      /\ HasLine(s.queue) <=> HasLine(q)
      /\ HasLine(q) => LastLine(q, s.charge_flag)
      /\ \A a, c : NoneAfter(s.queue, a, c) => NoneAfter(q, a, c)
      /\ Rest \in Program /\ SameView(s, Rest) /\ RestRun
  BY OtherLemma DEF ChargeFull, LineEvents
<1>2. s' = u /\ UNCHANGED <<line, edge, cell, pinr>>
  BY DEF ChargeFull
<1> HIDE DEF q
<1>3. r \in Program /\ SameView(s, r) /\ SameRun(Rest, r) /\ r.charge_full_flag
  BY <1>1, FlagLemma DEF SameView
<1> HIDE DEF r
<1>4. t \in Program /\ SameView(s, t) /\ SameRun(Rest, t) /\ t.charge_full_flag /\ ~t.charging
  BY <1>3, CloseLemma DEF SameView, SameRun
<1> HIDE DEF t
<1>5. /\ u \in Program /\ SameView(s, u) /\ u.queue = q /\ u.mode = s.mode /\ u.tone = s.tone
      /\ u.pulled = s.pulled /\ u.flag = s.flag /\ u.detach = s.detach
      /\ ~u.charging /\ u.charge_full_flag
  BY <1>1, <1>4, WatchLemma DEF SameView, SameRun, RestRun, q
<1> HIDE DEF u
<1>6. Follows(u, pinr)
  BY <1>1, <1>5 DEF OnInv, Follows, SameView, Ending
<1>7. Carried(u)
  BY <1>1, <1>5 DEF OnInv, Carried, Ending
<1>8. NoLate => Watched(u) /\ IdleCharge(u)
  BY <1>1, <1>5 DEF OnInv, Watched, IdleCharge, SameView
<1>9. NoLate /\ NoBoot => Placed(u)
  BY <1>1, <1>5 DEF OnInv, Placed, SameView
<1> QED BY <1>1, <1>2, <1>5, <1>6, <1>7, <1>8, <1>9, OnStep DEF OnInv, SameView, TypeOK

LEMMA PowerLowLemma ==
  ASSUME IInv, PowerLow
  PROVE  IInv'
<1> DEFINE q == Tail(s.queue)
           t == vbat_timer_delete(Rest)
           u == Enter(t, "NORMAL")
<1>1. /\ TypeOK /\ s.power = "on" /\ OnInv(s, pinr) /\ s \in Program
      /\ \A x : Has(s.queue, x) <=> Has(q, x) \/ x = "LOW"
      /\ HasLine(s.queue) <=> HasLine(q)
      /\ HasLine(q) => LastLine(q, s.charge_flag)
      /\ \A a, c : NoneAfter(s.queue, a, c) => NoneAfter(q, a, c)
      /\ Rest \in Program /\ SameView(s, Rest) /\ RestRun /\ Rest.charging = s.charging
  BY OtherLemma DEF PowerLow, LineEvents
<1>2. s.mode # "idle" => s' = u /\ UNCHANGED <<line, edge, cell, pinr>>
  BY DEF PowerLow
<1> HIDE DEF q
<1>3. t \in Program /\ SameView(s, t) /\ SameRun(Rest, t) /\ t.charging = s.charging
  BY <1>1, WatchLemma DEF SameView
<1> HIDE DEF t
<1>4. /\ u \in Program /\ SameView(s, u) /\ u.queue = q /\ u.mode = s.mode /\ u.tone = s.tone
      /\ u.pulled = s.pulled /\ u.flag /\ (s.flag => u.detach = s.detach)
      /\ (~s.flag => u.detach # << >>) /\ u.charging = s.charging
  BY <1>1, <1>3, EnterLemma DEF SameView, SameRun, RestRun, Reasons, q
<1> HIDE DEF u
<1>5. CASE s.mode = "idle"
  BY <1>1, <1>5, OffLemma DEF PowerLow, TypeOK
<1>6. CASE s.mode # "idle"
  <2>1. Follows(u, pinr)
    BY <1>1, <1>4, <1>6 DEF OnInv, Follows, SameView, Ending
  <2>2. Carried(u)
    BY <1>1, <1>4, <1>6 DEF OnInv, Carried, Ending
  <2>3. NoLate => Watched(u) /\ IdleCharge(u)
    BY <1>1, <1>4, <1>6 DEF OnInv, Watched, IdleCharge
  <2>4. Placed(u)
    BY <1>4 DEF Placed
  <2> QED BY <1>1, <1>2, <1>4, <1>6, <2>1, <2>2, <2>3, <2>4, OnStep DEF OnInv, SameView, TypeOK
<1> QED BY <1>5, <1>6

LEMMA GotoBtLemma ==
  ASSUME IInv, GotoBt
  PROVE  IInv'
<1> DEFINE q == Tail(s.queue)
           u == [Rest EXCEPT !.mode = "bt"]
<1>1. /\ TypeOK /\ s.power = "on" /\ OnInv(s, pinr) /\ s \in Program
      /\ \A x : Has(s.queue, x) <=> Has(q, x) \/ x = "GOTO_BT"
      /\ HasLine(s.queue) <=> HasLine(q)
      /\ HasLine(q) => LastLine(q, s.charge_flag)
      /\ \A a, c : NoneAfter(s.queue, a, c) => NoneAfter(q, a, c)
      /\ Rest \in Program /\ SameView(s, Rest) /\ RestRun /\ Rest.charging = s.charging
      /\ Rest.charge_full_flag = s.charge_full_flag /\ Rest.slow = s.slow
  BY OtherLemma DEF GotoBt, LineEvents
<1>2. s' = u /\ UNCHANGED <<line, edge, cell, pinr>>
  BY DEF GotoBt
<1> HIDE DEF q
<1>3. /\ u \in Program /\ SameView(s, u) /\ u.queue = q /\ u.mode = "bt" /\ u.tone = s.tone
      /\ u.pulled = s.pulled /\ u.flag = s.flag /\ u.detach = s.detach
      /\ u.charging = s.charging /\ u.charge_full_flag = s.charge_full_flag /\ u.slow = s.slow
  BY <1>1 DEF SameView, RestRun, Program, q
<1> HIDE DEF u
<1>4. ~Ending(s)
  BY <1>1 DEF OnInv, Carried
<1>5. Follows(u, pinr)
  BY <1>1, <1>3, <1>4 DEF OnInv, Follows, SameView
<1>6. Carried(u)
  BY <1>1, <1>3, <1>4 DEF OnInv, Carried, Ending
<1>7. NoLate => Watched(u) /\ IdleCharge(u)
  BY <1>1, <1>3 DEF OnInv, Watched, IdleCharge, SameView
<1>8. NoLate /\ NoBoot => Placed(u)
  BY <1>1, <1>3 DEF OnInv, Placed, SameView
<1> QED BY <1>1, <1>2, <1>3, <1>5, <1>6, <1>7, <1>8, OnStep DEF OnInv, SameView, TypeOK

LEMMA SoftPoweroffLemma ==
  ASSUME IInv, SoftPoweroff
  PROVE  IInv'
<1> DEFINE q == Tail(s.queue)
           u == [Rest EXCEPT !.tone = "power_off", !.retried = TRUE]
<1>1. /\ TypeOK /\ s.power = "on" /\ OnInv(s, pinr) /\ s \in Program
      /\ \A x : Has(s.queue, x) <=> Has(q, x) \/ x = "SOFT_POWEROFF"
      /\ HasLine(s.queue) <=> HasLine(q)
      /\ HasLine(q) => LastLine(q, s.charge_flag)
      /\ \A a, c : NoneAfter(s.queue, a, c) => NoneAfter(q, a, c)
      /\ Rest \in Program /\ SameView(s, Rest) /\ RestRun /\ Rest.charging = s.charging
      /\ Rest.charge_full_flag = s.charge_full_flag /\ Rest.slow = s.slow
  BY OtherLemma DEF SoftPoweroff, LineEvents
<1>2. \/ ~Ending(s) /\ s' = Rest /\ UNCHANGED <<line, edge, cell, pinr>>
      \/ Ending(s) /\ s' = u /\ UNCHANGED <<line, edge, cell, pinr>>
      \/ cpu_reset \/ power_set_soft_poweroff(pinr)
  BY DEF SoftPoweroff, Ending
<1> HIDE DEF q
<1>3. /\ u \in Program /\ SameView(s, u) /\ u.queue = q /\ u.mode = s.mode
      /\ u.tone = "power_off" /\ u.pulled = s.pulled /\ u.flag = s.flag /\ u.detach = s.detach
      /\ u.charging = s.charging /\ u.charge_full_flag = s.charge_full_flag /\ u.slow = s.slow
  BY <1>1 DEF SameView, RestRun, Program, q
<1> HIDE DEF u
<1>4. ASSUME NEW t \in Program, s' = t, UNCHANGED <<line, edge, cell, pinr>>,
             SameView(s, t), t.queue = q, t.mode = s.mode,
             t.pulled = s.pulled, t.flag = s.flag, t.detach = s.detach,
             t.charging = s.charging, t.charge_full_flag = s.charge_full_flag, t.slow = s.slow,
             IF Ending(s) THEN t.tone = "power_off" ELSE t.tone = s.tone
      PROVE  IInv'
  <2>1. Follows(t, pinr)
    BY <1>1, <1>4 DEF OnInv, Follows, SameView, Ending
  <2>2. Carried(t)
    BY <1>1, <1>4 DEF OnInv, Carried, Ending
  <2>3. NoLate => Watched(t) /\ IdleCharge(t)
    BY <1>1, <1>4 DEF OnInv, Watched, IdleCharge, SameView
  <2>4. NoLate /\ NoBoot => Placed(t)
    BY <1>1, <1>4 DEF OnInv, Placed, SameView
  <2> QED BY <1>1, <1>4, <2>1, <2>2, <2>3, <2>4, OnStep DEF OnInv, SameView, TypeOK
<1>5. CASE ~Ending(s) /\ s' = Rest /\ UNCHANGED <<line, edge, cell, pinr>>
  BY <1>1, <1>4, <1>5 DEF RestRun, q
<1>6. CASE Ending(s) /\ s' = u /\ UNCHANGED <<line, edge, cell, pinr>>
  BY <1>3, <1>4, <1>6
<1>7. CASE cpu_reset \/ power_set_soft_poweroff(pinr)
  BY <1>1, <1>7, BootLemma, OffLemma DEF cpu_reset, TypeOK
<1> QED BY <1>2, <1>5, <1>6, <1>7

LEMMA GotoIdleLemma ==
  ASSUME IInv, GotoIdle
  PROVE  IInv'
<1> DEFINE q == Tail(s.queue)
           idle == [Rest EXCEPT !.mode = "idle", !.retried = FALSE]
           n == \E m \in LineEvents : Waiting(m)
           ends == [idle EXCEPT !.queue = << >>, !.tone = "power_off", !.lost = n]
           again == post([Rest EXCEPT !.retried = TRUE], "GOTO_IDLE")
           g == Append(q, "GOTO_IDLE")
<1>1. /\ TypeOK /\ s.power = "on" /\ OnInv(s, pinr) /\ s \in Program
      /\ \A x : Has(s.queue, x) <=> Has(q, x) \/ x = "GOTO_IDLE"
      /\ HasLine(s.queue) <=> HasLine(q)
      /\ HasLine(q) => LastLine(q, s.charge_flag)
      /\ \A a, c : NoneAfter(s.queue, a, c) => NoneAfter(q, a, c)
      /\ Rest \in Program /\ SameView(s, Rest) /\ RestRun /\ q \in Seq(Messages)
      /\ Rest.charging = s.charging /\ Rest.charge_full_flag = s.charge_full_flag
      /\ Rest.slow = s.slow
  BY OtherLemma DEF GotoIdle, LineEvents
<1>2. /\ UNCHANGED <<line, edge, cell, pinr>>
      /\ \/ s.mode = "idle" /\ s' = Rest
         \/ s.mode # "idle" /\ s.flag /\ s' = ends
         \/ s.mode # "idle" /\ ~s.flag /\ s' = idle
         \/ s.mode = "bt" /\ s' = again
  BY DEF GotoIdle
<1>3. /\ g \in Seq(Messages) /\ (HasLine(g) <=> HasLine(q))
      /\ \A x : Has(g, x) <=> Has(q, x) \/ x = "GOTO_IDLE"
      /\ HasLine(g) => LastLine(g, s.charge_flag)
      /\ \A a, c : NoneAfter(q, a, c) /\ (c = "GOTO_IDLE" => ~Has(q, a)) => NoneAfter(g, a, c)
  BY <1>1, AppendQueue DEF LineEvents, Messages
<1>4. /\ again = [Rest EXCEPT !.retried = TRUE, !.queue = g]
      /\ n \in BOOLEAN
  BY <1>1 DEF post, RestRun, Program
<1> HIDE DEF q, n, g, again
<1>5. CASE s.mode = "idle" /\ s' = Rest
  <2>1. Follows(Rest, pinr)
    BY <1>1, <1>5 DEF OnInv, Follows, SameView, RestRun, Ending, q
  <2>2. Carried(Rest)
    BY <1>1, <1>5 DEF OnInv, Carried, RestRun, Ending, q
  <2>3. NoLate => Watched(Rest) /\ IdleCharge(Rest)
    BY <1>1, <1>5 DEF OnInv, Watched, IdleCharge, SameView, RestRun, q
  <2>4. NoLate /\ NoBoot => Placed(Rest)
    BY <1>1, <1>5 DEF OnInv, Placed, SameView, RestRun, q
  <2> QED BY <1>1, <1>2, <1>5, <2>1, <2>2, <2>3, <2>4, OnStep DEF OnInv, SameView, TypeOK
<1>6. CASE s.mode # "idle" /\ s.flag /\ s' = ends
  <2>0. idle \in Program /\ SameView(s, idle) /\ idle.mode = "idle" /\ idle.flag
    BY <1>1, <1>6, ZenonT(60) DEF SameView, RestRun, Program
  <2> HIDE DEF idle
  <2>1. /\ ends \in Program /\ SameView(s, ends) /\ ends.queue = << >> /\ ends.mode = "idle"
        /\ ends.tone = "power_off" /\ ends.flag
    BY <1>4, <2>0, EmptyQueue DEF SameView, Program
  <2> HIDE DEF ends
  <2>2. Follows(ends, pinr)
    BY <1>1, <2>1, EmptyQueue DEF OnInv, Follows, SameView, Ending
  <2>3. Carried(ends)
    BY <2>1, EmptyQueue DEF Carried, Ending
  <2>4. Watched(ends) /\ IdleCharge(ends) /\ Placed(ends)
    BY <2>1, EmptyQueue DEF Watched, IdleCharge, Placed
  <2> QED BY <1>1, <1>2, <1>6, <2>1, <2>2, <2>3, <2>4, OnStep DEF OnInv, SameView, TypeOK
<1>7. CASE s.mode # "idle" /\ ~s.flag /\ s' = idle
  <2>1. /\ idle \in Program /\ SameView(s, idle) /\ idle.queue = q /\ idle.mode = "idle"
        /\ idle.tone = s.tone /\ idle.pulled = s.pulled /\ ~idle.flag /\ idle.detach = s.detach
        /\ idle.charging = s.charging /\ idle.slow = s.slow
    BY <1>1, <1>7 DEF SameView, RestRun, Program, q
  <2> HIDE DEF idle
  <2>2. s.pulled
    BY <1>1, <1>7 DEF OnInv, Carried
  <2>3. Follows(idle, pinr)
    BY <1>1, <1>7, <2>1 DEF OnInv, Follows, SameView, Ending
  <2>4. Carried(idle)
    BY <2>1, <2>2 DEF Carried, Ending
  <2>5. NoLate => Watched(idle)
    BY <1>1, <1>7, <2>1 DEF OnInv, Watched, SameView
  <2>6. IdleCharge(idle) /\ Placed(idle)
    BY <2>1, <2>2 DEF IdleCharge, Placed
  <2> QED BY <1>1, <1>2, <1>7, <2>1, <2>3, <2>4, <2>5, <2>6, OnStep DEF OnInv, SameView, TypeOK
<1>8. CASE s.mode = "bt" /\ s' = again
  <2> DEFINE u == [Rest EXCEPT !.retried = TRUE, !.queue = g]
  <2>1. /\ u \in Program /\ SameView(s, u) /\ u.queue = g /\ u.mode = s.mode
        /\ u.tone = s.tone /\ u.pulled = s.pulled /\ u.flag = s.flag /\ u.detach = s.detach
        /\ u.charging = s.charging /\ u.slow = s.slow /\ u.charge_full_flag = s.charge_full_flag
    BY <1>1, <1>3 DEF SameView, RestRun, Program
  <2> HIDE DEF u
  <2>2. Follows(u, pinr)
    BY <1>1, <1>3, <2>1 DEF OnInv, Follows, SameView, Ending
  <2>3. Carried(u)
    BY <1>1, <1>3, <1>8, <2>1 DEF OnInv, Carried, Ending
  <2>4. ASSUME NoLate PROVE Watched(u)
    <3>1. NoneAfter(g, "OFF", "FULL") /\ NoneAfter(g, "OFF", "IN")
      BY <1>1, <1>3, <2>4 DEF OnInv, Watched
    <3> QED BY <1>1, <1>3, <2>1, <2>4, <3>1 DEF OnInv, Watched, SameView
  <2>5. NoLate => IdleCharge(u)
    BY <1>1, <1>8, <2>1 DEF OnInv, IdleCharge
  <2>6. NoLate /\ NoBoot => Placed(u)
    BY <1>1, <1>3, <1>8, <2>1 DEF OnInv, Placed, SameView
  <2> QED BY <1>1, <1>2, <1>4, <1>8, <2>1, <2>2, <2>3, <2>4, <2>5, <2>6, OnStep
          DEF OnInv, SameView, TypeOK, u
<1> QED BY <1>2, <1>5, <1>6, <1>7, <1>8

-----------------------------------------------------------------------------
(* Tones, keys and the power-off's timers.                                 *)

LEMMA ToneEndsLemma ==
  ASSUME IInv, ToneEnds
  PROVE  IInv'
<1>1. TypeOK /\ s.power = "on" /\ OnInv(s, pinr) /\ s \in Program /\ s.queue \in Seq(Messages)
  BY DEF IInv, ToneEnds, TypeOK, Program
<1> DEFINE t == [s EXCEPT !.tone = "none"]
           m == IF s.tone = "power_off" THEN "SOFT_POWEROFF" ELSE "GOTO_BT"
           g == Append(s.queue, m)
           u == [t EXCEPT !.queue = g]
<1>2. s.tone # "none" /\ s.tone \in {"none", "power_on", "power_off"}
  BY <1>1 DEF ToneEnds, Program
<1>3. /\ t \in Program /\ SameView(s, t) /\ t.queue = s.queue /\ t.mode = s.mode
      /\ t.tone = "none" /\ t.pulled = s.pulled /\ t.flag = s.flag /\ t.detach = s.detach
      /\ t.charging = s.charging /\ t.slow = s.slow /\ t.charge_full_flag = s.charge_full_flag
  BY <1>1 DEF SameView, Program
<1>4. /\ UNCHANGED <<line, edge, cell, pinr>>
      /\ s' = IF s.tone = "power_off" \/ s.mode = "poweron" THEN post(t, m) ELSE t
  BY <1>2 DEF ToneEnds
<1> HIDE DEF t
<1>5. post(t, m) = u
  BY <1>3 DEF post, Program
<1>6. m \in Messages /\ m \notin LineEvents
      /\ m = IF s.tone = "power_off" THEN "SOFT_POWEROFF" ELSE "GOTO_BT"
  BY DEF Messages, LineEvents
<1> HIDE DEF m
<1>7. /\ g \in Seq(Messages) /\ (HasLine(g) <=> HasLine(s.queue))
      /\ \A x : Has(g, x) <=> Has(s.queue, x) \/ x = m
      /\ \A l : LastLine(s.queue, l) => LastLine(g, l)
      /\ \A a, c : NoneAfter(s.queue, a, c) /\ (c = m => ~Has(s.queue, a)) => NoneAfter(g, a, c)
  BY <1>1, <1>6, AppendQueue
<1> HIDE DEF g
<1>8. /\ u \in Program /\ SameView(s, u) /\ u.queue = g /\ u.mode = s.mode
      /\ u.tone = "none" /\ u.pulled = s.pulled /\ u.flag = s.flag /\ u.detach = s.detach
      /\ u.charging = s.charging /\ u.slow = s.slow /\ u.charge_full_flag = s.charge_full_flag
  BY <1>3, <1>7 DEF SameView, Program
<1> HIDE DEF u
<1>9. CASE s.tone = "power_off" \/ s.mode = "poweron"
  <2>1. Follows(u, pinr)
    BY <1>1, <1>7, <1>8 DEF OnInv, Follows, SameView, Ending
  <2>2. Carried(u)
    BY <1>1, <1>2, <1>6, <1>7, <1>8, <1>9 DEF OnInv, Carried, Ending
  <2>3. ASSUME NoLate PROVE Watched(u)
    <3>1. NoneAfter(g, "OFF", "FULL") /\ NoneAfter(g, "OFF", "IN")
      BY <1>1, <1>6, <1>7, <2>3 DEF OnInv, Watched
    <3> QED BY <1>1, <1>6, <1>7, <1>8, <2>3, <3>1 DEF OnInv, Watched, SameView
  <2>4. NoLate => IdleCharge(u)
    BY <1>1, <1>6, <1>7, <1>8, <1>9 DEF OnInv, IdleCharge
  <2>5. NoLate /\ NoBoot => Placed(u)
    BY <1>1, <1>6, <1>7, <1>8, <1>9 DEF OnInv, Placed, SameView
  <2> QED BY <1>1, <1>4, <1>5, <1>8, <1>9, <2>1, <2>2, <2>3, <2>4, <2>5, OnStep
          DEF OnInv, SameView, TypeOK
<1>10. CASE s.tone = "power_on" /\ s.mode # "poweron"
  <2>1. Follows(t, pinr)
    BY <1>1, <1>3 DEF OnInv, Follows, SameView, Ending
  <2>2. Carried(t)
    BY <1>1, <1>3, <1>10 DEF OnInv, Carried, Ending
  <2>3. NoLate => Watched(t) /\ IdleCharge(t)
    BY <1>1, <1>3 DEF OnInv, Watched, IdleCharge, SameView
  <2>4. NoLate /\ NoBoot => Placed(t)
    BY <1>1, <1>3 DEF OnInv, Placed, SameView
  <2> QED BY <1>1, <1>3, <1>4, <1>10, <2>1, <2>2, <2>3, <2>4, OnStep DEF OnInv, SameView, TypeOK
<1> QED BY <1>2, <1>9, <1>10

LEMMA PowerOffKeyLemma ==
  ASSUME IInv, PowerOffKey
  PROVE  IInv'
<1> DEFINE u == Enter(s, "NORMAL")
<1>1. TypeOK /\ s.power = "on" /\ OnInv(s, pinr) /\ s \in Program
  BY DEF IInv, PowerOffKey, TypeOK
<1>2. s' = u /\ s.mode = "bt" /\ ~s.flag /\ UNCHANGED <<line, edge, cell, pinr>>
  BY DEF PowerOffKey
<1>3. /\ u \in Program /\ SameView(s, u) /\ u.queue = s.queue /\ u.mode = s.mode
      /\ u.tone = s.tone /\ u.pulled = s.pulled /\ u.flag /\ u.detach # << >>
      /\ u.charging = s.charging
  BY <1>1, <1>2, EnterLemma DEF Reasons
<1> HIDE DEF u
<1>4. Follows(u, pinr)
  BY <1>1, <1>2, <1>3 DEF OnInv, Follows, SameView, Ending
<1>5. Carried(u)
  BY <1>1, <1>2, <1>3 DEF OnInv, Carried, Ending
<1>6. NoLate => Watched(u) /\ IdleCharge(u)
  BY <1>1, <1>2, <1>3 DEF OnInv, Watched, IdleCharge
<1>7. Placed(u)
  BY <1>3 DEF Placed
<1> QED BY <1>1, <1>2, <1>3, <1>4, <1>5, <1>6, <1>7, OnStep DEF OnInv, SameView, TypeOK

LEMMA DropLemma ==
  ASSUME s \in Program, s.detach # << >>
  PROVE  /\ DropHandle \in Program /\ SameView(s, DropHandle)
         /\ DropHandle.mode = s.mode /\ DropHandle.tone = s.tone /\ DropHandle.flag = s.flag
         /\ DropHandle.pulled = s.pulled /\ DropHandle.queue = s.queue
         /\ DropHandle.charging = s.charging /\ DropHandle.slow = s.slow
         /\ DropHandle.charge_full_flag = s.charge_full_flag
<1>1. CASE ~s.handle
  BY <1>1 DEF DropHandle, SameView
<1>2. CASE s.handle
  <2> DEFINE d == Front(s.detach)
             u == [s EXCEPT !.detach = d, !.handle = FALSE]
  <2>1. s.detach \in Seq([cb : Waits, why : Reasons])
    BY DEF Program
  <2>2. d \in Seq([cb : Waits, why : Reasons])
    <3> DEFINE n == Len(s.detach) - 1
               T == [cb : Waits, why : Reasons]
    <3>0. /\ Len(s.detach) \in Nat
          /\ \A i \in 1 .. Len(s.detach) : s.detach[i] \in [cb : Waits, why : Reasons]
      BY <2>1, SeqFacts
    <3>1. n \in Int /\ \A i \in 1 .. n : s.detach[i] \in T
      BY <3>0
    <3>2. d = SubSeq(s.detach, 1, n)
      BY DEF Front
    <3> HIDE DEF n, d, T
    <3>3. d \in Seq(T)
      BY <3>1, <3>2, SubSeqProperties
    <3> QED BY <3>3 DEF T
  <2>3. DropHandle = u
    BY <1>2 DEF DropHandle
  <2> HIDE DEF d
  <2>4. /\ u \in Program /\ SameView(s, u) /\ u.mode = s.mode /\ u.tone = s.tone
        /\ u.flag = s.flag /\ u.pulled = s.pulled /\ u.queue = s.queue
        /\ u.charging = s.charging /\ u.slow = s.slow
        /\ u.charge_full_flag = s.charge_full_flag
    BY <2>2 DEF Program, SameView
  <2> HIDE DEF u
  <2> QED BY <2>3, <2>4
<1> QED BY <1>1, <1>2

LEMMA DetachStepLemma ==
  ASSUME IInv, DetachStep
  PROVE  IInv'
<1>1. /\ TypeOK /\ s.power = "on" /\ OnInv(s, pinr) /\ s \in Program
      /\ s.queue \in Seq(Messages) /\ s.detach \in Seq([cb : Waits, why : Reasons])
  BY DEF IInv, DetachStep, TypeOK, Program
<1>2. PICK i \in DOMAIN s.detach : IF s.detach[i].cb = "wait_tws_detach_handler"
                                   THEN wait_tws_detach_handler(s.detach[i].why)
                                   ELSE wait_exit_btstack_flag(s.detach[i].why)
  BY DEF DetachStep
<1> DEFINE why == s.detach[i].why
           x == DropHandle
           d == Append(x.detach, Timer("wait_exit_btstack_flag", why))
           u == [x EXCEPT !.detach = d, !.handle = TRUE]
           g == Append(s.queue, "GOTO_IDLE")
           v == [x EXCEPT !.queue = g]
<1>3. s.detach # << >> /\ why \in Reasons
  <2>1. s.detach[i] \in [cb : Waits, why : Reasons]
    BY <1>1, <1>2, SeqFacts
  <2> QED BY <1>1, <1>2, <2>1, SeqFacts
<1>4. s.flag \/ s.pulled
  BY <1>1, <1>3 DEF OnInv, Carried
<1>5. /\ x \in Program /\ SameView(s, x) /\ x.mode = s.mode /\ x.tone = s.tone
      /\ x.flag = s.flag /\ x.pulled = s.pulled /\ x.queue = s.queue
      /\ x.charging = s.charging /\ x.slow = s.slow /\ x.charge_full_flag = s.charge_full_flag
  BY <1>1, <1>3, DropLemma
<1>6. \/ s' = u /\ UNCHANGED <<line, edge, cell, pinr>>
      \/ s' = v /\ UNCHANGED <<line, edge, cell, pinr>>
      \/ cpu_reset \/ app_charge_power_off_keep_mode(pinr)
  <2>1. CASE s.detach[i].cb = "wait_tws_detach_handler"
    <3>1. [x EXCEPT !.detach = Append(@, Timer("wait_exit_btstack_flag", why)), !.handle = TRUE] = u
      BY <1>5 DEF Program
    <3> QED BY <1>2, <2>1, <3>1 DEF wait_tws_detach_handler
  <2>2. CASE s.detach[i].cb # "wait_tws_detach_handler"
    <3>1. wait_exit_btstack_flag(why)
      BY <1>2, <2>2
    <3>2. CASE why = "NORMAL"
      <4>1. post(x, "GOTO_IDLE") = v
        BY <1>5 DEF post, Program
      <4> QED BY <3>1, <3>2, <4>1 DEF wait_exit_btstack_flag
    <3>3. CASE why = "RESET"
      BY <3>1, <3>3 DEF wait_exit_btstack_flag
    <3>4. CASE why = "POWER_KEEP"
      BY <3>1, <3>4 DEF wait_exit_btstack_flag
    <3> QED BY <1>3, <3>2, <3>3, <3>4 DEF Reasons
  <2> QED BY <2>1, <2>2
<1>7. d \in Seq([cb : Waits, why : Reasons]) /\ d # << >>
  <2>1. x.detach \in Seq([cb : Waits, why : Reasons])
        /\ Timer("wait_exit_btstack_flag", why) \in [cb : Waits, why : Reasons]
    BY <1>3, <1>5 DEF Program, Timer, Waits
  <2> QED BY <2>1, AppendProperties
<1>8. /\ g \in Seq(Messages) /\ (HasLine(g) <=> HasLine(s.queue))
      /\ \A m : Has(g, m) <=> Has(s.queue, m) \/ m = "GOTO_IDLE"
      /\ \A l : LastLine(s.queue, l) => LastLine(g, l)
      /\ \A a, c : NoneAfter(s.queue, a, c) /\ (c = "GOTO_IDLE" => ~Has(s.queue, a))
                     => NoneAfter(g, a, c)
  BY <1>1, AppendQueue DEF LineEvents, Messages
<1> HIDE DEF d, g, x, why
<1>9. CASE s' = u /\ UNCHANGED <<line, edge, cell, pinr>>
  <2>1. /\ u \in Program /\ SameView(s, u) /\ u.mode = s.mode /\ u.tone = s.tone
        /\ u.flag = s.flag /\ u.pulled = s.pulled /\ u.queue = s.queue /\ u.detach # << >>
        /\ u.charging = s.charging /\ u.slow = s.slow
        /\ u.charge_full_flag = s.charge_full_flag
    BY <1>5, <1>7 DEF Program, SameView
  <2> HIDE DEF u
  <2>2. Follows(u, pinr)
    BY <1>1, <2>1 DEF OnInv, Follows, SameView, Ending
  <2>3. Carried(u)
    BY <1>1, <1>4, <2>1 DEF OnInv, Carried, Ending
  <2>4. NoLate => Watched(u) /\ IdleCharge(u)
    BY <1>1, <2>1 DEF OnInv, Watched, IdleCharge, SameView
  <2>5. NoLate /\ NoBoot => Placed(u)
    BY <1>1, <2>1 DEF OnInv, Placed, SameView
  <2> QED BY <1>1, <1>9, <2>1, <2>2, <2>3, <2>4, <2>5, OnStep DEF OnInv, SameView, TypeOK
<1>10. CASE s' = v /\ UNCHANGED <<line, edge, cell, pinr>>
  <2>1. /\ v \in Program /\ SameView(s, v) /\ v.mode = s.mode /\ v.tone = s.tone
        /\ v.flag = s.flag /\ v.pulled = s.pulled /\ v.queue = g
        /\ v.charging = s.charging /\ v.slow = s.slow
        /\ v.charge_full_flag = s.charge_full_flag
    BY <1>5, <1>8 DEF Program, SameView
  <2> HIDE DEF v
  <2>2. Follows(v, pinr)
    BY <1>1, <1>8, <2>1 DEF OnInv, Follows, SameView, Ending
  <2>3. Carried(v)
    BY <1>1, <1>4, <1>8, <2>1 DEF OnInv, Carried, Ending
  <2>4. NoLate => Watched(v) /\ IdleCharge(v)
    BY <1>1, <1>8, <2>1 DEF OnInv, Watched, IdleCharge, SameView
  <2>5. NoLate /\ NoBoot => Placed(v)
    BY <1>1, <1>8, <2>1 DEF OnInv, Placed, SameView
  <2> QED BY <1>1, <1>10, <2>1, <2>2, <2>3, <2>4, <2>5, OnStep DEF OnInv, SameView, TypeOK
<1>11. CASE cpu_reset \/ app_charge_power_off_keep_mode(pinr)
  BY <1>1, <1>11, BootLemma, KeepModeLemma DEF cpu_reset, TypeOK
<1> QED BY <1>6, <1>9, <1>10, <1>11

-----------------------------------------------------------------------------
(* Start-up, the line and the timers of driver and battery.                *)

LEMMA AppTaskInitLemma ==
  ASSUME IInv, AppTaskInit
  PROVE  IInv'
<1>1. /\ TypeOK /\ s \in Program /\ s.power = "booting"
      /\ Seen(s, line, edge) /\ Fresh(s, pinr, line, edge)
  BY DEF IInv, AppTaskInit, TypeOK
<1> DEFINE a == [s EXCEPT !.power = "on", !.why = "soft", !.charge_event_flag = TRUE]
           up == vbat_check_init(a)
           u == [up EXCEPT !.mode = "idle"]
           v == [up EXCEPT !.mode = "poweron", !.tone = "power_on"]
<1>2. \/ s.charge_online_flag /\ s' = u /\ UNCHANGED <<line, edge, cell, pinr>>
      \/ ~s.charge_online_flag /\ s' = v /\ UNCHANGED <<line, edge, cell, pinr>>
      \/ power_set_soft_poweroff(pinr)
  BY DEF AppTaskInit
<1>3. /\ a \in Program /\ a.power = "on" /\ a.charge_event_flag /\ SameRun(s, a)
      /\ a.ldo5v_timer = s.ldo5v_timer /\ a.charge_flag = s.charge_flag
      /\ a.charge_online_flag = s.charge_online_flag /\ a.charging = s.charging
  BY <1>1 DEF Program, SameRun
<1> HIDE DEF a
<1>4. /\ up \in Program /\ SameView(a, up) /\ SameRun(s, up) /\ up.charging = s.charging /\ up.slow
  BY <1>3, WatchLemma DEF SameRun
<1> HIDE DEF up
<1>5. /\ u \in Program /\ SameView(a, u) /\ u.mode = "idle" /\ u.tone = s.tone
      /\ u.pulled = s.pulled /\ u.flag = s.flag /\ u.queue = s.queue /\ u.detach = s.detach
      /\ u.charging = s.charging /\ u.slow
  BY <1>4 DEF Program, SameView, SameRun
<1>6. /\ v \in Program /\ SameView(a, v) /\ v.mode = "poweron" /\ v.tone = "power_on"
      /\ v.pulled = s.pulled /\ v.flag = s.flag /\ v.queue = s.queue /\ v.detach = s.detach
      /\ v.charging = s.charging /\ v.slow
  BY <1>4 DEF Program, SameView, SameRun
<1> HIDE DEF u, v
<1>7. /\ pinr /\ s.queue = << >> /\ s.tone = "none" /\ s.detach = << >>
      /\ ~s.flag /\ ~s.charging /\ ~s.pulled /\ s.charge_flag \in {"none", "off"}
      /\ NoBoot => /\ s.charge_online_flag = (line # "off")
                   /\ s.charge_flag = "off" <=> line = "off"
  BY <1>1 DEF Fresh
<1>8. ASSUME NEW t \in Program, s' = t, UNCHANGED <<line, edge, cell, pinr>>, OnInv(t, pinr),
             SameView(a, t)
      PROVE  IInv'
  <2>1. t.power = "on" /\ Seen(t, line, edge) /\ Fresh(t, pinr, line, edge)
    BY <1>1, <1>3, <1>8 DEF Seen, Fresh, SameView
  <2>2. TypeOK'
    BY <1>1, <1>8 DEF TypeOK
  <2> QED BY <1>8, <2>1, <2>2 DEF IInv
<1>9. CASE s.charge_online_flag /\ s' = u /\ UNCHANGED <<line, edge, cell, pinr>>
  <2>1. Follows(u, pinr) /\ Carried(u)
    BY <1>3, <1>5, <1>7, EmptyQueue DEF Follows, Carried, Ending, SameView
  <2>2. Watched(u) /\ IdleCharge(u)
    BY <1>3, <1>5, <1>7, EmptyQueue DEF Watched, IdleCharge
  <2>3. NoBoot => Placed(u)
    BY <1>3, <1>5, <1>7, <1>9 DEF Placed, SameView
  <2> QED BY <1>5, <1>8, <1>9, <2>1, <2>2, <2>3 DEF OnInv
<1>10. CASE ~s.charge_online_flag /\ s' = v /\ UNCHANGED <<line, edge, cell, pinr>>
  <2>1. Follows(v, pinr) /\ Carried(v)
    BY <1>3, <1>6, <1>7, EmptyQueue DEF Follows, Carried, Ending, SameView
  <2>2. Watched(v) /\ IdleCharge(v)
    BY <1>3, <1>6, <1>7, EmptyQueue DEF Watched, IdleCharge
  <2>3. NoBoot => Placed(v)
    BY <1>3, <1>6, <1>7, <1>10 DEF Placed, SameView
  <2> QED BY <1>6, <1>8, <1>10, <2>1, <2>2, <2>3 DEF OnInv
<1>11. CASE power_set_soft_poweroff(pinr)
  BY <1>1, <1>11, OffLemma DEF TypeOK
<1> QED BY <1>2, <1>9, <1>10, <1>11

LEMMA LineMovesLemma ==
  ASSUME IInv, LineMoves
  PROVE  IInv'
<1>1. /\ s' = s /\ pinr' = pinr /\ cell' = cell /\ edge' = TRUE /\ line' \in Lines
      /\ s.power = "booting" => ~NoBoot
  BY DEF LineMoves, NoBoot
<1>2. TypeOK'
  BY <1>1 DEF IInv, TypeOK
<1>3. Seen(s, line', TRUE) /\ Fresh(s, pinr, line', TRUE)
  BY <1>1 DEF IInv, Seen, Fresh
<1> QED BY <1>1, <1>2, <1>3 DEF IInv

LEMMA LineWakesLemma ==
  ASSUME IInv, LineWakes
  PROVE  IInv'
<1> DEFINE t == [s EXCEPT !.ldo5v_timer = TRUE]
<1>1. TypeOK /\ s \in Program /\ edge
  BY DEF IInv, TypeOK, LineWakes
<1>2. CASE s.power = "off"
  BY <1>1, <1>2, BootLemma DEF LineWakes
<1>3. CASE s.power # "off"
  <2>1. /\ s' = t /\ edge' = FALSE /\ line' = line /\ cell' = cell /\ pinr' = pinr
    BY <1>3 DEF LineWakes
  <2>2. /\ t \in Program /\ t.power = s.power /\ t.ldo5v_timer /\ Alike(s, t)
        /\ t.charge_online_flag = s.charge_online_flag
    BY <1>1 DEF Program, Alike
  <2> HIDE DEF t
  <2>3. TypeOK'
    BY <1>1, <2>1, <2>2 DEF TypeOK
  <2>4. Seen(t, line, FALSE) /\ Fresh(t, pinr, line, FALSE)
    BY <1>1, <2>2 DEF IInv, Seen, Fresh, Alike
  <2>5. t.power = "on" => OnInv(t, pinr)
    BY <2>2, AlikeLemma DEF IInv
  <2> QED BY <2>1, <2>3, <2>4, <2>5 DEF IInv
<1> QED BY <1>2, <1>3

\* A step of a bud that is on which the invariant does not look at.
LEMMA AlikeStep ==
  ASSUME IInv, s.power = "on", NEW t \in Program, s' = t, UNCHANGED <<line, edge, cell, pinr>>,
         Alike(s, t), t.ldo5v_timer = s.ldo5v_timer,
         t.charge_online_flag = s.charge_online_flag
  PROVE  IInv'
<1>1. OnInv(t, pinr) /\ t.power = "on" /\ t.charge_flag = s.charge_flag /\ pinr \in BOOLEAN
  BY AlikeLemma DEF IInv, Alike, TypeOK
<1> QED BY <1>1, OnStep

\* What accepting a level of the line leaves.
LEMMA AcceptLemma ==
  ASSUME s \in Program, s.queue \in Seq(Messages), line \in Lines
  PROVE  LET u == Accept(s, line) IN
         /\ u \in Program /\ u.power = s.power /\ u.mode = s.mode /\ u.flag = s.flag
         /\ u.detach = s.detach /\ u.tone = s.tone /\ u.charging = s.charging
         /\ u.charge_event_flag = s.charge_event_flag
         /\ u.charge_full_flag = s.charge_full_flag /\ u.slow = s.slow /\ u.pulled = s.pulled
         /\ u.charge_online_flag = (line # "off")
         /\ IF s.charge_event_flag
            THEN /\ u.charge_flag = line
                 /\ u.queue = IF s.charge_flag = line THEN s.queue ELSE Append(s.queue, Event(line))
            ELSE u.charge_flag = s.charge_flag /\ u.queue = s.queue /\ u.ldo5v_timer = s.ldo5v_timer
<1> DEFINE on == line # "off"
           c == [k \in Lines |-> IF k = line THEN s.cnt[line] ELSE 0]
           z == [c EXCEPT ![line] = 0]
           g == Append(s.queue, Event(line))
           seen == [s EXCEPT !.charge_online_flag = on, !.cnt = c]
           told == [seen EXCEPT !.cnt = z, !.ldo5v_timer = FALSE, !.charge_flag = line]
           sent == [told EXCEPT !.queue = g]
<1>1. s.cnt \in [Lines -> Nat]
  BY DEF Program
<1>2. c \in [Lines -> Nat] /\ z \in [Lines -> Nat] /\ on \in BOOLEAN
  <2>1. c \in [Lines -> Nat]
    BY <1>1
  <2> HIDE DEF c
  <2> QED BY <2>1
<1>3. g \in Seq(Messages)
  BY AppendQueue, EventLemma
<1> HIDE DEF c, z, on
<1>4. /\ seen \in Program /\ seen.power = s.power /\ seen.mode = s.mode /\ seen.flag = s.flag
      /\ seen.detach = s.detach /\ seen.tone = s.tone /\ seen.charging = s.charging
      /\ seen.charge_event_flag = s.charge_event_flag /\ seen.charge_flag = s.charge_flag
      /\ seen.charge_full_flag = s.charge_full_flag /\ seen.slow = s.slow
      /\ seen.pulled = s.pulled /\ seen.charge_online_flag = on /\ seen.queue = s.queue
      /\ seen.ldo5v_timer = s.ldo5v_timer /\ seen.cnt = c
  BY <1>2 DEF Program
<1>5. Accept(s, line) = IF ~s.charge_event_flag THEN seen
                        ELSE IF s.charge_flag = line THEN told ELSE sent
  <2>1. seen = [s EXCEPT !.charge_online_flag = line # "off",
                         !.cnt = [k \in Lines |-> IF k = line THEN s.cnt[line] ELSE 0]]
    BY DEF on, c
  <2> HIDE DEF seen
  <2>2. told = [seen EXCEPT !.cnt[line] = 0, !.ldo5v_timer = FALSE, !.charge_flag = line]
    BY <1>4 DEF z, Program
  <2> HIDE DEF told
  <2>3. post(told, Event(line)) = [told EXCEPT !.queue = Append(@, Event(line))]
    BY DEF post
  <2>4. told.queue = s.queue /\ told \in Program
    BY <1>2, <1>4, ZenonT(60) DEF Program, told
  <2>5. post(told, Event(line)) = sent
    BY <2>3, <2>4 DEF Program
  <2> QED BY <2>1, <2>2, <2>5 DEF Accept
<1> HIDE DEF seen, g
<1>6. /\ told \in Program /\ told.power = s.power /\ told.mode = s.mode /\ told.flag = s.flag
      /\ told.detach = s.detach /\ told.tone = s.tone /\ told.charging = s.charging
      /\ told.charge_event_flag = s.charge_event_flag /\ told.charge_flag = line
      /\ told.charge_full_flag = s.charge_full_flag /\ told.slow = s.slow
      /\ told.pulled = s.pulled /\ told.charge_online_flag = on /\ told.queue = s.queue
  BY <1>2, <1>4, ZenonT(60) DEF Program
<1> HIDE DEF told
<1>7. /\ sent \in Program /\ sent.power = s.power /\ sent.mode = s.mode /\ sent.flag = s.flag
      /\ sent.detach = s.detach /\ sent.tone = s.tone /\ sent.charging = s.charging
      /\ sent.charge_event_flag = s.charge_event_flag /\ sent.charge_flag = line
      /\ sent.charge_full_flag = s.charge_full_flag /\ sent.slow = s.slow
      /\ sent.pulled = s.pulled /\ sent.charge_online_flag = on /\ sent.queue = g
  BY <1>3, <1>6 DEF Program
<1> HIDE DEF sent
<1>8. CASE ~s.charge_event_flag
  BY <1>4, <1>5, <1>8 DEF on
<1>9. CASE s.charge_event_flag /\ s.charge_flag = line
  BY <1>5, <1>6, <1>9 DEF on
<1>10. CASE s.charge_event_flag /\ s.charge_flag # line
  BY <1>5, <1>7, <1>10 DEF on, g
<1> QED BY <1>8, <1>9, <1>10

LEMMA ldo5v_detectLemma ==
  ASSUME IInv, ldo5v_detect
  PROVE  IInv'
<1>1. /\ TypeOK /\ s \in Program /\ s.queue \in Seq(Messages) /\ line \in Lines
      /\ s.power \in {"booting", "on"} /\ s.ldo5v_timer /\ s.cnt \in [Lines -> Nat]
      /\ Filter \in [Lines -> Nat]
  BY ChargeAssumption DEF IInv, TypeOK, ldo5v_detect, Program
<1>2. UNCHANGED <<line, edge, cell, pinr>>
  BY DEF ldo5v_detect
<1>3. CASE s.cnt[line] < Filter[line]
  <2> DEFINE n == s.cnt[line] + 1
             c == [s.cnt EXCEPT ![line] = n]
             t == [s EXCEPT !.cnt = c]
  <2>1. s' = t
    BY <1>1, <1>3 DEF ldo5v_detect, Program
  <2>2. c \in [Lines -> Nat]
    <3>1. n \in Nat
      BY <1>1
    <3> HIDE DEF n
    <3> QED BY <1>1, <3>1
  <2> HIDE DEF c
  <2>3. /\ t \in Program /\ Alike(s, t) /\ t.power = s.power /\ t.ldo5v_timer
        /\ t.charge_online_flag = s.charge_online_flag
    BY <1>1, <2>2 DEF Program, Alike
  <2> HIDE DEF t
  <2>4. TypeOK'
    BY <1>1, <1>2, <2>1, <2>3 DEF TypeOK
  <2>5. Seen(t, line, edge) /\ Fresh(t, pinr, line, edge)
    BY <2>3 DEF IInv, Seen, Fresh, Alike
  <2>6. t.power = "on" => OnInv(t, pinr)
    BY <2>3, AlikeLemma DEF IInv
  <2> QED BY <1>2, <2>1, <2>4, <2>5, <2>6 DEF IInv
<1>4. CASE ~(s.cnt[line] < Filter[line])
  <2> DEFINE u == Accept(s, line)
  <2>1. s' = u
    BY <1>4 DEF ldo5v_detect
  <2>2. /\ u \in Program /\ u.power = s.power /\ u.mode = s.mode /\ u.flag = s.flag
        /\ u.detach = s.detach /\ u.tone = s.tone /\ u.charging = s.charging
        /\ u.charge_event_flag = s.charge_event_flag
        /\ u.charge_full_flag = s.charge_full_flag /\ u.slow = s.slow /\ u.pulled = s.pulled
        /\ u.charge_online_flag = (line # "off")
        /\ IF s.charge_event_flag
           THEN /\ u.charge_flag = line
                /\ u.queue = IF s.charge_flag = line THEN s.queue
                             ELSE Append(s.queue, Event(line))
           ELSE /\ u.charge_flag = s.charge_flag /\ u.queue = s.queue
                /\ u.ldo5v_timer = s.ldo5v_timer
    BY <1>1, AcceptLemma
  <2> HIDE DEF u
  <2>3. TypeOK'
    BY <1>1, <1>2, <2>1, <2>2 DEF TypeOK
  <2>4. Seen(u, line, edge) /\ Fresh(u, pinr, line, edge)
    BY <1>1, <2>2 DEF IInv, Seen, Fresh
  <2>5. ASSUME s.power = "on" PROVE OnInv(u, pinr)
    <3>1. OnInv(s, pinr) /\ s.charge_event_flag
      BY <2>5 DEF IInv, OnInv, Follows
    <3>2. CASE s.charge_flag = line
      <4>1. Alike(s, u)
        BY <2>2, <3>1, <3>2 DEF Alike
      <4> QED BY <3>1, <4>1, AlikeLemma
    <3>3. CASE s.charge_flag # line
      <4> DEFINE g == Append(s.queue, Event(line))
      <4>1. /\ HasLine(g) /\ LastLine(g, line)
            /\ \A m : Has(g, m) <=> Has(s.queue, m) \/ m = Event(line)
            /\ \A a, c : NoneAfter(s.queue, a, c) /\ (c = Event(line) => ~Has(s.queue, a))
                           => NoneAfter(g, a, c)
        BY <1>1, AppendQueue, EventLemma
      <4>2. Event(line) \in LineEvents /\ (Event(line) = "IN" <=> line = "in")
        BY <1>1, EventLemma
      <4>3. NoLate /\ line = "in" => ~Has(s.queue, "OFF")
        <5>1. s.cnt[line] >= Filter[line]
          <6>1. s.cnt[line] \in Nat /\ Filter[line] \in Nat
            BY <1>1
          <6> QED BY <1>4, <6>1
        <5> QED BY <5>1 DEF ldo5v_detect, Waiting, Has, NoLate
      <4>4. u.queue = g /\ u.charge_flag = line /\ u.charge_event_flag
        BY <2>2, <3>1, <3>3
      <4> HIDE DEF g
      <4>5. Follows(u, pinr)
        BY <4>1, <4>4 DEF Follows
      <4>6. Carried(u)
        BY <2>2, <3>1, <4>1, <4>2, <4>4 DEF OnInv, Carried, Ending, LineEvents
      <4>7. ASSUME NoLate PROVE Watched(u)
        <5>1. NoneAfter(g, "OFF", "FULL") /\ NoneAfter(g, "OFF", "IN")
          BY <3>1, <4>1, <4>2, <4>3, <4>7 DEF OnInv, Watched, LineEvents
        <5> QED BY <4>1, <4>4, <5>1 DEF Watched
      <4>8. NoLate => IdleCharge(u)
        BY <2>2, <3>1, <4>1, <4>2, <4>4 DEF OnInv, IdleCharge, LineEvents
      <4>9. Placed(u)
        BY <4>1, <4>4 DEF Placed
      <4> QED BY <4>5, <4>6, <4>7, <4>8, <4>9 DEF OnInv
    <3> QED BY <3>2, <3>3
  <2> QED BY <1>2, <2>1, <2>2, <2>3, <2>4, <2>5 DEF IInv
<1> QED BY <1>3, <1>4

LEMMA DriverLemma ==
  ASSUME IInv, FullEdge \/ charge_cc_check \/ vbat_check_slow
  PROVE  IInv'
<1>1. s \in Program /\ s.power = "on"
  BY DEF IInv, TypeOK, FullEdge, charge_cc_check, vbat_check_slow
<1>2. CASE FullEdge
  <2> DEFINE t == [s EXCEPT !.charge_timer = TRUE]
  <2>1. /\ t \in Program /\ Alike(s, t) /\ t.ldo5v_timer = s.ldo5v_timer
        /\ t.charge_online_flag = s.charge_online_flag
    BY <1>1 DEF Program, Alike
  <2>2. s' = t /\ UNCHANGED <<line, edge, cell, pinr>>
    BY <1>2 DEF FullEdge
  <2> HIDE DEF t
  <2> QED BY <1>1, <2>1, <2>2, AlikeStep
<1>3. CASE charge_cc_check
  <2> DEFINE t == [s EXCEPT !.cc_timer = FALSE, !.chgfl = TRUE, !.charge_timer = TRUE]
  <2>1. /\ t \in Program /\ Alike(s, t) /\ t.ldo5v_timer = s.ldo5v_timer
        /\ t.charge_online_flag = s.charge_online_flag
    BY <1>1 DEF Program, Alike
  <2>2. s' = t /\ UNCHANGED <<line, edge, cell, pinr>>
    BY <1>3 DEF charge_cc_check
  <2> HIDE DEF t
  <2> QED BY <1>1, <2>1, <2>2, AlikeStep
<1>4. CASE vbat_check_slow
  <2> DEFINE t == [s EXCEPT !.fast = TRUE]
  <2>1. /\ t \in Program /\ Alike(s, t) /\ t.ldo5v_timer = s.ldo5v_timer
        /\ t.charge_online_flag = s.charge_online_flag
    BY <1>1 DEF Program, Alike
  <2>2. s' = t /\ UNCHANGED <<line, edge, cell, pinr>>
    BY <1>4 DEF vbat_check_slow
  <2> HIDE DEF t
  <2> QED BY <1>1, <2>1, <2>2, AlikeStep
<1> QED BY <1>2, <1>3, <1>4

\* A timer of a bud that is on posts m.
LEMMA PostStep ==
  ASSUME IInv, s.power = "on", NEW t \in Program, Alike(s, t), t.ldo5v_timer = s.ldo5v_timer,
         t.charge_online_flag = s.charge_online_flag,
         NEW m \in {"FULL", "LOW"}, s' = post(t, m), UNCHANGED <<line, edge, cell, pinr>>,
         m = "FULL" => s.charging /\ (NoLate => ~Has(s.queue, "OFF"))
  PROVE  IInv'
<1> DEFINE g == Append(t.queue, m)
           u == [t EXCEPT !.queue = g]
<1>1. post(t, m) = u
  BY DEF post, Program
<1>2. t.queue \in Seq(Messages) /\ m \in Messages
  BY DEF Program, Messages
<1>3. g \in Seq(Messages)
  BY <1>2, AppendQueue
<1> HIDE DEF g
<1>4. /\ u \in Program /\ u.queue = g /\ SameView(t, u)
      /\ u.mode = t.mode /\ u.flag = t.flag /\ u.detach = t.detach /\ u.tone = t.tone
      /\ u.charging = t.charging /\ u.charge_full_flag = t.charge_full_flag
      /\ u.slow = t.slow /\ u.pulled = t.pulled
  BY <1>3 DEF Program, SameView
<1> HIDE DEF u
<1>5. OnInv(t, pinr)
  BY AlikeLemma DEF IInv
<1>6. m \in Messages /\ m \notin LineEvents /\ m # "GOTO_BT" /\ m # "GOTO_IDLE"
      /\ (m = "FULL" => t.charging /\ (NoLate => ~Has(t.queue, "OFF")))
  BY DEF Messages, LineEvents, Alike
<1>7. OnInv(u, pinr)
  BY <1>4, <1>5, <1>6, PostLemma DEF SameView, g
<1>8. /\ u.power = "on" /\ u.ldo5v_timer = s.ldo5v_timer /\ u.charge_flag = s.charge_flag
      /\ u.charge_online_flag = s.charge_online_flag /\ pinr \in BOOLEAN
  BY <1>4 DEF SameView, Alike, IInv, TypeOK
<1> QED BY <1>1, <1>4, <1>7, <1>8, OnStep

LEMMA charge_full_detectLemma ==
  ASSUME IInv, charge_full_detect
  PROVE  IInv'
<1> DEFINE done == [s EXCEPT !.charge_timer = FALSE]
           t == [done EXCEPT !.chgfl = FALSE]
<1>1. s \in Program /\ s.power = "on"
  BY DEF IInv, TypeOK, charge_full_detect
<1>2. /\ UNCHANGED <<line, edge, cell, pinr>>
      /\ IF Full THEN (Waiting("OFF") => "late" \in Happenings) /\ s' = post(t, "FULL")
         ELSE s' = done
  BY DEF charge_full_detect
<1>3. /\ done \in Program /\ Alike(s, done) /\ done.ldo5v_timer = s.ldo5v_timer
      /\ done.charge_online_flag = s.charge_online_flag
  BY <1>1 DEF Program, Alike
<1> HIDE DEF done
<1>4. /\ t \in Program /\ Alike(s, t) /\ t.ldo5v_timer = s.ldo5v_timer
      /\ t.charge_online_flag = s.charge_online_flag
  BY <1>3 DEF Program, Alike
<1> HIDE DEF t
<1>5. CASE Full
  <2>1. s.charging /\ (NoLate => ~Has(s.queue, "OFF"))
    BY <1>2, <1>5 DEF Full, Waiting, Has, NoLate
  <2> QED BY <1>1, <1>2, <1>4, <1>5, <2>1, PostStep
<1>6. CASE ~Full
  BY <1>1, <1>2, <1>3, <1>6, AlikeStep
<1> QED BY <1>5, <1>6

LEMMA vbat_checkLemma ==
  ASSUME IInv, vbat_check
  PROVE  IInv'
<1> DEFINE now == cell = "low"
           t == [s EXCEPT !.low = now]
           n == s.low_power_cnt + 1
           a == [t EXCEPT !.fast = t.lowpower]
           b(l) == [t EXCEPT !.low_power_cnt = 0, !.lowpower = l]
           c(l) == [b(l) EXCEPT !.fast = b(l).lowpower]
           d == [t EXCEPT !.low_power_cnt = 0, !.lowpower = TRUE, !.fast = FALSE]
           e == [t EXCEPT !.low_power_cnt = n, !.lowpower = TRUE]
<1>1. s \in Program /\ s.power = "on" /\ s.low_power_cnt \in Nat /\ s.lowpower \in BOOLEAN
  BY DEF IInv, TypeOK, vbat_check, Program
<1>2. /\ UNCHANGED <<line, edge, cell, pinr>>
      /\ \/ s' = a
         \/ \E l \in {s.lowpower, FALSE} : s' = c(l)
         \/ s' = post(d, "LOW")
         \/ s' = e
  BY DEF vbat_check
<1>3. now \in BOOLEAN /\ n \in Nat
  BY <1>1
<1> HIDE DEF now, n
<1>4. /\ t \in Program /\ Alike(s, t) /\ t.ldo5v_timer = s.ldo5v_timer
      /\ t.charge_online_flag = s.charge_online_flag
  BY <1>1, <1>3 DEF Program, Alike
<1> HIDE DEF t
<1>5. CASE s' = a
  <2>1. /\ a \in Program /\ Alike(s, a) /\ a.ldo5v_timer = s.ldo5v_timer
        /\ a.charge_online_flag = s.charge_online_flag
    BY <1>4 DEF Program, Alike
  <2> HIDE DEF a
  <2> QED BY <1>1, <1>2, <1>5, <2>1, AlikeStep
<1>6. ASSUME NEW l \in {s.lowpower, FALSE}, s' = c(l) PROVE IInv'
  <2> DEFINE f == b(l)
             g == [f EXCEPT !.fast = f.lowpower]
  <2>1. /\ f \in Program /\ Alike(s, f) /\ f.ldo5v_timer = s.ldo5v_timer
        /\ f.charge_online_flag = s.charge_online_flag
    BY <1>1, <1>4, <1>6 DEF Program, Alike
  <2>2. s' = g
    BY <1>6
  <2> HIDE DEF f
  <2>3. /\ g \in Program /\ Alike(s, g) /\ g.ldo5v_timer = s.ldo5v_timer
        /\ g.charge_online_flag = s.charge_online_flag
    BY <2>1 DEF Program, Alike
  <2> HIDE DEF g
  <2> QED BY <1>1, <1>2, <2>2, <2>3, AlikeStep
<1>7. CASE s' = post(d, "LOW")
  <2>1. /\ d \in Program /\ Alike(s, d) /\ d.ldo5v_timer = s.ldo5v_timer
        /\ d.charge_online_flag = s.charge_online_flag
    BY <1>4 DEF Program, Alike
  <2> HIDE DEF d
  <2> QED BY <1>1, <1>2, <1>7, <2>1, PostStep
<1>8. CASE s' = e
  <2>1. /\ e \in Program /\ Alike(s, e) /\ e.ldo5v_timer = s.ldo5v_timer
        /\ e.charge_online_flag = s.charge_online_flag
    BY <1>3, <1>4 DEF Program, Alike
  <2> HIDE DEF e
  <2> QED BY <1>1, <1>2, <1>8, <2>1, AlikeStep
<1> QED BY <1>2, <1>5, <1>6, <1>7, <1>8

LEMMA CellLemma ==
  ASSUME IInv, CellFalls \/ CellRises
  PROVE  IInv'
<1>1. s' = s /\ line' = line /\ edge' = edge /\ pinr' = pinr /\ cell' \in {"low", "good", "full"}
  BY DEF CellFalls, CellRises
<1> QED BY <1>1 DEF IInv, TypeOK

-----------------------------------------------------------------------------
(* The invariant of the specification.                                     *)

LEMMA InitLemma == Init => IInv
<1> SUFFICES ASSUME Init PROVE IInv
  OBVIOUS
<1>1. s = Blank /\ Blank \in Program /\ Blank.power = "off" /\ ~Blank.charging
  BY BlankLemma DEF Init, Blank
<1>2. TypeOK
  BY <1>1 DEF Init, TypeOK, Lines
<1> QED BY <1>1, <1>2 DEF IInv, Seen, Fresh

\* One case per action: a reset, a power cut, or a step of a bud that starts or is on.
LEMMA StepLemma == IInv /\ [Next]_vars => IInv'
<1> SUFFICES ASSUME IInv, [Next]_vars PROVE IInv'
  OBVIOUS
<1>1. TypeOK /\ pinr \in BOOLEAN
  BY DEF IInv, TypeOK
<1>2. CASE UNCHANGED vars
  BY <1>2 DEF vars, IInv, TypeOK
<1>3. CASE AppTaskInit
  BY <1>3, AppTaskInitLemma
<1>4. CASE LineWakes
  BY <1>4, LineWakesLemma
<1>5. CASE ldo5v_detect
  BY <1>5, ldo5v_detectLemma
<1>6. CASE FullEdge \/ charge_cc_check \/ vbat_check_slow
  BY <1>6, DriverLemma
<1>7. CASE charge_full_detect
  BY <1>7, charge_full_detectLemma
<1>8. CASE vbat_check
  BY <1>8, vbat_checkLemma
<1>9. CASE DetachStep
  BY <1>9, DetachStepLemma
<1>10. CASE LineIn
  BY <1>10, LineInLemma
<1>11. CASE LineOff
  BY <1>11, LineOffLemma
<1>12. CASE LineKeep
  BY <1>12, LineKeepLemma
<1>13. CASE ChargeFull
  BY <1>13, ChargeFullLemma
<1>14. CASE PowerLow
  BY <1>14, PowerLowLemma
<1>15. CASE GotoIdle
  BY <1>15, GotoIdleLemma
<1>16. CASE GotoBt
  BY <1>16, GotoBtLemma
<1>17. CASE ToneEnds
  BY <1>17, ToneEndsLemma
<1>18. CASE SoftPoweroff
  BY <1>18, SoftPoweroffLemma
<1>19. CASE FullSleeps
  BY <1>1, <1>19, OffLemma DEF FullSleeps
<1>20. CASE PowerKey \/ PinrReset \/ DetachTimeout
  BY <1>1, <1>20, BootLemma DEF PowerKey, PinrReset, DetachTimeout, cpu_reset
<1>21. CASE PowerOffKey
  BY <1>21, PowerOffKeyLemma
<1>22. CASE LineMoves
  BY <1>22, LineMovesLemma
<1>23. CASE CellFalls \/ CellRises
  BY <1>23, CellLemma
<1> QED BY <1>2, <1>3, <1>4, <1>5, <1>6, <1>7, <1>8, <1>9, <1>10, <1>11, <1>12, <1>13, <1>14,
           <1>15, <1>16, <1>17, <1>18, <1>19, <1>20, <1>21, <1>22, <1>23 DEF Next, Works

\* The last event of the line accepted by the driver is handled, waits last in the queue, or
\* was thrown away at the end of a power-off; no power-off is left between two stages.
THEOREM ChargeInvariant == Spec => []IInv
<1>1. Init => IInv
  BY InitLemma
<1>2. IInv /\ [Next]_vars => IInv'
  BY StepLemma
<1> QED BY <1>1, <1>2, PTL DEF Spec

\* Every variable has its type, whatever the filters and limits.
THEOREM ChargeTypes == Spec => []TypeOK
<1>1. IInv => TypeOK
  BY DEF IInv
<1> QED BY <1>1, ChargeInvariant, PTL

\* Quiet, no power-off is at any stage.
LEMMA QuietLemma ==
  ASSUME IInv, Quiet
  PROVE  /\ OnInv(s, pinr) /\ ~s.flag /\ s.mode # "poweron" /\ ~HasLine(s.queue)
         /\ ~Has(s.queue, "GOTO_BT") /\ s.charge_flag = line
         /\ s.charge_online_flag = (line # "off")
<1>1. OnInv(s, pinr) /\ ~HasLine(s.queue) /\ \A m : ~Has(s.queue, m)
  BY EmptyQueue DEF IInv, Quiet
<1>2. s.charge_flag = line /\ s.charge_online_flag = (line # "off")
  BY DEF IInv, Seen, Quiet
<1>3. ~s.flag /\ s.mode # "poweron"
  BY <1>1 DEF OnInv, Carried, Ending, Quiet
<1> QED BY <1>1, <1>2, <1>3

\* Without a message later than the next plug, what driver and application believe of the
\* line is what it is, for every length of the filters.
THEOREM ChargeViewFollows ==
  ASSUME NoLate
  PROVE  Spec => []ViewFollows
<1>1. IInv => ViewFollows
  <2> SUFFICES ASSUME IInv, Quiet
               PROVE  /\ s.charge_flag = line /\ s.charge_online_flag = get_ldo5v_online_hw
                      /\ pinr = ~get_ldo5v_online_hw
                      /\ s.charging => line = "in"
                      /\ line = "off" => s.slow
    BY DEF ViewFollows
  <2>1. /\ OnInv(s, pinr) /\ ~s.flag /\ ~HasLine(s.queue) /\ s.charge_flag = line
        /\ s.charge_online_flag = (line # "off")
    BY QuietLemma
  <2>2. pinr <=> line = "off"
    BY <2>1 DEF OnInv, Follows, Ending, IInv, TypeOK, Lines
  <2>3. pinr \in BOOLEAN
    BY DEF IInv, TypeOK
  <2>4. s.charging => line = "in"
    BY <2>1 DEF OnInv, Follows, Ending
  <2>5. line = "off" => s.slow
    BY <2>1 DEF OnInv, Watched
  <2> QED BY <2>1, <2>2, <2>3, <2>4, <2>5 DEF get_ldo5v_online_hw
<1> QED BY <1>1, ChargeInvariant, PTL

\* Without that message, and with a line that rests while the bud starts, the bud is where
\* its line says it should be.
THEOREM ChargeRightPlace ==
  ASSUME NoLate, NoBoot
  PROVE  Spec => []RightPlace
<1>1. IInv => RightPlace
  BY QuietLemma DEF RightPlace, OnInv, Placed, IInv, TypeOK, Program
<1> QED BY <1>1, ChargeInvariant, PTL

\* Without that message the charger is on in idle mode only.
THEOREM ChargeOnlyIdle ==
  ASSUME NoLate
  PROVE  Spec => []ChargesOnlyIdle
<1>1. IInv => ChargesOnlyIdle
  BY DEF ChargesOnlyIdle, IInv, TypeOK, Program, Fresh, OnInv, IdleCharge
<1> QED BY <1>1, ChargeInvariant, PTL

=============================================================================
