------------------------- MODULE TwsPoweroffProofs -------------------------
(***************************************************************************)
(* The safety of soft power-off for any limits, any bound on the queues    *)
(* and any of the rarer events.  The invariant IInv has a part for what    *)
(* one bud keeps (Sound), one for what its queue will make of the auto-off *)
(* timer (Spared), and one for what the two buds know of each other.       *)
(***************************************************************************)
EXTENDS TwsPoweroff, TLAPS, SequenceTheorems

Has(q, evs) == \E i \in DOMAIN q : q[i].ev \in evs

\* A timer, a tone or a message will take the bud to the idle mode.
Carried(s) == s.fallback \/ s.tone \/ s.retries > 0 \/ Has(s.queue, Gotos)
Leaving(s) == Carried(s) \/ s.wait_exit > 0

\* What holds of a bud by itself: each wait belongs to its reason, only a power-off leaves
\* Bluetooth mode, and each of its stages hands over to the next.
Sound(s) ==
  /\ s.detach = "power_off_at_same_time" => s.reason = "NORMAL_TWS"
  /\ s.detach \in {"wait_tws_detach_handler", "wait_exit_btstack_flag"} =>
       s.reason \in {"NORMAL", "RESET", "POWER_KEEP"}
  /\ Leaving(s) => goto_poweroff_flag(s)
  /\ s.retries > 0 => s.retryMsg \in Gotos
  /\ s.mode = "bt" => s.wait_exit <= 3
  /\ s.exiting => s.wait_exit > 0
  /\ s.mode = "idle" => s.wait_exit > 0 /\ (s.goodbye \/ Has(s.queue, {"SOFT_POWEROFF"}))
  /\ s.mode = "bt" /\ goto_poweroff_flag(s) => s.detach # "none" \/ Carried(s)

GoodBud == {s \in Bud : Sound(s)}

\* With the messages that wait the auto-off timer ends up off.
Disables(m) == m.ev \in {"FIRST_CONNECTED", "MONITOR_START"}
Enables(m) == m.ev \in {"IN_PAIRING_MODE", "TWS_CONNECTED"} /\ ~m.phone
Spared(s) ==
  /\ s.auto = "armed" => \E i \in DOMAIN s.queue : Disables(s.queue[i])
  /\ \A i \in DOMAIN s.queue : Enables(s.queue[i]) =>
       \E j \in DOMAIN s.queue : i < j /\ Disables(s.queue[j])

\* Bud b is powering off, is off, or will hear of the power-off.
Knows(b) == goto_poweroff_flag(bud[b]) \/ ~Running(bud[b]) \/ \E c \in Buds : <<c, b>> \in due

\* Linked buds see the same phone; a power-off of the pair reaches both.
PairOK ==
  linked => /\ \A b, c \in Buds : phone[b] = phone[c]
            /\ (due # {} \/ \E b \in Buds : Running(bud[b]) /\ bud[b].reason = "NORMAL_TWS")
                 => \A b \in Buds : Knows(b)
            /\ \A b \in Buds : bud[b].detach # "wait_exit_btstack_flag"
            /\ \A b, c \in Buds :
                 Leaving(bud[b]) /\ Running(bud[c]) => goto_poweroff_flag(bud[c])

\* A bud leaves only without a phone, and a call needs one.
PhoneOK ==
  \A b \in Buds : /\ Leaving(bud[b]) => ~phone[b]
                  /\ bud[b].busy => phone[b]
                  /\ Running(bud[b]) /\ phone[b] => Spared(bud[b])

IInv ==
  /\ bud \in [Buds -> GoodBud]
  /\ linked \in BOOLEAN /\ master \in Buds
  /\ phone \in [Buds -> BOOLEAN]
  /\ due \subseteq Buds \X Buds
  /\ PairOK /\ PhoneOK

-----------------------------------------------------------------------------
(* Queues. *)

LEMMA PartnerLemma ==
  ASSUME NEW b \in Buds
  PROVE  /\ Partner(b) \in Buds /\ Partner(b) # b /\ Partner(Partner(b)) = b
         /\ \A c \in Buds : c = b \/ c = Partner(b)
BY PoweroffAssumption DEF Partner

LEMMA HasAppend ==
  ASSUME NEW q \in Seq(Messages), NEW m \in Messages
  PROVE  /\ Append(q, m) \in Seq(Messages)
         /\ \A evs : Has(Append(q, m), evs) <=> Has(q, evs) \/ m.ev \in evs
<1>1. /\ Append(q, m) \in Seq(Messages)
      /\ Len(q) \in Nat /\ DOMAIN q = 1 .. Len(q)
      /\ DOMAIN Append(q, m) = 1 .. Len(q) + 1
      /\ \A i \in 1 .. Len(q) : Append(q, m)[i] = q[i]
      /\ Append(q, m)[Len(q) + 1] = m
  BY AppendProperties, LenProperties
<1> HIDE DEF Messages
<1>2. \A evs : Has(Append(q, m), evs) <=> Has(q, evs) \/ m.ev \in evs
  BY <1>1 DEF Has
<1> QED BY <1>1, <1>2

LEMMA HasTail ==
  ASSUME NEW q \in Seq(Messages), q # << >>
  PROVE  /\ Head(q) \in Messages /\ Tail(q) \in Seq(Messages)
         /\ \A evs : Has(q, evs) <=> Head(q).ev \in evs \/ Has(Tail(q), evs)
<1>1. /\ Head(q) \in Messages /\ Tail(q) \in Seq(Messages)
      /\ Len(q) \in Nat \ {0} /\ DOMAIN q = 1 .. Len(q)
      /\ DOMAIN Tail(q) = 1 .. Len(q) - 1
      /\ Head(q) = q[1]
      /\ \A i \in 1 .. Len(q) - 1 : Tail(q)[i] = q[i + 1]
  BY HeadTailProperties, LenProperties, EmptySeq
<1>2. \A i \in 1 .. Len(q) : i = 1 \/ (i - 1 \in 1 .. Len(q) - 1 /\ q[i] = Tail(q)[i - 1])
  BY <1>1
<1>3. \A i \in 1 .. Len(q) - 1 : i + 1 \in 1 .. Len(q)
  BY <1>1
<1>4. 1 \in 1 .. Len(q)
  BY <1>1
<1>5. \A evs : Has(q, evs) <=> Head(q).ev \in evs \/ Has(Tail(q), evs)
  <2>1. ASSUME NEW evs, Has(q, evs) PROVE Head(q).ev \in evs \/ Has(Tail(q), evs)
    BY <1>1, <1>2, <2>1 DEF Has
  <2>2. ASSUME NEW evs, Head(q).ev \in evs \/ Has(Tail(q), evs) PROVE Has(q, evs)
    BY <1>1, <1>3, <1>4, <2>2 DEF Has
  <2> QED BY <2>1, <2>2
<1> QED BY <1>1, <1>5

LEMMA HasEmpty == << >> \in Seq(Messages) /\ \A evs : ~Has(<< >>, evs)
BY DEF Has

\* A message that disables spares the bud; one that does not enable changes nothing.
LEMMA SparedAppend ==
  ASSUME NEW s \in Bud, NEW m \in Messages, Disables(m) \/ (Spared(s) /\ ~Enables(m))
  PROVE  Spared(app_send_message(s, m))
<1> DEFINE q == s.queue
           t == app_send_message(s, m)
<1>1. /\ Len(q) \in Nat /\ DOMAIN q = 1 .. Len(q)
      /\ DOMAIN Append(q, m) = 1 .. Len(q) + 1
      /\ \A i \in 1 .. Len(q) : Append(q, m)[i] = q[i]
      /\ Append(q, m)[Len(q) + 1] = m
  <2>1. q \in Seq(Messages)
    BY DEF Bud
  <2> HIDE DEF q
  <2> QED BY <2>1, AppendProperties, LenProperties
<1>2. t.queue = Append(q, m) /\ t.auto = s.auto
  BY DEF app_send_message, Bud
<1>3. ~(Disables(m) /\ Enables(m))
  BY DEF Disables, Enables
<1> HIDE DEF q, t
<1>4. CASE Disables(m)
  <2>1. \A i \in 1 .. Len(q) + 1 : i < Len(q) + 1 \/ i = Len(q) + 1
    BY <1>1
  <2>2. Len(q) + 1 \in 1 .. Len(q) + 1
    BY <1>1
  <2> QED BY <1>1, <1>2, <1>3, <1>4, <2>1, <2>2 DEF Spared, t
<1>5. CASE Spared(s) /\ ~Enables(m)
  <2>1. \A i \in 1 .. Len(q) + 1 : i \in 1 .. Len(q) \/ i = Len(q) + 1
    BY <1>1
  <2>2. \A i \in 1 .. Len(q) : i \in 1 .. Len(q) + 1
    BY <1>1
  <2>3. t.auto = "armed" => \E i \in DOMAIN t.queue : Disables(t.queue[i])
    BY <1>1, <1>2, <1>5, <2>2 DEF Spared, q
  <2>4. ASSUME NEW i \in DOMAIN t.queue, Enables(t.queue[i])
        PROVE  \E j \in DOMAIN t.queue : i < j /\ Disables(t.queue[j])
    <3>1. i \in 1 .. Len(q) /\ t.queue[i] = q[i]
      BY <1>1, <1>2, <1>5, <2>1, <2>4
    <3>2. PICK j \in 1 .. Len(q) : i < j /\ Disables(q[j])
      BY <1>1, <1>5, <2>4, <3>1 DEF Spared, q
    <3> QED BY <1>1, <1>2, <2>2, <3>2
  <2> QED BY <2>3, <2>4 DEF Spared, t
<1> QED BY <1>4, <1>5

\* Handling the head of the queue leaves a bud spared, unless it arms the timer itself.
LEMMA SparedTail ==
  ASSUME NEW s \in Bud, s.queue # << >>, Spared(s), NEW t \in Bud, t.queue = Tail(s.queue),
         \/ t.auto = "armed" => Enables(Head(s.queue))
         \/ t.auto = "armed" => s.auto = "armed" /\ ~Disables(Head(s.queue))
  PROVE  Spared(t)
<1> DEFINE q == s.queue
<1>1. /\ Len(q) \in Nat \ {0} /\ DOMAIN q = 1 .. Len(q)
      /\ DOMAIN Tail(q) = 1 .. Len(q) - 1
      /\ Head(q) = q[1]
      /\ \A i \in 1 .. Len(q) - 1 : Tail(q)[i] = q[i + 1]
  <2>1. q \in Seq(Messages) /\ q # << >>
    BY DEF Bud
  <2> HIDE DEF q
  <2> QED BY <2>1, HeadTailProperties, LenProperties, EmptySeq
<1>2. q # << >> /\ t.queue = Tail(q)
  OBVIOUS
<1>3. \A i \in 1 .. Len(q) : i # 1 => i - 1 \in 1 .. Len(q) - 1 /\ q[i] = Tail(q)[i - 1]
  BY <1>1
<1>4. \A i \in 1 .. Len(q) - 1 : i + 1 \in 1 .. Len(q) /\ 1 \in 1 .. Len(q)
  BY <1>1
<1>5. ASSUME t.auto = "armed" PROVE \E i \in 1 .. Len(q) - 1 : Disables(Tail(q)[i])
  <2>1. \E i \in 1 .. Len(q) : i # 1 /\ Disables(q[i])
    <3>1. CASE Enables(Head(q))
      <4>1. PICK j \in 1 .. Len(q) : 1 < j /\ Disables(q[j])
        BY <1>1, <1>4, <3>1 DEF Spared
      <4> QED BY <4>1
    <3>2. CASE s.auto = "armed" /\ ~Disables(Head(q))
      BY <1>1, <3>2 DEF Spared
    <3> QED BY <1>5, <3>1, <3>2
  <2> QED BY <1>3, <2>1
<1>6. ASSUME NEW i \in 1 .. Len(q) - 1, Enables(Tail(q)[i])
      PROVE  \E j \in 1 .. Len(q) - 1 : i < j /\ Disables(Tail(q)[j])
  <2>1. PICK j \in 1 .. Len(q) : i + 1 < j /\ Disables(q[j])
    BY <1>1, <1>4, <1>6 DEF Spared
  <2>2. j # 1 /\ i < j - 1
    BY <1>1, <2>1
  <2> QED BY <1>3, <2>1, <2>2
<1> HIDE DEF q
<1> QED BY <1>1, <1>2, <1>5, <1>6 DEF Spared

-----------------------------------------------------------------------------
(* What the operators make of one bud. *)

\* A bud whose power is cut, or that has rebooted, keeps nothing.
LEMMA DeadLemma ==
  ASSUME NEW s
  PROVE  /\ cpu_reset(s) \in GoodBud /\ power_set_soft_poweroff(s) \in GoodBud
         /\ ~Running(cpu_reset(s)) /\ ~Running(power_set_soft_poweroff(s))
         /\ ~Leaving(cpu_reset(s)) /\ ~Leaving(power_set_soft_poweroff(s))
         /\ ~cpu_reset(s).busy /\ ~power_set_soft_poweroff(s).busy
         /\ cpu_reset(s).detach = "none" /\ power_set_soft_poweroff(s).detach = "none"
<1>1. On \in Bud /\ On.queue = << >>
  BY HasEmpty DEF On, Bud, Reasons, Waits
<1>2. ASSUME NEW mode \in {"off", "reset"}, NEW t, t = [On EXCEPT !.mode = mode, !.auto = "none"]
      PROVE  t \in GoodBud /\ ~Running(t) /\ ~Leaving(t) /\ ~t.busy /\ t.detach = "none"
  <2>1. /\ t \in Bud /\ t.mode = mode /\ t.queue = << >> /\ t.detach = "none" /\ t.busy = FALSE
        /\ t.fallback = FALSE /\ t.tone = FALSE /\ t.retries = 0 /\ t.wait_exit = 0 /\ t.exiting = FALSE
    BY <1>1, <1>2 DEF On, Bud
  <2>2. ~Leaving(t)
    BY <2>1, HasEmpty DEF Leaving, Carried
  <2> QED BY <2>1, <2>2 DEF GoodBud, Sound, Running
<1>3. /\ cpu_reset(s) = [On EXCEPT !.mode = "reset", !.auto = "none"]
      /\ power_set_soft_poweroff(s) = [On EXCEPT !.mode = "off", !.auto = "none"]
  BY DEF cpu_reset, power_set_soft_poweroff
<1> QED BY <1>2, <1>3

LEMMA EnterLemma ==
  ASSUME NEW s \in GoodBud, Running(s), NEW why \in Reasons
  PROVE  /\ Enter(s, why) \in GoodBud
         /\ goto_poweroff_flag(Enter(s, why)) /\ Running(Enter(s, why))
         /\ Leaving(Enter(s, why)) <=> Leaving(s)
         /\ Enter(s, why).busy = s.busy
         /\ Enter(s, why).detach = "wait_exit_btstack_flag" =>
              s.detach = "wait_exit_btstack_flag"
         /\ Enter(s, why).reason = "NORMAL_TWS" =>
              s.reason = "NORMAL_TWS" \/ why = "NORMAL_TWS"
         /\ Spared(s) => Spared(Enter(s, why))
<1> DEFINE t == Enter(s, why)
<1>1. CASE goto_poweroff_flag(s)
  BY <1>1 DEF Enter
<1>2. CASE ~goto_poweroff_flag(s)
  <2>1. /\ t \in Bud
        /\ t.reason = why /\ t.detach \in Waits /\ t.auto = "none"
        /\ t.detach = IF why = "NORMAL_TWS" THEN "power_off_at_same_time"
                      ELSE "wait_tws_detach_handler"
        /\ t.fallback = s.fallback /\ t.tone = s.tone /\ t.retries = s.retries
        /\ t.exiting = s.exiting
        /\ t.retryMsg = s.retryMsg /\ t.queue = s.queue /\ t.wait_exit = s.wait_exit
        /\ t.mode = s.mode /\ t.goodbye = s.goodbye /\ t.busy = s.busy
    BY <1>2 DEF Enter, GoodBud, Bud, Waits
  <2> HIDE DEF t
  <2>2. goto_poweroff_flag(t)
    BY <2>1 DEF goto_poweroff_flag, Reasons
  <2>3. Leaving(t) <=> Leaving(s)
    BY <2>1 DEF Leaving, Carried
  <2>4. Sound(t)
    BY <2>1, <2>2 DEF GoodBud, Sound, Reasons, Waits
  <2>5. Spared(s) => Spared(t)
    BY <2>1 DEF Spared
  <2> QED BY <2>1, <2>2, <2>3, <2>4, <2>5 DEF GoodBud, Running, t
<1> QED BY <1>1, <1>2

-----------------------------------------------------------------------------
(* Steps of one bud. *)

\* What a step of bud b alone may make of it; `phoneOn' is its phone after the step.
Follows(b, t, phoneOn) ==
  /\ t \in GoodBud
  /\ Running(t) => /\ Running(bud[b])
                   /\ goto_poweroff_flag(bud[b]) => goto_poweroff_flag(t)
                   /\ t.reason = "NORMAL_TWS" /\ linked => bud[b].reason = "NORMAL_TWS"
  /\ t.detach = "wait_exit_btstack_flag" => ~linked
  /\ Leaving(t) =>
       /\ ~phoneOn
       /\ linked => \A c \in Buds \ {b} : Running(bud[c]) => goto_poweroff_flag(bud[c])
  /\ t.busy => phoneOn
  /\ Running(t) /\ phoneOn => Spared(t)

LEMMA StepOne ==
  ASSUME IInv, NEW b \in Buds, NEW t, Follows(b, t, phone'[b]),
         bud' = [bud EXCEPT ![b] = t],
         UNCHANGED <<linked, master, due>>,
         phone' = phone \/ (~linked /\ phone' = [phone EXCEPT ![b] = FALSE])
  PROVE  IInv'
<1> USE DEF Follows
<1>1. /\ bud' \in [Buds -> GoodBud] /\ bud'[b] = t
      /\ \A c \in Buds \ {b} : bud'[c] = bud[c] /\ phone'[c] = phone[c]
      /\ phone' \in [Buds -> BOOLEAN]
  BY DEF IInv
<1>2. Leaving(t) => goto_poweroff_flag(t)
  BY DEF GoodBud, Sound
<1>3. PairOK'
  <2> SUFFICES ASSUME linked PROVE PairOK'
    BY DEF PairOK
  <2>1. phone' = phone
    OBVIOUS
  <2>2. ASSUME NEW c \in Buds, Knows(c) PROVE Knows(c)'
    BY <1>1, <2>2 DEF Knows
  <2>3. (due # {} \/ \E c \in Buds : Running(bud[c]) /\ bud[c].reason = "NORMAL_TWS")'
          => (due # {} \/ \E c \in Buds : Running(bud[c]) /\ bud[c].reason = "NORMAL_TWS")
    BY <1>1
  <2>4. \A c, d \in Buds : Leaving(bud'[c]) /\ Running(bud'[d]) => goto_poweroff_flag(bud'[d])
    BY <1>1, <1>2 DEF IInv, PairOK
  <2>5. \A c \in Buds : bud'[c].detach # "wait_exit_btstack_flag"
    BY <1>1 DEF IInv, PairOK
  <2> QED BY <2>1, <2>2, <2>3, <2>4, <2>5 DEF IInv, PairOK
<1>4. PhoneOK'
  BY <1>1 DEF IInv, PhoneOK
<1> QED BY <1>1, <1>3, <1>4 DEF IInv

\* What the invariant says of one bud.
LEMMA OfBud ==
  ASSUME IInv, NEW b \in Buds
  PROVE  /\ bud[b] \in GoodBud /\ bud[b] \in Bud /\ Sound(bud[b])
         /\ Running(bud[b]) => Follows(b, bud[b], phone[b])
         /\ phone[b] \in BOOLEAN
BY PartnerLemma DEF IInv, GoodBud, Follows, PairOK, PhoneOK

LEMMA ImpatientLemma ==
  ASSUME IInv, NEW b \in Buds, Running(bud[b]), NEW limit \in Nat
  PROVE  Follows(b, Impatient(bud[b], limit), phone[b])
<1>1. CASE bud[b].cnt >= limit
  BY <1>1, DeadLemma DEF Impatient, Follows
<1>2. CASE ~(bud[b].cnt >= limit)
  <2> DEFINE t == [bud[b] EXCEPT !.cnt = @ + 1]
  <2>1. /\ t \in Bud
        /\ t.detach = bud[b].detach /\ t.reason = bud[b].reason /\ t.mode = bud[b].mode
        /\ t.fallback = bud[b].fallback /\ t.tone = bud[b].tone /\ t.retries = bud[b].retries
        /\ t.retryMsg = bud[b].retryMsg /\ t.queue = bud[b].queue
        /\ t.exiting = bud[b].exiting
        /\ t.wait_exit = bud[b].wait_exit /\ t.goodbye = bud[b].goodbye
        /\ t.busy = bud[b].busy /\ t.auto = bud[b].auto
    BY OfBud DEF Bud
  <2> HIDE DEF t
  <2>2. Follows(b, t, phone[b])
    BY <2>1, OfBud DEF Follows, GoodBud, Sound, Leaving, Carried, goto_poweroff_flag, Running,
                       Spared
  <2> QED BY <1>2, <2>2 DEF Impatient, t
<1> QED BY <1>1, <1>2

\* A message at the end of the queue; the rest of the bud stays.
LEMMA SendLemma ==
  ASSUME NEW s \in Bud, NEW m \in Messages
  PROVE  LET t == app_send_message(s, m) IN
         /\ t \in Bud
         /\ t.detach = s.detach /\ t.reason = s.reason /\ t.mode = s.mode
         /\ t.fallback = s.fallback /\ t.tone = s.tone /\ t.retries = s.retries
         /\ t.exiting = s.exiting
         /\ t.retryMsg = s.retryMsg /\ t.wait_exit = s.wait_exit /\ t.goodbye = s.goodbye
         /\ t.busy = s.busy /\ t.auto = s.auto
         /\ \A evs : Has(t.queue, evs) <=> Has(s.queue, evs) \/ m.ev \in evs
<1>1. s.queue \in Seq(Messages)
  BY DEF Bud
<1>2. /\ Append(s.queue, m) \in Seq(Messages)
      /\ \A evs : Has(Append(s.queue, m), evs) <=> Has(s.queue, evs) \/ m.ev \in evs
  BY <1>1, HasAppend
<1> QED BY <1>1, <1>2 DEF app_send_message, Bud

\* Passing a power-off on to the next stage: bud b gives up one of its timers or tones for
\* a message to itself.
LEMMA HandOver ==
  ASSUME IInv, NEW b \in Buds, Running(bud[b]), goto_poweroff_flag(bud[b]),
         NEW u \in Bud, NEW arg \in Gotos,
         u.detach \in {bud[b].detach, "none"}, u.reason = bud[b].reason, u.mode = bud[b].mode,
         u.queue = bud[b].queue, u.auto = bud[b].auto, u.goodbye = bud[b].goodbye,
         u.exiting = bud[b].exiting,
         u.busy => bud[b].busy, u.wait_exit = bud[b].wait_exit, u.retryMsg = bud[b].retryMsg,
         u.retries > 0 => bud[b].retries > 0,
         NEW on \in BOOLEAN, ~on,
         linked => \A c \in Buds \ {b} : Running(bud[c]) => goto_poweroff_flag(bud[c])
  PROVE  ~u.busy => Follows(b, GotoIdle(u, arg), on)
<1> DEFINE m == Msg(arg, FALSE)
           t == app_send_message(u, m)
<1>1. m \in Messages /\ m.ev = arg /\ ~Enables(m)
  BY DEF Msg, Messages, Gotos, Enables
<1> HIDE DEF m
<1>2. /\ t \in Bud
      /\ t.detach = u.detach /\ t.reason = u.reason /\ t.mode = u.mode
      /\ t.fallback = u.fallback /\ t.tone = u.tone /\ t.retries = u.retries
      /\ t.exiting = u.exiting
      /\ t.retryMsg = u.retryMsg /\ t.wait_exit = u.wait_exit /\ t.goodbye = u.goodbye
      /\ t.busy = u.busy /\ t.auto = u.auto
      /\ \A evs : Has(t.queue, evs) <=> Has(u.queue, evs) \/ m.ev \in evs
  BY <1>1, SendLemma
<1> HIDE DEF t
<1>3. Has(t.queue, Gotos) /\ Carried(t)
  BY <1>1, <1>2 DEF Carried
<1>4. bud[b].mode = "idle" => t.goodbye \/ Has(t.queue, {"SOFT_POWEROFF"})
  BY <1>2, OfBud DEF Sound
<1>5. Sound(t)
  BY <1>2, <1>3, <1>4, OfBud DEF Sound, goto_poweroff_flag
<1>6. ~u.busy => Follows(b, t, on)
  BY <1>2, <1>3, <1>5, OfBud DEF Follows, GoodBud, Running, goto_poweroff_flag
<1> QED BY <1>6 DEF GotoIdle, m, t

\* A bud that leaves: its stage may be handed over.
LEMMA LeavingFacts ==
  ASSUME IInv, NEW b \in Buds, Running(bud[b]), Leaving(bud[b])
  PROVE  /\ goto_poweroff_flag(bud[b]) /\ ~phone[b] /\ ~bud[b].busy
         /\ linked => \A c \in Buds \ {b} : Running(bud[c]) => goto_poweroff_flag(bud[c])
BY OfBud DEF Follows, Sound, IInv, PhoneOK

LEMMA SlaveStep ==
  ASSUME IInv, NEW b \in Buds, tws_slave_power_off(b)
  PROVE  IInv'
<1> DEFINE u == [bud[b] EXCEPT !.fallback = FALSE]
<1>1. /\ u \in Bud /\ u.detach = bud[b].detach /\ u.reason = bud[b].reason
      /\ u.mode = bud[b].mode /\ u.queue = bud[b].queue /\ u.auto = bud[b].auto
      /\ u.exiting = bud[b].exiting
      /\ u.goodbye = bud[b].goodbye /\ u.busy = bud[b].busy /\ u.wait_exit = bud[b].wait_exit
      /\ u.retryMsg = bud[b].retryMsg /\ u.retries = bud[b].retries
  BY OfBud, ZenonT(60) DEF Bud
<1>2. Running(bud[b]) /\ Leaving(bud[b])
  BY DEF tws_slave_power_off, Leaving, Carried
<1>3. bud' = [bud EXCEPT ![b] = GotoIdle(u, "PLAY_POWEROFF")]
  BY DEF tws_slave_power_off
<1> HIDE DEF u
<1>4. Follows(b, GotoIdle(u, "PLAY_POWEROFF"), phone[b])
  BY <1>1, <1>2, LeavingFacts, HandOver, OfBud DEF Gotos
<1> QED BY <1>3, <1>4, StepOne DEF tws_slave_power_off

LEMMA ToneStep ==
  ASSUME IInv, NEW b \in Buds, ToneStops(b)
  PROVE  IInv'
<1> DEFINE u == [bud[b] EXCEPT !.tone = FALSE]
<1>1. /\ u \in Bud /\ u.detach = bud[b].detach /\ u.reason = bud[b].reason
      /\ u.mode = bud[b].mode /\ u.queue = bud[b].queue /\ u.auto = bud[b].auto
      /\ u.exiting = bud[b].exiting
      /\ u.goodbye = bud[b].goodbye /\ u.busy = bud[b].busy /\ u.wait_exit = bud[b].wait_exit
      /\ u.retryMsg = bud[b].retryMsg /\ u.retries = bud[b].retries
  BY OfBud, ZenonT(60) DEF Bud
<1>2. Running(bud[b]) /\ Leaving(bud[b])
  BY DEF ToneStops, Leaving, Carried
<1>3. bud' = [bud EXCEPT ![b] = GotoIdle(u, "POWEROFF")]
  BY DEF ToneStops
<1> HIDE DEF u
<1>4. Follows(b, GotoIdle(u, "POWEROFF"), phone[b])
  BY <1>1, <1>2, LeavingFacts, HandOver, OfBud DEF Gotos
<1> QED BY <1>3, <1>4, StepOne DEF ToneStops

LEMMA RetryStep ==
  ASSUME IInv, NEW b \in Buds, retry_goto_mode(b)
  PROVE  IInv'
<1> DEFINE n == bud[b].retries - 1
           u == [bud[b] EXCEPT !.retries = n]
<1>0. bud[b].retries \in Nat /\ bud[b].retries > 0 /\ n \in Nat
  BY OfBud DEF Bud, retry_goto_mode
<1>1. /\ u \in Bud /\ u.detach = bud[b].detach /\ u.reason = bud[b].reason
      /\ u.mode = bud[b].mode /\ u.queue = bud[b].queue /\ u.auto = bud[b].auto
      /\ u.exiting = bud[b].exiting
      /\ u.goodbye = bud[b].goodbye /\ u.busy = bud[b].busy /\ u.wait_exit = bud[b].wait_exit
      /\ u.retryMsg = bud[b].retryMsg
  <2> HIDE DEF n
  <2> QED BY <1>0, OfBud DEF Bud
<1>2. Running(bud[b]) /\ Leaving(bud[b]) /\ bud[b].retryMsg \in Gotos
  BY <1>0, OfBud DEF retry_goto_mode, Leaving, Carried, Sound
<1>3. bud' = [bud EXCEPT ![b] = GotoIdle(u, bud[b].retryMsg)]
  BY DEF retry_goto_mode
<1> HIDE DEF u
<1>4. Follows(b, GotoIdle(u, bud[b].retryMsg), phone[b])
  BY <1>0, <1>1, <1>2, LeavingFacts, HandOver, OfBud
<1> QED BY <1>3, <1>4, StepOne DEF retry_goto_mode

\* Waiting for the sibling to detach, up to the limit of ticks.
LEMMA WaitSiblingStep ==
  ASSUME IInv, NEW b \in Buds, wait_tws_detach_handler(b)
  PROVE  IInv'
<1>0. Running(bud[b]) /\ bud[b].detach = "wait_tws_detach_handler"
      /\ UNCHANGED <<linked, master, phone, due>>
  BY DEF wait_tws_detach_handler
<1>1. CASE linked
  <2>1. bud' = [bud EXCEPT ![b] = Impatient(bud[b], DetachLimit)]
    BY <1>1 DEF wait_tws_detach_handler
  <2>2. Follows(b, Impatient(bud[b], DetachLimit), phone[b])
    BY <1>0, ImpatientLemma, PoweroffAssumption
  <2> QED BY <1>0, <2>1, <2>2, StepOne
<1>2. CASE ~linked
  <2> DEFINE t == [bud[b] EXCEPT !.cnt = 0, !.detach = "wait_exit_btstack_flag"]
  <2>1. bud' = [bud EXCEPT ![b] = t]
    BY <1>2 DEF wait_tws_detach_handler
  <2>2. /\ t \in Bud
        /\ t.detach = "wait_exit_btstack_flag" /\ t.reason = bud[b].reason
        /\ t.fallback = bud[b].fallback /\ t.tone = bud[b].tone /\ t.retries = bud[b].retries
        /\ t.retryMsg = bud[b].retryMsg /\ t.queue = bud[b].queue /\ t.mode = bud[b].mode
        /\ t.exiting = bud[b].exiting
        /\ t.wait_exit = bud[b].wait_exit /\ t.goodbye = bud[b].goodbye
        /\ t.busy = bud[b].busy /\ t.auto = bud[b].auto
    BY OfBud, ZenonT(60) DEF Bud, Waits
  <2> HIDE DEF t
  <2>3. Follows(b, t, phone[b])
    BY <1>0, <1>2, <2>2, OfBud DEF Follows, GoodBud, Sound, Leaving, Carried,
                                   goto_poweroff_flag, Running, Spared
  <2> QED BY <1>0, <2>1, <2>3, StepOne
<1> QED BY <1>1, <1>2

\* lmp_hci_reset: the bud, which is alone, loses its phone before it leaves.
LEMMA WaitStackStep ==
  ASSUME IInv, NEW b \in Buds, wait_exit_btstack_flag(b)
  PROVE  IInv'
<1>0. /\ Running(bud[b]) /\ bud[b].detach = "wait_exit_btstack_flag" /\ ~linked
      /\ UNCHANGED <<linked, master, due>>
      /\ bud[b].reason \in {"NORMAL", "RESET", "POWER_KEEP"}
      /\ goto_poweroff_flag(bud[b])
  <2>1. Running(bud[b]) /\ bud[b].detach = "wait_exit_btstack_flag"
        /\ UNCHANGED <<linked, master, due>>
    BY DEF wait_exit_btstack_flag
  <2>2. bud[b].reason \in {"NORMAL", "RESET", "POWER_KEEP"} /\ ~linked
    BY <2>1, OfBud DEF Sound, IInv, PairOK
  <2> QED BY <2>1, <2>2 DEF goto_poweroff_flag
<1>1. CASE bud' = [bud EXCEPT ![b] = Impatient(bud[b], BusyLimit)] /\ phone' = phone
  <2>1. Follows(b, Impatient(bud[b], BusyLimit), phone[b])
    BY <1>0, ImpatientLemma, PoweroffAssumption
  <2> QED BY <1>0, <1>1, <2>1, StepOne
<1>2. CASE /\ phone' = [phone EXCEPT ![b] = FALSE]
           /\ \E t \in Finishes([Stop(bud[b]) EXCEPT !.busy = FALSE]) :
                bud' = [bud EXCEPT ![b] = t]
  <2> DEFINE u == [Stop(bud[b]) EXCEPT !.busy = FALSE]
  <2>1. PICK t \in Finishes(u) : bud' = [bud EXCEPT ![b] = t]
    BY <1>2
  <2>2. /\ u \in Bud /\ u.detach = "none" /\ u.reason = bud[b].reason
        /\ u.mode = bud[b].mode /\ u.queue = bud[b].queue /\ u.auto = bud[b].auto
        /\ u.exiting = bud[b].exiting
        /\ u.goodbye = bud[b].goodbye /\ u.busy = FALSE /\ u.wait_exit = bud[b].wait_exit
        /\ u.retryMsg = bud[b].retryMsg /\ u.retries = bud[b].retries
    BY OfBud, ZenonT(60) DEF Bud, Stop
  <2> HIDE DEF u
  <2>3. t \in {GotoIdle(u, "PLAY_POWEROFF"), cpu_reset(u), power_set_soft_poweroff(u)}
    BY <1>0, <2>2 DEF Finishes
  <2>4. phone'[b] = FALSE
    BY <1>2, OfBud DEF IInv
  <2>5. Follows(b, GotoIdle(u, "PLAY_POWEROFF"), FALSE)
    BY <1>0, <2>2, HandOver DEF Gotos
  <2>6. Follows(b, cpu_reset(u), FALSE) /\ Follows(b, power_set_soft_poweroff(u), FALSE)
    BY DeadLemma DEF Follows
  <2>7. Follows(b, t, phone'[b])
    BY <2>3, <2>4, <2>5, <2>6
  <2> QED BY <1>0, <1>2, <2>1, <2>7, StepOne
<1> QED BY <1>1, <1>2 DEF wait_exit_btstack_flag

\* Once a tick of the pair's power-off comes, the sibling is powering off as well.
LEMMA SiblingKnows ==
  ASSUME IInv, NEW b \in Buds, Running(bud[b]), bud[b].detach = "power_off_at_same_time",
         \A c \in Buds : <<c, Partner(b)>> \notin due
  PROVE  /\ goto_poweroff_flag(bud[b])
         /\ linked => \A c \in Buds : Running(bud[c]) => goto_poweroff_flag(bud[c])
<1>1. bud[b].reason = "NORMAL_TWS"
  BY OfBud DEF Sound
<1>2. linked => Knows(Partner(b))
  BY <1>1, PartnerLemma DEF IInv, PairOK
<1> QED BY <1>1, <1>2, PartnerLemma DEF Knows, goto_poweroff_flag

\* The tone starts on both buds, or on the master only.
LEMMA TogetherStep ==
  ASSUME IInv, NEW b \in Buds, Running(bud[b]), goto_poweroff_flag(bud[b]),
         ~phone[b], linked, PlayTogether(b),
         \A c \in Buds : Running(bud[c]) => goto_poweroff_flag(bud[c]),
         UNCHANGED <<linked, master, phone, due>>
  PROVE  IInv'
<1> DEFINE t(c) == [Stop(bud[c]) EXCEPT !.tone = TRUE]
           u(c) == [bud[c] EXCEPT !.tone = TRUE]
<1>1. \A c \in Buds : ~phone[c]
  BY DEF IInv, PairOK
<1>2. /\ bud' \in [Buds -> {bud[c] : c \in Buds} \cup {t(c) : c \in Buds} \cup {u(c) : c \in Buds}]
      /\ \A c \in Buds : \/ bud'[c] = bud[c]
                         \/ Running(bud[c]) /\ bud'[c] \in {t(c), u(c)}
  BY DEF PlayTogether
<1>3. ASSUME NEW c \in Buds, Running(bud[c]), NEW x \in {t(c), u(c)}
      PROVE  /\ x \in GoodBud
             /\ x.reason = bud[c].reason /\ x.mode = bud[c].mode
             /\ x.busy = bud[c].busy /\ x.detach \in {bud[c].detach, "none"}
  <2>1. /\ x \in Bud /\ x.tone = TRUE
        /\ x.detach \in {bud[c].detach, "none"} /\ x.reason = bud[c].reason
        /\ x.mode = bud[c].mode /\ x.fallback = bud[c].fallback /\ x.retries = bud[c].retries
        /\ x.retryMsg = bud[c].retryMsg /\ x.queue = bud[c].queue
        /\ x.exiting = bud[c].exiting
        /\ x.wait_exit = bud[c].wait_exit /\ x.goodbye = bud[c].goodbye
        /\ x.busy = bud[c].busy
    <3>0. bud[c] \in Bud
      BY OfBud
    <3>1. CASE x = t(c)
      BY <3>0, <3>1 DEF Bud, Stop, t
    <3>2. CASE x = u(c)
      BY <3>0, <3>2 DEF Bud, u
    <3> HIDE DEF t, u
    <3> QED BY <1>3, <3>1, <3>2
  <2>2. Sound(x)
    BY <1>3, <2>1, OfBud DEF Sound, Leaving, Carried, goto_poweroff_flag
  <2> QED BY <2>1, <2>2 DEF GoodBud
<1> HIDE DEF t, u
<1>4. \A c \in Buds : /\ bud'[c] \in GoodBud
                      /\ bud'[c].reason = bud[c].reason /\ bud'[c].mode = bud[c].mode
                      /\ bud'[c].busy = bud[c].busy
                      /\ bud'[c].detach \in {bud[c].detach, "none"}
  BY <1>2, <1>3, OfBud
<1>5. bud' \in [Buds -> GoodBud]
  BY <1>2, <1>4
<1>6. \A c \in Buds : Running(bud'[c]) => goto_poweroff_flag(bud'[c])
  BY <1>4 DEF Running, goto_poweroff_flag
<1>7. PairOK'
  BY <1>4, <1>6 DEF IInv, PairOK, Knows
<1>8. PhoneOK'
  BY <1>1, <1>4 DEF IInv, PhoneOK
<1> QED BY <1>5, <1>7, <1>8 DEF IInv

LEMMA SameTimeStep ==
  ASSUME IInv, NEW b \in Buds, power_off_at_same_time(b)
  PROVE  IInv'
<1>0. /\ Running(bud[b]) /\ bud[b].detach = "power_off_at_same_time"
      /\ \A c \in Buds : <<c, Partner(b)>> \notin due
      /\ UNCHANGED <<linked, master, phone, due>>
  BY DEF power_off_at_same_time
<1>1. /\ goto_poweroff_flag(bud[b]) /\ bud[b].reason = "NORMAL_TWS"
      /\ linked => \A c \in Buds : Running(bud[c]) => goto_poweroff_flag(bud[c])
  BY <1>0, SiblingKnows, OfBud DEF Sound
<1>2. CASE bud' = [bud EXCEPT ![b] = Impatient(bud[b], BusyLimit)]
  <2>1. Follows(b, Impatient(bud[b], BusyLimit), phone[b])
    BY <1>0, ImpatientLemma, PoweroffAssumption
  <2> QED BY <1>0, <1>2, <2>1, StepOne
<1>3. CASE PhoneGone(b) /\ linked /\ PlayTogether(b)
  BY <1>0, <1>1, <1>3, TogetherStep DEF PhoneGone
<1>4. CASE PhoneGone(b) /\ bud' = [bud EXCEPT ![b] = SlaveWaits(bud[b])]
  <2> DEFINE t == SlaveWaits(bud[b])
  <2>1. /\ t \in Bud
        /\ t.detach = "none" /\ t.reason = bud[b].reason /\ t.fallback = TRUE
        /\ t.tone = bud[b].tone /\ t.retries = bud[b].retries
        /\ t.retryMsg = bud[b].retryMsg /\ t.queue = bud[b].queue /\ t.mode = bud[b].mode
        /\ t.exiting = bud[b].exiting
        /\ t.wait_exit = bud[b].wait_exit /\ t.goodbye = bud[b].goodbye
        /\ t.busy = bud[b].busy /\ t.auto = bud[b].auto
    BY OfBud, ZenonT(60) DEF Bud, SlaveWaits, Stop
  <2> HIDE DEF t
  <2>2. Follows(b, t, phone[b])
    BY <1>0, <1>1, <1>4, <2>1, OfBud DEF Follows, GoodBud, Sound, Leaving, Carried,
                                   goto_poweroff_flag, Running, Spared, PhoneGone
  <2> QED BY <1>0, <1>4, <2>2, StepOne DEF t
<1>5. CASE PhoneGone(b) /\ bud' = [bud EXCEPT ![b] = GotoIdle(Stop(bud[b]), "PLAY_POWEROFF")]
  <2> DEFINE u == Stop(bud[b])
  <2>1. /\ u \in Bud /\ u.detach = "none" /\ u.reason = bud[b].reason
        /\ u.mode = bud[b].mode /\ u.queue = bud[b].queue /\ u.auto = bud[b].auto
        /\ u.exiting = bud[b].exiting
        /\ u.goodbye = bud[b].goodbye /\ u.busy = bud[b].busy /\ u.wait_exit = bud[b].wait_exit
        /\ u.retryMsg = bud[b].retryMsg /\ u.retries = bud[b].retries
    BY OfBud DEF Bud, Stop
  <2> HIDE DEF u
  <2>2. ~u.busy /\ phone[b] = FALSE
    BY <1>5, <2>1, OfBud DEF IInv, PhoneOK, PhoneGone
  <2>3. Follows(b, GotoIdle(u, "PLAY_POWEROFF"), phone[b])
    BY <1>0, <1>1, <2>1, <2>2, HandOver DEF Gotos
  <2> QED BY <1>0, <1>5, <2>3, StepOne DEF u
<1> QED BY <1>2, <1>3, <1>4, <1>5 DEF power_off_at_same_time

-----------------------------------------------------------------------------
(* Messages. *)

\* The bud without the message it handles.
LEMMA TakenLemma ==
  ASSUME NEW s \in Bud, s.queue # << >>
  PROVE  LET t == [s EXCEPT !.queue = Tail(@)] IN
         /\ t \in Bud /\ Head(s.queue) \in Messages /\ t.queue = Tail(s.queue)
         /\ t.detach = s.detach /\ t.reason = s.reason /\ t.mode = s.mode
         /\ t.fallback = s.fallback /\ t.tone = s.tone /\ t.retries = s.retries
         /\ t.retryMsg = s.retryMsg /\ t.wait_exit = s.wait_exit /\ t.goodbye = s.goodbye
         /\ t.busy = s.busy /\ t.auto = s.auto /\ t.exiting = s.exiting
         /\ \A evs : Has(s.queue, evs) <=> Head(s.queue).ev \in evs \/ Has(t.queue, evs)
<1>1. s.queue \in Seq(Messages)
  BY DEF Bud
<1>2. /\ Head(s.queue) \in Messages /\ Tail(s.queue) \in Seq(Messages)
      /\ \A evs : Has(s.queue, evs) <=> Head(s.queue).ev \in evs \/ Has(Tail(s.queue), evs)
  BY <1>1, HasTail
<1> QED BY <1>1, <1>2 DEF Bud

\* bt_mode_try_exit moves wait_exit only, one round at a time.
LEMMA TryExitLemma ==
  ASSUME NEW s \in Bud, s.mode = "bt", s.wait_exit <= 3
  PROVE  LET t == TryExit(s) IN
         /\ t \in Bud /\ t.wait_exit > 0 /\ t.queue = s.queue
         /\ t.detach = s.detach /\ t.reason = s.reason /\ t.mode = s.mode
         /\ t.fallback = s.fallback /\ t.tone = s.tone /\ t.retries = s.retries
         /\ t.retryMsg = s.retryMsg /\ t.goodbye = s.goodbye /\ t.busy = s.busy
<1>1. CASE s.wait_exit = 0
  <2> DEFINE n == 1
  <2>1. TryExit(s) = [s EXCEPT !.wait_exit = n, !.exiting = TRUE, !.auto = "none"]
    BY <1>1 DEF TryExit
  <2>2. n \in 0 .. 4 /\ n > 0
    OBVIOUS
  <2> HIDE DEF n
  <2> QED BY <2>1, <2>2 DEF Bud
<1>2. CASE s.wait_exit # 0 /\ s.exiting
  BY <1>2 DEF TryExit, Bud
<1>3. CASE s.wait_exit # 0 /\ ~s.exiting
  <2> DEFINE n == s.wait_exit + 1
  <2>1. n \in 0 .. 4 /\ n > 0
    BY <1>3 DEF Bud
  <2>2. TryExit(s) = [s EXCEPT !.wait_exit = n]
    BY <1>3 DEF TryExit
  <2> HIDE DEF n
  <2> QED BY <2>1, <2>2 DEF Bud
<1> QED BY <1>1, <1>2, <1>3 DEF Bud

\* The mode switch of a bud that powers off: it goes on, or arms a retry.
LEMMA SwitchLemma ==
  ASSUME NEW s \in Bud, goto_poweroff_flag(s), ~s.busy,
         NEW arg \in Gotos, Running(s),
         s.detach = "power_off_at_same_time" => s.reason = "NORMAL_TWS",
         s.detach \in {"wait_tws_detach_handler", "wait_exit_btstack_flag"} =>
           s.reason \in {"NORMAL", "RESET", "POWER_KEEP"},
         s.mode = "bt" => s.wait_exit <= 3,
         s.mode = "idle" => s.wait_exit > 0 /\ (s.goodbye \/ Has(s.queue, {"SOFT_POWEROFF"})),
         s.retries > 0 => s.retryMsg \in Gotos,
         NEW t \in SwitchMode(s, arg)
  PROVE  /\ t \in GoodBud /\ goto_poweroff_flag(t) /\ t.reason = s.reason /\ ~t.busy
         /\ Running(t) /\ t.detach = s.detach
<1>1. CASE s.mode = "idle"
  BY <1>1 DEF SwitchMode, GoodBud, Sound, Leaving, Running
<1>2. CASE s.mode = "bt"
  <2> DEFINE u == TryExit(s)
  <2>1. /\ u \in Bud /\ u.wait_exit > 0 /\ u.queue = s.queue
        /\ u.detach = s.detach /\ u.reason = s.reason /\ u.mode = "bt"
        /\ u.fallback = s.fallback /\ u.tone = s.tone /\ u.retries = s.retries
        /\ u.retryMsg = s.retryMsg /\ u.goodbye = s.goodbye /\ u.busy = FALSE
    BY <1>2, TryExitLemma DEF Bud
  <2>2. t \in IF u.wait_exit <= 3 THEN {Retry(u, arg)} ELSE idle_mode_enter(u, arg)
    <3>1. u.wait_exit \in 0 .. 4
      BY <2>1 DEF Bud
    <3> HIDE DEF u
    <3> QED BY <1>2, <3>1 DEF SwitchMode, u
  <2> HIDE DEF u
  <2>3. CASE u.wait_exit <= 3
    <3> DEFINE n == u.retries + 1
    <3>1. n \in Nat /\ n > 0
      BY <2>1 DEF Bud
    <3>2. t = [u EXCEPT !.retries = n, !.retryMsg = arg]
      BY <2>2, <2>3 DEF Retry
    <3> HIDE DEF n
    <3>3. /\ t \in Bud /\ t.retries = n /\ t.retryMsg = arg /\ t.queue = u.queue
          /\ t.detach = u.detach /\ t.reason = u.reason /\ t.mode = "bt"
          /\ t.wait_exit = u.wait_exit /\ t.busy = FALSE
      BY <2>1, <3>1, <3>2 DEF Bud, Gotos
    <3> QED BY <2>1, <2>3, <3>1, <3>3 DEF GoodBud, Sound, Leaving, Carried, goto_poweroff_flag,
                                          Running
  <2>4. CASE ~(u.wait_exit <= 3)
    <3> DEFINE f == [u EXCEPT !.mode = "idle", !.queue = << >>]
               g == [f EXCEPT !.goodbye = TRUE]
               m == Msg("SOFT_POWEROFF", FALSE)
    <3>1. goto_poweroff_flag(u) /\ m \in Messages /\ m.ev = "SOFT_POWEROFF"
      BY <2>1 DEF goto_poweroff_flag, Msg, Messages
    <3>2. t = g \/ t = app_send_message(f, m)
      BY <2>2, <2>4, <3>1 DEF idle_mode_enter, SendSoftPoweroff, Gotos
    <3>3. /\ f \in Bud /\ f.detach = u.detach /\ f.reason = u.reason /\ f.mode = "idle"
          /\ f.retries = u.retries /\ f.retryMsg = u.retryMsg /\ f.wait_exit = u.wait_exit
          /\ f.busy = FALSE
      BY <2>1, HasEmpty DEF Bud
    <3>4. /\ g \in Bud /\ g.detach = u.detach /\ g.reason = u.reason /\ g.mode = "idle"
          /\ g.retries = u.retries /\ g.retryMsg = u.retryMsg /\ g.wait_exit = u.wait_exit
          /\ g.busy = FALSE /\ g.goodbye = TRUE
      BY <2>1, HasEmpty DEF Bud
    <3> HIDE DEF f, g, m
    <3>5. t \in Bud /\ t.detach = u.detach /\ t.reason = u.reason /\ t.mode = "idle"
          /\ t.retries = u.retries /\ t.retryMsg = u.retryMsg /\ t.wait_exit = u.wait_exit
          /\ t.busy = FALSE /\ (t.goodbye \/ Has(t.queue, {"SOFT_POWEROFF"}))
      <4>1. CASE t = g
        BY <3>4, <4>1
      <4>2. CASE t = app_send_message(f, m)
        BY <3>1, <3>3, <4>2, SendLemma
      <4> QED BY <3>2, <4>1, <4>2
    <3> QED BY <2>1, <3>5 DEF GoodBud, Sound, Leaving, Running, goto_poweroff_flag
  <2> QED BY <2>3, <2>4
<1> QED BY <1>1, <1>2 DEF Running

LEMMA GotoStep ==
  ASSUME IInv, NEW b \in Buds, Running(bud[b]), bud[b].queue # << >>,
         Head(bud[b].queue).ev \in Gotos,
         NEW t \in SwitchMode([bud[b] EXCEPT !.queue = Tail(@)], Head(bud[b].queue).ev)
  PROVE  Follows(b, t, phone[b])
<1> DEFINE s == [bud[b] EXCEPT !.queue = Tail(@)]
           m == Head(bud[b].queue)
<1>1. /\ s \in Bud /\ m \in Messages
      /\ s.detach = bud[b].detach /\ s.reason = bud[b].reason /\ s.mode = bud[b].mode
      /\ s.retries = bud[b].retries /\ s.retryMsg = bud[b].retryMsg
      /\ s.wait_exit = bud[b].wait_exit /\ s.goodbye = bud[b].goodbye /\ s.busy = bud[b].busy
      /\ \A evs : Has(bud[b].queue, evs) <=> m.ev \in evs \/ Has(s.queue, evs)
  BY OfBud, TakenLemma
<1>2. t \in SwitchMode(s, m.ev) /\ m.ev \in Gotos
  OBVIOUS
<1> HIDE DEF s, m
<1>3. Leaving(bud[b])
  BY <1>1, <1>2 DEF Leaving, Carried
<1>4. /\ goto_poweroff_flag(bud[b]) /\ ~phone[b] /\ ~bud[b].busy
      /\ linked => \A c \in Buds \ {b} : Running(bud[c]) => goto_poweroff_flag(bud[c])
  BY <1>3, LeavingFacts
<1>5. s.mode = "idle" => s.wait_exit > 0 /\ (s.goodbye \/ Has(s.queue, {"SOFT_POWEROFF"}))
  BY <1>1, <1>2, OfBud DEF Sound, Gotos
<1>6. /\ t \in GoodBud /\ goto_poweroff_flag(t) /\ t.reason = s.reason /\ ~t.busy
      /\ Running(t) /\ t.detach = s.detach
  <2>1. goto_poweroff_flag(s) /\ Running(s) /\ ~s.busy
    BY <1>1, <1>4 DEF goto_poweroff_flag, Running
  <2>2. /\ s.detach = "power_off_at_same_time" => s.reason = "NORMAL_TWS"
        /\ s.detach \in {"wait_tws_detach_handler", "wait_exit_btstack_flag"} =>
             s.reason \in {"NORMAL", "RESET", "POWER_KEEP"}
        /\ s.mode = "bt" => s.wait_exit <= 3
        /\ s.retries > 0 => s.retryMsg \in Gotos
    BY <1>1, OfBud DEF Sound
  <2> QED BY <1>1, <1>2, <1>5, <2>1, <2>2, SwitchLemma
<1> QED BY <1>1, <1>4, <1>6, OfBud DEF Follows

LEMMA SoftStep ==
  ASSUME IInv, NEW b \in Buds, Running(bud[b]), bud[b].queue # << >>,
         Head(bud[b].queue).ev = "SOFT_POWEROFF",
         NEW t \in SoftPoweroff([bud[b] EXCEPT !.queue = Tail(@)])
  PROVE  Follows(b, t, phone[b])
<1> DEFINE s == [bud[b] EXCEPT !.queue = Tail(@)]
           m == Head(bud[b].queue)
<1>1. /\ s \in Bud /\ m \in Messages /\ s.queue = Tail(bud[b].queue)
      /\ s.detach = bud[b].detach /\ s.reason = bud[b].reason /\ s.mode = bud[b].mode
      /\ s.fallback = bud[b].fallback /\ s.tone = bud[b].tone /\ s.retries = bud[b].retries
      /\ s.exiting = bud[b].exiting
      /\ s.retryMsg = bud[b].retryMsg /\ s.wait_exit = bud[b].wait_exit
      /\ s.goodbye = bud[b].goodbye /\ s.busy = bud[b].busy /\ s.auto = bud[b].auto
      /\ \A evs : Has(bud[b].queue, evs) <=> m.ev \in evs \/ Has(s.queue, evs)
  BY OfBud, TakenLemma
<1>2. t \in SoftPoweroff(s) /\ m.ev = "SOFT_POWEROFF"
  OBVIOUS
<1>3. Spared(bud[b]) => Spared(s)
  <2>1. ~Disables(m) /\ s.queue = Tail(bud[b].queue) /\ s.auto = bud[b].auto
    BY <1>1, <1>2 DEF Disables
  <2> HIDE DEF s
  <2> QED BY <1>1, <2>1, OfBud, SparedTail
<1> HIDE DEF s, m
<1>4. CASE s.mode = "idle" /\ goto_poweroff_flag(s)
  BY <1>2, <1>4, DeadLemma DEF SoftPoweroff, Follows
<1>5. CASE ~(s.mode = "idle" /\ goto_poweroff_flag(s))
  <2>1. t = s
    BY <1>2, <1>5 DEF SoftPoweroff
  <2>2. s.mode = "bt"
    BY <1>1, <1>5, OfBud DEF Sound, Leaving, Running, goto_poweroff_flag
  <2>3. Carried(s) <=> Carried(bud[b])
    BY <1>1, <1>2 DEF Carried, Gotos
  <2>4. Sound(s)
    BY <1>1, <2>2, <2>3, OfBud DEF Sound, Leaving, goto_poweroff_flag
  <2> QED BY <1>1, <1>3, <2>1, <2>3, <2>4, OfBud DEF Follows, GoodBud, Leaving, Running,
                                                    goto_poweroff_flag
<1> QED BY <1>4, <1>5

\* The messages that arm and disarm the auto-off timer.
LEMMA AutoOffStep ==
  ASSUME IInv, NEW b \in Buds, Running(bud[b]), bud[b].queue # << >>,
         Head(bud[b].queue).ev \notin Gotos \cup {"SOFT_POWEROFF"}
  PROVE  Follows(b, AutoOffMsg([bud[b] EXCEPT !.queue = Tail(@)], Head(bud[b].queue)), phone[b])
<1> DEFINE s == [bud[b] EXCEPT !.queue = Tail(@)]
           m == Head(bud[b].queue)
           t == AutoOffMsg(s, m)
<1>1. /\ s \in Bud /\ m \in Messages /\ s.queue = Tail(bud[b].queue)
      /\ s.detach = bud[b].detach /\ s.reason = bud[b].reason /\ s.mode = bud[b].mode
      /\ s.fallback = bud[b].fallback /\ s.tone = bud[b].tone /\ s.retries = bud[b].retries
      /\ s.exiting = bud[b].exiting
      /\ s.retryMsg = bud[b].retryMsg /\ s.wait_exit = bud[b].wait_exit
      /\ s.goodbye = bud[b].goodbye /\ s.busy = bud[b].busy /\ s.auto = bud[b].auto
      /\ \A evs : Has(bud[b].queue, evs) <=> m.ev \in evs \/ Has(s.queue, evs)
  BY OfBud, TakenLemma
<1>2. m.ev \in {"FIRST_CONNECTED", "MONITOR_START", "TWS_CONNECTED", "IN_PAIRING_MODE"}
  BY <1>1 DEF Messages
<1> HIDE DEF s, m
<1>3. \E a \in {"none", "armed", s.auto} :
        /\ t = [s EXCEPT !.auto = a]
        /\ a = "armed" => Enables(m) \/ (s.auto = "armed" /\ ~Disables(m))
  <2>1. s.auto \in {"none", "armed", "stale"} /\ s = [s EXCEPT !.auto = s.auto]
    BY <1>1 DEF Bud
  <2>2. sys_auto_shut_down_disable(s) = [s EXCEPT !.auto = "none"]
    BY DEF sys_auto_shut_down_disable
  <2>3. \E a \in {"armed", s.auto} : sys_auto_shut_down_enable(s) = [s EXCEPT !.auto = a]
    BY DEF sys_auto_shut_down_enable
  <2>4. sys_auto_shut_down_enable(sys_auto_shut_down_disable(s)) = [s EXCEPT !.auto = "armed"]
    BY <1>1 DEF sys_auto_shut_down_enable, sys_auto_shut_down_disable, Bud
  <2>5. CASE m.ev = "IN_PAIRING_MODE"
    BY <2>1, <2>3, <2>5 DEF AutoOffMsg, Enables, Disables
  <2>6. CASE m.ev \in {"FIRST_CONNECTED", "MONITOR_START"}
    BY <2>2, <2>6 DEF AutoOffMsg
  <2>7. CASE m.ev = "TWS_CONNECTED"
    BY <2>1, <2>4, <2>7 DEF AutoOffMsg, Enables, Disables
  <2> QED BY <1>2, <2>5, <2>6, <2>7
<1>4. PICK a \in {"none", "armed", s.auto} :
        /\ t = [s EXCEPT !.auto = a]
        /\ a = "armed" => Enables(m) \/ (s.auto = "armed" /\ ~Disables(m))
  BY <1>3
<1> HIDE DEF t
<1>5. /\ t \in Bud /\ t.auto = a /\ t.queue = s.queue
      /\ t.detach = bud[b].detach /\ t.reason = bud[b].reason /\ t.mode = bud[b].mode
      /\ t.fallback = bud[b].fallback /\ t.tone = bud[b].tone /\ t.retries = bud[b].retries
      /\ t.exiting = bud[b].exiting
      /\ t.retryMsg = bud[b].retryMsg /\ t.wait_exit = bud[b].wait_exit
      /\ t.goodbye = bud[b].goodbye /\ t.busy = bud[b].busy
  BY <1>1, <1>4 DEF Bud
<1>6. Spared(bud[b]) => Spared(t)
  <2>1. \/ t.auto = "armed" => Enables(m)
        \/ t.auto = "armed" => bud[b].auto = "armed" /\ ~Disables(m)
    BY <1>1, <1>4, <1>5
  <2>2. t.queue = Tail(bud[b].queue)
    BY <1>1, <1>5
  <2> QED BY <1>5, <2>1, <2>2, OfBud, SparedTail DEF m
<1>7. \A evs \in {Gotos, {"SOFT_POWEROFF"}} : Has(t.queue, evs) <=> Has(bud[b].queue, evs)
  BY <1>1, <1>2, <1>5 DEF Gotos
<1>8. Sound(t) /\ (Leaving(t) <=> Leaving(bud[b]))
  BY <1>5, <1>7, OfBud DEF Sound, Leaving, Carried, goto_poweroff_flag
<1>9. Follows(b, t, phone[b])
  BY <1>5, <1>6, <1>8, OfBud DEF Follows, GoodBud, Running, goto_poweroff_flag
<1> QED BY <1>9 DEF t, s, m

LEMMA HandleStep ==
  ASSUME IInv, NEW b \in Buds, HandleMsg(b)
  PROVE  IInv'
<1> DEFINE s == [bud[b] EXCEPT !.queue = Tail(@)]
           m == Head(bud[b].queue)
<1>1. /\ Running(bud[b]) /\ bud[b].queue # << >>
      /\ UNCHANGED <<linked, master, phone, due>>
  BY DEF HandleMsg
<1>2. PICK t : /\ bud' = [bud EXCEPT ![b] = t]
               /\ \/ m.ev \in Gotos /\ t \in SwitchMode(s, m.ev)
                  \/ m.ev = "SOFT_POWEROFF" /\ t \in SoftPoweroff(s)
                  \/ m.ev \notin Gotos \cup {"SOFT_POWEROFF"} /\ t = AutoOffMsg(s, m)
  BY DEF HandleMsg
<1>3. Follows(b, t, phone[b])
  BY <1>1, <1>2, GotoStep, SoftStep, AutoOffStep
<1> QED BY <1>1, <1>2, <1>3, StepOne

\* Any message but a mode switch leaves a sound bud sound.
LEMMA NewsLemma ==
  ASSUME NEW s \in GoodBud, NEW m \in Messages, m.ev \notin Gotos
  PROVE  LET t == app_send_message(s, m) IN
         /\ t \in GoodBud /\ (Leaving(t) <=> Leaving(s))
         /\ t.mode = s.mode /\ t.reason = s.reason /\ t.busy = s.busy /\ t.detach = s.detach
         /\ Disables(m) \/ (Spared(s) /\ ~Enables(m)) => Spared(t)
<1> DEFINE t == app_send_message(s, m)
<1>1. /\ t \in Bud
      /\ t.detach = s.detach /\ t.reason = s.reason /\ t.mode = s.mode
      /\ t.fallback = s.fallback /\ t.tone = s.tone /\ t.retries = s.retries
      /\ t.exiting = s.exiting
      /\ t.retryMsg = s.retryMsg /\ t.wait_exit = s.wait_exit /\ t.goodbye = s.goodbye
      /\ t.busy = s.busy /\ t.auto = s.auto
      /\ \A evs : Has(t.queue, evs) <=> Has(s.queue, evs) \/ m.ev \in evs
  BY SendLemma DEF GoodBud
<1>2. Disables(m) \/ (Spared(s) /\ ~Enables(m)) => Spared(t)
  BY SparedAppend DEF GoodBud
<1> HIDE DEF t
<1>3. Leaving(t) <=> Leaving(s)
  BY <1>1 DEF Leaving, Carried
<1>4. Sound(t)
  BY <1>1, <1>3 DEF GoodBud, Sound, Carried, goto_poweroff_flag
<1> QED BY <1>1, <1>2, <1>3, <1>4 DEF GoodBud, t

LEMMA GoodbyeStep ==
  ASSUME IInv, NEW b \in Buds, GoodbyeEnds(b)
  PROVE  IInv'
<1> DEFINE u == [bud[b] EXCEPT !.goodbye = FALSE]
           m == Msg("SOFT_POWEROFF", FALSE)
           t == app_send_message(u, m)
<1>1. /\ Running(bud[b]) /\ bud' = [bud EXCEPT ![b] = t]
      /\ UNCHANGED <<linked, master, phone, due>>
  BY DEF GoodbyeEnds, SendSoftPoweroff
<1>2. m \in Messages /\ m.ev = "SOFT_POWEROFF" /\ ~Enables(m)
  BY DEF Msg, Messages, Enables
<1>3. /\ u \in Bud
      /\ u.detach = bud[b].detach /\ u.reason = bud[b].reason /\ u.mode = bud[b].mode
      /\ u.fallback = bud[b].fallback /\ u.tone = bud[b].tone /\ u.retries = bud[b].retries
      /\ u.retryMsg = bud[b].retryMsg /\ u.queue = bud[b].queue
      /\ u.exiting = bud[b].exiting
      /\ u.wait_exit = bud[b].wait_exit /\ u.busy = bud[b].busy /\ u.auto = bud[b].auto
  BY OfBud, ZenonT(60) DEF Bud
<1> HIDE DEF u, m
<1>4. /\ t \in Bud
      /\ t.detach = u.detach /\ t.reason = u.reason /\ t.mode = u.mode
      /\ t.fallback = u.fallback /\ t.tone = u.tone /\ t.retries = u.retries
      /\ t.exiting = u.exiting
      /\ t.retryMsg = u.retryMsg /\ t.wait_exit = u.wait_exit
      /\ t.busy = u.busy /\ t.auto = u.auto
      /\ \A evs : Has(t.queue, evs) <=> Has(u.queue, evs) \/ m.ev \in evs
  BY <1>2, <1>3, SendLemma
<1>5. Spared(bud[b]) => Spared(t)
  <2>1. Spared(bud[b]) => Spared(u)
    BY <1>3 DEF Spared
  <2> QED BY <1>2, <1>3, <2>1, SparedAppend
<1> HIDE DEF t
<1>6. Leaving(t) <=> Leaving(bud[b])
  BY <1>2, <1>3, <1>4 DEF Leaving, Carried, Gotos
<1>7. Sound(t)
  BY <1>2, <1>3, <1>4, <1>6, OfBud DEF Sound, Carried, Gotos, goto_poweroff_flag
<1>8. Follows(b, t, phone[b])
  BY <1>1, <1>3, <1>4, <1>5, <1>6, <1>7, OfBud
     DEF Follows, GoodBud, Running, goto_poweroff_flag
<1> QED BY <1>1, <1>8, StepOne

LEMMA EnterStep ==
  ASSUME IInv, NEW b \in Buds, Running(bud[b]), NEW why \in Reasons,
         linked => why # "NORMAL_TWS"
  PROVE  Follows(b, Enter(bud[b], why), phone[b])
BY EnterLemma, OfBud DEF Follows

LEMMA AloneStep ==
  ASSUME IInv, NEW b \in Buds, Alone(b)
  PROVE  IInv'
<1>1. Running(bud[b]) /\ UNCHANGED <<linked, master, phone, due>>
  BY DEF Alone, Running
<1>2. PICK why \in Reasons : /\ bud' = [bud EXCEPT ![b] = Enter(bud[b], why)]
                             /\ linked => why # "NORMAL_TWS"
  BY DEF Alone, Reasons
<1>3. Follows(b, Enter(bud[b], why), phone[b])
  BY <1>1, <1>2, EnterStep
<1> QED BY <1>1, <1>2, <1>3, StepOne

\* The auto-off timer or the key: one call for both buds, or a power-off of this bud.
LEMMA DealStep ==
  ASSUME IInv, NEW b \in Buds, Running(bud[b]), NEW a \in {bud[b].auto, "stale"},
         NEW s, s = [bud[b] EXCEPT !.auto = a], Deal(b, s),
         UNCHANGED <<linked, master, phone>>
  PROVE  IInv'
<1>1. /\ s \in Bud /\ a \in {"none", "armed", "stale"}
      /\ s.detach = bud[b].detach /\ s.reason = bud[b].reason /\ s.mode = bud[b].mode
      /\ s.fallback = bud[b].fallback /\ s.tone = bud[b].tone /\ s.retries = bud[b].retries
      /\ s.retryMsg = bud[b].retryMsg /\ s.queue = bud[b].queue
      /\ s.exiting = bud[b].exiting
      /\ s.wait_exit = bud[b].wait_exit /\ s.goodbye = bud[b].goodbye
      /\ s.busy = bud[b].busy /\ s.auto = a
  BY OfBud DEF Bud
<1>2. /\ Sound(s) /\ (Leaving(s) <=> Leaving(bud[b])) /\ Running(s)
      /\ Spared(bud[b]) => Spared(s)
  BY <1>1, OfBud DEF Sound, Leaving, Carried, goto_poweroff_flag, Running, Spared
<1>3. s \in GoodBud
  BY <1>1, <1>2 DEF GoodBud
<1>4. CASE linked /\ due' = due \cup CallBoth(b) /\ bud' = [bud EXCEPT ![b] = s]
  <2>1. due' \subseteq Buds \X Buds /\ <<b, b>> \in due' /\ <<b, Partner(b)>> \in due'
    BY <1>4, PartnerLemma DEF CallBoth, IInv
  <2>2. /\ bud' \in [Buds -> GoodBud] /\ bud'[b] = s
        /\ \A c \in Buds \ {b} : bud'[c] = bud[c]
    BY <1>3, <1>4 DEF IInv
  <2>3. \A c \in Buds : Knows(c)'
    BY <2>1, PartnerLemma DEF Knows
  <2>4. \A c \in Buds : /\ Running(bud'[c]) <=> Running(bud[c])
                        /\ goto_poweroff_flag(bud'[c]) <=> goto_poweroff_flag(bud[c])
                        /\ Leaving(bud'[c]) <=> Leaving(bud[c])
                        /\ bud'[c].detach = bud[c].detach /\ bud'[c].busy = bud[c].busy
                        /\ Spared(bud[c]) => Spared(bud'[c])
    BY <1>1, <1>2, <2>2 DEF Running, goto_poweroff_flag
  <2>5. PairOK'
    BY <2>3, <2>4 DEF IInv, PairOK
  <2>6. PhoneOK'
    BY <2>4 DEF IInv, PhoneOK
  <2> QED BY <2>1, <2>2, <2>5, <2>6 DEF IInv
<1>5. CASE bud' = [bud EXCEPT ![b] = Enter(s, "NORMAL")] /\ due' = due
  <2> DEFINE t == Enter(s, "NORMAL")
  <2>1. /\ t \in GoodBud
        /\ goto_poweroff_flag(t) /\ Running(t)
        /\ Leaving(t) <=> Leaving(s)
        /\ t.busy = s.busy
        /\ t.detach = "wait_exit_btstack_flag" => s.detach = "wait_exit_btstack_flag"
        /\ t.reason = "NORMAL_TWS" => s.reason = "NORMAL_TWS"
        /\ Spared(s) => Spared(t)
    BY <1>2, <1>3, EnterLemma DEF Reasons
  <2> HIDE DEF t
  <2>2. Follows(b, t, phone[b])
    BY <1>1, <1>2, <2>1, OfBud DEF Follows
  <2> QED BY <1>5, <2>2, StepOne DEF t
<1> QED BY <1>4, <1>5 DEF Deal

LEMMA AutoOffTimerStep ==
  ASSUME IInv, NEW b \in Buds, AutoOff(b)
  PROVE  IInv'
<1> DEFINE s == [bud[b] EXCEPT !.auto = "stale"]
<1>1. Running(bud[b]) /\ Deal(b, s) /\ UNCHANGED <<linked, master, phone>>
  BY DEF AutoOff
<1> QED BY <1>1, DealStep

LEMMA KeyStep ==
  ASSUME IInv, NEW b \in Buds, KeyPowerOff(b)
  PROVE  IInv'
<1> DEFINE s == [bud[b] EXCEPT !.auto = bud[b].auto]
<1>1. bud[b] = s
  BY OfBud DEF Bud
<1>2. Running(bud[b]) /\ Deal(b, s) /\ UNCHANGED <<linked, master, phone>>
  BY <1>1 DEF KeyPowerOff, Running
<1> QED BY <1>2, DealStep

\* The synchronous call runs on one bud; the other one has run it or will, as long as the
\* buds are linked.
LEMMA SyncStep ==
  ASSUME IInv, NEW b \in Buds, NEW c \in Buds, SyncCall(c, b)
  PROVE  IInv'
<1>1. /\ <<c, b>> \in due /\ due' = due \ {<<c, b>>} /\ UNCHANGED <<linked, master, phone>>
      /\ bud' = IF Running(bud[b]) THEN [bud EXCEPT ![b] = Enter(bud[b], "NORMAL_TWS")] ELSE bud
  BY DEF SyncCall
<1> DEFINE t == Enter(bud[b], "NORMAL_TWS")
<1>2. Running(bud[b]) =>
        /\ t \in GoodBud
        /\ goto_poweroff_flag(t) /\ Running(t)
        /\ Leaving(t) <=> Leaving(bud[b])
        /\ t.busy = bud[b].busy
        /\ t.detach = "wait_exit_btstack_flag" => bud[b].detach = "wait_exit_btstack_flag"
        /\ Spared(bud[b]) => Spared(t)
  BY OfBud, EnterLemma DEF Reasons
<1> HIDE DEF t
<1>3. /\ bud' \in [Buds -> GoodBud] /\ \A d \in Buds \ {b} : bud'[d] = bud[d]
      /\ bud'[b] = IF Running(bud[b]) THEN t ELSE bud[b]
  BY <1>1, <1>2 DEF IInv, t
<1>4. \A d \in Buds : /\ Running(bud'[d]) <=> Running(bud[d])
                      /\ goto_poweroff_flag(bud[d]) => goto_poweroff_flag(bud'[d])
                      /\ Leaving(bud'[d]) <=> Leaving(bud[d])
                      /\ bud'[d].busy = bud[d].busy
                      /\ bud'[d].detach = "wait_exit_btstack_flag" =>
                           bud[d].detach = "wait_exit_btstack_flag"
                      /\ Spared(bud[d]) => Spared(bud'[d])
  BY <1>2, <1>3
<1>5. Running(bud'[b]) => goto_poweroff_flag(bud'[b])
  BY <1>2, <1>3
<1>6. ASSUME linked, NEW d \in Buds PROVE Knows(d)'
  <2>1. Knows(d)
    BY <1>1, <1>6 DEF IInv, PairOK
  <2>2. CASE d = b
    BY <1>5, <2>2 DEF Knows
  <2>3. CASE d # b
    BY <1>1, <1>3, <2>1, <2>3 DEF Knows
  <2> QED BY <2>2, <2>3
<1>7. PairOK'
  BY <1>1, <1>4, <1>6 DEF IInv, PairOK
<1>8. PhoneOK'
  BY <1>1, <1>4 DEF IInv, PhoneOK
<1> QED BY <1>1, <1>3, <1>7, <1>8 DEF IInv

-----------------------------------------------------------------------------
(* Steps of the phones, of the players and of the link. *)

\* Two buds that differ in what plays only.
Alike(s, t) ==
  /\ t \in Bud
  /\ t.exiting => s.exiting
  /\ t.detach = s.detach /\ t.reason = s.reason /\ t.mode = s.mode
  /\ t.fallback = s.fallback /\ t.tone = s.tone /\ t.retries = s.retries
  /\ t.retryMsg = s.retryMsg /\ t.queue = s.queue /\ t.wait_exit = s.wait_exit
  /\ t.goodbye = s.goodbye /\ t.auto = s.auto

LEMMA AlikeLemma ==
  ASSUME NEW s \in GoodBud, NEW t, Alike(s, t)
  PROVE  /\ t \in GoodBud /\ (Leaving(t) <=> Leaving(s)) /\ (Spared(s) => Spared(t))
         /\ t.mode = s.mode /\ t.reason = s.reason /\ t.detach = s.detach
<1>1. Sound(t) /\ (Leaving(t) <=> Leaving(s)) /\ (Spared(s) => Spared(t))
  BY DEF Alike, GoodBud, Sound, Leaving, Carried, goto_poweroff_flag, Spared
<1> QED BY <1>1 DEF Alike, GoodBud

\* The end of a call.
LEMMA CallEnds ==
  ASSUME NEW s \in GoodBud
  PROVE  Alike(s, [s EXCEPT !.busy = FALSE]) /\ [s EXCEPT !.busy = FALSE].busy = FALSE
BY DEF GoodBud, Bud, Alike

\* A step that leaves the power-offs and the link as they are.
LEMMA NewsStep ==
  ASSUME IInv, bud' \in [Buds -> GoodBud], UNCHANGED <<linked, due>>, master' \in Buds,
         \A c \in Buds : /\ Leaving(bud'[c]) <=> Leaving(bud[c])
                         /\ bud'[c].mode = bud[c].mode /\ bud'[c].reason = bud[c].reason
                         /\ bud'[c].detach = bud[c].detach,
         phone' \in [Buds -> BOOLEAN], linked => \A c, d \in Buds : phone'[c] = phone'[d],
         PhoneOK'
  PROVE  IInv'
<1>1. \A c \in Buds : /\ Running(bud'[c]) <=> Running(bud[c])
                      /\ goto_poweroff_flag(bud'[c]) <=> goto_poweroff_flag(bud[c])
  BY DEF Running, goto_poweroff_flag
<1>2. \A c \in Buds : Knows(c) => Knows(c)'
  BY <1>1 DEF Knows
<1>3. PairOK'
  BY <1>1, <1>2 DEF IInv, PairOK
<1> QED BY <1>3 DEF IInv

\* Before the stack exits the phone is gone already, and so the sibling's.
LEMMA ExitStep ==
  ASSUME IInv, NEW b \in Buds, bt_no_background_exit_check(b)
  PROVE  IInv'
<1> DEFINE t == [bud[b] EXCEPT !.exiting = FALSE, !.busy = FALSE]
<1>1. Alike(bud[b], t) /\ t.busy = FALSE
  BY OfBud, ZenonT(60) DEF Bud, Alike
<1>2. bud' = [bud EXCEPT ![b] = t]
  BY DEF bt_no_background_exit_check
<1>3. /\ linked' = FALSE /\ master' = master /\ due' \subseteq due
      /\ phone' = [c \in Buds |-> phone[c] /\ c # b /\ IsMaster(c)]
      /\ bud[b].exiting
  BY DEF bt_no_background_exit_check
<1> HIDE DEF t
<1>4. /\ bud' \in [Buds -> GoodBud] /\ bud'[b] = t
      /\ \A c \in Buds \ {b} : bud'[c] = bud[c]
      /\ Leaving(t) <=> Leaving(bud[b])
  BY <1>1, <1>2, AlikeLemma DEF IInv
<1>5. ~phone[b]
  BY <1>3, OfBud DEF Sound, Leaving, IInv, PhoneOK
<1>6. \A c \in Buds : IsMaster(c) \/ ~phone[c]
  BY <1>5, OfBud DEF IInv, PairOK, IsMaster
<1>7. \A c \in Buds : phone'[c] = phone[c]
  BY <1>3, <1>5, <1>6, OfBud
<1>8. PhoneOK'
  BY <1>1, <1>4, <1>5, <1>7 DEF IInv, PhoneOK
<1>9. PairOK'
  BY <1>3 DEF PairOK
<1>10. phone' \in [Buds -> BOOLEAN]
  BY <1>3, <1>7, OfBud
<1> QED BY <1>3, <1>4, <1>8, <1>9, <1>10 DEF IInv

\* A bud that is on, and what is linked to it, is not leaving.
LEMMA OpenLemma ==
  ASSUME IInv, NEW b \in Buds, Open(b)
  PROVE  /\ Running(bud[b]) /\ ~Leaving(bud[b])
         /\ linked => \A c \in Buds : ~Leaving(bud[c])
BY OfBud DEF Open, Running, Sound, IInv, PairOK

LEMMA ConnectStep ==
  ASSUME IInv, NEW b \in Buds, PhoneConnects(b)
  PROVE  IInv'
<1> DEFINE m == Msg("FIRST_CONNECTED", TRUE)
           n == Msg("MONITOR_START", TRUE)
           t(c, x) == app_send_message(bud[c], x)
<1>1. /\ m \in Messages /\ m.ev \notin Gotos /\ Disables(m)
      /\ n \in Messages /\ n.ev \notin Gotos /\ Disables(n)
  BY DEF Msg, Messages, Gotos, Disables
<1>2. /\ Open(b) /\ UNCHANGED <<linked, master, due>>
      /\ phone' = [c \in Buds |-> phone[c] \/ c = b \/ linked]
      /\ bud' = [c \in Buds |-> CASE c = b -> t(c, m)
                                  [] c # b /\ linked /\ Running(bud[c]) -> t(c, n)
                                  [] OTHER -> bud[c]]
  BY DEF PhoneConnects
<1> HIDE DEF m, n
<1>3. ASSUME NEW c \in Buds, NEW x \in {m, n}
      PROVE  /\ t(c, x) \in GoodBud /\ (Leaving(t(c, x)) <=> Leaving(bud[c]))
             /\ t(c, x).mode = bud[c].mode /\ t(c, x).reason = bud[c].reason
             /\ t(c, x).detach = bud[c].detach /\ t(c, x).busy = bud[c].busy
             /\ Spared(t(c, x))
  BY <1>1, <1>3, OfBud, NewsLemma
<1> HIDE DEF t
<1>4. /\ \A c \in Buds :
           bud'[c] = IF c = b THEN t(c, m)
                     ELSE IF linked /\ Running(bud[c]) THEN t(c, n) ELSE bud[c]
      /\ DOMAIN bud' = Buds /\ bud' = [c \in Buds |-> bud'[c]]
  BY <1>2
<1>5. \A c \in Buds : /\ bud'[c] \in GoodBud
                      /\ Leaving(bud'[c]) <=> Leaving(bud[c])
                      /\ bud'[c].mode = bud[c].mode /\ bud'[c].reason = bud[c].reason
                      /\ bud'[c].detach = bud[c].detach /\ bud'[c].busy = bud[c].busy
  BY <1>3, <1>4, OfBud
<1>6. bud' \in [Buds -> GoodBud]
  BY <1>4, <1>5
<1>7. phone' \in [Buds -> BOOLEAN] /\ \A c \in Buds : phone'[c] = (phone[c] \/ c = b \/ linked)
  BY <1>2, OfBud DEF IInv
<1>8. PhoneOK'
  <2> SUFFICES ASSUME NEW c \in Buds
               PROVE  /\ Leaving(bud'[c]) => ~phone'[c]
                      /\ bud'[c].busy => phone'[c]
                      /\ Running(bud'[c]) /\ phone'[c] => Spared(bud'[c])
    BY DEF PhoneOK
  <2>1. Leaving(bud'[c]) => ~phone'[c]
    BY <1>2, <1>5, <1>7, OpenLemma DEF IInv, PhoneOK
  <2>2. bud'[c].busy => phone'[c]
    BY <1>5, <1>7 DEF IInv, PhoneOK
  <2>3. Running(bud'[c]) /\ phone'[c] => Spared(bud'[c])
    BY <1>3, <1>4, <1>7 DEF IInv, PhoneOK
  <2> QED BY <2>1, <2>2, <2>3
<1>9. master' \in Buds /\ (linked => \A c, d \in Buds : phone'[c] = phone'[d])
  BY <1>2, <1>7 DEF IInv
<1> QED BY <1>2, <1>5, <1>6, <1>7, <1>8, <1>9, NewsStep

LEMMA LostStep ==
  ASSUME IInv, NEW b \in Buds, PhoneLost(b)
  PROVE  IInv'
<1> DEFINE t(c) == [bud[c] EXCEPT !.busy = FALSE]
<1>1. /\ UNCHANGED <<linked, master, due>>
      /\ phone' = [c \in Buds |-> phone[c] /\ c # b /\ ~linked]
      /\ bud' = [c \in Buds |-> IF c = b \/ linked THEN t(c) ELSE bud[c]]
  BY DEF PhoneLost
<1>2. ASSUME NEW c \in Buds
      PROVE  /\ t(c) \in GoodBud /\ (Leaving(t(c)) <=> Leaving(bud[c]))
             /\ t(c).mode = bud[c].mode /\ t(c).reason = bud[c].reason
             /\ t(c).detach = bud[c].detach /\ t(c).busy = FALSE
  BY OfBud, CallEnds, AlikeLemma
<1> HIDE DEF t
<1>3. \A c \in Buds : bud'[c] = IF c = b \/ linked THEN t(c) ELSE bud[c]
  BY <1>1
<1>4. \A c \in Buds : /\ bud'[c] \in GoodBud
                      /\ Leaving(bud'[c]) <=> Leaving(bud[c])
                      /\ bud'[c].mode = bud[c].mode /\ bud'[c].reason = bud[c].reason
                      /\ bud'[c].detach = bud[c].detach
                      /\ bud'[c].busy => bud[c].busy /\ c # b /\ ~linked
  BY <1>2, <1>3, OfBud
<1>5. bud' \in [Buds -> GoodBud]
  BY <1>1, <1>4
<1>6. phone' \in [Buds -> BOOLEAN] /\ \A c \in Buds : phone'[c] = (phone[c] /\ c # b /\ ~linked)
  BY <1>1, OfBud
<1>7. PhoneOK'
  BY <1>3, <1>4, <1>6 DEF IInv, PhoneOK
<1>8. master' \in Buds /\ (linked => \A c, d \in Buds : phone'[c] = phone'[d])
  BY <1>1, <1>6 DEF IInv
<1> QED BY <1>1, <1>4, <1>5, <1>6, <1>7, <1>8, NewsStep

LEMMA ScanStep ==
  ASSUME IInv, NEW b \in Buds, OpenScan(b)
  PROVE  IInv'
<1> DEFINE m == Msg("IN_PAIRING_MODE", phone[b])
           t == app_send_message(bud[b], m)
<1>1. bud' = [bud EXCEPT ![b] = t] /\ UNCHANGED <<linked, master, phone, due>>
  BY DEF OpenScan
<1>2. m \in Messages /\ m.ev \notin Gotos /\ (phone[b] => ~Enables(m))
  BY OfBud DEF Msg, Messages, Gotos, Enables
<1> HIDE DEF m
<1>3. /\ t \in GoodBud /\ (Leaving(t) <=> Leaving(bud[b]))
      /\ t.mode = bud[b].mode /\ t.reason = bud[b].reason /\ t.busy = bud[b].busy
      /\ t.detach = bud[b].detach
      /\ phone[b] /\ Spared(bud[b]) => Spared(t)
  BY <1>2, OfBud, NewsLemma
<1> HIDE DEF t
<1>4. /\ bud' \in [Buds -> GoodBud] /\ bud'[b] = t
      /\ \A c \in Buds \ {b} : bud'[c] = bud[c]
  BY <1>1, <1>3 DEF IInv
<1>5. PhoneOK'
  BY <1>1, <1>3, <1>4 DEF IInv, PhoneOK, Running
<1> QED BY <1>1, <1>3, <1>4, <1>5, NewsStep DEF IInv, PairOK

\* Music and calls: only a bud with a phone starts one.
LEMMA PlayStep ==
  ASSUME IInv, NEW b \in Buds, NEW t, Alike(bud[b], t), t.busy => phone[b],
         bud' = [bud EXCEPT ![b] = t], UNCHANGED <<linked, master, phone, due>>
  PROVE  IInv'
<1>1. /\ t \in GoodBud /\ (Leaving(t) <=> Leaving(bud[b])) /\ (Spared(bud[b]) => Spared(t))
      /\ t.mode = bud[b].mode /\ t.reason = bud[b].reason /\ t.detach = bud[b].detach
  BY OfBud, AlikeLemma
<1>2. /\ bud' \in [Buds -> GoodBud] /\ bud'[b] = t
      /\ \A c \in Buds \ {b} : bud'[c] = bud[c]
  BY <1>1 DEF IInv
<1>3. PhoneOK'
  BY <1>1, <1>2 DEF IInv, PhoneOK, Running
<1> QED BY <1>1, <1>2, <1>3, NewsStep DEF IInv, PairOK

LEMMA AudioStep ==
  ASSUME IInv, NEW b \in Buds, AudioStarts(b)
  PROVE  IInv'
<1>1. phone[b] /\ UNCHANGED <<linked, master, phone, due>>
  BY DEF AudioStarts
<1>2. PICK p \in BOOLEAN, q \in BOOLEAN :
        bud' = [bud EXCEPT ![b] = [bud[b] EXCEPT !.playing = p, !.busy = q]]
  BY DEF AudioStarts
<1> DEFINE s == bud[b]
           u == [s EXCEPT !.playing = p]
           t == [u EXCEPT !.busy = q]
<1>3. s \in Bud
  BY OfBud
<1> HIDE DEF s
<1>4. u \in Bud /\ Alike(s, u)
  BY <1>3 DEF Bud, Alike
<1> HIDE DEF u
<1>5. Alike(u, t)
  BY <1>4 DEF Bud, Alike
<1>6. t = [bud[b] EXCEPT !.playing = p, !.busy = q]
  BY DEF s, u
<1> HIDE DEF t
<1>7. Alike(s, t)
  BY <1>4, <1>5 DEF Alike
<1> QED BY <1>1, <1>2, <1>6, <1>7, PlayStep DEF s

LEMMA StopStep ==
  ASSUME IInv, NEW b \in Buds, PlayerStops(b)
  PROVE  IInv'
<1> DEFINE t == [bud[b] EXCEPT !.playing = FALSE]
<1>1. bud' = [bud EXCEPT ![b] = t] /\ UNCHANGED <<linked, master, phone, due>>
  BY DEF PlayerStops
<1>2. Alike(bud[b], t) /\ t.busy = bud[b].busy
  BY OfBud, ZenonT(60) DEF Bud, Alike
<1>3. bud[b].busy => phone[b]
  BY DEF IInv, PhoneOK
<1> HIDE DEF t
<1> QED BY <1>1, <1>2, <1>3, PlayStep

\* Two buds that link are both on; both hear at once whether the master has a phone.
LEMMA FormStep ==
  ASSUME IInv, LinkForms
  PROVE  IInv'
<1>1. /\ due = {} /\ due' = {} /\ ~linked
      /\ \A c \in Buds : Running(bud[c]) /\ ~Leaving(bud[c]) /\ ~goto_poweroff_flag(bud[c])
  BY OpenLemma DEF LinkForms, Open
<1> DEFINE m(b) == Msg("TWS_CONNECTED", phone[b])
           n == Msg("MONITOR_START", TRUE)
           t(b, c) == app_send_message(bud[c], m(b))
           u(b, c) == app_send_message(t(b, c), n)
<1>2. PICK b \in Buds :
        /\ ~phone[Partner(b)] /\ linked' = TRUE /\ master' = b
        /\ phone' = [c \in Buds |-> phone[b]]
        /\ bud' = [c \in Buds |-> IF c # b /\ phone[b] THEN u(b, c) ELSE t(b, c)]
  BY DEF LinkForms
<1>3. /\ m(b) \in Messages /\ m(b).ev \notin Gotos /\ (phone[b] => ~Enables(m(b)))
      /\ n \in Messages /\ n.ev \notin Gotos /\ Disables(n)
  BY OfBud DEF Msg, Messages, Gotos, Enables, Disables
<1> HIDE DEF m, n
<1>4. ASSUME NEW c \in Buds
      PROVE  /\ t(b, c) \in GoodBud /\ (Leaving(t(b, c)) <=> Leaving(bud[c]))
             /\ t(b, c).mode = bud[c].mode /\ t(b, c).reason = bud[c].reason
             /\ t(b, c).busy = bud[c].busy /\ t(b, c).detach = bud[c].detach
             /\ phone[b] /\ Spared(bud[c]) => Spared(t(b, c))
  BY <1>3, OfBud, NewsLemma
<1>5. ASSUME NEW c \in Buds
      PROVE  /\ u(b, c) \in GoodBud /\ (Leaving(u(b, c)) <=> Leaving(bud[c]))
             /\ u(b, c).mode = bud[c].mode /\ u(b, c).reason = bud[c].reason
             /\ u(b, c).busy = bud[c].busy /\ u(b, c).detach = bud[c].detach
             /\ Spared(u(b, c))
  <2> HIDE DEF t
  <2> QED BY <1>3, <1>4, NewsLemma
<1> HIDE DEF t, u
<1>6. \A c \in Buds : bud'[c] = IF c # b /\ phone[b] THEN u(b, c) ELSE t(b, c)
  BY <1>2
<1>7. \A c \in Buds : /\ bud'[c] \in GoodBud
                      /\ Leaving(bud'[c]) <=> Leaving(bud[c])
                      /\ bud'[c].mode = bud[c].mode /\ bud'[c].reason = bud[c].reason
                      /\ bud'[c].busy = bud[c].busy /\ bud'[c].detach = bud[c].detach
  BY <1>4, <1>5, <1>6
<1>8. bud' \in [Buds -> GoodBud]
  BY <1>2, <1>7
<1>9. phone' \in [Buds -> BOOLEAN] /\ \A c \in Buds : phone'[c] = phone[b]
  BY <1>2, OfBud
<1>10. PairOK'
  <2>1. \A c \in Buds : bud[c].detach # "wait_exit_btstack_flag" /\ bud[c].reason # "NORMAL_TWS"
    BY <1>1, OfBud DEF Sound, goto_poweroff_flag
  <2> QED BY <1>1, <1>7, <1>9, <2>1 DEF PairOK
<1>11. PhoneOK'
  <2> SUFFICES ASSUME NEW c \in Buds
               PROVE  /\ ~Leaving(bud'[c])
                      /\ bud'[c].busy => phone'[c]
                      /\ Running(bud'[c]) /\ phone'[c] => Spared(bud'[c])
    BY DEF PhoneOK
  <2>1. bud'[c].busy => phone'[c]
    BY <1>2, <1>7, <1>9, PartnerLemma DEF IInv, PhoneOK
  <2>2. phone[b] => Spared(bud'[c])
    <3>1. CASE c = b
      BY <1>1, <1>4, <1>6, <3>1 DEF IInv, PhoneOK
    <3>2. CASE c # b
      BY <1>5, <1>6, <3>2
    <3> QED BY <3>1, <3>2
  <2> QED BY <1>1, <1>7, <1>9, <2>1, <2>2
<1> QED BY <1>1, <1>2, <1>8, <1>9, <1>10, <1>11 DEF IInv

LEMMA DropStep ==
  ASSUME IInv, LinkDrops
  PROVE  IInv'
<1> DEFINE t(c) == [bud[c] EXCEPT !.busy = FALSE]
<1>1. /\ linked' = FALSE /\ master' = master /\ due' \subseteq due
      /\ phone' = [c \in Buds |-> phone[c] /\ c = master]
      /\ bud' = [c \in Buds |-> IF c = master THEN bud[c] ELSE t(c)]
  BY DEF LinkDrops
<1>2. \A c \in Buds : Alike(bud[c], t(c)) /\ t(c).busy = FALSE
  BY OfBud, CallEnds
<1> HIDE DEF t
<1>3. \A c \in Buds : bud'[c] = IF c = master THEN bud[c] ELSE t(c)
  BY <1>1
<1>4. \A c \in Buds : /\ bud'[c] \in GoodBud /\ (Leaving(bud'[c]) <=> Leaving(bud[c]))
                      /\ bud'[c].mode = bud[c].mode
                      /\ Spared(bud[c]) => Spared(bud'[c])
                      /\ bud'[c].busy => bud[c].busy /\ c = master
  BY <1>2, <1>3, OfBud, AlikeLemma
<1>5. bud' \in [Buds -> GoodBud]
  BY <1>1, <1>4
<1>6. phone' \in [Buds -> BOOLEAN] /\ \A c \in Buds : phone'[c] = (phone[c] /\ c = master)
  BY <1>1, OfBud
<1>7. PhoneOK'
  BY <1>4, <1>6 DEF IInv, PhoneOK, Running
<1>8. PairOK'
  BY <1>1 DEF PairOK
<1> QED BY <1>1, <1>5, <1>6, <1>7, <1>8 DEF IInv

LEMMA RolesStep ==
  ASSUME IInv, RolesSwitch
  PROVE  IInv'
<1>1. UNCHANGED <<bud, linked, phone, due>> /\ master' \in Buds
  BY PartnerLemma DEF RolesSwitch, IInv
<1> QED BY <1>1, NewsStep DEF IInv, PairOK, PhoneOK

-----------------------------------------------------------------------------
(* The invariant and what follows from it. *)

LEMMA InitIInv == Init => IInv
<1> SUFFICES ASSUME Init PROVE IInv
  OBVIOUS
<1>1. On \in Bud /\ On.queue = << >>
  BY HasEmpty DEF On, Bud, Reasons, Waits
<1>2. ASSUME NEW b \in Buds
      PROVE  /\ bud[b] \in GoodBud /\ ~Leaving(bud[b]) /\ ~bud[b].busy
             /\ bud[b].detach = "none" /\ bud[b].reason = "none"
             /\ phone[b] => Spared(bud[b])
  <2> DEFINE a == IF phone[b] THEN "none" ELSE "armed"
  <2>1. bud[b] = [On EXCEPT !.auto = a]
    BY DEF Init
  <2>2. /\ bud[b] \in Bud /\ bud[b].queue = << >> /\ bud[b].mode = "bt"
        /\ bud[b].detach = "none" /\ bud[b].reason = "none" /\ bud[b].busy = FALSE
        /\ bud[b].fallback = FALSE /\ bud[b].tone = FALSE /\ bud[b].retries = 0
        /\ bud[b].wait_exit = 0 /\ bud[b].exiting = FALSE /\ bud[b].auto = a
    BY <1>1, <2>1 DEF On, Bud
  <2>3. ~Leaving(bud[b])
    BY <2>2, HasEmpty DEF Leaving, Carried
  <2>4. phone[b] => Spared(bud[b])
    BY <2>2 DEF Spared
  <2> QED BY <2>2, <2>3, <2>4 DEF GoodBud, Sound, goto_poweroff_flag
<1>3. bud \in [Buds -> GoodBud]
  <2>1. bud = [b \in Buds |-> bud[b]]
    BY DEF Init
  <2> QED BY <1>2, <2>1
<1>4. due = {} /\ (linked => \A b \in Buds : phone[b] = phone[master])
      /\ linked \in BOOLEAN /\ master \in Buds /\ phone \in [Buds -> BOOLEAN]
  BY DEF Init
<1>5. PairOK
  BY <1>2, <1>4 DEF PairOK
<1>6. PhoneOK
  BY <1>2 DEF PhoneOK
<1> QED BY <1>3, <1>4, <1>5, <1>6 DEF IInv

LEMMA StepIInv == IInv /\ [Next]_vars => IInv'
<1> SUFFICES ASSUME IInv, [Next]_vars PROVE IInv'
  OBVIOUS
<1>1. ASSUME NEW b \in Buds, Program(b) PROVE IInv'
  <2>1. CASE HandleMsg(b)
    BY <2>1, HandleStep
  <2>2. CASE Timers(b)
    BY <2>2, SameTimeStep, WaitSiblingStep, WaitStackStep DEF Timers
  <2>3. CASE tws_slave_power_off(b)
    BY <2>3, SlaveStep
  <2>4. CASE ToneStops(b)
    BY <2>4, ToneStep
  <2>5. CASE GoodbyeEnds(b)
    BY <2>5, GoodbyeStep
  <2>6. CASE retry_goto_mode(b)
    BY <2>6, RetryStep
  <2>7. CASE bt_no_background_exit_check(b)
    BY <2>7, ExitStep
  <2>8. CASE \E c \in Buds : SyncCall(c, b)
    BY <2>8, SyncStep
  <2> QED BY <1>1, <2>1, <2>2, <2>3, <2>4, <2>5, <2>6, <2>7, <2>8 DEF Program
<1>2. CASE World
  <2>1. ASSUME NEW b \in Buds, AutoOff(b) PROVE IInv'
    BY <2>1, AutoOffTimerStep
  <2>2. ASSUME NEW b \in Buds, KeyPowerOff(b) PROVE IInv'
    BY <2>2, KeyStep
  <2>3. ASSUME NEW b \in Buds, Alone(b) PROVE IInv'
    BY <2>3, AloneStep
  <2>4. ASSUME NEW b \in Buds, PhoneConnects(b) PROVE IInv'
    BY <2>4, ConnectStep
  <2>5. ASSUME NEW b \in Buds, PhoneLost(b) PROVE IInv'
    BY <2>5, LostStep
  <2>6. ASSUME NEW b \in Buds, OpenScan(b) PROVE IInv'
    BY <2>6, ScanStep
  <2>7. ASSUME NEW b \in Buds, AudioStarts(b) PROVE IInv'
    BY <2>7, AudioStep
  <2>8. ASSUME NEW b \in Buds, PlayerStops(b) PROVE IInv'
    BY <2>8, StopStep
  <2>9. LinkForms \/ LinkDrops \/ RolesSwitch => IInv'
    BY FormStep, DropStep, RolesStep
  <2> QED BY <1>2, <2>1, <2>2, <2>3, <2>4, <2>5, <2>6, <2>7, <2>8, <2>9 DEF World
<1>3. CASE UNCHANGED vars
  BY <1>3 DEF vars, IInv, PairOK, PhoneOK, Knows
<1> QED BY <1>1, <1>2, <1>3 DEF Next

\* In every behaviour of the pair: what each bud keeps, and what the two know of each
\* other's phone and power-off, stay consistent from power-on to power-off (tws_poweroff.c).
THEOREM PoweroffInvariant == Spec => []IInv
BY InitIInv, StepIInv, PTL DEF Spec

\* The state keeps its type: timers armed, reasons, retries and messages are the ones the
\* program knows (app_main.c, earphone.c, tws_poweroff.c).
THEOREM PoweroffTypes == Spec => []TypeOK
<1>1. IInv => TypeOK
  BY DEF IInv, TypeOK, GoodBud
<1> QED BY <1>1, PoweroffInvariant, PTL

\* sys_enter_soft_poweroff is never left without a timer, a tone or a message that carries
\* it on, whichever stage tws_poweroff.c, app_mode_switch_handler or idle.c has reached.
THEOREM PoweroffNeverAbandoned == Spec => []NeverAbandoned
<1>1. IInv => NeverAbandoned
  <2> SUFFICES ASSUME IInv, NEW b \in Buds, Running(bud[b]), goto_poweroff_flag(bud[b])
               PROVE  SomethingPending(b)
    BY DEF NeverAbandoned
  <2>1. bud[b].detach # "none" \/ Carried(bud[b])
          \/ bud[b].goodbye \/ Has(bud[b].queue, {"SOFT_POWEROFF"})
    BY OfBud DEF Sound, Running
  <2> QED BY <2>1 DEF SomethingPending, Carried, Has
<1> QED BY <1>1, PoweroffInvariant, PTL

\* No bud comes to the idle mode, where idle_mode_enter does nothing, without a power-off.
THEOREM PoweroffNeverParked == Spec => []NeverParked
<1>1. IInv => NeverParked
  BY OfBud DEF NeverParked, Sound, Leaving
<1> QED BY <1>1, PoweroffInvariant, PTL

\* The tone of power_off_at_same_time plays after the phones are gone, and on linked buds
\* only when both are powering off.
THEOREM PoweroffSameTime == Spec => []SameTime
<1>1. IInv => SameTime
  BY DEF SameTime, IInv, PairOK, PhoneOK, Leaving, Carried
<1> QED BY <1>1, PoweroffInvariant, PTL

\* sys_auto_shut_down_enable and _disable: however the events of the link and of the phone
\* are ordered, a bud with a phone and no message left counts down to no power-off.
THEOREM PoweroffAutoOffSpares == Spec => []AutoOffSpares
<1>1. IInv => AutoOffSpares
  <2> SUFFICES ASSUME IInv, NEW b \in Buds, Running(bud[b]), phone[b], bud[b].queue = << >>
               PROVE  bud[b].auto # "armed"
    BY DEF AutoOffSpares
  <2> QED BY DEF IInv, PhoneOK, Spared
<1> QED BY <1>1, PoweroffInvariant, PTL

=============================================================================
