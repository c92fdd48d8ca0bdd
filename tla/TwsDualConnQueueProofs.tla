------------------------ MODULE TwsDualConnQueueProofs ------------------------
(***************************************************************************)
(* More proofs about TwsDualConn: what the engine promises once its queue  *)
(* is empty.  Handlers read the role, the link and the connected phones as *)
(* they are NOW, so while messages wait the engine may be left in any      *)
(* state; what holds is that a message which puts it right is waiting, and *)
(* that no message which puts it wrong comes after the last of those.      *)
(* Each invariant below has these two halves.                              *)
(***************************************************************************)
EXTENDS TwsDualConnHandlerProofs

\* Messages of W and of B in a queue: one of W is waiting; each of B has one of W behind it.
Woken(q, W) == \E i \in DOMAIN q : q[i] \in W
Followed(q, B, W) ==
  \A i \in DOMAIN q : q[i] \in B => \E j \in DOMAIN q : i < j /\ q[j] \in W

LEMMA SeqFacts ==
  ASSUME NEW q \in Seq(Messages)
  PROVE  /\ Len(q) \in Nat /\ DOMAIN q = 1 .. Len(q)
         /\ \A i \in DOMAIN q : q[i] \in Messages
BY LenProperties, ElementOfSeq

LEMMA TailFacts ==
  ASSUME NEW q \in Seq(Messages), q # << >>
  PROVE  /\ Tail(q) \in Seq(Messages) /\ Head(q) = q[1] /\ 1 \in DOMAIN q
         /\ \A i \in DOMAIN Tail(q) : i + 1 \in DOMAIN q /\ Tail(q)[i] = q[i + 1]
         /\ \A i \in DOMAIN q : i = 1 \/ (i - 1 \in DOMAIN Tail(q) /\ Tail(q)[i - 1] = q[i])
<1>1. /\ Head(q) = q[1] /\ Tail(q) \in Seq(Messages) /\ Len(Tail(q)) = Len(q) - 1
      /\ \A k \in 1 .. Len(Tail(q)) : Tail(q)[k] = q[k + 1]
      /\ Len(q) \in Nat \ {0}
  BY HeadTailProperties, EmptySeq, LenProperties
<1>2. DOMAIN Tail(q) = 1 .. Len(q) - 1 /\ DOMAIN q = 1 .. Len(q)
  BY <1>1, LenProperties
<1> QED BY <1>1, <1>2

\* A message is taken from the queue.
LEMMA TailWoken ==
  ASSUME NEW q \in Seq(Messages), q # << >>, NEW B, NEW W
  PROVE  /\ Woken(q, W) /\ Head(q) \notin W => Woken(Tail(q), W)
         /\ Woken(Tail(q), W) => Woken(q, W)
         /\ Followed(q, B, W) =>
              Followed(Tail(q), B, W) /\ (Head(q) \in B => Woken(Tail(q), W))
<1> DEFINE u == Tail(q)
<1>1. /\ u \in Seq(Messages) /\ Head(q) = q[1] /\ 1 \in DOMAIN q
      /\ \A i \in DOMAIN u : i + 1 \in DOMAIN q /\ u[i] = q[i + 1]
      /\ \A i \in DOMAIN q : i = 1 \/ (i - 1 \in DOMAIN u /\ u[i - 1] = q[i])
  BY TailFacts
<1>2. DOMAIN u \subseteq Nat /\ DOMAIN q \subseteq Nat
  BY <1>1, SeqFacts
<1> HIDE DEF u
<1>3. Woken(q, W) /\ Head(q) \notin W => Woken(u, W)
  BY <1>1 DEF Woken
<1>4. Woken(u, W) => Woken(q, W)
  BY <1>1 DEF Woken
<1>5. ASSUME Followed(q, B, W), NEW i \in DOMAIN u, u[i] \in B
      PROVE  \E j \in DOMAIN u : i < j /\ u[j] \in W
  <2>1. PICK k \in DOMAIN q : i + 1 < k /\ q[k] \in W
    BY <1>1, <1>5 DEF Followed
  <2>2. k # 1 /\ i < k - 1
    BY <1>2, <2>1
  <2> QED BY <1>1, <2>1, <2>2
<1>6. ASSUME Followed(q, B, W), Head(q) \in B PROVE Woken(u, W)
  <2>1. PICK k \in DOMAIN q : 1 < k /\ q[k] \in W
    BY <1>1, <1>6 DEF Followed
  <2>2. k # 1
    BY <1>2, <2>1
  <2> QED BY <1>1, <2>1, <2>2 DEF Woken
<1> QED BY <1>3, <1>4, <1>5, <1>6 DEF Followed, u

\* Messages are posted.
LEMMA PostWoken ==
  ASSUME NEW q \in Seq(Messages), NEW r \in Seq(Messages), NEW B, NEW W
  PROVE  /\ Woken(q, W) \/ Woken(r, W) => Woken(q \o r, W)
         /\ Woken(q \o r, W) => Woken(q, W) \/ Woken(r, W)
         /\ Followed(r, B, W) /\ (Followed(q, B, W) \/ Woken(r, W)) => Followed(q \o r, B, W)
<1> DEFINE u == q \o r
           n == Len(q)
<1>1. /\ n \in Nat /\ Len(r) \in Nat /\ DOMAIN q = 1 .. n /\ DOMAIN r = 1 .. Len(r)
      /\ DOMAIN u = 1 .. n + Len(r)
      /\ \A i \in 1 .. n + Len(r) : u[i] = IF i <= n THEN q[i] ELSE r[i - n]
  <2>1. /\ u \in Seq(Messages) /\ Len(u) = n + Len(r)
        /\ \A i \in 1 .. n + Len(r) : u[i] = IF i <= n THEN q[i] ELSE r[i - n]
    BY ConcatProperties
  <2> HIDE DEF u
  <2> QED BY <2>1, SeqFacts
<1> HIDE DEF u, n
<1>2. \A i \in DOMAIN q : i \in DOMAIN u /\ u[i] = q[i]
  BY <1>1
<1>3. ASSUME NEW i \in DOMAIN r PROVE n + i \in DOMAIN u /\ u[n + i] = r[i]
  <2>1. n + i \in 1 .. n + Len(r) /\ ~(n + i <= n) /\ (n + i) - n = i
    BY <1>1
  <2> QED BY <1>1, <2>1
<1>4. \A i \in DOMAIN u : i \in DOMAIN q \/ (i - n \in DOMAIN r /\ i = n + (i - n))
  BY <1>1
<1>5. Woken(q, W) \/ Woken(r, W) => Woken(u, W)
  BY <1>2, <1>3 DEF Woken
<1>6. Woken(u, W) => Woken(q, W) \/ Woken(r, W)
  <2>1. ASSUME NEW i \in DOMAIN u, u[i] \in W PROVE Woken(q, W) \/ Woken(r, W)
    <3>1. CASE i \in DOMAIN q
      BY <1>2, <2>1, <3>1 DEF Woken
    <3>2. CASE i - n \in DOMAIN r /\ i = n + (i - n)
      BY <1>3, <2>1, <3>2 DEF Woken
    <3> QED BY <1>4, <3>1, <3>2
  <2> QED BY <2>1 DEF Woken
<1>7. ASSUME Followed(r, B, W), Followed(q, B, W) \/ Woken(r, W), NEW i \in DOMAIN u, u[i] \in B
      PROVE  \E j \in DOMAIN u : i < j /\ u[j] \in W
  <2>1. CASE i \in DOMAIN q
    <3>1. CASE Followed(q, B, W)
      <4>1. PICK j \in DOMAIN q : i < j /\ q[j] \in W
        BY <1>2, <1>7, <2>1, <3>1 DEF Followed
      <4> QED BY <1>2, <4>1
    <3>2. CASE Woken(r, W)
      <4>1. PICK j \in DOMAIN r : r[j] \in W
        BY <3>2 DEF Woken
      <4>2. i < n + j
        BY <1>1, <2>1, <4>1
      <4> QED BY <1>3, <4>1, <4>2
    <3> QED BY <1>7, <3>1, <3>2
  <2>2. CASE i - n \in DOMAIN r /\ i = n + (i - n)
    <3>1. u[i] = r[i - n]
      BY <1>3, <2>2
    <3>2. PICK j \in DOMAIN r : i - n < j /\ r[j] \in W
      BY <1>7, <2>2, <3>1 DEF Followed
    <3>3. i < n + j
      BY <1>1, <2>2, <3>2
    <3> QED BY <1>3, <3>2, <3>3
  <2> QED BY <1>4, <2>1, <2>2
<1> QED BY <1>5, <1>6, <1>7 DEF Followed, u

\* One message, or two.
LEMMA OnePosted ==
  ASSUME NEW m, NEW B, NEW W
  PROVE  /\ Woken(<<m>>, W) <=> m \in W
         /\ m \notin B => Followed(<<m>>, B, W)
<1>1. DOMAIN <<m>> = {1} /\ <<m>>[1] = m
  OBVIOUS
<1> QED BY <1>1 DEF Woken, Followed

LEMMA TwoPosted ==
  ASSUME NEW m, NEW n, NEW B, NEW W
  PROVE  /\ Woken(<<m, n>>, W) <=> m \in W \/ n \in W
         /\ n \notin B /\ (m \notin B \/ n \in W) => Followed(<<m, n>>, B, W)
<1>1. DOMAIN <<m, n>> = {1, 2} /\ <<m, n>>[1] = m /\ <<m, n>>[2] = n
  OBVIOUS
<1> QED BY <1>1 DEF Woken, Followed

-----------------------------------------------------------------------------
(* The invariant. *)

\* Until the stack is up nothing can happen and nothing is known of the pair; the two
\* messages that start Bluetooth mode head the queue.
InitOk == {m \in Messages : m.from = "stack" /\ m.ev = "INIT_OK"}
PowerOn == {m \in Messages : m.from = "app" /\ m.ev # "TWS_START_PAIR"}

Booting ==
  /\ phase = "boot" =>
       /\ acl = {} /\ link # "connected"
       /\ 2 \in DOMAIN queue /\ queue[1] \in InitOk /\ queue[2] \in PowerOn
  /\ \A i \in DOMAIN queue :
       /\ queue[i] \in InitOk => i = 1 /\ phase = "boot"
       /\ queue[i] \in PowerOn => i = 1 \/ (i = 2 /\ phase = "boot")

\* A lone earbud is its own master.
Sided == role = "slave" => link = "connected"

\* What silences a slave, and what may open the scans of a bud that has become one.
Silencers == {m \in Messages : m.from = "tws" /\ m.ev # "DETACH" /\ m.role = "slave"}
Detaches == {m \in Messages : m.from = "tws" /\ m.ev = "DETACH"}

Silenced ==
  role = "slave" =>
    /\ phase = "run" => Quiet(bud) \/ Woken(queue, Silencers)
    /\ Followed(queue, Detaches, Silencers)

\* What may list phone p, and what takes it off the list again.
Listers(p) ==
  {m \in Messages : \/ m.from = "hci" /\ m.ev = "timeout" /\ m.mac = p
                    \/ m.from = "relay" /\ \E i \in DOMAIN m.list : m.list[i] = p}
Removers(p) ==
  {m \in Messages : \/ m.from = "stack" /\ m.ev = "FIRST_CONNECTED" /\ m.mac = p
                    \/ m.from = "stack" /\ m.ev = "SECOND_CONNECTED"}

\* A connection that already exists lets a page of a connected phone time out.
Unlisted ==
  "exists" \notin Happenings =>
    \A p \in conn :
      /\ phase = "run" /\ p \in Listed(bud) => Woken(queue, Removers(p))
      /\ Followed(queue, Listers(p), Removers(p))

\* What makes the master look for phones again, and what may stop it, C being connected.
Wakers(C) ==
  {m \in Messages :
     \/ m.from = "hci" /\ m.ev \in {"rejected", "timeout", "failed"}
     \/ m.from = "tws" /\ (m.ev = "DETACH" \/ (m.ev = "CONNECTED" /\ m.role = "master"))
     \/ m.from = "relay"
     \/ m.from = "app" /\ m.ev # "TWS_START_PAIR"
     \/ m.from = "stack" /\ m.ev = "FIRST_CONNECTED" /\ C # {}}
Blinders(C) ==
  {m \in Messages :
     \/ m.from = "hci" /\ m.ev \in {"connected", "test"}
     \/ m.from = "tws" /\ m.ev # "DETACH" /\ m.role = "slave"
     \/ m.from = "stack" /\ (m.ev = "SECOND_CONNECTED" \/ (m.ev = "FIRST_CONNECTED" /\ C = {}))}

Reached ==
  Due => /\ phase = "run" => Reach(bud) \/ Woken(queue, Wakers(conn))
         /\ Followed(queue, Blinders(conn), Wakers(conn))

\* Without the test box and the dissolved pair nothing of them is seen.
Tame(s) == s.timer # Pairing /\ Pairing \notin s.loose
Odd == {m \in Messages : \/ m.from = "hci" /\ m.ev = "test"
                         \/ m.from = "tws" /\ m.reason = "remove_pairs"
                         \/ m.from = "app" /\ m.ev = "TWS_START_PAIR"}

Plain == Usual => /\ ~remoteTest /\ Tame(bud)
                  /\ \A i \in DOMAIN queue : queue[i] \notin Odd

\* Bluetooth mode entered once: nothing is armed when the pairing state of the flash decides.
Unarmed(s) == s.timer \notin Callbacks /\ \A i \in DOMAIN s.list : ~s.list[i].timer

Kept == "modes" \notin Happenings =>
          /\ phase # "exit" /\ bud.loose = {}
          /\ Woken(queue, PowerOn) => Unarmed(bud)

QueueInv == /\ Inv /\ IsFiniteSet(acl)
            /\ Booting /\ Sided /\ Silenced /\ Unlisted /\ Reached /\ Plain /\ Kept

-----------------------------------------------------------------------------
(* The environment. *)

\* How the environment touches the bud, the phase and the test box.
Outside ==
  /\ bud' \in GoodBud /\ bud'.list = bud.list
  /\ bud'.timer \in {bud.timer, "none"} /\ bud'.loose \subseteq bud.loose
  /\ phase' = "run" => phase = "run" /\ (Quiet(bud) => Quiet(bud'))
  /\ phase' = "boot" <=> phase = "boot"
  /\ phase' = "exit" => phase = "exit" \/ "modes" \in Happenings
  /\ phase = "boot" => acl' = acl /\ link' = link
  /\ IsFiniteSet(acl')
  /\ Usual => remoteTest' = remoteTest

\* What it posts, with what the invariants need of it.
Posting(r) ==
  /\ r \in Seq(Messages) /\ queue' = queue \o r
  /\ \A i \in DOMAIN r : /\ r[i] \notin InitOk /\ r[i] \notin PowerOn
                         /\ Usual => r[i] \notin Odd
  /\ role' = "slave" => /\ link' = "connected"
                        /\ Followed(r, Detaches, Silencers)
                        /\ role = "slave" \/ Woken(r, Silencers)
  /\ "exists" \notin Happenings =>
       \A p \in conn' : /\ Followed(r, Listers(p), Removers(p))
                        /\ p \in conn \/ Woken(r, Removers(p))
  /\ Due' => /\ Followed(r, Blinders(conn'), Wakers(conn'))
             /\ \/ Woken(r, Wakers(conn'))
                \/ Due /\ conn' = conn /\ (bud' = bud \/ phase' # "run")

LEMMA ReachKept == ASSUME conn' = conn PROVE Reach(bud') <=> Reach(bud)'
BY DEF Reach, Heard, Rolls, Returns, Ticks, Usual

LEMMA PostedBooting ==
  ASSUME QueueInv, Inv', Outside, NEW r, Posting(r)
  PROVE  Booting'
<1> DEFINE n == Len(queue)
<1>1. /\ queue \in Seq(Messages) /\ r \in Seq(Messages) /\ queue' = queue \o r
  BY DEF QueueInv, Inv, TypeOK, Posting
<1>2. /\ n \in Nat /\ Len(r) \in Nat /\ DOMAIN queue = 1 .. n /\ DOMAIN r = 1 .. Len(r)
      /\ DOMAIN queue' = 1 .. n + Len(r)
      /\ \A i \in 1 .. n + Len(r) : queue'[i] = IF i <= n THEN queue[i] ELSE r[i - n]
  <2>1. /\ queue' \in Seq(Messages) /\ Len(queue') = n + Len(r)
        /\ \A i \in 1 .. n + Len(r) : queue'[i] = IF i <= n THEN queue[i] ELSE r[i - n]
    BY <1>1, ConcatProperties
  <2> QED BY <1>1, <2>1, SeqFacts
<1> HIDE DEF n
<1>3. \A i \in DOMAIN queue : i \in DOMAIN queue' /\ queue'[i] = queue[i]
  BY <1>2
<1>4. \A i \in DOMAIN queue' : i \in DOMAIN queue
                               \/ (i - n \in DOMAIN r /\ queue'[i] = r[i - n])
  BY <1>2
<1>5. \A i \in DOMAIN queue' : queue'[i] \in InitOk \/ queue'[i] \in PowerOn => i \in DOMAIN queue
  BY <1>4 DEF Posting
<1>6. Booting
  BY DEF QueueInv
<1>7. ASSUME phase' = "boot"
      PROVE  /\ acl' = {} /\ link' # "connected"
             /\ 2 \in DOMAIN queue' /\ queue'[1] \in InitOk /\ queue'[2] \in PowerOn
  <2>1. phase = "boot" /\ acl' = acl /\ link' = link
    BY <1>7 DEF Outside
  <2>2. acl = {} /\ link # "connected" /\ 2 \in DOMAIN queue
        /\ queue[1] \in InitOk /\ queue[2] \in PowerOn
    BY <1>6, <2>1 DEF Booting
  <2>3. 1 \in DOMAIN queue
    BY <1>2, <2>2
  <2> QED BY <1>3, <2>1, <2>2, <2>3
<1>8. ASSUME NEW i \in DOMAIN queue'
      PROVE  /\ queue'[i] \in InitOk => i = 1 /\ phase' = "boot"
             /\ queue'[i] \in PowerOn => i = 1 \/ (i = 2 /\ phase' = "boot")
  BY <1>3, <1>5, <1>6, <1>8 DEF Booting, Outside
<1> QED BY <1>7, <1>8 DEF Booting

LEMMA PostedSilenced ==
  ASSUME QueueInv, Outside, NEW r, Posting(r)
  PROVE  Sided' /\ Silenced'
<1>1. Sided'
  BY DEF Sided, Posting
<1>2. queue \in Seq(Messages) /\ r \in Seq(Messages) /\ queue' = queue \o r
  BY DEF QueueInv, Inv, TypeOK, Posting
<1>3. ASSUME role' = "slave"
      PROVE  /\ phase' = "run" => Quiet(bud') \/ Woken(queue', Silencers)
             /\ Followed(queue', Detaches, Silencers)
  <2>1. Followed(r, Detaches, Silencers) /\ (role = "slave" \/ Woken(r, Silencers))
    BY <1>3 DEF Posting
  <2>2. role = "slave" => /\ phase = "run" => Quiet(bud) \/ Woken(queue, Silencers)
                          /\ Followed(queue, Detaches, Silencers)
    BY DEF QueueInv, Silenced
  <2>3. phase' = "run" => phase = "run" /\ (Quiet(bud) => Quiet(bud'))
    BY DEF Outside
  <2> QED BY <1>2, <2>1, <2>2, <2>3, PostWoken
<1> QED BY <1>1, <1>3 DEF Silenced

LEMMA PostedUnlisted ==
  ASSUME QueueInv, Outside, NEW r, Posting(r)
  PROVE  Unlisted'
<1>1. queue \in Seq(Messages) /\ r \in Seq(Messages) /\ queue' = queue \o r
  BY DEF QueueInv, Inv, TypeOK, Posting
<1>2. ASSUME "exists" \notin Happenings, NEW p \in conn'
      PROVE  /\ phase' = "run" /\ p \in Listed(bud') => Woken(queue', Removers(p))
             /\ Followed(queue', Listers(p), Removers(p))
  <2>1. Followed(r, Listers(p), Removers(p)) /\ (p \in conn \/ Woken(r, Removers(p)))
    BY <1>2 DEF Posting
  <2>2. p \in conn => /\ phase = "run" /\ p \in Listed(bud) => Woken(queue, Removers(p))
                      /\ Followed(queue, Listers(p), Removers(p))
    BY <1>2 DEF QueueInv, Unlisted
  <2>3. (phase' = "run" => phase = "run") /\ Listed(bud') = Listed(bud)
    BY DEF Outside, Listed
  <2> QED BY <1>1, <2>1, <2>2, <2>3, PostWoken
<1> QED BY <1>2 DEF Unlisted

LEMMA PostedReached ==
  ASSUME QueueInv, Outside, NEW r, Posting(r)
  PROVE  Reached'
<1>1. queue \in Seq(Messages) /\ r \in Seq(Messages) /\ queue' = queue \o r
  BY DEF QueueInv, Inv, TypeOK, Posting
<1>2. ASSUME Due'
      PROVE  /\ phase' = "run" => Reach(bud)' \/ Woken(queue', Wakers(conn'))
             /\ Followed(queue', Blinders(conn'), Wakers(conn'))
  <2> DEFINE W == Wakers(conn')
             B == Blinders(conn')
  <2>1. /\ Followed(r, B, W)
        /\ Woken(r, W) \/ (Due /\ conn' = conn /\ (bud' = bud \/ phase' # "run"))
    BY <1>2 DEF Posting
  <2>2. Due /\ conn' = conn =>
          /\ phase = "run" => Reach(bud) \/ Woken(queue, W)
          /\ Followed(queue, B, W)
    BY DEF QueueInv, Reached
  <2>3. phase' = "run" => phase = "run"
    BY DEF Outside
  <2> HIDE DEF W, B
  <2>4. CASE Woken(r, W)
    BY <1>1, <2>1, <2>4, PostWoken DEF W, B
  <2>5. CASE Due /\ conn' = conn /\ (bud' = bud \/ phase' # "run")
    <3>1. bud' = bud => (Reach(bud) <=> Reach(bud)')
      BY <2>5, ReachKept
    <3> QED BY <1>1, <2>1, <2>2, <2>3, <2>5, <3>1, PostWoken DEF W, B
  <2> QED BY <2>1, <2>4, <2>5
<1> QED BY <1>2 DEF Reached

LEMMA PostedPlain ==
  ASSUME QueueInv, Outside, NEW r, Posting(r)
  PROVE  Plain' /\ Kept'
<1>1. queue \in Seq(Messages) /\ r \in Seq(Messages) /\ queue' = queue \o r
  BY DEF QueueInv, Inv, TypeOK, Posting
<1>2. /\ bud'.list = bud.list /\ bud'.timer \in {bud.timer, "none"}
      /\ bud'.loose \subseteq bud.loose
  BY DEF Outside
<1>3. Pairing # "none" /\ "none" \notin Callbacks
  BY DEF Pairing, Callbacks
<1>4. ASSUME Usual
      PROVE  ~remoteTest' /\ Tame(bud') /\ \A i \in DOMAIN queue' : queue'[i] \notin Odd
  <2>1. ~remoteTest /\ Tame(bud) /\ \A i \in DOMAIN queue : queue[i] \notin Odd
    BY <1>4 DEF QueueInv, Plain
  <2>2. ~Woken(queue, Odd) /\ ~Woken(r, Odd)
    BY <1>4, <2>1 DEF Woken, Posting
  <2>3. ~Woken(queue', Odd)
    BY <1>1, <2>2, PostWoken
  <2>4. remoteTest' = remoteTest
    BY <1>4 DEF Outside
  <2> QED BY <1>2, <1>3, <2>1, <2>3, <2>4 DEF Woken, Tame
<1>5. ASSUME "modes" \notin Happenings
      PROVE  /\ phase' # "exit" /\ bud'.loose = {}
             /\ Woken(queue', PowerOn) => Unarmed(bud')
  <2>1. phase # "exit" /\ bud.loose = {} /\ (Woken(queue, PowerOn) => Unarmed(bud))
    BY <1>5 DEF QueueInv, Kept
  <2>2. ~Woken(r, PowerOn)
    BY DEF Woken, Posting
  <2>3. Woken(queue', PowerOn) => Woken(queue, PowerOn)
    BY <1>1, <2>2, PostWoken
  <2>4. phase' # "exit"
    BY <1>5, <2>1 DEF Outside
  <2> QED BY <1>2, <1>3, <2>1, <2>3, <2>4 DEF Unarmed
<1> QED BY <1>4, <1>5 DEF Plain, Kept, Usual

LEMMA PostedInv ==
  ASSUME QueueInv, Inv', Outside, NEW r, Posting(r)
  PROVE  QueueInv'
<1>1. IsFiniteSet(acl')
  BY DEF Outside
<1>2. IsFiniteSet(acl)'
  BY <1>1 DEF IsFiniteSet
<1> QED BY <1>2, PostedBooting, PostedSilenced, PostedUnlisted, PostedReached, PostedPlain
        DEF QueueInv

\* The messages of the phones.
LEMMA HciKinds ==
  ASSUME NEW p \in Phones, NEW ev \in {"connected", "rejected", "timeout", "failed", "test"}
  PROVE  LET m == Hci(ev, p) IN
         /\ m \in Messages /\ m \notin InitOk /\ m \notin PowerOn /\ m \notin Detaches
         /\ ev # "test" => m \notin Odd
         /\ \A q \in Phones : m \in Listers(q) => ev = "timeout" /\ p = q
         /\ \A C : ev \in {"rejected", "timeout", "failed"} => m \in Wakers(C) /\ m \notin Blinders(C)
<1> DEFINE m == Hci(ev, p)
<1>1. m \in Messages /\ m.from = "hci" /\ m.ev = ev /\ m.mac = p
  BY DEF Hci, Messages, HciMessages
<1> HIDE DEF m, Messages
<1> QED BY <1>1 DEF m, InitOk, PowerOn, Detaches, Odd, Listers, Wakers, Blinders

LEMMA StackKinds ==
  ASSUME NEW p \in Phones, NEW ev \in {"FIRST_CONNECTED", "SECOND_CONNECTED"}
  PROVE  LET m == Stack(ev, p) IN
         /\ m \in Messages /\ m \notin InitOk /\ m \notin PowerOn /\ m \notin Detaches
         /\ m \notin Odd /\ m \in Removers(p)
         /\ \A q \in Phones : m \notin Listers(q)
         /\ \A C : ev = "FIRST_CONNECTED" /\ C # {} => m \in Wakers(C) /\ m \notin Blinders(C)
<1> DEFINE m == Stack(ev, p)
<1>1. m \in Messages /\ m.from = "stack" /\ m.ev = ev /\ m.mac = p
  BY DEF Stack, Messages, StackMessages
<1> HIDE DEF m, Messages
<1> QED BY <1>1 DEF m, InitOk, PowerOn, Detaches, Odd, Listers, Removers, Wakers, Blinders

\* The messages of the sibling.
LEMMA TwsKinds ==
  ASSUME NEW r \in Roles
  PROVE  /\ \A ev \in {"CONNECTED", "ROLE_SWITCH"} : LET m == Tws(ev, r, "none") IN
              /\ m \in Messages /\ m \notin InitOk /\ m \notin PowerOn /\ m \notin Odd
              /\ m \notin Detaches /\ (r = "slave" => m \in Silencers)
              /\ \A q \in Phones : m \notin Listers(q)
              /\ \A C : r = "master" => m \notin Blinders(C) /\ (ev = "CONNECTED" => m \in Wakers(C))
         /\ \A reason \in {"poweroff", "super_timeout", "other", "remove_pairs"} :
              LET m == Tws("DETACH", r, reason) IN
              /\ m \in Messages /\ m \notin InitOk /\ m \notin PowerOn
              /\ reason # "remove_pairs" => m \notin Odd
              /\ \A q \in Phones : m \notin Listers(q)
              /\ \A C : m \in Wakers(C) /\ m \notin Blinders(C)
<1>1. ASSUME NEW ev \in {"CONNECTED", "ROLE_SWITCH"}
      PROVE  LET m == Tws(ev, r, "none") IN
              /\ m \in Messages /\ m \notin InitOk /\ m \notin PowerOn /\ m \notin Odd
              /\ m \notin Detaches /\ (r = "slave" => m \in Silencers)
              /\ \A q \in Phones : m \notin Listers(q)
              /\ \A C : r = "master" => m \notin Blinders(C) /\ (ev = "CONNECTED" => m \in Wakers(C))
  <2> DEFINE m == Tws(ev, r, "none")
  <2>1. m \in Messages /\ m.from = "tws" /\ m.ev = ev /\ m.role = r /\ m.reason = "none"
    BY DEF Tws, Messages, TwsMessages
  <2> HIDE DEF m, Messages
  <2> QED BY <2>1 DEF m, InitOk, PowerOn, Detaches, Silencers, Odd, Listers, Wakers, Blinders
<1>2. ASSUME NEW reason \in {"poweroff", "super_timeout", "other", "remove_pairs"}
      PROVE  LET m == Tws("DETACH", r, reason) IN
              /\ m \in Messages /\ m \notin InitOk /\ m \notin PowerOn
              /\ reason # "remove_pairs" => m \notin Odd
              /\ \A q \in Phones : m \notin Listers(q)
              /\ \A C : m \in Wakers(C) /\ m \notin Blinders(C)
  <2> DEFINE m == Tws("DETACH", r, reason)
  <2>1. m \in Messages /\ m.from = "tws" /\ m.ev = "DETACH" /\ m.role = r /\ m.reason = reason
    BY DEF Tws, Messages, TwsMessages
  <2> HIDE DEF m, Messages
  <2> QED BY <2>1 DEF m, InitOk, PowerOn, Odd, Listers, Wakers, Blinders
<1> QED BY <1>1, <1>2

LEMMA RelayKinds ==
  ASSUME NEW m \in Messages, m.from = "relay"
  PROVE  /\ m \notin InitOk /\ m \notin PowerOn /\ m \notin Detaches /\ m \notin Odd
         /\ \A C : m \in Wakers(C) /\ m \notin Blinders(C)
BY DEF InitOk, PowerOn, Detaches, Odd, Wakers, Blinders

\* The sibling lists no phone that is connected.
LEMMA RelayedFacts ==
  ASSUME acl \subseteq Phones, NEW m \in Relays
  PROVE  /\ m \in Messages /\ m.from = "relay"
         /\ \A p \in acl : m \notin Listers(p)
<1>1. PICK n \in 0 .. 2, off \in Flags, list \in PageLists(Phones \ acl) :
        m = Relay(TRUE, n, off, list)
  BY RelaysLemma
<1>2. m \in Messages
  BY MessagesLemma
<1>3. m.from = "relay" /\ m.list = list
  BY <1>1 DEF Relay
<1>4. \A i \in DOMAIN list : list[i] \in Phones \ acl
  <2>1. CASE list = << >>
    BY <2>1
  <2>2. CASE \E p \in Phones \ acl : list = <<p>>
    BY <2>2
  <2>3. CASE \E p, q \in Phones \ acl : list = <<p, q>>
    BY <2>3
  <2> QED BY <2>1, <2>2, <2>3 DEF PageLists
<1> QED BY <1>2, <1>3, <1>4 DEF Listers

\* One message that is no Detach, no Lister of a connected phone and either wakes the
\* master or meets one that needs nothing.
LEMMA PostsOne ==
  ASSUME NEW m \in Messages, Post(<<m>>),
         m \notin InitOk, m \notin PowerOn, Usual => m \notin Odd,
         role' = "slave" => /\ link' = "connected" /\ m \notin Detaches
                            /\ role = "slave" \/ m \in Silencers,
         "exists" \notin Happenings =>
           \A p \in conn' : m \notin Listers(p) /\ (p \in conn \/ m \in Removers(p)),
         Due' => /\ m \notin Blinders(conn')
                 /\ \/ m \in Wakers(conn')
                    \/ Due /\ conn' = conn /\ (bud' = bud \/ phase' # "run")
  PROVE  Posting(<<m>>)
<1>1. <<m>> \in Seq(Messages) /\ DOMAIN <<m>> = {1} /\ <<m>>[1] = m
  OBVIOUS
<1>2. queue' = queue \o <<m>>
  BY DEF Post
<1>3. \A B, W : /\ Woken(<<m>>, W) <=> m \in W
                /\ m \notin B => Followed(<<m>>, B, W)
  BY OnePosted
<1> HIDE DEF Messages
<1> QED BY <1>1, <1>2, <1>3 DEF Posting

\* Nothing is posted.
LEMMA PostsNone ==
  ASSUME queue \in Seq(Messages), queue' = queue,
         role' = "slave" => link' = "connected" /\ role = "slave",
         conn' \subseteq conn,
         Due' => Due /\ conn' = conn /\ (bud' = bud \/ phase' # "run")
  PROVE  Posting(<< >>)
<1>1. << >> \in Seq(Messages) /\ DOMAIN << >> = {} /\ queue' = queue \o << >>
  BY ConcatEmptySeq
<1>2. \A B, W : Followed(<< >>, B, W)
  BY DEF Followed
<1> HIDE DEF Messages
<1> QED BY <1>1, <1>2 DEF Posting

\* Two messages to a bud that is a master.
LEMMA PostsTwo ==
  ASSUME NEW m \in Messages, NEW n \in Messages, Post(<<m, n>>), role' = "master",
         \A k \in {m, n} : /\ k \notin InitOk /\ k \notin PowerOn /\ k \notin Odd
                           /\ k \notin Blinders(conn')
                           /\ \A p \in conn' : k \notin Listers(p),
         conn' \subseteq conn, m \in Wakers(conn') \/ n \in Wakers(conn')
  PROVE  Posting(<<m, n>>)
<1>1. /\ <<m, n>> \in Seq(Messages) /\ DOMAIN <<m, n>> = {1, 2}
      /\ <<m, n>>[1] = m /\ <<m, n>>[2] = n
  OBVIOUS
<1>2. queue' = queue \o <<m, n>>
  BY DEF Post
<1>3. \A B, W : /\ Woken(<<m, n>>, W) <=> m \in W \/ n \in W
                /\ n \notin B /\ m \notin B => Followed(<<m, n>>, B, W)
  BY TwoPosted
<1> HIDE DEF Messages
<1> QED BY <1>1, <1>2, <1>3 DEF Posting

\* The bud is left alone, but for a page that ends.
LEMMA OutsideSame ==
  ASSUME QueueInv, bud' = bud \/ bud' = PageCancel(bud), phase' = phase,
         phase = "boot" => acl' = acl /\ link' = link,
         IsFiniteSet(acl'), Usual => remoteTest' = remoteTest
  PROVE  Outside
<1>1. bud \in GoodBud
  BY InvIsGood DEF QueueInv
<1>2. LET t == PageCancel(bud) IN Commanded(bud, t) /\ t.scan = bud.scan /\ t.paging = NoPhone
  BY <1>1, CancelEffect
<1> QED BY <1>1, <1>2 DEF Outside, Commanded, Quiet

\* The phones.
LEMMA PhoneSteps ==
  ASSUME QueueInv, NEW p \in Phones, PhoneLinks(p) \/ PhoneConnects(p) \/ PhoneLost(p)
  PROVE  Outside /\ \E r : Posting(r)
<1>1. /\ acl \subseteq Phones /\ conn \subseteq acl /\ IsFiniteSet(acl) /\ IsFiniteSet(conn)
      /\ (role = "slave" => link = "connected") /\ (phase = "boot" => acl = {})
  BY FS_Subset DEF QueueInv, Inv, TypeOK, Sided, Booting
<1>2. CASE PhoneLinks(p)
  <2> DEFINE m == Hci("connected", p)
  <2>1. /\ acl' = acl \cup {p} /\ p \notin acl /\ Post(<<m>>) /\ phase # "boot"
        /\ bud' = bud \/ bud' = PageCancel(bud)
        /\ UNCHANGED <<conn, link, role, phase, remoteTest>>
    BY <1>2 DEF PhoneLinks, Happens
  <2>2. IsFiniteSet(acl')
    BY <1>1, <2>1, FS_AddElement
  <2>3. Outside
    BY <2>1, <2>2, OutsideSame
  <2>4. /\ m \in Messages /\ m \notin InitOk /\ m \notin PowerOn /\ m \notin Detaches
        /\ m \notin Odd /\ \A q \in Phones : m \notin Listers(q)
    BY HciKinds
  <2>5. ~Due'
    BY <1>1, <2>1 DEF Due
  <2> HIDE DEF m
  <2>6. Posting(<<m>>)
    BY <1>1, <2>1, <2>4, <2>5, PostsOne
  <2> QED BY <2>3, <2>6
<1>3. CASE PhoneConnects(p)
  <2> DEFINE ev == IF conn = {} THEN "FIRST_CONNECTED" ELSE "SECOND_CONNECTED"
             m == Stack(ev, p)
  <2>1. /\ conn' = conn \cup {p} /\ p \in acl \ conn /\ Post(<<m>>)
        /\ UNCHANGED <<bud, acl, link, role, phase, remoteTest>>
    BY <1>3 DEF PhoneConnects
  <2>2. Outside
    BY <1>1, <2>1, OutsideSame
  <2>3. /\ m \in Messages /\ m \notin InitOk /\ m \notin PowerOn /\ m \notin Detaches
        /\ m \notin Odd /\ m \in Removers(p) /\ \A q \in Phones : m \notin Listers(q)
        /\ conn = {} => m \in Wakers(conn') /\ m \notin Blinders(conn')
    <3>1. conn' # {}
      BY <2>1
    <3> QED BY <3>1, StackKinds
  <2>4. Due' => conn = {}
    <3>1. ASSUME Due' PROVE Connected' < 2
      <4>1. conn' # {}
        BY <2>1
      <4> QED BY <3>1, <4>1 DEF Due
    <3>2. Connected' = Connected + 1 /\ Connected \in Nat
      BY <1>1, <2>1, FS_AddElement, FS_CardinalityType DEF Connected
    <3>3. Connected = 0 => conn = {}
      BY <1>1, FS_EmptySet DEF Connected
    <3> QED BY <3>1, <3>2, <3>3
  <2> HIDE DEF m
  <2>5. Posting(<<m>>)
    BY <1>1, <2>1, <2>3, <2>4, PostsOne
  <2> QED BY <2>2, <2>5
<1>4. CASE PhoneLost(p)
  <2>1. PICK ev \in {"timeout", "failed"} : Post(<<Hci(ev, p)>>)
    BY <1>4 DEF PhoneLost
  <2> DEFINE m == Hci(ev, p)
  <2>2. /\ acl' = acl \ {p} /\ conn' = conn \ {p} /\ phase # "boot"
        /\ UNCHANGED <<bud, link, role, phase, remoteTest>>
    BY <1>4 DEF PhoneLost, Happens
  <2>3. IsFiniteSet(acl')
    BY <1>1, <2>2, FS_RemoveElement
  <2>4. Outside
    BY <2>2, <2>3, OutsideSame
  <2>5. /\ m \in Messages /\ m \notin InitOk /\ m \notin PowerOn /\ m \notin Detaches
        /\ m \notin Odd /\ \A q \in Phones : m \in Listers(q) => p = q
        /\ m \in Wakers(conn') /\ m \notin Blinders(conn')
    BY HciKinds
  <2> HIDE DEF m
  <2>6. Posting(<<m>>)
    BY <1>1, <2>1, <2>2, <2>5, PostsOne DEF m
  <2> QED BY <2>4, <2>6
<1> QED BY <1>2, <1>3, <1>4

\* A page ends without a connection.
LEMMA PageStep ==
  ASSUME QueueInv, PageFails
  PROVE  Outside /\ \E r : Posting(r)
<1>1. /\ acl \subseteq Phones /\ conn \subseteq acl /\ IsFiniteSet(acl) /\ bud \in GoodBud
      /\ (role = "slave" => link = "connected")
  BY InvIsGood DEF QueueInv, Inv, TypeOK, Sided
<1> DEFINE p == bud.paging
<1>2. p \in Phones
  BY <1>1, FieldsLemma DEF PageFails, Bud
<1>3. PICK ev \in {"rejected", "timeout", "failed"} : Post(<<Hci(ev, p)>>)
  BY DEF PageFails
<1>4. /\ bud' = PageCancel(bud) /\ UNCHANGED <<acl, conn, link, role, phase, remoteTest>>
      /\ p \in acl => "exists" \in Happenings
  BY DEF PageFails
<1>5. Outside
  BY <1>1, <1>4, OutsideSame
<1> DEFINE m == Hci(ev, p)
<1>6. /\ m \in Messages /\ m \notin InitOk /\ m \notin PowerOn /\ m \notin Detaches
      /\ m \notin Odd /\ \A q \in Phones : m \in Listers(q) => p = q
      /\ m \in Wakers(conn') /\ m \notin Blinders(conn')
  BY <1>2, HciKinds
<1> HIDE DEF m, p
<1>7. Posting(<<m>>)
  BY <1>1, <1>3, <1>4, <1>6, PostsOne DEF m
<1> QED BY <1>5, <1>7

\* The sibling.
LEMMA SiblingSteps ==
  ASSUME QueueInv, SiblingConnects \/ SiblingDetaches \/ RolesSwitch \/ SiblingClosesInquiry
  PROVE  Outside /\ \E r : Posting(r)
<1>1. /\ acl \subseteq Phones /\ conn \subseteq acl /\ IsFiniteSet(acl) /\ role \in Roles
      /\ (role = "slave" => link = "connected") /\ phase # "boot"
      /\ IsFiniteSet({})
  BY FS_EmptySet DEF QueueInv, Inv, TypeOK, Sided, SiblingConnects, SiblingDetaches, RolesSwitch,
     SiblingClosesInquiry, Happens
<1>2. ASSUME UNCHANGED <<bud, phase, remoteTest>>, acl' \subseteq acl PROVE Outside
  <2>1. IsFiniteSet(acl')
    BY <1>1, <1>2, FS_Subset
  <2> QED BY <1>1, <1>2, <2>1, OutsideSame
<1>3. \A m \in Relays : /\ m \in Messages /\ m \notin InitOk /\ m \notin PowerOn
                        /\ m \notin Detaches /\ m \notin Odd
                        /\ \A p \in conn : m \notin Listers(p)
                        /\ \A C : m \in Wakers(C) /\ m \notin Blinders(C)
  BY <1>1, RelayedFacts, RelayKinds
<1>4. CASE SiblingConnects
  <2>1. Outside
    BY <1>2, <1>4 DEF SiblingConnects
  <2>2. link' = "connected" /\ UNCHANGED <<bud, acl, conn, phase, remoteTest>>
    BY <1>4 DEF SiblingConnects
  <2>3. CASE role' = "master" /\ Post(<<Tws("CONNECTED", "master", "none")>>)
    <3> DEFINE m == Tws("CONNECTED", "master", "none")
    <3>1. /\ m \in Messages /\ m \notin InitOk /\ m \notin PowerOn /\ m \notin Odd
          /\ \A q \in Phones : m \notin Listers(q)
          /\ m \in Wakers(conn') /\ m \notin Blinders(conn')
      BY TwsKinds DEF Roles
    <3> HIDE DEF m
    <3>2. Posting(<<m>>)
      BY <1>1, <2>2, <2>3, <3>1, PostsOne DEF m
    <3> QED BY <2>1, <3>2
  <2>4. ASSUME acl = {}, role' = "slave", NEW m \in Relays,
               Post(<<Tws("CONNECTED", "slave", "none"), m>>)
        PROVE  \E r : Posting(r)
    <3> DEFINE k == Tws("CONNECTED", "slave", "none")
    <3>1. /\ k \in Messages /\ k \notin InitOk /\ k \notin PowerOn /\ k \notin Odd
          /\ k \notin Detaches /\ k \in Silencers
      BY TwsKinds DEF Roles
    <3>2. conn' = {} /\ ~Due'
      BY <1>1, <2>2, <2>4 DEF Due
    <3> HIDE DEF k, Messages
    <3>3. /\ <<k, m>> \in Seq(Messages) /\ DOMAIN <<k, m>> = {1, 2}
          /\ <<k, m>>[1] = k /\ <<k, m>>[2] = m
      BY <1>3, <3>1
    <3>4. queue' = queue \o <<k, m>>
      BY <2>4 DEF Post, k
    <3>5. Woken(<<k, m>>, Silencers) /\ Followed(<<k, m>>, Detaches, Silencers)
      BY <1>3, <3>1, TwoPosted
    <3>6. Posting(<<k, m>>)
      BY <1>3, <2>2, <2>4, <3>1, <3>2, <3>3, <3>4, <3>5 DEF Posting
    <3> QED BY <3>6
  <2> QED BY <1>4, <2>1, <2>3, <2>4 DEF SiblingConnects
<1>5. CASE SiblingDetaches
  <2>1. PICK reason \in {"poweroff", "super_timeout", "other", "remove_pairs"} :
          /\ reason = "remove_pairs" => "unpair" \in Happenings
          /\ Detach(reason) /\ Post(<<Tws("DETACH", role, reason)>>)
    BY <1>5 DEF SiblingDetaches
  <2>2. /\ UNCHANGED <<bud, phase, remoteTest>> /\ role' = "master"
        /\ acl' \subseteq acl /\ conn' \subseteq conn
    BY <1>5, <2>1 DEF SiblingDetaches, Detach
  <2>3. Outside
    BY <1>2, <2>2
  <2> DEFINE m == Tws("DETACH", role, reason)
  <2>4. /\ m \in Messages /\ m \notin InitOk /\ m \notin PowerOn
        /\ Usual => m \notin Odd
        /\ \A q \in Phones : m \notin Listers(q)
        /\ m \in Wakers(conn') /\ m \notin Blinders(conn')
    BY <1>1, <2>1, TwsKinds DEF Usual
  <2> HIDE DEF m
  <2>5. Posting(<<m>>)
    BY <1>1, <2>1, <2>2, <2>4, PostsOne DEF m
  <2> QED BY <2>3, <2>5
<1>6. CASE RolesSwitch
  <2> DEFINE r == IF role = "master" THEN "slave" ELSE "master"
             k == Tws("ROLE_SWITCH", r, "none")
             d == Tws("DETACH", r, "super_timeout")
  <2>1. /\ link = "connected" /\ UNCHANGED <<bud, phase, remoteTest>>
        /\ \/ r = "slave" /\ role' = r /\ Post(<<k>>) /\ UNCHANGED <<acl, conn, link>>
           \/ /\ r = "master" /\ role' = r /\ UNCHANGED <<acl, conn, link>>
              /\ \E m \in Relays : Post(<<k, m>>) \/ Post(<<m, k>>)
           \/ r = "master" /\ Detach("super_timeout") /\ Post(<<k, d>>)
    BY <1>6 DEF RolesSwitch
  <2>2. r \in Roles
    BY DEF Roles
  <2> HIDE DEF r
  <2>3. /\ k \in Messages /\ k \notin InitOk /\ k \notin PowerOn /\ k \notin Odd
        /\ k \notin Detaches /\ (r = "slave" => k \in Silencers)
        /\ \A q \in Phones : k \notin Listers(q)
        /\ \A C : r = "master" => k \notin Blinders(C)
        /\ d \in Messages /\ d \notin InitOk /\ d \notin PowerOn /\ d \notin Odd
        /\ \A q \in Phones : d \notin Listers(q)
        /\ \A C : d \in Wakers(C) /\ d \notin Blinders(C)
    BY <2>2, TwsKinds
  <2> HIDE DEF k, d
  <2>4. CASE r = "slave" /\ role' = r /\ Post(<<k>>) /\ UNCHANGED <<acl, conn, link>>
    <3>1. Outside
      BY <1>2, <2>1, <2>4
    <3>2. ~Due'
      BY <2>4 DEF Due
    <3>3. Posting(<<k>>)
      BY <1>1, <2>1, <2>3, <2>4, <3>2, PostsOne
    <3> QED BY <3>1, <3>3
  <2>5. ASSUME r = "master", role' = r, UNCHANGED <<acl, conn, link>>, NEW m \in Relays,
               Post(<<k, m>>) \/ Post(<<m, k>>)
        PROVE  Outside /\ \E x : Posting(x)
    <3>1. Outside
      BY <1>2, <2>1, <2>5
    <3>2. /\ m \in Messages /\ m \notin InitOk /\ m \notin PowerOn /\ m \notin Odd
          /\ m \in Wakers(conn') /\ m \notin Blinders(conn') /\ k \notin Blinders(conn')
          /\ \A p \in conn' : m \notin Listers(p) /\ k \notin Listers(p)
      BY <1>1, <1>3, <2>3, <2>5
    <3>3. Posting(<<k, m>>) \/ Posting(<<m, k>>)
      <4>1. CASE Post(<<k, m>>)
        BY <2>3, <2>5, <3>2, <4>1, PostsTwo
      <4>2. CASE Post(<<m, k>>)
        BY <2>3, <2>5, <3>2, <4>2, PostsTwo
      <4> QED BY <2>5, <4>1, <4>2
    <3> QED BY <3>1, <3>3
  <2>6. CASE r = "master" /\ Detach("super_timeout") /\ Post(<<k, d>>)
    <3>1. role' = "master" /\ acl' \subseteq acl /\ conn' \subseteq conn
      BY <2>6 DEF Detach
    <3>2. Outside
      BY <1>2, <2>1, <3>1
    <3>3. /\ k \notin Blinders(conn') /\ d \notin Blinders(conn') /\ d \in Wakers(conn')
          /\ \A p \in conn' : k \notin Listers(p) /\ d \notin Listers(p)
      BY <1>1, <2>3, <2>6, <3>1
    <3>4. Posting(<<k, d>>)
      BY <2>3, <2>6, <3>1, <3>3, PostsTwo
    <3> QED BY <3>2, <3>4
  <2> QED BY <2>1, <2>4, <2>5, <2>6
<1>7. CASE SiblingClosesInquiry
  <2>1. PICK n \in 0 .. 2 : Post(<<Relay(FALSE, n, 1, << >>)>>)
    BY <1>7 DEF SiblingClosesInquiry
  <2>2. UNCHANGED <<bud, acl, conn, link, role, phase, remoteTest>> /\ role = "slave"
    BY <1>7 DEF SiblingClosesInquiry
  <2>3. Outside
    BY <1>2, <2>2
  <2> DEFINE m == Relay(FALSE, n, 1, << >>)
  <2>4. m \in Messages /\ m.from = "relay" /\ m.list = << >>
    BY MessagesLemma DEF Relay
  <2> HIDE DEF m
  <2>5. /\ m \notin InitOk /\ m \notin PowerOn /\ m \notin Detaches /\ m \notin Odd
        /\ \A p : m \notin Listers(p)
    BY <2>4, RelayKinds DEF Listers
  <2>6. ~Due'
    BY <2>2 DEF Due
  <2>7. Posting(<<m>>)
    BY <1>1, <2>1, <2>2, <2>4, <2>5, <2>6, PostsOne DEF m
  <2> QED BY <2>3, <2>7
<1> QED BY <1>4, <1>5, <1>6, <1>7

\* The key, the test box, and the ends of Bluetooth mode.
LEMMA OtherSteps ==
  ASSUME QueueInv, KeyStartPair \/ TestBox \/ SoftPoweroff \/ BtModeExit
  PROVE  Outside /\ \E r : Posting(r)
<1>1. /\ acl \subseteq Phones /\ conn \subseteq acl /\ IsFiniteSet(acl)
      /\ (role = "slave" => link = "connected") /\ bud \in GoodBud /\ queue \in Seq(Messages)
  BY InvIsGood DEF QueueInv, Inv, TypeOK, Sided
<1>2. CASE KeyStartPair
  <2> DEFINE m == [from |-> "app", ev |-> "TWS_START_PAIR"]
  <2>1. /\ UNCHANGED <<bud, acl, conn, link, role, phase, remoteTest>> /\ Post(<<m>>)
        /\ "unpair" \in Happenings
    BY <1>2 DEF KeyStartPair
  <2>2. Outside
    BY <1>1, <2>1, OutsideSame
  <2>3. m \in Messages /\ m.from = "app" /\ m.ev = "TWS_START_PAIR"
    BY MessagesLemma
  <2> HIDE DEF m
  <2>4. /\ m \notin InitOk /\ m \notin PowerOn /\ m \notin Detaches
        /\ \A p : m \notin Listers(p) /\ m \notin Blinders(conn')
    BY <2>3 DEF InitOk, PowerOn, Detaches, Listers, Blinders
  <2>5. ~Usual /\ (Due' => Due)
    BY <2>1 DEF Usual, Due, Connected
  <2>6. Posting(<<m>>)
    BY <1>1, <2>1, <2>3, <2>4, <2>5, PostsOne
  <2> QED BY <2>2, <2>6
<1>3. CASE TestBox
  <2>1. /\ UNCHANGED <<bud, acl, conn, link, role, phase>> /\ ~Usual /\ acl # {}
        /\ queue' = queue \/ \E p \in acl : Post(<<Hci("test", p)>>)
    BY <1>3 DEF TestBox, Usual
  <2>2. Outside
    BY <1>1, <2>1, OutsideSame
  <2>3. ~Due'
    BY <2>1 DEF Due, Usual
  <2>4. CASE queue' = queue
    <3>1. Posting(<< >>)
      BY <1>1, <2>1, <2>3, <2>4, PostsNone
    <3> QED BY <2>2, <3>1
  <2>5. ASSUME NEW p \in acl, Post(<<Hci("test", p)>>) PROVE \E r : Posting(r)
    <3> DEFINE m == Hci("test", p)
    <3>1. /\ m \in Messages /\ m \notin InitOk /\ m \notin PowerOn /\ m \notin Detaches
          /\ \A q \in Phones : m \notin Listers(q)
      BY <1>1, HciKinds
    <3> HIDE DEF m
    <3>2. Posting(<<m>>)
      BY <1>1, <2>1, <2>3, <2>5, <3>1, PostsOne DEF m
    <3> QED BY <3>2
  <2> QED BY <2>1, <2>2, <2>4, <2>5
<1>4. CASE SoftPoweroff \/ BtModeExit
  <2> DEFINE t == tws_dual_conn_close(bud)
  <2>1. /\ bud' = t /\ UNCHANGED <<queue, acl, conn, link, role, remoteTest>>
        /\ phase # "boot" /\ phase' \in {"poweroff", "poweroff_exit", "exit"}
        /\ phase' = "exit" => "modes" \in Happenings
    BY <1>4 DEF SoftPoweroff, BtModeExit, Happens
  <2>2. Served(bud, t, {}) /\ t.list = bud.list /\ t.timer = "none"
    BY <1>1, CloseServed
  <2> HIDE DEF t
  <2>3. Outside
    BY <1>1, <2>1, <2>2 DEF Outside, Served, Tended
  <2>4. Due' => Due
    BY <2>1 DEF Due, Connected
  <2>5. Posting(<< >>)
    BY <1>1, <2>1, <2>4, PostsNone
  <2> QED BY <2>3, <2>5
<1> QED BY <1>2, <1>3, <1>4

\* Bluetooth mode is entered again.
LEMMA ModeInitStep ==
  ASSUME QueueInv, Inv', BtModeInit
  PROVE  QueueInv'
<1> DEFINE ev == IF link = "paired" THEN "TWS_PAIRED" ELSE "TWS_UNPAIRED"
           m == Stack("INIT_OK", NoPhone)
           n == [from |-> "app", ev |-> ev]
<1>1. /\ phase = "exit" /\ acl = {} /\ link # "connected" /\ queue = << >>
      /\ phase' = "boot" /\ UNCHANGED <<acl, conn, link, role, remoteTest>>
      /\ bud' = [bud EXCEPT !.scan = Closed, !.paging = NoPhone, !.lib = "none"]
      /\ queue' = queue \o <<m, n>>
  BY DEF BtModeInit, Post
<1>2. /\ acl \subseteq Phones /\ conn \subseteq acl /\ IsFiniteSet(acl) /\ bud \in GoodBud
      /\ link \in Links /\ role \in Roles
  BY InvIsGood DEF QueueInv, Inv, TypeOK
<1>3. m \in InitOk /\ n \in PowerOn /\ m \in Messages /\ n \in Messages
      /\ m \notin PowerOn /\ n \notin InitOk /\ m \notin Odd /\ n \notin Odd
      /\ m.from = "stack" /\ m.ev = "INIT_OK" /\ n.from = "app" /\ n.ev # "TWS_START_PAIR"
  <2>1. m \in Messages /\ m.from = "stack" /\ m.ev = "INIT_OK"
    BY MessagesLemma DEF Stack
  <2>2. n \in Messages /\ n.from = "app" /\ n.ev # "TWS_START_PAIR"
    BY MessagesLemma
  <2> HIDE DEF m, n, Messages
  <2> QED BY <2>1, <2>2 DEF InitOk, PowerOn, Odd
<1> HIDE DEF m, n, Messages
<1>4. /\ queue' = <<m, n>> /\ DOMAIN <<m, n>> = {1, 2}
      /\ <<m, n>>[1] = m /\ <<m, n>>[2] = n
  BY <1>1
<1>5. IsFiniteSet(acl)'
  BY <1>1, <1>2 DEF IsFiniteSet
<1>6. Booting'
  BY <1>1, <1>3, <1>4 DEF Booting
<1>7. Sided' /\ Silenced'
  <2>1. role # "slave"
    BY <1>1 DEF QueueInv, Sided
  <2> QED BY <1>1, <2>1 DEF Sided, Silenced
<1>8. conn' = {} /\ conn = {}
  BY <1>1, <1>2
<1>9. Unlisted'
  BY <1>8 DEF Unlisted
<1>10. Reached'
  <2>1. m \notin Blinders(conn') /\ n \notin Blinders(conn')
    BY <1>3 DEF Blinders
  <2>2. Followed(queue', Blinders(conn'), Wakers(conn'))
    BY <1>4, <2>1 DEF Followed
  <2> QED BY <1>1, <2>2 DEF Reached
<1>11. bud'.list = bud.list /\ bud'.timer = bud.timer /\ bud'.loose = bud.loose
  BY <1>1, <1>2 DEF GoodBud, Bud
<1>12. Plain'
  <2>1. Usual => ~remoteTest /\ Tame(bud)
    BY DEF QueueInv, Plain
  <2>2. Tame(bud) => Tame(bud')
    BY <1>11 DEF Tame
  <2> QED BY <1>1, <1>3, <1>4, <2>1, <2>2 DEF Plain, Usual
<1>13. Kept'
  <2>1. "modes" \in Happenings
    BY <1>1 DEF QueueInv, Kept
  <2> QED BY <2>1 DEF Kept
<1> QED BY <1>5, <1>6, <1>7, <1>9, <1>10, <1>12, <1>13 DEF QueueInv

LEMMA EnvironmentQueueInv ==
  ASSUME QueueInv, Environment
  PROVE  QueueInv'
<1>1. Inv'
  BY EnvironmentInv DEF QueueInv
<1>2. ASSUME Outside /\ \E r : Posting(r) PROVE QueueInv'
  BY <1>1, <1>2, PostedInv
<1> QED BY <1>1, <1>2, PhoneSteps, PageStep, SiblingSteps, OtherSteps, ModeInitStep DEF Environment

-----------------------------------------------------------------------------
(* The engine: its timers. *)

LEMMA FiniteConn ==
  ASSUME QueueInv
  PROVE  /\ IsFiniteSet(conn) /\ conn \subseteq acl /\ acl \subseteq Phones
         /\ bud \in GoodBud /\ link \in Links /\ role \in Roles /\ queue \in Seq(Messages)
         /\ Due /\ phase = "run" => Expects
         /\ role = "slave" /\ phase = "run" => SlaveRuns
<1>1. conn \subseteq acl /\ IsFiniteSet(acl)
  BY DEF QueueInv, Inv, TypeOK
<1>2. IsFiniteSet(conn)
  BY <1>1, FS_Subset
<1>3. Usual => ~remoteTest
  BY DEF QueueInv, Plain
<1> QED BY <1>1, <1>2, <1>3, InvIsGood DEF QueueInv, Inv, TypeOK, Expects, Sided, SlaveRuns

\* What a timer of the engine does.
Timed(s, t) ==
  /\ Listed(t) \subseteq Listed(s)
  /\ Tame(s) => Tame(t)
  /\ s.loose = {} => t.loose = {}
  /\ s.loose = {} /\ Unarmed(s) => Unarmed(t)
  /\ SlaveRuns /\ Quiet(s) => Quiet(t)
  /\ Expects /\ (Usual => Tame(s)) /\ Reach(s) => Reach(t)

LEMMA TimedInv ==
  ASSUME QueueInv, Inv', Timed(bud, bud'),
         UNCHANGED <<queue, acl, conn, link, role, phase, remoteTest>>
  PROVE  QueueInv'
<1>1. IsFiniteSet(acl)'
  BY DEF QueueInv, IsFiniteSet
<1>2. Booting' /\ Sided'
  BY DEF QueueInv, Booting, Sided
<1>3. Silenced'
  <2>1. role = "slave" /\ phase = "run" /\ Quiet(bud) => Quiet(bud')
    BY FiniteConn DEF Timed
  <2> QED BY <2>1 DEF QueueInv, Silenced
<1>4. Unlisted'
  BY DEF QueueInv, Unlisted, Timed
<1>5. Plain'
  <2>1. Tame(bud) => Tame(bud')
    BY DEF Timed
  <2> QED BY <2>1 DEF QueueInv, Plain, Usual
<1>6. Kept'
  BY DEF QueueInv, Kept, Timed
<1>7. Reached'
  <2>1. Due' <=> Due
    BY DEF Due, Connected, Usual
  <2>2. Usual => Tame(bud)
    BY DEF QueueInv, Plain
  <2>3. Due /\ phase = "run" /\ Reach(bud) => Reach(bud')
    BY <2>2, FiniteConn DEF Timed
  <2>4. Reach(bud') <=> Reach(bud)'
    BY ReachKept
  <2> QED BY <2>1, <2>3, <2>4 DEF QueueInv, Reached
<1> QED BY <1>1, <1>2, <1>3, <1>4, <1>5, <1>6, <1>7 DEF QueueInv

\* The names of the timers.
LEMMA TimerNames ==
  /\ "none" \notin Callbacks /\ "stale" \notin Callbacks /\ Pairing \in Callbacks
  /\ Own \subseteq Callbacks /\ Pairing \notin Own /\ "none" # Pairing /\ "stale" # Pairing
BY DEF Own, Pairing, Callbacks

LEMMA MainTimed ==
  ASSUME QueueInv, MainTimer
  PROVE  Timed(bud, bud')
<1> DEFINE s == [bud EXCEPT !.timer = "stale"]
           cb == bud.timer
<1>1. PICK esco \in BOOLEAN : bud' = RunCallback(s, cb, esco)
  BY DEF MainTimer, Deliver
<1>2. cb \in Callbacks
  BY DEF MainTimer
<1>3. bud \in GoodBud /\ link \in Links /\ role \in Roles
  BY FiniteConn
<1>4. /\ s \in GoodBud /\ s.timer = "stale" /\ s.list = bud.list /\ s.loose = bud.loose
      /\ s.scan = bud.scan /\ s.paging = bud.paging
  <2>1. s \in GoodBud
    BY <1>3, FieldsLemma
  <2> QED BY <1>3, <2>1 DEF GoodBud, Bud
<1> HIDE DEF s
<1>5. Called(s, bud') /\ (Expects /\ (Usual => cb # Pairing) => Reach(bud'))
  BY <1>1, <1>2, <1>3, <1>4, CallbackServed
<1>6. bud'.loose \subseteq bud.loose /\ bud'.timer # Pairing
  BY <1>4, <1>5, NotArmed, TimerNames DEF Called
<1>7. Listed(bud') \subseteq Listed(bud)
  BY <1>4, <1>5 DEF Called, Listed
<1>8. SlaveRuns /\ Quiet(bud) => Quiet(bud')
  BY <1>4, <1>5 DEF Called, Quiet
<1>9. ~Unarmed(bud)
  BY <1>2 DEF Unarmed
<1> QED BY <1>5, <1>6, <1>7, <1>8, <1>9 DEF Timed, Tame

LEMMA LooseTimed ==
  ASSUME QueueInv, LooseTimer
  PROVE  Timed(bud, bud')
<1>1. PICK cb \in bud.loose, esco \in BOOLEAN :
        bud' = RunCallback([bud EXCEPT !.loose = @ \ {cb}], cb, esco)
  BY DEF LooseTimer, Deliver
<1> DEFINE l == bud.loose \ {cb}
           s == [bud EXCEPT !.loose = l]
<1>2. bud \in GoodBud /\ link \in Links /\ role \in Roles
  BY FiniteConn
<1>3. cb \in Callbacks /\ l \subseteq Callbacks
  BY <1>2, FieldsLemma DEF Bud
<1>4. bud' = RunCallback(s, cb, esco)
  BY <1>1
<1> HIDE DEF l
<1>5. /\ s \in GoodBud /\ s.timer = bud.timer /\ s.list = bud.list /\ s.loose = l
      /\ s.scan = bud.scan /\ s.paging = bud.paging
  <2>1. s \in GoodBud
    BY <1>2, <1>3, FieldsLemma
  <2> QED BY <1>2, <2>1 DEF GoodBud, Bud
<1> HIDE DEF s
<1>6. Called(s, bud') /\ (Expects /\ (Usual => cb # Pairing) => Reach(bud'))
  BY <1>2, <1>3, <1>4, <1>5, CallbackServed
<1>7. Listed(bud') \subseteq Listed(bud)
  BY <1>5, <1>6 DEF Called, Listed
<1>8. SlaveRuns /\ Quiet(bud) => Quiet(bud')
  BY <1>5, <1>6 DEF Called, Quiet
<1>9. Tame(bud) => Tame(bud') /\ cb # Pairing
  <2>1. ASSUME Tame(bud) PROVE Pairing \notin bud'.loose /\ bud'.timer # Pairing /\ cb # Pairing
    <3>1. bud.timer # Pairing /\ Pairing \notin bud.loose
      BY <2>1 DEF Tame
    <3>2. Pairing \notin l /\ Pairing \notin Armed(bud.timer)
      BY <3>1 DEF l, Armed
    <3> QED BY <1>1, <1>5, <1>6, <3>1, <3>2, TimerNames DEF Called
  <2> QED BY <2>1 DEF Tame
<1>10. bud.loose # {}
  BY <1>1
<1> QED BY <1>6, <1>7, <1>8, <1>9, <1>10 DEF Timed

LEMMA PageTimed ==
  ASSUME QueueInv, NEW over \in BOOLEAN, PageTimer(over)
  PROVE  Timed(bud, bud')
<1>1. PICK i \in DOMAIN bud.list, esco \in BOOLEAN :
        bud.list[i].timer /\ bud' = dual_conn_page_device_timeout(bud, i, over, esco)
  BY DEF PageTimer, Deliver
<1>2. bud \in GoodBud /\ link \in Links /\ role \in Roles
  BY FiniteConn
<1>3. Served(bud, bud', {}) /\ (Expects => Reach(bud'))
  BY <1>1, <1>2, PageTimeoutServed
<1>4. ~Unarmed(bud)
  BY <1>1 DEF Unarmed
<1> QED BY <1>3, <1>4, TimerNames DEF Timed, Served, Tended, Tame

LEMMA InquiryTimed ==
  ASSUME QueueInv, InquiryTimer
  PROVE  Timed(bud, bud')
<1>1. bud' = close_inquiry_scan(bud) /\ bud.inqTimers > 0
  BY DEF InquiryTimer, Deliver
<1>2. Served(bud, bud', {}) /\ bud'.list = bud.list /\ bud'.timer = bud.timer
      /\ (Reach(bud) => Reach(bud'))
  BY <1>1, FiniteConn, InquiryServed
<1> QED BY <1>2 DEF Timed, Served, Tended, Tame, Unarmed

LEMMA TimersQueueInv ==
  ASSUME QueueInv,
         MainTimer \/ LooseTimer \/ PageTimer(TRUE) \/ PageTimer(FALSE) \/ InquiryTimer
  PROVE  QueueInv'
<1>1. Inv'
  BY EngineInv DEF QueueInv, Engine
<1>2. UNCHANGED <<queue, acl, conn, link, role, phase, remoteTest>>
  BY DEF MainTimer, LooseTimer, PageTimer, InquiryTimer, Deliver
<1>3. Timed(bud, bud')
  BY MainTimed, LooseTimed, PageTimed, InquiryTimed
<1> QED BY <1>1, <1>2, <1>3, TimedInv

-----------------------------------------------------------------------------
(* The engine: its messages. *)

\* What the handler of m does, unless m starts Bluetooth mode.
Handles(m, s, t) ==
  /\ \A p \in Phones :
       p \in Listed(t) => (p \in Listed(s) /\ m \notin Removers(p)) \/ m \in Listers(p)
  /\ Usual /\ m \notin Odd /\ Tame(s) => Tame(t)
  /\ m \notin PowerOn \/ s.timer \notin Callbacks => t.loose \subseteq s.loose
  /\ SlaveRuns => /\ m \in Silencers => Quiet(t)
                  /\ Quiet(s) /\ m \notin Detaches => Quiet(t)
  /\ /\ Expects /\ (Usual => m \notin Odd)
     /\ m \in Wakers(conn) \/ (m \notin Blinders(conn) /\ Reach(s))
     => Reach(t)

LEMMA HandledInv ==
  ASSUME QueueInv, Inv', queue # << >>, queue' = Tail(queue), Head(queue) \notin InitOk,
         Handles(Head(queue), bud, bud'), UNCHANGED <<acl, conn, role, phase, remoteTest>>,
         role = "slave" => link' = link
  PROVE  QueueInv'
<1> DEFINE m == Head(queue)
           u == Tail(queue)
<1>1. /\ u \in Seq(Messages) /\ m = queue[1] /\ 1 \in DOMAIN queue
      /\ \A i \in DOMAIN u : i + 1 \in DOMAIN queue /\ u[i] = queue[i + 1]
      /\ DOMAIN u \subseteq Nat \ {0}
  <2>1. u \in Seq(Messages) /\ Len(u) \in Nat /\ DOMAIN u = 1 .. Len(u)
    BY FiniteConn, TailFacts, LenProperties
  <2> QED BY <2>1, FiniteConn, TailFacts
<1>2. \A B, W : /\ Woken(queue, W) /\ m \notin W => Woken(u, W)
                /\ Woken(u, W) => Woken(queue, W)
                /\ Followed(queue, B, W) => Followed(u, B, W) /\ (m \in B => Woken(u, W))
  BY FiniteConn, TailWoken
<1>3. \A W : m \in W => Woken(queue, W)
  BY <1>1 DEF Woken
<1> HIDE DEF m, u
<1>4. m \notin InitOk /\ Handles(m, bud, bud') /\ queue' = u
  BY DEF m, u
<1>5. IsFiniteSet(acl)'
  BY DEF QueueInv, IsFiniteSet
<1>6. phase # "boot" /\ \A i \in DOMAIN u : u[i] \notin InitOk /\ u[i] \notin PowerOn
  <2>1. phase # "boot"
    BY <1>1, <1>4 DEF QueueInv, Booting
  <2>2. ASSUME NEW i \in DOMAIN u PROVE u[i] \notin InitOk /\ u[i] \notin PowerOn
    <3>1. i + 1 \in DOMAIN queue /\ u[i] = queue[i + 1] /\ i + 1 # 1
      BY <1>1
    <3> QED BY <2>1, <3>1 DEF QueueInv, Booting
  <2> QED BY <2>1, <2>2
<1>7. Booting'
  BY <1>4, <1>6 DEF Booting
<1>8. Sided'
  BY DEF QueueInv, Sided
<1>9. Silenced'
  <2>1. ASSUME role = "slave"
        PROVE  /\ phase = "run" => Quiet(bud') \/ Woken(u, Silencers)
               /\ Followed(u, Detaches, Silencers)
    <3>1. /\ phase = "run" => Quiet(bud) \/ Woken(queue, Silencers)
          /\ Followed(queue, Detaches, Silencers)
      BY <2>1 DEF QueueInv, Silenced
    <3>2. phase = "run" => SlaveRuns
      BY <2>1, FiniteConn
    <3>3. phase = "run" /\ m \in Silencers => Quiet(bud')
      BY <1>4, <3>2 DEF Handles
    <3>4. phase = "run" /\ Quiet(bud) /\ m \notin Detaches => Quiet(bud')
      BY <1>4, <3>2 DEF Handles
    <3> QED BY <1>2, <3>1, <3>3, <3>4
  <2> QED BY <1>4, <2>1 DEF Silenced
<1>10. Unlisted'
  <2>1. ASSUME "exists" \notin Happenings, NEW p \in conn
        PROVE  /\ phase = "run" /\ p \in Listed(bud') => Woken(u, Removers(p))
               /\ Followed(u, Listers(p), Removers(p))
    <3>1. /\ phase = "run" /\ p \in Listed(bud) => Woken(queue, Removers(p))
          /\ Followed(queue, Listers(p), Removers(p))
      BY <2>1 DEF QueueInv, Unlisted
    <3>2. p \in Listed(bud') => (p \in Listed(bud) /\ m \notin Removers(p)) \/ m \in Listers(p)
      BY <1>4, FiniteConn DEF Handles
    <3> QED BY <1>2, <3>1, <3>2
  <2> QED BY <1>4, <2>1 DEF Unlisted
<1>11. Usual => m \notin Odd /\ Tame(bud)
  BY <1>1 DEF QueueInv, Plain
<1>12. Plain'
  <2>1. Usual => ~remoteTest /\ Tame(bud) /\ \A i \in DOMAIN queue : queue[i] \notin Odd
    BY DEF QueueInv, Plain
  <2>2. Usual => Tame(bud')
    BY <1>4, <1>11 DEF Handles
  <2>3. Usual => \A i \in DOMAIN u : u[i] \notin Odd
    BY <1>1, <2>1
  <2> QED BY <1>4, <2>1, <2>2, <2>3 DEF Plain, Usual
<1>13. Kept'
  <2>1. ASSUME "modes" \notin Happenings
        PROVE  phase # "exit" /\ bud'.loose = {} /\ ~Woken(u, PowerOn)
    <3>1. phase # "exit" /\ bud.loose = {} /\ (Woken(queue, PowerOn) => Unarmed(bud))
      BY <2>1 DEF QueueInv, Kept
    <3>2. m \in PowerOn => bud.timer \notin Callbacks
      BY <1>3, <3>1 DEF Unarmed
    <3>3. ~Woken(u, PowerOn)
      BY <1>6 DEF Woken
    <3>4. bud'.loose \subseteq bud.loose
      BY <1>4, <3>2 DEF Handles
    <3> QED BY <3>1, <3>3, <3>4
  <2> QED BY <1>4, <2>1 DEF Kept
<1>14. Reached'
  <2> DEFINE W == Wakers(conn)
             B == Blinders(conn)
  <2>1. Due' <=> Due
    BY DEF Due, Connected, Usual
  <2>2. ASSUME Due
        PROVE  /\ phase = "run" => Reach(bud') \/ Woken(u, W)
               /\ Followed(u, B, W)
    <3>1. /\ phase = "run" => Reach(bud) \/ Woken(queue, W)
          /\ Followed(queue, B, W)
      BY <2>2 DEF QueueInv, Reached
    <3>2. phase = "run" => Expects
      BY <2>2, FiniteConn
    <3>3. phase = "run" /\ (m \in W \/ (m \notin B /\ Reach(bud))) => Reach(bud')
      BY <1>4, <1>11, <3>2 DEF Handles
    <3> HIDE DEF W, B
    <3> QED BY <1>2, <3>1, <3>3
  <2>3. Reach(bud') <=> Reach(bud)'
    BY ReachKept
  <2> QED BY <1>4, <2>1, <2>2, <2>3 DEF Reached
<1> QED BY <1>5, <1>7, <1>8, <1>9, <1>10, <1>12, <1>13, <1>14 DEF QueueInv

\* The kind of a message is read from its fields.
LEMMA FieldKinds ==
  ASSUME NEW m \in Messages
  PROVE  /\ m \in Odd <=> \/ m.from = "hci" /\ m.ev = "test"
                          \/ m.from = "tws" /\ m.reason = "remove_pairs"
                          \/ m.from = "app" /\ m.ev = "TWS_START_PAIR"
         /\ m \in PowerOn <=> m.from = "app" /\ m.ev # "TWS_START_PAIR"
         /\ m \in Detaches <=> m.from = "tws" /\ m.ev = "DETACH"
         /\ m \in Silencers <=> m.from = "tws" /\ m.ev # "DETACH" /\ m.role = "slave"
         /\ \A p : m \in Removers(p) => m.from = "stack"
BY DEF Odd, PowerOn, Detaches, Silencers, Removers

LEMMA ServedTame ==
  ASSUME NEW s, NEW t, NEW X, Tended(s, t, X), Tame(s)
  PROVE  Tame(t)
BY TimerNames DEF Tended, Tame

\* A message handled as Served says.
LEMMA ServedHandles ==
  ASSUME NEW m \in Messages, NEW s, NEW t, NEW X, Served(s, t, X),
         \A p \in Phones : p \in Listed(t) /\ m \in Removers(p) => m \in Listers(p),
         \A p \in X : m \in Listers(p),
         SlaveRuns /\ m \in Silencers => Quiet(t),
         Expects /\ (Usual => m \notin Odd)
           /\ (m \in Wakers(conn) \/ (m \notin Blinders(conn) /\ Reach(s))) => Reach(t)
  PROVE  Handles(m, s, t)
<1>1. Tame(s) => Tame(t)
  BY ServedTame DEF Served
<1>2. /\ Listed(t) \subseteq Listed(s) \cup X /\ t.loose \subseteq s.loose
      /\ SlaveRuns /\ Quiet(s) => Quiet(t)
  BY DEF Served, Tended
<1> QED BY <1>1, <1>2 DEF Handles

LEMMA StackHandles ==
  ASSUME QueueInv, NEW m \in Messages, m.from = "stack", NEW t,
         \/ m.ev = "FIRST_CONNECTED" /\ t = FirstConnected(bud, m.mac)
         \/ m.ev = "SECOND_CONNECTED" /\ t = SecondConnected(bud)
  PROVE  Handles(m, bud, t)
<1>1. m \notin Silencers
  BY FieldKinds
<1>2. CASE m.ev = "FIRST_CONNECTED"
  <2>1. m.mac \in Phones
    BY <1>2 DEF Messages, StackMessages, HciMessages, TwsMessages, RelayMessages, AppMessages
  <2>2. /\ Served(bud, t, {}) /\ m.mac \notin Listed(t)
        /\ Expects /\ conn # {} => Reach(t)
    BY <1>2, <2>1, FiniteConn, FirstServed
  <2>3. \A p \in Phones : m \in Removers(p) => p = m.mac
    BY <1>2 DEF Removers
  <2>4. m \in Wakers(conn) \/ m \notin Blinders(conn) => conn # {}
    BY <1>2 DEF Wakers, Blinders
  <2> QED BY <1>1, <2>2, <2>3, <2>4, ServedHandles
<1>3. CASE m.ev = "SECOND_CONNECTED"
  <2>1. Served(bud, t, {}) /\ Listed(t) = {}
    BY <1>3, FiniteConn, SecondServed
  <2>2. ~(m \in Wakers(conn) \/ m \notin Blinders(conn))
    BY <1>3 DEF Wakers, Blinders
  <2> QED BY <1>1, <2>1, <2>2, ServedHandles
<1> QED BY <1>2, <1>3

LEMMA HciHandles ==
  ASSUME QueueInv, NEW m \in HciMessages, m \in Messages, NEW esco \in BOOLEAN
  PROVE  Handles(m, bud, dual_conn_hci_event_handler(bud, m, esco))
<1> DEFINE t == dual_conn_hci_event_handler(bud, m, esco)
<1>1. /\ Served(bud, t, HciListed(m))
      /\ Expects /\ m.ev \in {"rejected", "timeout", "failed"} => Reach(t)
  BY FiniteConn, HciServed
<1> HIDE DEF t
<1>2. m.from = "hci" /\ m.ev \in {"connected", "rejected", "timeout", "failed", "test"}
  BY DEF HciMessages
<1>3. /\ m \notin Silencers /\ \A p : m \notin Removers(p)
  BY <1>2, FieldKinds
<1>4. \A p \in HciListed(m) : m \in Listers(p)
  BY <1>2 DEF HciListed, Listers
<1>5. m \in Wakers(conn) \/ m \notin Blinders(conn) => m.ev \in {"rejected", "timeout", "failed"}
  BY <1>2 DEF Wakers, Blinders
<1>6. Handles(m, bud, t)
  BY <1>1, <1>3, <1>4, <1>5, ServedHandles
<1> QED BY <1>6 DEF t

LEMMA RelayHandles ==
  ASSUME QueueInv, NEW m \in RelayMessages, m \in Messages, NEW esco \in BOOLEAN
  PROVE  Handles(m, bud, rx_device_info(bud, m, esco))
<1> DEFINE t == rx_device_info(bud, m, esco)
<1>1. Served(bud, t, RelayListed(m)) /\ (Expects => Reach(t))
  BY FiniteConn, RelayServed
<1> HIDE DEF t
<1>2. m.from = "relay"
  BY DEF RelayMessages
<1>3. /\ m \notin Silencers /\ \A p : m \notin Removers(p)
  BY <1>2, FieldKinds
<1>4. \A p \in RelayListed(m) : m \in Listers(p)
  BY <1>2 DEF RelayListed, Listers
<1>5. Handles(m, bud, t)
  BY <1>1, <1>3, <1>4, ServedHandles
<1> QED BY <1>5 DEF t

LEMMA TwsHandles ==
  ASSUME QueueInv, NEW m \in TwsMessages, m \in Messages, NEW esco \in BOOLEAN, NEW t,
         \/ m.ev = "CONNECTED" /\ t = TwsConnected(bud, m.role, esco)
         \/ m.ev = "DETACH" /\ t = TwsDetached(bud, m.role, m.reason, esco)
         \/ m.ev = "ROLE_SWITCH" /\ t = RoleSwitched(bud, m.role)
  PROVE  Handles(m, bud, t)
<1>1. /\ m.from = "tws" /\ m.role \in Roles
      /\ m.ev = "DETACH" => m.reason \in {"poweroff", "super_timeout", "other", "remove_pairs"}
  BY DEF TwsMessages
<1>2. \A p : m \notin Removers(p)
  BY <1>1, FieldKinds
<1>3. CASE m.ev = "CONNECTED"
  <2>1. /\ Served(bud, t, {})
        /\ m.role = "slave" /\ phase = "run" => Quiet(t)
        /\ Expects /\ m.role = "master" => Reach(t)
    BY <1>1, <1>3, FiniteConn, TwsConnectedServed
  <2>2. m \in Silencers => m.role = "slave"
    BY FieldKinds
  <2>3. m \in Wakers(conn) \/ m \notin Blinders(conn) => m.role = "master"
    BY <1>1, <1>3 DEF Wakers, Blinders, Roles
  <2> QED BY <1>2, <2>1, <2>2, <2>3, ServedHandles DEF SlaveRuns
<1>4. CASE m.ev = "ROLE_SWITCH"
  <2>1. /\ Served(bud, t, {})
        /\ m.role = "slave" => Quiet(t)
        /\ m.role = "master" => t = bud
    BY <1>1, <1>4, FiniteConn, RoleSwitchedServed
  <2>2. m \in Silencers => m.role = "slave"
    BY FieldKinds
  <2>3. m \notin Wakers(conn) /\ (m \notin Blinders(conn) => m.role = "master")
    BY <1>1, <1>4 DEF Wakers, Blinders, Roles
  <2> QED BY <1>2, <2>1, <2>2, <2>3, ServedHandles
<1>5. CASE m.ev = "DETACH"
  <2>1. /\ Tended(bud, t, {})
        /\ Expects /\ (Usual => m.reason # "remove_pairs") => Reach(t)
    BY <1>1, <1>5, FiniteConn, TwsDetachedServed
  <2>2. m \in Detaches /\ m \notin Silencers /\ (m \in Odd <=> m.reason = "remove_pairs")
    BY <1>1, <1>5, FieldKinds
  <2>3. Tame(bud) => Tame(t)
    BY <2>1, ServedTame
  <2>4. Listed(t) \subseteq Listed(bud) /\ t.loose \subseteq bud.loose
    BY <2>1 DEF Tended
  <2> QED BY <1>2, <2>1, <2>2, <2>3, <2>4 DEF Handles
<1> QED BY <1>3, <1>4, <1>5

\* The pairing state of the flash, or the pairing key.
LEMMA PowerOnHandles ==
  ASSUME QueueInv, NEW m \in Messages, m \in PowerOn,
         NEW proc \in Procedures, NEW cb \in Own
  PROVE  Handles(m, bud, AddTimer(Request(bud, proc), cb))
<1> DEFINE a == Request(bud, proc)
           t == AddTimer(a, cb)
<1>1. /\ a \in GoodBud /\ Commanded(bud, a) /\ a.scan = bud.scan /\ a.paging = bud.paging
  BY FiniteConn, RequestEffect DEF Commanded
<1> HIDE DEF a
<1>2. /\ t.timer = cb /\ t.list = a.list /\ t.loose = a.loose \cup Armed(a.timer)
      /\ t.scan = a.scan /\ t.paging = a.paging
  BY <1>1, TimerNames, TimerEffect
<1>3. Reach(t)
  BY <1>1, TimerNames, TimerReaches
<1> HIDE DEF t
<1>4. Listed(t) = Listed(bud) /\ (Quiet(bud) => Quiet(t))
      /\ t.loose = bud.loose \cup Armed(bud.timer)
  BY <1>1, <1>2 DEF Commanded, Listed, Quiet
<1>5. m.from = "app"
  BY FieldKinds
<1>6. m \notin Silencers /\ \A p : m \notin Removers(p)
  BY <1>5, FieldKinds
<1>7. Tame(bud) => Tame(t)
  BY <1>2, <1>4, TimerNames DEF Tame, Armed
<1>8. bud.timer \notin Callbacks => t.loose \subseteq bud.loose
  BY <1>4 DEF Armed
<1>9. Handles(m, bud, t)
  BY <1>3, <1>4, <1>6, <1>7, <1>8 DEF Handles
<1> QED BY <1>9 DEF t, a

LEMMA StartPairHandles ==
  ASSUME QueueInv, NEW m \in Messages, m.from = "app", m.ev = "TWS_START_PAIR", NEW t,
         t = bud \/ (t = StartPair(bud) /\ link # "connected")
  PROVE  Handles(m, bud, t)
<1>1. m \in Odd /\ m \notin PowerOn /\ m \notin Silencers /\ \A p : m \notin Removers(p)
  BY FieldKinds
<1>2. m \notin Wakers(conn) /\ m \notin Blinders(conn)
  BY DEF Wakers, Blinders
<1>3. CASE t = bud
  BY <1>1, <1>2, <1>3 DEF Handles
<1>4. CASE t = StartPair(bud) /\ link # "connected"
  <2>1. t.list = bud.list /\ t.loose = bud.loose /\ Reach(t)
    BY <1>4, FiniteConn, StartPairEffect
  <2>2. ~SlaveRuns
    BY <1>4 DEF SlaveRuns
  <2> QED BY <1>1, <1>2, <2>1, <2>2 DEF Handles, Listed
<1> QED BY <1>3, <1>4

LEMMA MessagesQueueInv ==
  ASSUME QueueInv, BtStackMsg \/ HciMsg \/ TwsMsg \/ RelayMsg \/ AppMsg, Head(queue) \notin InitOk
  PROVE  QueueInv'
<1> DEFINE m == Head(queue)
<1>1. Inv' /\ Inv
  BY EngineInv DEF QueueInv, Engine
<1>2. queue # << >> /\ queue' = Tail(queue)
  BY DEF BtStackMsg, HciMsg, TwsMsg, RelayMsg, AppMsg, Handle
<1>3. m \in Messages
  BY <1>2, FiniteConn, HeadTailProperties
<1>4. ASSUME Handles(m, bud, bud'), UNCHANGED <<acl, conn, role, phase, remoteTest>>,
             role = "slave" => link' = link
      PROVE  QueueInv'
  BY <1>1, <1>2, <1>4, HandledInv
<1>5. CASE BtStackMsg
  <2>1. m.from = "stack" /\ m \in StackMessages
    BY <1>1, <1>5, HandleLemma DEF BtStackMsg, Handle
  <2>2. m.ev \in {"FIRST_CONNECTED", "SECOND_CONNECTED"}
    BY <1>3, <2>1 DEF StackMessages, InitOk
  <2>3. /\ \/ m.ev = "FIRST_CONNECTED" /\ bud' = FirstConnected(bud, m.mac)
           \/ m.ev = "SECOND_CONNECTED" /\ bud' = SecondConnected(bud)
        /\ UNCHANGED <<acl, conn, link, role, phase, remoteTest>>
    BY <1>5, <2>2 DEF BtStackMsg, Deliver
  <2> HIDE DEF m
  <2>4. Handles(m, bud, bud')
    BY <1>3, <2>1, <2>3, StackHandles
  <2> QED BY <1>4, <2>3, <2>4
<1>6. CASE HciMsg
  <2>1. m \in HciMessages
    BY <1>1, <1>6, HandleLemma DEF HciMsg
  <2>2. PICK esco \in BOOLEAN : Deliver(dual_conn_hci_event_handler(bud, m, esco))
    BY <1>6 DEF HciMsg
  <2> HIDE DEF m
  <2>3. Handles(m, bud, bud')
    BY <1>3, <2>1, <2>2, HciHandles DEF Deliver
  <2> QED BY <1>4, <2>2, <2>3 DEF Deliver
<1>7. CASE TwsMsg
  <2>1. m \in TwsMessages
    BY <1>1, <1>7, HandleLemma DEF TwsMsg
  <2>2. PICK esco \in BOOLEAN :
          \/ m.ev = "CONNECTED" /\ Deliver(TwsConnected(bud, m.role, esco))
          \/ m.ev = "DETACH" /\ Deliver(TwsDetached(bud, m.role, m.reason, esco))
          \/ m.ev = "ROLE_SWITCH" /\ Deliver(RoleSwitched(bud, m.role))
    BY <1>7 DEF TwsMsg
  <2> HIDE DEF m
  <2>3. /\ \/ m.ev = "CONNECTED" /\ bud' = TwsConnected(bud, m.role, esco)
           \/ m.ev = "DETACH" /\ bud' = TwsDetached(bud, m.role, m.reason, esco)
           \/ m.ev = "ROLE_SWITCH" /\ bud' = RoleSwitched(bud, m.role)
        /\ UNCHANGED <<acl, conn, link, role, phase, remoteTest>>
    BY <2>2 DEF Deliver
  <2>4. Handles(m, bud, bud')
    BY <1>3, <2>1, <2>3, TwsHandles
  <2> QED BY <1>4, <2>3, <2>4
<1>8. CASE RelayMsg
  <2>1. m \in RelayMessages
    BY <1>1, <1>8, HandleLemma DEF RelayMsg
  <2>2. PICK esco \in BOOLEAN : Deliver(rx_device_info(bud, m, esco))
    BY <1>8 DEF RelayMsg
  <2> HIDE DEF m
  <2>3. Handles(m, bud, bud')
    BY <1>3, <2>1, <2>2, RelayHandles DEF Deliver
  <2> QED BY <1>4, <2>2, <2>3 DEF Deliver
<1>9. CASE AppMsg
  <2>1. m.from = "app" /\ m \in AppMessages
    BY <1>1, <1>9, HandleLemma DEF AppMsg, Handle
  <2>2. /\ "tws_create_conn_timeout" \in Own /\ "tws_pair_timeout" \in Own
        /\ "create" \in Procedures /\ "auto" \in Procedures
    BY DEF Own, Callbacks, Pairing, Procedures
  <2>3. CASE m.ev = "TWS_PAIRED" \/ m.ev = "TWS_UNPAIRED"
    <3>1. /\ \/ bud' = AddTimer(Request(bud, "create"), "tws_create_conn_timeout")
             \/ bud' = AddTimer(Request(bud, "auto"), "tws_pair_timeout")
          /\ UNCHANGED <<acl, conn, link, role, phase, remoteTest>>
      BY <1>9, <2>3 DEF AppMsg, Deliver
    <3> HIDE DEF m
    <3>2. m \in PowerOn
      BY <1>3, <2>1, <2>3 DEF PowerOn
    <3>3. Handles(m, bud, bud')
      BY <1>3, <2>2, <3>1, <3>2, PowerOnHandles
    <3> QED BY <1>4, <3>1, <3>3
  <2>4. CASE m.ev = "TWS_START_PAIR"
    <3>1. /\ \/ bud' = StartPair(bud) /\ link # "connected"
             \/ bud' = bud /\ link' = link
          /\ UNCHANGED <<acl, conn, role, phase, remoteTest>>
      BY <1>9, <2>4 DEF AppMsg, Deliver
    <3>2. link # "connected" => role # "slave"
      BY DEF QueueInv, Sided
    <3> HIDE DEF m
    <3>3. Handles(m, bud, bud')
      BY <1>3, <2>1, <2>4, <3>1, StartPairHandles
    <3> QED BY <1>4, <3>1, <3>2, <3>3
  <2> QED BY <2>1, <2>3, <2>4 DEF AppMessages
<1> QED BY <1>5, <1>6, <1>7, <1>8, <1>9

\* The stack is up, and the message that starts the engine is next.
LEMMA InitOkQueueInv ==
  ASSUME QueueInv, BtStackMsg \/ HciMsg \/ TwsMsg \/ RelayMsg \/ AppMsg, Head(queue) \in InitOk
  PROVE  QueueInv'
<1> DEFINE m == Head(queue)
           u == Tail(queue)
<1>1. Inv'
  BY EngineInv DEF QueueInv, Engine
<1>2. m.from = "stack" /\ m.ev = "INIT_OK" /\ m \in InitOk
  BY DEF InitOk
<1>3. BtStackMsg
  BY <1>2 DEF BtStackMsg, HciMsg, TwsMsg, RelayMsg, AppMsg, Handle
<1>4. queue # << >> /\ queue' = u
  BY <1>3 DEF BtStackMsg, Handle
<1>5. /\ \E known \in PageLists(Phones) : bud' = dual_conn_page_devices_init(bud, known)
      /\ phase' = "run" /\ UNCHANGED <<acl, conn, link, role, remoteTest>>
  BY <1>2, <1>3 DEF BtStackMsg
<1>6. /\ bud' \in GoodBud /\ bud'.timer = bud.timer /\ bud'.loose = bud.loose
      /\ \A i \in DOMAIN bud'.list : ~bud'.list[i].timer
  BY <1>5, FiniteConn, InitOkEffect
<1>7. /\ u \in Seq(Messages) /\ m = queue[1] /\ 1 \in DOMAIN queue
      /\ \A i \in DOMAIN u : i + 1 \in DOMAIN queue /\ u[i] = queue[i + 1] /\ i \in Nat \ {0}
      /\ \A i \in DOMAIN queue : i = 1 \/ (i - 1 \in DOMAIN u /\ u[i - 1] = queue[i])
  <2>1. u \in Seq(Messages) /\ Len(u) \in Nat /\ DOMAIN u = 1 .. Len(u)
    BY <1>4, FiniteConn, TailFacts, LenProperties
  <2> QED BY <1>4, <2>1, FiniteConn, TailFacts
<1> HIDE DEF m, u
<1>8. /\ phase = "boot" /\ acl = {} /\ link # "connected"
      /\ 2 \in DOMAIN queue /\ queue[2] \in PowerOn
  BY <1>2, <1>7 DEF QueueInv, Booting
<1>9. 1 \in DOMAIN u /\ u[1] \in PowerOn
  BY <1>7, <1>8
<1>10. conn = {} /\ role # "slave"
  BY <1>8, FiniteConn DEF QueueInv, Sided
<1>11. IsFiniteSet(acl)'
  BY <1>5 DEF QueueInv, IsFiniteSet
<1>12. Booting'
  <2>1. \A i \in DOMAIN queue : /\ queue[i] \in InitOk => i = 1
                                /\ queue[i] \in PowerOn => i = 1 \/ i = 2
    BY DEF QueueInv, Booting
  <2>2. ASSUME NEW i \in DOMAIN u
        PROVE  u[i] \notin InitOk /\ (u[i] \in PowerOn => i = 1)
    <3>1. i + 1 \in DOMAIN queue /\ u[i] = queue[i + 1] /\ i \in Nat \ {0}
      BY <1>7
    <3>2. i + 1 # 1 /\ (i + 1 = 2 => i = 1)
      BY <3>1
    <3> QED BY <2>1, <3>1, <3>2
  <2> QED BY <1>4, <1>5, <2>2 DEF Booting
<1>13. Sided' /\ Silenced'
  BY <1>5, <1>10 DEF Sided, Silenced
<1>14. Unlisted'
  BY <1>5, <1>10 DEF Unlisted
<1>15. Plain'
  <2>1. Usual => ~remoteTest /\ Tame(bud) /\ \A i \in DOMAIN queue : queue[i] \notin Odd
    BY DEF QueueInv, Plain
  <2>2. Tame(bud) => Tame(bud')
    BY <1>6 DEF Tame
  <2> QED BY <1>4, <1>5, <1>7, <2>1, <2>2 DEF Plain, Usual
<1>16. Kept'
  <2>1. Woken(queue, PowerOn)
    BY <1>8 DEF Woken
  <2>2. "modes" \notin Happenings => bud.loose = {} /\ Unarmed(bud)
    BY <2>1 DEF QueueInv, Kept
  <2>3. Unarmed(bud) => Unarmed(bud')
    BY <1>6 DEF Unarmed
  <2> QED BY <1>5, <1>6, <2>2, <2>3 DEF Kept
<1>17. Reached'
  <2> DEFINE W == Wakers(conn)
             B == Blinders(conn)
  <2>1. u[1] \in W
    <3>1. u[1] \in Messages /\ u[1].from = "app" /\ u[1].ev # "TWS_START_PAIR"
      BY <1>9 DEF PowerOn
    <3> QED BY <3>1 DEF Wakers
  <2>2. Woken(u, W)
    BY <1>9, <2>1 DEF Woken
  <2>3. Due => Followed(queue, B, W)
    BY DEF QueueInv, Reached
  <2>4. Due => Followed(u, B, W)
    BY <1>4, <2>3, FiniteConn, TailWoken DEF u
  <2>5. Due' <=> Due
    BY <1>5 DEF Due, Connected, Usual
  <2> QED BY <1>4, <1>5, <2>2, <2>4, <2>5 DEF Reached
<1> QED BY <1>1, <1>11, <1>12, <1>13, <1>14, <1>15, <1>16, <1>17 DEF QueueInv

-----------------------------------------------------------------------------
(* The theorems. *)

LEMMA InitQueueInv == Init => QueueInv
<1> SUFFICES ASSUME Init PROVE QueueInv
  OBVIOUS
<1> DEFINE m == Stack("INIT_OK", NoPhone)
           P(ev) == [from |-> "app", ev |-> ev]
<1>1. Inv
  BY InitInv
<1>2. /\ acl = {} /\ conn = {} /\ role = "master" /\ phase = "boot" /\ ~remoteTest
      /\ link \in {"paired", "unpaired"}
      /\ bud.timer = "none" /\ bud.list = << >> /\ bud.loose = {}
      /\ \E ev \in {"TWS_PAIRED", "TWS_UNPAIRED"} : queue = <<m, P(ev)>>
  BY DEF Init
<1>3. PICK ev \in {"TWS_PAIRED", "TWS_UNPAIRED"} : queue = <<m, P(ev)>>
  BY <1>2
<1> DEFINE n == P(ev)
<1>4. m \in InitOk /\ n \in PowerOn /\ m \notin PowerOn /\ n \notin InitOk
      /\ m \notin Odd /\ n \notin Odd /\ m \notin Blinders(conn) /\ n \notin Blinders(conn)
  <2>1. m \in Messages /\ m.from = "stack" /\ m.ev = "INIT_OK"
    BY MessagesLemma DEF Stack
  <2>2. n \in Messages /\ n.from = "app" /\ n.ev # "TWS_START_PAIR"
    BY MessagesLemma
  <2> HIDE DEF m, n, Messages
  <2> QED BY <2>1, <2>2 DEF InitOk, PowerOn, Odd, Blinders
<1> HIDE DEF m, P
<1>5. DOMAIN queue = {1, 2} /\ queue[1] = m /\ queue[2] = n
  BY <1>3
<1> HIDE DEF n
<1>6. IsFiniteSet(acl)
  BY <1>2, FS_EmptySet
<1>7. Booting
  BY <1>2, <1>4, <1>5 DEF Booting
<1>8. Sided /\ Silenced /\ Unlisted
  BY <1>2 DEF Sided, Silenced, Unlisted
<1>9. Reached
  <2>1. Followed(queue, Blinders(conn), Wakers(conn))
    BY <1>4, <1>5 DEF Followed
  <2> QED BY <1>2, <2>1 DEF Reached
<1>10. Plain /\ Kept
  BY <1>2, <1>4, <1>5, TimerNames DEF Plain, Kept, Tame, Unarmed
<1> QED BY <1>1, <1>6, <1>7, <1>8, <1>9, <1>10 DEF QueueInv

LEMMA StepQueueInv == QueueInv /\ [Next]_vars => QueueInv'
<1>1. ASSUME QueueInv, UNCHANGED vars PROVE QueueInv'
  <2>1. Inv'
    BY <1>1, StepInv DEF QueueInv
  <2>2. UNCHANGED <<bud, queue, acl, conn, link, role, phase, remoteTest>>
    BY <1>1 DEF vars
  <2>3. Timed(bud, bud')
    BY <2>2 DEF Timed
  <2> QED BY <1>1, <2>1, <2>2, <2>3, TimedInv
<1>2. ASSUME QueueInv, Engine PROVE QueueInv'
  BY <1>2, MessagesQueueInv, InitOkQueueInv, TimersQueueInv DEF Engine
<1> QED BY <1>1, <1>2, EnvironmentQueueInv DEF Next

\* The invariant, for any phones and any configuration.
THEOREM QueueInvariant == Spec => []QueueInv
BY InitQueueInv, StepQueueInv, PTL DEF Spec

LEMMA NothingWoken == Drained => \A W : ~Woken(queue, W)
BY DEF Drained, Woken

\* A bud that has become the slave, by a connection or a role switch, and has handled what
\* was queued scans no more and pages no phone, even if a Detach that was queued before made
\* it open its scans (bt_tws TWS_EVENT_CONNECTED, TWS_EVENT_ROLE_SWITCH).
THEOREM SlaveIsQuiet == Spec => []SlaveQuiet
<1>1. QueueInv => SlaveQuiet
  BY NothingWoken DEF QueueInv, Silenced, SlaveQuiet, Quiet
<1> QED BY <1>1, QueueInvariant, PTL

\* An earbud without a phone can always be found, whatever it was doing when it lost the
\* phone, the sibling or its role (tws_dual_conn_state_handler, the timer callbacks).
THEOREM AlwaysHeard == Spec => []NeverDeaf
<1>1. ASSUME QueueInv, Drained, role = "master", phase = "run", acl = {}
      PROVE  \/ bud.scan = [inq |-> TRUE, page |-> TRUE]
             \/ bud.lib \in {"wait", "pair", "auto"}
             \/ Pending
  <2>1. conn = {}
    BY <1>1, FiniteConn
  <2>2. Reach(bud)
    BY <1>1, <2>1, NothingWoken DEF QueueInv, Reached, Due
  <2> QED BY <2>1, <2>2 DEF Reach, Heard, Waiting, Ticks, Pending
<1>2. QueueInv => NeverDeaf
  BY <1>1 DEF NeverDeaf
<1> QED BY <1>2, QueueInvariant, PTL

\* A connected phone is off the page list, whatever order its loss, its return, the timeout
\* of its page and the list relayed by the sibling are handled in: unless the controller
\* reports a failed page because the connection already exists (del_device_from_page_list).
THEOREM ConnectedUnlisted ==
  ASSUME "exists" \notin Happenings
  PROVE  Spec => []ConnectedNotListed
<1>1. QueueInv => ConnectedNotListed
  BY NothingWoken DEF QueueInv, Unlisted, ConnectedNotListed
<1> QED BY <1>1, QueueInvariant, PTL

\* The reconnection never stalls, without a test box and while the pair is not dissolved
\* (either leaves the engine without its timer by intention): dual_conn_page_device,
\* dual_conn_page_device_timeout, tws_dual_conn_state_handler.
THEOREM ReconnectionGoesOn ==
  ASSUME Happenings \cap {"test", "unpair"} = {}
  PROVE  Spec => []NeverStalls
<1>0. Usual
  BY DEF Usual
<1>1. ASSUME QueueInv, Drained, role = "master", phase = "run", acl = conn, Connected < 2
      PROVE  bud.list = << >> \/ Pending
  <2>1. Reach(bud)
    BY <1>0, <1>1, NothingWoken DEF QueueInv, Reached, Due
  <2> QED BY <1>0, <2>1 DEF Reach, Rolls, Ticks, Pending
<1>2. QueueInv => NeverStalls
  BY <1>1 DEF NeverStalls
<1> QED BY <1>2, QueueInvariant, PTL

\* The second phone on record can always come back, under the same hypothesis
\* (dual_conn_page_devices_init, OpenForSecond, WaitSecond).
THEOREM SecondPhoneReturns ==
  ASSUME Happenings \cap {"test", "unpair"} = {}
  PROVE  Spec => []SecondCanReturn
<1>0. Usual
  BY DEF Usual
<1>1. ASSUME QueueInv, Drained, role = "master", phase = "run", acl = conn, Connected = 1,
             bud.recorded > 1, DualConfig = "SET_TWO"
      PROVE  bud.scan.page \/ bud.lib \in {"wait", "pair", "auto"} \/ Pending
  <2>1. conn # {} /\ Connected < 2
    BY <1>1, NoneConnected
  <2>2. Reach(bud)
    BY <1>0, <1>1, <2>1, NothingWoken DEF QueueInv, Reached, Due
  <2> QED BY <1>0, <1>1, <2>1, <2>2 DEF Reach, Returns, Waiting, Ticks, Pending
<1>2. QueueInv => SecondCanReturn
  BY <1>1 DEF SecondCanReturn
<1> QED BY <1>2, QueueInvariant, PTL

\* Every armed timer can be deleted through its handle, as long as Bluetooth mode is not
\* left and entered again while one runs (`timer = 0' in the callbacks, tws_dual_conn_close).
THEOREM HandleKept ==
  ASSUME "modes" \notin Happenings
  PROVE  Spec => []NoForgottenTimer
<1>1. QueueInv => NoForgottenTimer
  BY DEF QueueInv, Kept, NoForgottenTimer
<1> QED BY <1>1, QueueInvariant, PTL

=============================================================================
