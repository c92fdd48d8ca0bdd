------------------------ MODULE TwsDualConnHandlerProofs ------------------------
(***************************************************************************)
(* What the operators and handlers of TwsDualConn do to a bud, one lemma   *)
(* each: which phones they may list, which timers they may arm or forget,  *)
(* that a quiet slave stays quiet (Served), and that a master which        *)
(* evaluates its state can be reached afterwards (Reach).                  *)
(* TwsDualConnQueueProofs puts them together.                              *)
(***************************************************************************)
EXTENDS TwsDualConnProofs, FiniteSetTheorems

-----------------------------------------------------------------------------
(* What the operators of the engine leave alone. *)

\* Commands to the stack and to the TWS library touch neither the list nor a timer.
Commanded(s, t) ==
  t \in GoodBud /\ t.list = s.list /\ t.timer = s.timer /\ t.loose = s.loose
    /\ t.recorded = s.recorded

\* Mutual exclusion of scans: with one phone only, nothing is scanned once it is there.
Scanned(i, c) == IF DualConfig # "SET_TWO" /\ conn # {} THEN Closed ELSE [inq |-> i, page |-> c]

LEMMA ScanEffect ==
  ASSUME NEW s \in GoodBud, NEW i \in BOOLEAN, NEW c \in BOOLEAN
  PROVE  LET t == write_scan_conn_enable(s, i, c) IN
         /\ Commanded(s, t) /\ t.lib = s.lib /\ t.paging = s.paging
         /\ t.scan = Scanned(i, c)
<1>1. write_scan_conn_enable(s, i, c) \in GoodBud
  BY CommandsLemma
<1>2. write_scan_conn_enable(s, i, c) = [s EXCEPT !.scan = Scanned(i, c)]
  BY DEF write_scan_conn_enable, Scanned
<1> QED BY <1>1, <1>2 DEF Commanded, GoodBud, Bud

LEMMA RequestEffect ==
  ASSUME NEW s \in GoodBud, NEW proc \in Procedures
  PROVE  LET t == Request(s, proc) IN
         Commanded(s, t) /\ t.lib = proc /\ t.scan = s.scan /\ t.paging = s.paging
<1>1. Request(s, proc) \in GoodBud
  BY CommandsLemma
<1> QED BY <1>1 DEF Request, Commanded, GoodBud, Bud

LEMMA CancelEffect ==
  ASSUME NEW s \in GoodBud
  PROVE  /\ LET t == cancle_wait_pair(s) IN
            Commanded(s, t) /\ t.scan = s.scan /\ t.paging = s.paging
         /\ LET t == cancle_create_connection(s) IN
            Commanded(s, t) /\ t.scan = s.scan /\ t.paging = s.paging
         /\ LET t == PageCancel(s) IN
            Commanded(s, t) /\ t.scan = s.scan /\ t.lib = s.lib /\ t.paging = NoPhone
<1>1. LET t == Request(s, "none") IN
      Commanded(s, t) /\ t.scan = s.scan /\ t.paging = s.paging
  BY RequestEffect DEF Procedures
<1>2. Commanded(s, s)
  BY DEF Commanded
<1>3. PageCancel(s) \in GoodBud
  BY CommandsLemma
<1>4. LET t == PageCancel(s) IN
      Commanded(s, t) /\ t.scan = s.scan /\ t.lib = s.lib /\ t.paging = NoPhone
  BY <1>3 DEF PageCancel, Commanded, GoodBud, Bud
<1> QED BY <1>1, <1>2, <1>4 DEF cancle_wait_pair, cancle_create_connection

LEMMA StartEffect ==
  ASSUME NEW s \in GoodBud, NEW p \in Phones
  PROVE  LET t == StartPage(s, p) IN
         Commanded(s, t) /\ t.scan = s.scan /\ t.lib = s.lib
<1>1. StartPage(s, p) \in GoodBud
  BY CommandsLemma
<1> QED BY <1>1 DEF StartPage, Commanded, GoodBud, Bud

LEMMA TimerEffect ==
  ASSUME NEW s \in GoodBud
  PROVE  /\ LET t == DelTimer(s) IN
            /\ t \in GoodBud /\ t.timer = "none" /\ t.loose = s.loose /\ t.list = s.list
            /\ t.scan = s.scan /\ t.lib = s.lib /\ t.paging = s.paging /\ t.recorded = s.recorded
         /\ LET t == ZeroTimer(s) IN
            /\ t \in GoodBud /\ t.timer = "none" /\ t.list = s.list
            /\ t.loose = s.loose \cup Armed(s.timer)
            /\ t.scan = s.scan /\ t.lib = s.lib /\ t.paging = s.paging /\ t.recorded = s.recorded
         /\ \A cb \in Callbacks : LET t == AddTimer(s, cb) IN
            /\ t \in GoodBud /\ t.timer = cb /\ t.list = s.list
            /\ t.loose = s.loose \cup Armed(s.timer)
            /\ t.scan = s.scan /\ t.lib = s.lib /\ t.paging = s.paging /\ t.recorded = s.recorded
<1>1. DelTimer(s) \in GoodBud /\ ZeroTimer(s) \in GoodBud
      /\ \A cb \in Callbacks : AddTimer(s, cb) \in GoodBud
  BY TimersLemma
<1>2. s \in Bud
  BY DEF GoodBud
<1>3. LET t == DelTimer(s) IN
      /\ t.timer = "none" /\ t.loose = s.loose /\ t.list = s.list
      /\ t.scan = s.scan /\ t.lib = s.lib /\ t.paging = s.paging /\ t.recorded = s.recorded
  BY <1>2 DEF DelTimer, Bud
<1> DEFINE l == s.loose \cup Armed(s.timer)
<1>4. LET t == ZeroTimer(s) IN
      /\ t.timer = "none" /\ t.list = s.list /\ t.loose = l
      /\ t.scan = s.scan /\ t.lib = s.lib /\ t.paging = s.paging /\ t.recorded = s.recorded
  <2>1. ZeroTimer(s) = [s EXCEPT !.loose = l, !.timer = "none"]
    BY DEF ZeroTimer
  <2> HIDE DEF l
  <2> QED BY <1>2, <2>1 DEF Bud
<1>5. ASSUME NEW cb \in Callbacks
      PROVE  LET t == AddTimer(s, cb) IN
             /\ t.timer = cb /\ t.list = s.list /\ t.loose = l
             /\ t.scan = s.scan /\ t.lib = s.lib /\ t.paging = s.paging
             /\ t.recorded = s.recorded
  <2>1. AddTimer(s, cb) = [s EXCEPT !.loose = l, !.timer = cb]
    BY DEF AddTimer
  <2> HIDE DEF l
  <2> QED BY <1>2, <2>1 DEF Bud
<1> QED BY <1>1, <1>3, <1>4, <1>5

LEMMA NotArmed == Armed("none") = {} /\ Armed("stale") = {}
BY DEF Armed, Callbacks

\* From s to t nothing was listed but phones of X, no timer was forgotten, and
\* the pairing timer was not armed; a slave that was quiet still is.
Pairing == "msg_tws_start_pair_timeout"
Own == Callbacks \ {Pairing}

Quiet(s) == s.scan = Closed /\ s.paging = NoPhone
SlaveRuns == role = "slave" /\ link = "connected" /\ phase = "run"

Tended(s, t, X) ==
  /\ t \in GoodBud
  /\ Listed(t) \subseteq Listed(s) \cup X
  /\ t.loose \subseteq s.loose
  /\ t.timer \in {s.timer, "none"} \cup Own

Served(s, t, X) == Tended(s, t, X) /\ (SlaveRuns /\ Quiet(s) => Quiet(t))

LEMMA ServedTwice ==
  ASSUME NEW s, NEW u, NEW t, NEW X, Served(s, u, X), Served(u, t, X)
  PROVE  Served(s, t, X)
BY DEF Served, Tended

LEMMA ServedMore ==
  ASSUME NEW s, NEW t, NEW X, Served(s, t, {})
  PROVE  Served(s, t, X)
BY DEF Served, Tended

LEMMA CommandServed ==
  ASSUME NEW s \in GoodBud, NEW t, Commanded(s, t), SlaveRuns /\ Quiet(s) => Quiet(t)
  PROVE  Served(s, t, {})
BY DEF Served, Tended, Commanded, Listed

\* The commands that need no slave, or none that is quiet.
LEMMA CommandsServed ==
  ASSUME NEW s \in GoodBud
  PROVE  /\ Served(s, s, {})
         /\ Served(s, write_scan_conn_enable(s, FALSE, FALSE), {})
         /\ \A i, c \in BOOLEAN : ~SlaveRuns => Served(s, write_scan_conn_enable(s, i, c), {})
         /\ \A proc \in Procedures : Served(s, Request(s, proc), {})
         /\ Served(s, PageCancel(s), {})
         /\ Served(s, cancle_wait_pair(s), {}) /\ Served(s, cancle_create_connection(s), {})
         /\ \A p \in Phones : ~SlaveRuns => Served(s, StartPage(s, p), {})
<1>1. Commanded(s, s)
  BY DEF Commanded
<1>2. Scanned(FALSE, FALSE) = Closed
  BY DEF Scanned, Closed
<1>3. Served(s, write_scan_conn_enable(s, FALSE, FALSE), {})
  <2> DEFINE t == write_scan_conn_enable(s, FALSE, FALSE)
  <2>1. Commanded(s, t) /\ t.paging = s.paging /\ t.scan = Closed
    BY <1>2, ScanEffect
  <2> HIDE DEF t
  <2>2. Served(s, t, {})
    BY <2>1, CommandServed DEF Quiet
  <2> QED BY <2>2 DEF t
<1>4. ASSUME NEW i \in BOOLEAN, NEW c \in BOOLEAN, ~SlaveRuns
      PROVE  Served(s, write_scan_conn_enable(s, i, c), {})
  BY <1>4, ScanEffect, CommandServed
<1>5. ASSUME NEW proc \in Procedures PROVE Served(s, Request(s, proc), {})
  BY RequestEffect, CommandServed DEF Quiet
<1>6. /\ Served(s, PageCancel(s), {})
      /\ Served(s, cancle_wait_pair(s), {}) /\ Served(s, cancle_create_connection(s), {})
  BY CancelEffect, CommandServed DEF Quiet
<1>7. ASSUME NEW p \in Phones, ~SlaveRuns PROVE Served(s, StartPage(s, p), {})
  BY <1>7, StartEffect, CommandServed
<1> QED BY <1>1, <1>3, <1>4, <1>5, <1>6, <1>7, CommandServed

LEMMA TimersServed ==
  ASSUME NEW s \in GoodBud
  PROVE  /\ Served(s, DelTimer(s), {})
         /\ s.timer \notin Callbacks => Served(s, ZeroTimer(s), {})
         /\ s.timer \notin Callbacks => \A cb \in Own : Served(s, AddTimer(s, cb), {})
<1>1. Served(s, DelTimer(s), {})
  BY TimerEffect DEF Served, Tended, Listed, Quiet
<1>2. ASSUME s.timer \notin Callbacks
      PROVE  Served(s, ZeroTimer(s), {}) /\ \A cb \in Own : Served(s, AddTimer(s, cb), {})
  <2>1. s.loose \cup Armed(s.timer) = s.loose
    BY <1>2 DEF Armed
  <2> QED BY <2>1, TimerEffect DEF Served, Tended, Listed, Quiet, Own
<1> QED BY <1>1, <1>2

\* Scans that are opened for a phone, if the bud is not the slave of a pair.
LEMMA OpensServed ==
  ASSUME NEW s \in GoodBud
  PROVE  /\ Served(s, dual_conn_try_open_inquiry_scan(s), {})
         /\ Served(s, dual_conn_try_open_inquiry_page_scan(s), {})
         /\ ~SlaveRuns => Served(s, OpenForSecond(s), {}) /\ Served(s, WaitSecond(s), {})
<1>1. Served(s, s, {})
  BY CommandsServed
<1>2. ASSUME role # "slave", NEW i \in BOOLEAN, NEW c \in BOOLEAN
      PROVE  Served(s, write_scan_conn_enable(s, i, c), {})
  BY <1>2, CommandsServed DEF SlaveRuns
<1>3. Served(s, dual_conn_try_open_inquiry_scan(s), {})
  BY <1>1, <1>2 DEF dual_conn_try_open_inquiry_scan
<1>4. Served(s, dual_conn_try_open_inquiry_page_scan(s), {})
  <2>1. (conn = {} \/ s.inqOff = 0) \in BOOLEAN
    OBVIOUS
  <2> QED BY <1>1, <1>2, <2>1 DEF dual_conn_try_open_inquiry_page_scan
<1>5. ASSUME ~SlaveRuns PROVE Served(s, OpenForSecond(s), {}) /\ Served(s, WaitSecond(s), {})
  <2>1. (DualConfig # "CLOSE") \in BOOLEAN
    OBVIOUS
  <2> QED BY <1>4, <1>5, <2>1, CommandsServed DEF OpenForSecond, WaitSecond
<1> QED BY <1>3, <1>4, <1>5

-----------------------------------------------------------------------------
(* What the master can expect.                                             *)

\* Some timer of s is armed.
Ticks(s) == \/ s.timer \in Callbacks \/ s.loose # {}
            \/ \E i \in DOMAIN s.list : s.list[i].timer

Waiting == {"wait", "pair", "auto"}
Heard(s) == s.scan = [inq |-> TRUE, page |-> TRUE] \/ s.lib \in Waiting \/ Ticks(s)
Rolls(s) == s.list = << >> \/ Ticks(s)
Returns(s) == s.recorded > 1 => s.scan.page \/ s.lib \in Waiting \/ Ticks(s)

\* No test box, and the pair is not dissolved.
Usual == Happenings \cap {"test", "unpair"} = {}

\* The engine of a master can be reached: without a phone it is found; a listed phone
\* will be paged; the second phone can come back.
Reach(s) == /\ conn = {} => Heard(s)
            /\ Usual => Rolls(s)
            /\ Usual /\ conn # {} /\ DualConfig = "SET_TWO" => Returns(s)

\* This is promised while one more phone may connect, every phone with a radio link
\* being connected.  (The test box stops the reconnection, and a dissolved pair the timer.)
Due == role = "master" /\ acl = conn /\ (conn = {} \/ (Usual /\ Connected < 2))

\* Where it must be so when a handler returns.
Expects == /\ Due /\ phase = "run" /\ link \in Links /\ IsFiniteSet(conn)
           /\ Usual => ~remoteTest

LEMMA TickingReaches == ASSUME NEW t, Ticks(t) PROVE Reach(t)
BY DEF Reach, Heard, Rolls, Returns

\* An armed timer is enough.
LEMMA TimerReaches ==
  ASSUME NEW s \in GoodBud, NEW cb \in Callbacks
  PROVE  Reach(AddTimer(s, cb))
<1>1. AddTimer(s, cb).timer = cb
  BY TimerEffect
<1> HIDE DEF Callbacks
<1> QED BY <1>1, TickingReaches DEF Ticks

\* So are a TWS procedure that lets the phones in and an empty list.
LEMMA WaitingReaches ==
  ASSUME NEW t, t.lib \in Waiting, t.list = << >>
  PROVE  Reach(t)
BY DEF Reach, Heard, Rolls, Returns

LEMMA NoneConnected == conn = {} => Connected = 0
BY FS_EmptySet DEF Connected

LEMMA OneConnected == ASSUME Expects, conn # {} PROVE Connected = 1
<1>1. IsFiniteSet(conn) /\ Connected < 2
  BY DEF Expects, Due
<1>2. Connected \in Nat /\ Connected # 0
  BY <1>1, FS_EmptySet, FS_CardinalityType DEF Connected
<1> QED BY <1>1, <1>2

LEMMA WideScan == conn = {} \/ DualConfig = "SET_TWO" =>
                    \A i, c \in BOOLEAN : Scanned(i, c) = [inq |-> i, page |-> c]
BY DEF Scanned

\* Opening the scans for one more phone is a command; with two phones on record, or none
\* connected, the earbud can then be called.
LEMMA OpenEffect ==
  ASSUME NEW s \in GoodBud
  PROVE  /\ LET t == dual_conn_try_open_inquiry_page_scan(s) IN
            /\ Commanded(s, t) /\ t.lib = s.lib
            /\ role # "slave" /\ conn = {} => t.scan = [inq |-> TRUE, page |-> TRUE]
         /\ LET t == OpenForSecond(s) IN
            /\ Commanded(s, t) /\ t.lib = s.lib /\ t.timer = s.timer
            /\ s.recorded > 1 /\ DualConfig = "SET_TWO" => t.scan.page
<1> DEFINE open == conn = {} \/ s.inqOff = 0
           v == dual_conn_try_open_inquiry_page_scan(s)
<1>1. /\ v = IF role = "slave" THEN s ELSE write_scan_conn_enable(s, open, open)
      /\ open \in BOOLEAN /\ (conn = {} => open = TRUE)
  BY DEF dual_conn_try_open_inquiry_page_scan
<1>2. Commanded(s, s)
  BY DEF Commanded
<1>3. /\ Commanded(s, v) /\ v.lib = s.lib
      /\ role # "slave" /\ conn = {} => v.scan = [inq |-> TRUE, page |-> TRUE]
  <2> HIDE DEF v, open
  <2>1. LET w == write_scan_conn_enable(s, open, open) IN
        /\ Commanded(s, w) /\ w.lib = s.lib /\ w.scan = Scanned(open, open)
    BY <1>1, ScanEffect
  <2> QED BY <1>1, <1>2, <2>1, WideScan
<1>4. LET w == write_scan_conn_enable(s, FALSE, TRUE) IN
      /\ Commanded(s, w) /\ w.lib = s.lib /\ (DualConfig = "SET_TWO" => w.scan.page)
  <2>1. LET w == write_scan_conn_enable(s, FALSE, TRUE) IN
        /\ Commanded(s, w) /\ w.lib = s.lib /\ w.scan = Scanned(FALSE, TRUE)
    BY ScanEffect
  <2>2. DualConfig = "SET_TWO" => Scanned(FALSE, TRUE).page
    BY DEF Scanned
  <2> QED BY <2>1, <2>2
<1>5. LET t == OpenForSecond(s) IN
      /\ Commanded(s, t) /\ t.lib = s.lib
      /\ s.recorded > 1 /\ DualConfig = "SET_TWO" => t.scan.page
  BY <1>3, <1>4 DEF OpenForSecond
<1> QED BY <1>3, <1>5 DEF Commanded

-----------------------------------------------------------------------------
(* The engine. *)

LEMMA StateHandlerServed ==
  ASSUME NEW s \in GoodBud, NEW esco \in BOOLEAN, link \in Links, role \in Roles
  PROVE  Served(s, tws_dual_conn_state_handler(s, esco), {})
<1> DEFINE t == DelTimer(s)
<1>1. t \in GoodBud /\ Served(s, t, {}) /\ t.timer = "none"
  BY TimersServed, TimerEffect
<1>2. Served(s, s, {})
  BY CommandsServed
<1>3. "none" \notin Callbacks
  BY DEF Callbacks
<1> HIDE DEF t
<1>4. ASSUME NEW u, Served(t, u, {}) PROVE Served(s, u, {})
  BY <1>1, <1>4, ServedTwice
<1>5. ASSUME NEW u \in GoodBud, NEW v, Commanded(u, v), NEW cb \in Own, u.timer = "none", ~SlaveRuns
      PROVE  Served(u, AddTimer(v, cb), {})
  <2>1. Served(u, v, {}) /\ v \in GoodBud /\ v.timer = "none"
    BY <1>5, CommandServed DEF Commanded
  <2>2. Served(v, AddTimer(v, cb), {})
    BY <1>3, <2>1, TimersServed
  <2> QED BY <2>1, <2>2, ServedTwice
<1>6. /\ "tws_wait_conn_timeout" \in Own /\ "tws_pair_new_tws" \in Own
      /\ "tws_auto_pair_timeout" \in Own
  BY DEF Own, Callbacks, Pairing
<1>7. ASSUME NEW u \in GoodBud, u.timer = "none" PROVE Served(u, ThenPage(u), {})
  <2>1. Served(u, u, {}) /\ Served(u, AddTimer(u, "tws_auto_pair_timeout"), {})
    BY <1>3, <1>6, <1>7, CommandsServed, TimersServed
  <2> QED BY <2>1 DEF ThenPage
<1>8. ASSUME NEW u, Served(t, u, {}), u.timer = "none" PROVE Served(s, ThenPage(u), {})
  <2>1. u \in GoodBud
    BY <1>8 DEF Served, Tended
  <2>2. Served(u, ThenPage(u), {})
    BY <1>7, <1>8, <2>1
  <2> QED BY <1>4, <1>8, <2>2, ServedTwice
<1>9. CASE role = "slave" /\ link = "connected"
  <2>1. Served(s, write_scan_conn_enable(t, FALSE, FALSE), {})
    BY <1>1, <1>4, CommandsServed
  <2>2. tws_dual_conn_state_handler(s, esco) \in {s, t, write_scan_conn_enable(t, FALSE, FALSE)}
    BY <1>9 DEF tws_dual_conn_state_handler, t
  <2> QED BY <1>1, <1>2, <2>1, <2>2
<1>10. CASE role = "master" /\ link = "connected"
  <2>0. ~SlaveRuns
    BY <1>10 DEF SlaveRuns
  <2> DEFINE have == t.list # << >>
             paged == IF have THEN StartPage(t, Head(t.list).mac) ELSE t
             scanned ==
               CASE conn = {} -> write_scan_conn_enable(t, TRUE, TRUE)
                 [] Connected = 1 /\ t.recorded > 1 /\ esco /\ have ->
                      write_scan_conn_enable(paged, FALSE, FALSE)
                 [] Connected = 1 /\ t.recorded > 1 /\ ~(esco /\ have) ->
                      write_scan_conn_enable(paged, FALSE, TRUE)
                 [] OTHER -> t
  <2>1. Commanded(t, paged)
    <3>1. have => Head(t.list).mac \in Phones
      BY <1>1, HeadLemma
    <3> QED BY <1>1, <3>1, StartEffect DEF Commanded
  <2>2. Commanded(t, scanned)
    <3> HIDE DEF paged
    <3>1. paged \in GoodBud
      BY <2>1 DEF Commanded
    <3>2. /\ Commanded(t, write_scan_conn_enable(t, TRUE, TRUE))
          /\ Commanded(paged, write_scan_conn_enable(paged, FALSE, FALSE))
          /\ Commanded(paged, write_scan_conn_enable(paged, FALSE, TRUE))
      BY <1>1, <3>1, ScanEffect
    <3>3. /\ Commanded(t, write_scan_conn_enable(paged, FALSE, FALSE))
          /\ Commanded(t, write_scan_conn_enable(paged, FALSE, TRUE)) /\ Commanded(t, t)
      BY <1>1, <2>1, <3>2 DEF Commanded
    <3> HIDE DEF have
    <3> QED BY <3>2, <3>3
  <2>3. SiblingConnected(t, esco)
          = IF have THEN AddTimer(scanned, "tws_wait_conn_timeout")
            ELSE IF t.recorded = 1 THEN dual_conn_try_open_inquiry_page_scan(scanned)
            ELSE scanned
    BY DEF SiblingConnected
  <2> HIDE DEF scanned, have, paged
  <2>4. Served(t, AddTimer(scanned, "tws_wait_conn_timeout"), {})
    BY <1>1, <1>5, <1>6, <2>0, <2>2
  <2>5. Served(t, scanned, {}) /\ scanned \in GoodBud
    BY <1>1, <2>0, <2>2, CommandServed DEF Commanded
  <2>6. Served(t, dual_conn_try_open_inquiry_page_scan(scanned), {})
    BY <2>5, OpensServed, ServedTwice
  <2>7. Served(s, SiblingConnected(t, esco), {})
    BY <1>4, <2>3, <2>4, <2>5, <2>6
  <2>8. tws_dual_conn_state_handler(s, esco) \in {s, t, SiblingConnected(t, esco)}
    BY <1>10 DEF tws_dual_conn_state_handler, t
  <2> QED BY <1>1, <1>2, <2>7, <2>8
<1>11. CASE link # "connected"
  <2>0. ~SlaveRuns
    BY <1>11 DEF SlaveRuns
  <2>1. \A proc \in Procedures : Commanded(t, Request(t, proc))
    BY <1>1, RequestEffect
  <2>2. {"create", "wait", "auto"} \subseteq Procedures
    BY DEF Procedures
  <2>3. ASSUME NEW proc \in Procedures
        PROVE  /\ Commanded(t, write_scan_conn_enable(Request(t, proc), TRUE, TRUE))
               /\ Served(t, OpenForSecond(Request(t, proc)), {})
               /\ OpenForSecond(Request(t, proc)).timer = "none"
    <3> DEFINE u == Request(t, proc)
    <3>1. Commanded(t, u) /\ u \in GoodBud /\ u.timer = "none"
      BY <1>1, <2>1 DEF Commanded
    <3> HIDE DEF u
    <3>2. Commanded(u, write_scan_conn_enable(u, TRUE, TRUE))
      BY <3>1, ScanEffect
    <3>3. Served(u, OpenForSecond(u), {}) /\ Served(t, u, {})
      BY <1>1, <2>0, <3>1, OpensServed, CommandServed
    <3>4. OpenForSecond(u).timer = "none"
      BY <3>1, OpenEffect
    <3>5. Commanded(t, write_scan_conn_enable(u, TRUE, TRUE))
      BY <3>1, <3>2 DEF Commanded
    <3>6. Served(t, OpenForSecond(u), {})
      BY <3>3, ServedTwice
    <3> QED BY <3>4, <3>5, <3>6 DEF u
  <2>4. Served(s, SiblingLost(t), {})
    <3>1. Served(s, AddTimer(write_scan_conn_enable(Request(t, "create"), TRUE, TRUE),
                             "tws_pair_new_tws"), {})
      BY <1>1, <1>4, <1>5, <1>6, <2>0, <2>2, <2>3
    <3>2. Served(s, ThenPage(OpenForSecond(Request(t, "wait"))), {})
      BY <1>8, <2>2, <2>3
    <3>3. Served(t, Request(t, "wait"), {}) /\ Request(t, "wait").timer = "none"
      BY <1>1, <2>0, <2>1, <2>2, CommandServed DEF Commanded
    <3>4. Served(s, ThenPage(Request(t, "wait")), {})
      BY <1>8, <3>3
    <3> QED BY <1>1, <3>1, <3>2, <3>4 DEF SiblingLost
  <2>5. Served(s, NeverPaired(t), {})
    <3>1. Commanded(t, write_scan_conn_enable(Request(t, "auto"), TRUE, TRUE))
      BY <2>2, <2>3
    <3>2. /\ Served(t, write_scan_conn_enable(Request(t, "auto"), TRUE, TRUE), {})
          /\ write_scan_conn_enable(Request(t, "auto"), TRUE, TRUE).timer = "none"
      BY <1>1, <2>0, <3>1, CommandServed DEF Commanded
    <3>3. Served(t, OpenForSecond(t), {}) /\ OpenForSecond(t).timer = "none"
      BY <1>1, <2>0, OpensServed, OpenEffect
    <3> QED BY <1>1, <1>8, <3>2, <3>3 DEF NeverPaired
  <2>6. tws_dual_conn_state_handler(s, esco) \in {s, t, SiblingLost(t), NeverPaired(t)}
    BY <1>11 DEF tws_dual_conn_state_handler, t, Links
  <2> QED BY <1>1, <1>2, <2>4, <2>5, <2>6
<1> QED BY <1>9, <1>10, <1>11 DEF Roles

\* Whatever the state of the link, the engine of a master that evaluates it can be reached.
LEMMA StateHandlerReaches ==
  ASSUME NEW s \in GoodBud, NEW esco \in BOOLEAN, Expects
  PROVE  Reach(tws_dual_conn_state_handler(s, esco))
<1> DEFINE t == DelTimer(s)
<1>0. /\ role = "master" /\ ~wait_exit /\ ~goto_poweroff_flag /\ link \in Links
      /\ conn # {} => Usual /\ ~remoteTest /\ Connected = 1
      /\ conn = {} => Connected # 1
  BY NoneConnected, OneConnected DEF Expects, Due, wait_exit, goto_poweroff_flag
<1>1. t \in GoodBud
  BY TimerEffect
<1>2. tws_dual_conn_state_handler(s, esco)
        = CASE link = "connected" /\ role = "slave" -> write_scan_conn_enable(t, FALSE, FALSE)
            [] link = "connected" /\ role = "master" -> SiblingConnected(t, esco)
            [] link = "paired" -> SiblingLost(t)
            [] link = "unpaired" -> NeverPaired(t)
  BY <1>0 DEF tws_dual_conn_state_handler
<1> HIDE DEF t
<1>3. /\ {"tws_wait_conn_timeout", "tws_pair_new_tws", "tws_auto_pair_timeout"} \subseteq Callbacks
      /\ {"create", "wait", "auto"} \subseteq Procedures
  BY DEF Callbacks, Procedures
<1>4. ASSUME NEW u \in GoodBud, u.list # << >> \/ Reach(u) PROVE Reach(ThenPage(u))
  BY <1>3, <1>4, TimerReaches DEF ThenPage
<1>5. CASE link = "connected"
  <2> DEFINE have == t.list # << >>
             paged == IF have THEN StartPage(t, Head(t.list).mac) ELSE t
             scanned ==
               CASE conn = {} -> write_scan_conn_enable(t, TRUE, TRUE)
                 [] Connected = 1 /\ t.recorded > 1 /\ esco /\ have ->
                      write_scan_conn_enable(paged, FALSE, FALSE)
                 [] Connected = 1 /\ t.recorded > 1 /\ ~(esco /\ have) ->
                      write_scan_conn_enable(paged, FALSE, TRUE)
                 [] OTHER -> t
             u == SiblingConnected(t, esco)
  <2>1. u = IF have THEN AddTimer(scanned, "tws_wait_conn_timeout")
            ELSE IF t.recorded = 1 THEN dual_conn_try_open_inquiry_page_scan(scanned)
            ELSE scanned
    BY DEF SiblingConnected
  <2>2. paged \in GoodBud
    BY <1>1, HeadLemma, CommandsLemma
  <2>3. ~have => paged = t
    OBVIOUS
  <2> HIDE DEF paged
  <2>4. /\ write_scan_conn_enable(t, TRUE, TRUE) \in GoodBud
        /\ write_scan_conn_enable(paged, FALSE, FALSE) \in GoodBud
        /\ write_scan_conn_enable(paged, FALSE, TRUE) \in GoodBud
    BY <1>1, <2>2, CommandsLemma
  <2>5. scanned \in GoodBud
    BY <1>1, <2>4
  <2>6. CASE have
    <3> HIDE DEF scanned, have
    <3> QED BY <1>0, <1>2, <1>3, <1>5, <2>1, <2>5, <2>6, TimerReaches
  <2>7. CASE ~have /\ conn = {}
    <3>1. scanned = write_scan_conn_enable(t, TRUE, TRUE)
      BY <1>0, <2>7
    <3> HIDE DEF scanned
    <3>2. Commanded(t, scanned) /\ scanned.scan = [inq |-> TRUE, page |-> TRUE]
      BY <1>1, <2>7, <3>1, ScanEffect, WideScan
    <3>3. LET v == dual_conn_try_open_inquiry_page_scan(scanned) IN
          Commanded(scanned, v) /\ v.scan = [inq |-> TRUE, page |-> TRUE]
      BY <1>0, <2>5, <2>7, OpenEffect
    <3>4. u.scan = [inq |-> TRUE, page |-> TRUE] /\ u.list = << >>
      BY <2>1, <2>7, <3>2, <3>3 DEF Commanded
    <3> HIDE DEF u
    <3>5. Reach(u)
      BY <2>7, <3>4 DEF Reach, Heard, Rolls
    <3> QED BY <1>0, <1>2, <1>5, <3>5 DEF u
  <2>8. CASE ~have /\ conn # {}
    <3>1. scanned = IF t.recorded > 1 THEN write_scan_conn_enable(t, FALSE, TRUE) ELSE t
      BY <1>0, <2>3, <2>8
    <3>2. LET v == write_scan_conn_enable(t, FALSE, TRUE) IN
          Commanded(t, v) /\ v.scan = Scanned(FALSE, TRUE)
      BY <1>1, ScanEffect
    <3>3. DualConfig = "SET_TWO" => Scanned(FALSE, TRUE).page
      BY DEF Scanned
    <3> HIDE DEF scanned
    <3>4. Commanded(t, scanned)
          /\ (t.recorded > 1 /\ DualConfig = "SET_TWO" => scanned.scan.page)
      BY <1>1, <3>1, <3>2, <3>3 DEF Commanded
    <3>5. Commanded(scanned, dual_conn_try_open_inquiry_page_scan(scanned))
      BY <2>5, OpenEffect
    <3>6. u.list = << >> /\ u.recorded = t.recorded
          /\ (t.recorded > 1 /\ DualConfig = "SET_TWO" => u.scan.page)
      <4>1. CASE t.recorded = 1
        BY <2>1, <2>8, <3>4, <3>5, <4>1 DEF Commanded
      <4>2. CASE t.recorded # 1
        BY <2>1, <2>8, <3>4, <4>2 DEF Commanded
      <4> QED BY <4>1, <4>2
    <3> HIDE DEF u
    <3>7. Reach(u)
      BY <2>8, <3>6 DEF Reach, Rolls, Returns
    <3> QED BY <1>0, <1>2, <1>5, <3>7 DEF u
  <2> QED BY <2>6, <2>7, <2>8
<1>6. CASE link = "paired"
  <2>1. tws_dual_conn_state_handler(s, esco) = SiblingLost(t)
    BY <1>0, <1>2, <1>6
  <2>2. CASE conn = {}
    <3>1. write_scan_conn_enable(Request(t, "create"), TRUE, TRUE) \in GoodBud
      BY <1>1, <1>3, CommandsLemma
    <3>2. SiblingLost(t) = AddTimer(write_scan_conn_enable(Request(t, "create"), TRUE, TRUE),
                                    "tws_pair_new_tws")
      BY <1>0, <2>2 DEF SiblingLost
    <3> QED BY <1>3, <2>1, <3>1, <3>2, TimerReaches
  <2>3. CASE conn # {}
    <3> DEFINE w == Request(t, "wait")
               u == OpenForSecond(w)
    <3>1. SiblingLost(t) = ThenPage(u)
      BY <1>0, <2>3 DEF SiblingLost
    <3>2. w \in GoodBud /\ w.lib = "wait"
      BY <1>1, <1>3, RequestEffect DEF Commanded
    <3> HIDE DEF w
    <3>3. u \in GoodBud /\ u.lib = "wait"
      BY <3>2, OpenEffect DEF Commanded
    <3> HIDE DEF u
    <3>4. u.list # << >> \/ Reach(u)
      BY <3>3, WaitingReaches DEF Waiting
    <3> QED BY <1>4, <2>1, <3>1, <3>3, <3>4
  <2> QED BY <2>2, <2>3
<1>7. CASE link = "unpaired"
  <2>1. tws_dual_conn_state_handler(s, esco) = NeverPaired(t)
    BY <1>0, <1>2, <1>7
  <2>2. CASE conn = {}
    <3> DEFINE w == Request(t, "auto")
               u == write_scan_conn_enable(w, TRUE, TRUE)
    <3>1. NeverPaired(t) = ThenPage(u)
      BY <1>0, <2>2 DEF NeverPaired
    <3>2. w \in GoodBud /\ w.lib = "auto"
      BY <1>1, <1>3, RequestEffect DEF Commanded
    <3> HIDE DEF w
    <3>3. u \in GoodBud /\ u.lib = "auto"
      BY <3>2, ScanEffect DEF Commanded
    <3> HIDE DEF u
    <3>4. u.list # << >> \/ Reach(u)
      BY <3>3, WaitingReaches DEF Waiting
    <3> QED BY <1>4, <2>1, <3>1, <3>3, <3>4
  <2>3. CASE conn # {}
    <3> DEFINE u == OpenForSecond(t)
    <3>1. NeverPaired(t) = ThenPage(u)
      BY <1>0, <2>3 DEF NeverPaired
    <3>2. /\ u \in GoodBud /\ u.recorded = t.recorded
          /\ t.recorded > 1 /\ DualConfig = "SET_TWO" => u.scan.page
      BY <1>1, OpenEffect DEF Commanded
    <3> HIDE DEF u
    <3>3. u.list # << >> \/ Reach(u)
      BY <2>3, <3>2 DEF Reach, Rolls, Returns
    <3> QED BY <1>4, <2>1, <3>1, <3>2, <3>3
  <2> QED BY <2>2, <2>3
<1> QED BY <1>0, <1>5, <1>6, <1>7 DEF Links

\* Paging the head of the list.
LEMMA PageDeviceServed ==
  ASSUME NEW s \in GoodBud, NEW esco \in BOOLEAN, link \in Links, role \in Roles
  PROVE  /\ Served(s, dual_conn_page_device(s, esco), {})
         /\ Expects => Reach(dual_conn_page_device(s, esco))
<1> DEFINE t == [s EXCEPT !.list[1].timer = TRUE]
           u == StartPage(t, s.list[1].mac)
<1>1. ASSUME s.list # << >>
      PROVE  /\ u \in GoodBud /\ u.list = t.list /\ u.timer = s.timer /\ u.loose = s.loose
             /\ DOMAIN t.list = DOMAIN s.list /\ 1 \in DOMAIN t.list /\ t.list[1].timer
             /\ \A k \in DOMAIN s.list : t.list[k].mac = s.list[k].mac
  <2>1. s \in Bud /\ s.list \in Seq(Entry) /\ 1 \in DOMAIN s.list /\ s.list[1] \in Entry
        /\ s.list[1].mac \in Phones
    BY <1>1, HeadLemma DEF GoodBud, Bud
  <2> DEFINE e == [s.list[1] EXCEPT !.timer = TRUE]
             l == [s.list EXCEPT ![1] = e]
  <2>2. e \in Entry /\ e.mac = s.list[1].mac /\ e.timer
    BY <2>1 DEF Entry
  <2> HIDE DEF e
  <2>3. l \in Seq(Entry) /\ DOMAIN l = DOMAIN s.list /\ l[1] = e
        /\ \A k \in DOMAIN s.list : l[k].mac = s.list[k].mac
    <3>1. 1 \in 1 .. Len(s.list)
      BY <2>1, LenProperties
    <3>2. /\ l \in Seq(Entry) /\ Len(l) = Len(s.list)
          /\ \A k \in 1 .. Len(s.list) : l[k] = IF k = 1 THEN e ELSE s.list[k]
      BY <2>1, <2>2, <3>1, ExceptSeq
    <3> HIDE DEF l
    <3> QED BY <2>1, <2>2, <3>1, <3>2, LenProperties
  <2>4. t = [s EXCEPT !.list = l]
    BY <2>1 DEF Bud, e
  <2> HIDE DEF l
  <2>5. OnceEach(l)
    <3>1. OnceEach(s.list)
      BY DEF GoodBud
    <3> QED BY <2>3, <3>1 DEF OnceEach
  <2>6. t \in GoodBud
    BY <2>3, <2>4, <2>5, FieldsLemma DEF GoodList
  <2>7. t.list = l /\ t.timer = s.timer /\ t.loose = s.loose
    BY <2>1, <2>4 DEF Bud
  <2> HIDE DEF t
  <2>8. Commanded(t, u)
    BY <2>1, <2>6, StartEffect
  <2> QED BY <2>1, <2>2, <2>3, <2>7, <2>8 DEF Commanded
<1>2. dual_conn_page_device(s, esco) = u \/ dual_conn_page_device(s, esco) = s
      \/ dual_conn_page_device(s, esco) = tws_dual_conn_state_handler(s, esco)
  BY DEF dual_conn_page_device
<1>3. /\ dual_conn_page_device(s, esco) = u =>
           (s.list # << >> /\ role = "master")
           \/ dual_conn_page_device(s, esco) = tws_dual_conn_state_handler(s, esco)
           \/ dual_conn_page_device(s, esco) = s
      /\ Expects => \/ s.list # << >> /\ s.list[1].timer /\ dual_conn_page_device(s, esco) = s
                    \/ s.list # << >> /\ dual_conn_page_device(s, esco) = u
                    \/ dual_conn_page_device(s, esco) = tws_dual_conn_state_handler(s, esco)
  BY DEF dual_conn_page_device, Expects, Due
<1> HIDE DEF u, t
<1>4. ASSUME s.list # << >>, role = "master" PROVE Served(s, u, {})
  <2>1. ~SlaveRuns
    BY <1>4 DEF SlaveRuns
  <2>2. Listed(u) \subseteq Listed(s)
    BY <1>1, <1>4 DEF Listed
  <2> QED BY <1>1, <1>4, <2>1, <2>2 DEF Served, Tended
<1>5. Served(s, dual_conn_page_device(s, esco), {})
  BY <1>2, <1>3, <1>4, StateHandlerServed, CommandsServed
<1>6. ASSUME Expects PROVE Reach(dual_conn_page_device(s, esco))
  <2>1. s.list # << >> => Ticks(u) /\ (s.list[1].timer => Ticks(s))
    BY <1>1, HeadLemma DEF Ticks
  <2> QED BY <1>3, <1>6, <2>1, TickingReaches, StateHandlerReaches
<1> QED BY <1>5, <1>6

LEMMA PageOrServed ==
  ASSUME NEW s \in GoodBud, NEW other, NEW esco \in BOOLEAN, link \in Links, role \in Roles,
         Served(s, other, {}), Expects /\ s.list = << >> => Reach(other)
  PROVE  /\ Served(s, PageOr(s, other, esco), {})
         /\ Expects => Reach(PageOr(s, other, esco))
BY PageDeviceServed DEF PageOr

-----------------------------------------------------------------------------
(* The timer callbacks. *)

\* Another list, of phones that were listed or are in X.
LEMMA ListServed ==
  ASSUME NEW s \in GoodBud, NEW l \in GoodList, NEW X,
         \A k \in DOMAIN l : l[k].mac \in Listed(s) \cup X
  PROVE  /\ Served(s, [s EXCEPT !.list = l], X)
         /\ [s EXCEPT !.list = l].list = l
<1> DEFINE t == [s EXCEPT !.list = l]
<1>1. /\ t \in GoodBud /\ t.list = l /\ t.timer = s.timer /\ t.loose = s.loose
      /\ t.scan = s.scan /\ t.paging = s.paging
  <2>1. t \in GoodBud /\ s \in Bud
    BY FieldsLemma DEF GoodBud
  <2> QED BY <2>1 DEF Bud
<1> HIDE DEF t
<1>2. Listed(t) \subseteq Listed(s) \cup X
  BY <1>1 DEF Listed
<1>3. Served(s, t, X)
  BY <1>1, <1>2 DEF Served, Tended, Quiet
<1> QED BY <1>1, <1>3 DEF t

\* A page is over.
LEMMA PageTimeoutServed ==
  ASSUME NEW s \in GoodBud, NEW i \in DOMAIN s.list, NEW over \in BOOLEAN, NEW esco \in BOOLEAN,
         link \in Links, role \in Roles
  PROVE  /\ Served(s, dual_conn_page_device_timeout(s, i, over, esco), {})
         /\ Expects => Reach(dual_conn_page_device_timeout(s, i, over, esco))
<1> DEFINE rest == RemoveAt(s.list, i)
           e == Fresh(s.list[i].mac)
           l == IF over THEN rest ELSE Append(rest, e)
           u == [s EXCEPT !.list = l]
<1>1. s.list \in GoodList /\ s.list \in Seq(Entry)
  BY FieldsLemma DEF GoodList
<1>2. /\ rest \in GoodList /\ \A k \in DOMAIN rest : rest[k].mac # s.list[i].mac
      /\ \A k \in DOMAIN rest : \E j \in DOMAIN s.list : rest[k] = s.list[j]
  BY <1>1, RemoveAtLemma
<1>3. s.list[i] \in Entry
  BY <1>1, LenProperties, ElementOfSeq
<1>4. e \in Entry /\ e.mac = s.list[i].mac
  BY <1>3 DEF Fresh, Entry
<1> HIDE DEF rest, e
<1>5. Append(rest, e) \in GoodList
  BY <1>2, <1>4, AppendLemma
<1>6. \A k \in DOMAIN rest : rest[k].mac \in Listed(s)
  BY <1>2 DEF Listed
<1>7. \A k \in DOMAIN Append(rest, e) : Append(rest, e)[k].mac \in Listed(s)
  <2>1. e.mac \in Listed(s)
    BY <1>4 DEF Listed
  <2>2. rest \in Seq(Entry) /\ Len(rest) \in Nat /\ DOMAIN rest = 1 .. Len(rest)
    BY <1>2, LenProperties DEF GoodList
  <2>3. /\ DOMAIN Append(rest, e) = 1 .. Len(rest) + 1
        /\ \A k \in 1 .. Len(rest) : Append(rest, e)[k] = rest[k]
        /\ Append(rest, e)[Len(rest) + 1] = e
    BY <1>4, <2>2
  <2> QED BY <1>6, <2>1, <2>2, <2>3
<1>8. l \in GoodList /\ \A k \in DOMAIN l : l[k].mac \in Listed(s) \cup {}
  BY <1>2, <1>5, <1>6, <1>7
<1> HIDE DEF l
<1>9. Served(s, u, {}) /\ u \in GoodBud
  BY <1>8, ListServed DEF Served, Tended
<1>10. dual_conn_page_device_timeout(s, i, over, esco)
         = tws_dual_conn_state_handler(PageCancel(u), esco)
  BY DEF dual_conn_page_device_timeout, u, l, rest, e
<1> HIDE DEF u
<1>11. Served(u, PageCancel(u), {}) /\ PageCancel(u) \in GoodBud
  BY <1>9, CommandsServed, CommandsLemma
<1>12. /\ Served(PageCancel(u), tws_dual_conn_state_handler(PageCancel(u), esco), {})
       /\ Expects => Reach(tws_dual_conn_state_handler(PageCancel(u), esco))
  BY <1>11, StateHandlerServed, StateHandlerReaches
<1> QED BY <1>9, <1>10, <1>11, <1>12, ServedTwice

\* What a callback may do to a bud whose handle may still name a timer.
Called(s, t) ==
  /\ t \in GoodBud
  /\ Listed(t) \subseteq Listed(s)
  /\ t.loose \subseteq s.loose \cup Armed(s.timer)
  /\ t.timer \in {s.timer, "none"} \cup Own
  /\ SlaveRuns /\ Quiet(s) => Quiet(t)

LEMMA CallbackServed ==
  ASSUME NEW s \in GoodBud, NEW cb \in Callbacks, NEW esco \in BOOLEAN,
         link \in Links, role \in Roles
  PROVE  /\ Called(s, RunCallback(s, cb, esco))
         /\ Expects /\ (Usual => cb # Pairing) => Reach(RunCallback(s, cb, esco))
<1> DEFINE z == ZeroTimer(s)
<1>1. /\ z \in GoodBud /\ z.timer = "none" /\ z.list = s.list
      /\ z.loose = s.loose \cup Armed(s.timer) /\ z.scan = s.scan /\ z.paging = s.paging
  BY TimerEffect
<1> HIDE DEF z
<1>2. ASSUME NEW t, Served(z, t, {}) PROVE Called(s, t)
  BY <1>1, <1>2 DEF Served, Tended, Called, Listed, Quiet
<1>3. ASSUME NEW t, Served(s, t, {}) PROVE Called(s, t)
  BY <1>3 DEF Served, Tended, Called
<1>4. {"none", "auto", "pair"} \subseteq Procedures
  BY DEF Procedures
<1>5. CASE cb = "tws_wait_conn_timeout"
  <2> DEFINE u == write_scan_conn_enable(s, FALSE, FALSE)
  <2>1. u \in GoodBud /\ Served(s, u, {})
    BY CommandsServed, CommandsLemma
  <2>2. RunCallback(s, cb, esco) = dual_conn_page_device(u, esco)
    BY <1>5 DEF RunCallback
  <2> HIDE DEF u
  <2>3. Served(u, dual_conn_page_device(u, esco), {})
        /\ (Expects => Reach(dual_conn_page_device(u, esco)))
    BY <2>1, PageDeviceServed
  <2> QED BY <1>3, <2>1, <2>2, <2>3, ServedTwice
<1>6. CASE cb = "tws_pair_new_tws"
  <2> DEFINE u == Request(s, "auto")
             t == AddTimer(u, "tws_auto_pair_timeout")
  <2>1. RunCallback(s, cb, esco) = t
    BY <1>6 DEF RunCallback
  <2>2. Commanded(s, u) /\ u.scan = s.scan /\ u.paging = s.paging /\ u \in GoodBud
    BY <1>4, RequestEffect DEF Commanded
  <2>3. "tws_auto_pair_timeout" \in Callbacks /\ "tws_auto_pair_timeout" \in Own
    BY DEF Own, Callbacks, Pairing
  <2> HIDE DEF u
  <2>4. /\ t \in GoodBud /\ t.timer = "tws_auto_pair_timeout" /\ t.list = u.list
        /\ t.loose = u.loose \cup Armed(u.timer) /\ t.scan = u.scan /\ t.paging = u.paging
    BY <2>2, <2>3, TimerEffect
  <2>5. Reach(t)
    BY <2>2, <2>3, TimerReaches
  <2> HIDE DEF t
  <2>6. Called(s, t)
    BY <2>2, <2>3, <2>4 DEF Called, Commanded, Listed, Quiet
  <2> QED BY <2>1, <2>5, <2>6
<1>7. CASE cb = "tws_auto_pair_timeout"
  <2> DEFINE v == Request(z, "none")
             u == write_scan_conn_enable(v, FALSE, FALSE)
  <2>1. v \in GoodBud /\ Served(z, v, {})
    BY <1>1, <1>4, CommandsServed, CommandsLemma
  <2>2. RunCallback(s, cb, esco) = dual_conn_page_device(u, esco)
    BY <1>7 DEF RunCallback, z
  <2> HIDE DEF v
  <2>3. u \in GoodBud /\ Served(v, u, {})
    BY <2>1, CommandsServed, CommandsLemma
  <2> HIDE DEF u
  <2>4. Served(u, dual_conn_page_device(u, esco), {})
        /\ (Expects => Reach(dual_conn_page_device(u, esco)))
    BY <2>3, PageDeviceServed
  <2> QED BY <1>2, <2>1, <2>2, <2>3, <2>4, ServedTwice
<1>8. CASE cb = "page_next_device"
  <2>1. RunCallback(s, cb, esco) = dual_conn_page_device(z, esco)
    BY <1>8 DEF RunCallback, z
  <2>2. Served(z, dual_conn_page_device(z, esco), {})
        /\ (Expects => Reach(dual_conn_page_device(z, esco)))
    BY <1>1, PageDeviceServed
  <2> QED BY <1>2, <2>1, <2>2
<1> DEFINE c == cancle_create_connection(z)
<1>9. c \in GoodBud /\ Served(z, c, {})
  BY <1>1, CommandsServed, CommandsLemma
<1>10. CASE cb = "tws_pair_timeout"
  <2> DEFINE o == Request(c, "pair")
  <2>1. RunCallback(s, cb, esco) = PageOr(c, o, esco)
    BY <1>10 DEF RunCallback, z
  <2> HIDE DEF c
  <2>2. Served(c, o, {}) /\ Commanded(c, o) /\ o.lib = "pair"
    BY <1>4, <1>9, CommandsServed, RequestEffect
  <2> HIDE DEF o
  <2>3. c.list = << >> => Reach(o)
    BY <2>2, WaitingReaches DEF Waiting, Commanded
  <2>4. Served(c, PageOr(c, o, esco), {}) /\ (Expects => Reach(PageOr(c, o, esco)))
    BY <1>9, <2>2, <2>3, PageOrServed
  <2> QED BY <1>2, <1>9, <2>1, <2>4, ServedTwice
<1>11. CASE cb = "tws_create_conn_timeout"
  <2> DEFINE o == tws_dual_conn_state_handler(c, esco)
  <2>1. RunCallback(s, cb, esco) = PageOr(c, o, esco)
    BY <1>11 DEF RunCallback, z
  <2> HIDE DEF c
  <2>2. Served(c, o, {}) /\ (Expects => Reach(o))
    BY <1>9, StateHandlerServed, StateHandlerReaches
  <2> HIDE DEF o
  <2>3. Served(c, PageOr(c, o, esco), {}) /\ (Expects => Reach(PageOr(c, o, esco)))
    BY <1>9, <2>2, PageOrServed
  <2> QED BY <1>2, <1>9, <2>1, <2>3, ServedTwice
<1>12. CASE cb = Pairing
  <2>1. RunCallback(s, cb, esco) = Request(z, "pair")
    BY <1>12 DEF RunCallback, z, Pairing
  <2>2. Served(z, Request(z, "pair"), {}) /\ Request(z, "pair").lib = "pair"
    BY <1>1, <1>4, CommandsServed, RequestEffect
  <2>3. Expects /\ ~Usual => Reach(Request(z, "pair"))
    BY <2>2 DEF Reach, Heard, Waiting
  <2> QED BY <1>2, <1>12, <2>1, <2>2, <2>3
<1> QED BY <1>5, <1>6, <1>7, <1>8, <1>10, <1>11, <1>12 DEF Callbacks, Pairing

-----------------------------------------------------------------------------
(* The message handlers. *)

\* A phone taken off the list is off the list.
LEMMA DeleteServed ==
  ASSUME NEW s \in GoodBud, NEW p \in Phones
  PROVE  LET t == del_device_from_page_list(s, p) IN
         /\ Served(s, t, {}) /\ p \notin Listed(t)
         /\ t.timer = s.timer /\ t.loose = s.loose /\ t.recorded = s.recorded
<1> DEFINE i == IndexOf(s, p)
           l == RemoveAt(s.list, i)
           u == [s EXCEPT !.list = l]
<1>1. CASE p \in Listed(s)
  <2>1. i \in DOMAIN s.list /\ s.list[i].mac = p
    BY <1>1 DEF Listed, IndexOf
  <2>2. s.list \in GoodList
    BY FieldsLemma
  <2> HIDE DEF i
  <2>3. /\ l \in GoodList /\ \A k \in DOMAIN l : l[k].mac # p
        /\ \A k \in DOMAIN l : \E j \in DOMAIN s.list : l[k] = s.list[j]
    BY <2>1, <2>2, RemoveAtLemma
  <2> HIDE DEF l
  <2>4. \A k \in DOMAIN l : l[k].mac \in Listed(s) \cup {}
    BY <2>3 DEF Listed
  <2>5. Served(s, u, {}) /\ u.list = l
    BY <2>3, <2>4, ListServed
  <2>6. u.timer = s.timer /\ u.loose = s.loose /\ u.recorded = s.recorded
    BY DEF GoodBud, Bud
  <2>7. p \notin Listed(u)
    BY <2>3, <2>5 DEF Listed
  <2>8. del_device_from_page_list(s, p) = u
    BY <1>1 DEF del_device_from_page_list, l, i
  <2> HIDE DEF u
  <2> QED BY <2>5, <2>6, <2>7, <2>8
<1>2. CASE p \notin Listed(s)
  BY <1>2, CommandsServed DEF del_device_from_page_list
<1> QED BY <1>1, <1>2

LEMMA ClearServed ==
  ASSUME NEW s \in GoodBud
  PROVE  LET t == clr_device_in_page_list(s) IN
         Served(s, t, {}) /\ t.list = << >> /\ Listed(t) = {}
<1>1. << >> \in GoodList /\ \A k \in DOMAIN << >> : << >>[k].mac \in Listed(s) \cup {}
  BY DEF GoodList, OnceEach
<1>2. LET t == clr_device_in_page_list(s) IN Served(s, t, {}) /\ t.list = << >>
  BY <1>1, ListServed DEF clr_device_in_page_list
<1> QED BY <1>2 DEF Listed

\* The number of phones on record is counted.
LEMMA OneMoreServed ==
  ASSUME NEW s \in GoodBud
  PROVE  LET t == OneMore(s) IN
         /\ Served(s, t, {}) /\ t.timer = s.timer /\ t.loose = s.loose /\ t.list = s.list
<1> DEFINE n == IF s.recorded = 1 THEN 2 ELSE s.recorded
           t == [s EXCEPT !.recorded = n]
<1>1. OneMore(s) = t /\ OneMore(s) \in GoodBud
  BY OneMoreLemma DEF OneMore
<1>2. /\ t.timer = s.timer /\ t.loose = s.loose /\ t.list = s.list
      /\ t.scan = s.scan /\ t.paging = s.paging
  <2> HIDE DEF n
  <2> QED BY DEF GoodBud, Bud
<1> HIDE DEF t
<1> QED BY <1>1, <1>2 DEF Served, Tended, Listed, Quiet

\* A first phone is connected: it is off the list, and the other one can still come.
LEMMA FirstServed ==
  ASSUME NEW s \in GoodBud, NEW p \in Phones, link \in Links, role \in Roles
  PROVE  LET t == FirstConnected(s, p) IN
         /\ Served(s, t, {}) /\ p \notin Listed(t)
         /\ Expects /\ conn # {} => Reach(t)
<1> DEFINE d == DelTimer(s)
           t == del_device_from_page_list(d, p)
           u == IF link = "paired" THEN Request(t, "wait") ELSE t
           greet(x) == IF link = "connected" THEN dual_conn_try_open_inquiry_scan(x) ELSE x
           first == [u EXCEPT !.recorded = 1, !.first = p]
           n == IF p # s.first THEN OneMore(t) ELSE t
           o == OneMore(u)
<1>0. FirstConnected(s, p)
        = CASE remoteTest -> t
            [] ~remoteTest /\ role = "master" /\ t.list # << >> -> AddTimer(n, "page_next_device")
            [] OTHER ->
                 CASE s.recorded = 0 -> greet(first)
                   [] s.recorded = 1 /\ p = s.first -> greet(u)
                   [] OTHER -> IF role = "master" THEN WaitSecond(o) ELSE o
  BY DEF FirstConnected
<1>1. d \in GoodBud /\ Served(s, d, {}) /\ d.timer = "none" /\ d.recorded = s.recorded
  BY TimersServed, TimerEffect
<1> HIDE DEF d
<1>2. /\ Served(d, t, {}) /\ p \notin Listed(t) /\ t.timer = "none" /\ t \in GoodBud
      /\ t.recorded = s.recorded
  BY <1>1, DeleteServed DEF Served, Tended
<1>3. Served(s, t, {})
  BY <1>1, <1>2, ServedTwice
<1> HIDE DEF t
<1>4. "wait" \in Procedures /\ "page_next_device" \in Own /\ "page_next_device" \in Callbacks
      /\ "none" \notin Callbacks
  BY DEF Procedures, Own, Callbacks, Pairing
<1>5. Served(t, u, {}) /\ u \in GoodBud /\ u.list = t.list /\ u.recorded = s.recorded
  BY <1>2, <1>4, CommandsServed, RequestEffect DEF Commanded
<1> HIDE DEF u
<1>6. Served(u, first, {}) /\ first \in GoodBud /\ first.list = u.list /\ first.recorded = 1
  <2>1. /\ first \in GoodBud /\ first.list = u.list /\ first.timer = u.timer
        /\ first.loose = u.loose /\ first.scan = u.scan /\ first.paging = u.paging
        /\ first.recorded = 1
    BY <1>5 DEF GoodBud, Bud
  <2> HIDE DEF first
  <2> QED BY <2>1 DEF Served, Tended, Listed, Quiet
<1> HIDE DEF first
<1>7. ASSUME NEW x \in GoodBud
      PROVE  Served(x, greet(x), {}) /\ greet(x).list = x.list /\ greet(x).recorded = x.recorded
  <2>1. Served(x, x, {}) /\ Served(x, dual_conn_try_open_inquiry_scan(x), {})
    BY <1>7, OpensServed, CommandsServed
  <2>2. LET y == write_scan_conn_enable(x, TRUE, TRUE) IN
        y.list = x.list /\ y.recorded = x.recorded
    BY <1>7, ScanEffect DEF Commanded
  <2> QED BY <2>1, <2>2 DEF dual_conn_try_open_inquiry_scan
<1> HIDE DEF greet
<1>8. /\ Served(t, n, {}) /\ n \in GoodBud /\ n.timer = "none"
  BY <1>2, OneMoreServed, OneMoreLemma, CommandsServed
<1> HIDE DEF n
<1>9. Served(n, AddTimer(n, "page_next_device"), {}) /\ Reach(AddTimer(n, "page_next_device"))
  BY <1>4, <1>8, TimersServed, TimerReaches
<1>10. Served(u, o, {}) /\ o \in GoodBud /\ o.list = u.list
  BY <1>5, OneMoreServed, OneMoreLemma
<1> HIDE DEF o
<1>11. ASSUME role = "master"
       PROVE  /\ Served(o, WaitSecond(o), {}) /\ WaitSecond(o).list = o.list
              /\ DualConfig = "SET_TWO" => WaitSecond(o).scan.page
  <2>1. ~SlaveRuns
    BY <1>11 DEF SlaveRuns
  <2>2. (DualConfig # "CLOSE") \in BOOLEAN
    OBVIOUS
  <2>3. LET y == WaitSecond(o) IN y.list = o.list /\ y.scan = Scanned(FALSE, DualConfig # "CLOSE")
    BY <1>10, <2>2, ScanEffect DEF Commanded, WaitSecond
  <2>4. DualConfig = "SET_TWO" => Scanned(FALSE, DualConfig # "CLOSE").page
    BY DEF Scanned
  <2> QED BY <1>10, <2>1, <2>3, <2>4, OpensServed
<1> DEFINE f == FirstConnected(s, p)
<1>12. Served(t, f, {})
  <2>1. Served(t, t, {})
    BY <1>2, CommandsServed
  <2>2. Served(t, AddTimer(n, "page_next_device"), {})
    BY <1>8, <1>9, ServedTwice
  <2>3. Served(t, greet(first), {}) /\ Served(t, greet(u), {})
    <3>1. Served(t, first, {})
      BY <1>5, <1>6, ServedTwice
    <3> QED BY <1>5, <1>6, <1>7, <3>1, ServedTwice
  <2>4. Served(t, o, {})
    BY <1>5, <1>10, ServedTwice
  <2>5. role = "master" => Served(t, WaitSecond(o), {})
    BY <1>11, <2>4, ServedTwice
  <2> QED BY <1>0, <2>1, <2>2, <2>3, <2>4, <2>5
<1>13. ASSUME Expects, conn # {} PROVE Reach(f)
  <2>1. role = "master" /\ ~remoteTest
    BY <1>13 DEF Expects, Due
  <2>2. CASE t.list # << >>
    BY <1>0, <1>9, <2>1, <2>2
  <2>3. CASE t.list = << >>
    <3>1. \/ f = greet(first)
          \/ f = greet(u) /\ s.recorded = 1
          \/ f = WaitSecond(o)
      BY <1>0, <2>1, <2>3
    <3>2. f.list = << >>
      BY <1>5, <1>6, <1>7, <1>10, <1>11, <2>1, <2>3, <3>1
    <3>3. f.recorded = 1 \/ (DualConfig = "SET_TWO" => f.scan.page)
      BY <1>5, <1>6, <1>7, <1>11, <2>1, <3>1
    <3> HIDE DEF f
    <3> QED BY <1>13, <3>2, <3>3 DEF Reach, Rolls, Returns
  <2> QED BY <2>2, <2>3
<1> HIDE DEF f
<1>14. Listed(f) \subseteq Listed(t)
  BY <1>12 DEF Served, Tended
<1>15. Served(s, f, {})
  BY <1>3, <1>12, ServedTwice
<1> QED BY <1>2, <1>13, <1>14, <1>15 DEF f

\* The second phone is connected: no phone is listed.
LEMMA SecondServed ==
  ASSUME NEW s \in GoodBud, link \in Links, role \in Roles
  PROVE  LET t == SecondConnected(s) IN Served(s, t, {}) /\ Listed(t) = {}
<1> DEFINE o == OneMore(s)
           d == DelTimer(o)
           t == clr_device_in_page_list(d)
           u == IF link = "paired" THEN Request(t, "wait") ELSE t
           v == write_scan_conn_enable(u, FALSE, FALSE)
<1>1. o \in GoodBud /\ Served(s, o, {})
  BY OneMoreServed, OneMoreLemma
<1> HIDE DEF o
<1>2. d \in GoodBud /\ Served(s, d, {})
  BY <1>1, TimersServed, TimersLemma, ServedTwice
<1> HIDE DEF d
<1>3. t \in GoodBud /\ Served(s, t, {}) /\ Listed(t) = {}
  <2>1. Served(d, t, {}) /\ Listed(t) = {}
    BY <1>2, ClearServed
  <2> QED BY <1>2, <2>1, ServedTwice DEF Served, Tended
<1> HIDE DEF t
<1>4. u \in GoodBud /\ Served(t, u, {})
  BY <1>3, CommandsServed, CommandsLemma DEF Procedures
<1> HIDE DEF u
<1>5. Served(u, v, {})
  BY <1>4, CommandsServed
<1>6. SecondConnected(s) = IF role = "slave" THEN u ELSE v
  BY DEF SecondConnected, o, d, t, u
<1> HIDE DEF v
<1>7. Listed(u) = {} /\ Listed(v) = {}
  BY <1>3, <1>4, <1>5 DEF Served, Tended
<1>8. Served(s, u, {}) /\ Served(s, v, {})
  BY <1>3, <1>4, <1>5, ServedTwice
<1> QED BY <1>6, <1>7, <1>8

\* An event of a phone's radio link: only a lost one lists its phone.
HciListed(m) == IF m.ev = "timeout" THEN {m.mac} ELSE {}

LEMMA HciServed ==
  ASSUME NEW s \in GoodBud, NEW m \in HciMessages, NEW esco \in BOOLEAN,
         link \in Links, role \in Roles
  PROVE  LET t == dual_conn_hci_event_handler(s, m, esco) IN
         /\ Served(s, t, HciListed(m))
         /\ Expects /\ m.ev \in {"rejected", "timeout", "failed"} => Reach(t)
<1> DEFINE t == dual_conn_hci_event_handler(s, m, esco)
           H(x) == tws_dual_conn_state_handler(x, esco)
           X == HciListed(m)
           turned == IF s.list = << >> THEN s
                     ELSE [s EXCEPT !.list = Append(Tail(s.list), Head(s.list))]
<1>1. m.mac \in Phones /\ m.ev \in {"connected", "rejected", "timeout", "failed", "test"}
  BY DEF HciMessages
<1>2. ASSUME NEW x, Served(s, x, X)
      PROVE  Served(s, H(x), X) /\ (Expects => Reach(H(x)))
  <2>1. x \in GoodBud
    BY <1>2 DEF Served, Tended
  <2>2. Served(x, H(x), {}) /\ (Expects => Reach(H(x)))
    BY <2>1, StateHandlerServed, StateHandlerReaches
  <2> HIDE DEF H, X
  <2> QED BY <1>2, <2>2, ServedMore, ServedTwice
<1>3. Served(s, s, X)
  BY CommandsServed, ServedMore
<1>4. CASE goto_poweroff_flag \/ role = "slave"
  <2>1. t = s /\ ~Expects
    BY <1>4 DEF dual_conn_hci_event_handler, goto_poweroff_flag, Expects, Due
  <2> QED BY <1>3, <2>1
<1>5. CASE ~goto_poweroff_flag /\ role # "slave" /\ m.ev = "test"
  <2>1. t = PageCancel(clr_device_in_page_list(cancle_wait_pair(DelTimer(s))))
    BY <1>5 DEF dual_conn_hci_event_handler
  <2> DEFINE a == DelTimer(s)
             b == cancle_wait_pair(a)
             c == clr_device_in_page_list(b)
  <2>2. Served(s, a, {}) /\ a \in GoodBud
    BY TimersServed DEF Served, Tended
  <2> HIDE DEF a
  <2>3. Served(s, b, {}) /\ b \in GoodBud
    BY <2>2, CommandsServed, ServedTwice DEF Served, Tended
  <2> HIDE DEF b
  <2>4. Served(s, c, {}) /\ c \in GoodBud
    BY <2>3, ClearServed, ServedTwice DEF Served, Tended
  <2> HIDE DEF c
  <2>5. Served(s, PageCancel(c), {})
    BY <2>4, CommandsServed, ServedTwice
  <2> QED BY <1>5, <2>1, <2>5, ServedMore DEF a, b, c
<1>6. CASE ~goto_poweroff_flag /\ role # "slave" /\ m.ev = "connected"
  <2>1. t = del_device_from_page_list(DelTimer(s), m.mac)
    BY <1>6 DEF dual_conn_hci_event_handler
  <2>2. Served(s, DelTimer(s), {}) /\ DelTimer(s) \in GoodBud
    BY TimersServed DEF Served, Tended
  <2>3. Served(DelTimer(s), t, {})
    BY <1>1, <2>1, <2>2, DeleteServed
  <2>4. Served(s, t, X)
    BY <2>2, <2>3, ServedTwice, ServedMore
  <2> QED BY <1>6, <2>4
<1>7. CASE ~goto_poweroff_flag /\ role # "slave" /\ m.ev = "timeout"
  <2>1. t = H(Relist(s, m.mac))
    BY <1>7 DEF dual_conn_hci_event_handler
  <2>2. X = {m.mac}
    BY <1>7 DEF HciListed
  <2> DEFINE r == Relist(s, m.mac)
  <2>3. Served(s, r, X)
    <3> DEFINE rest == IF m.mac \in Listed(s) THEN RemoveAt(s.list, IndexOf(s, m.mac))
                       ELSE s.list
               l == Append(rest, Fresh(m.mac))
    <3>1. s.list \in GoodList
      BY FieldsLemma
    <3>2. /\ rest \in GoodList /\ \A k \in DOMAIN rest : rest[k].mac # m.mac
          /\ \A k \in DOMAIN rest : \E j \in DOMAIN s.list : rest[k] = s.list[j]
      <4>1. ASSUME m.mac \in Listed(s)
            PROVE  IndexOf(s, m.mac) \in DOMAIN s.list
                   /\ s.list[IndexOf(s, m.mac)].mac = m.mac
        BY <4>1 DEF Listed, IndexOf
      <4>2. m.mac \notin Listed(s) => \A k \in DOMAIN s.list : s.list[k].mac # m.mac
        BY DEF Listed
      <4> QED BY <3>1, <4>1, <4>2, RemoveAtLemma
    <3> HIDE DEF rest
    <3>3. Fresh(m.mac) \in Entry /\ Fresh(m.mac).mac = m.mac
      BY <1>1 DEF Fresh, Entry
    <3>4. l \in GoodList
      BY <3>2, <3>3, AppendLemma
    <3>5. \A k \in DOMAIN l : l[k].mac \in Listed(s) \cup X
      <4>1. rest \in Seq(Entry) /\ Len(rest) \in Nat /\ DOMAIN rest = 1 .. Len(rest)
        BY <3>2, LenProperties DEF GoodList
      <4>2. /\ DOMAIN l = 1 .. Len(rest) + 1
            /\ \A k \in 1 .. Len(rest) : l[k] = rest[k]
            /\ l[Len(rest) + 1] = Fresh(m.mac)
        BY <3>3, <4>1
      <4>3. \A k \in DOMAIN rest : rest[k].mac \in Listed(s)
        BY <3>2 DEF Listed
      <4> HIDE DEF l
      <4> QED BY <2>2, <3>3, <4>1, <4>2, <4>3
    <3>6. add_device_2_page_list(s, m.mac) = [s EXCEPT !.list = l]
      BY DEF add_device_2_page_list, rest
    <3> HIDE DEF l, X
    <3>7. Served(s, [s EXCEPT !.list = l], X)
      BY <3>4, <3>5, ListServed
    <3> QED BY <1>3, <3>6, <3>7 DEF Relist
  <2>4. Served(s, H(r), X) /\ (Expects => Reach(H(r)))
    BY <1>2, <2>3
  <2> HIDE DEF r, H
  <2> QED BY <2>1, <2>4 DEF r
<1>8. CASE ~goto_poweroff_flag /\ role # "slave" /\ m.ev = "rejected"
  <2>1. t = H(turned)
    BY <1>8 DEF dual_conn_hci_event_handler
  <2>2. Served(s, turned, X)
    <3>1. CASE s.list = << >>
      BY <1>3, <3>1
    <3>2. CASE s.list # << >>
      <4> DEFINE l == Append(Tail(s.list), Head(s.list))
      <4>1. s.list \in GoodList /\ s.list \in Seq(Entry)
        BY FieldsLemma DEF GoodList
      <4>2. l \in GoodList
        BY <3>2, <4>1, RotateLemma
      <4>3. \A k \in DOMAIN l : l[k].mac \in Listed(s) \cup X
        <5>1. /\ Tail(s.list) \in Seq(Entry) /\ Len(Tail(s.list)) = Len(s.list) - 1
              /\ \A k \in 1 .. Len(s.list) - 1 : Tail(s.list)[k] = s.list[k + 1]
              /\ Len(s.list) \in Nat \ {0} /\ DOMAIN s.list = 1 .. Len(s.list)
              /\ Head(s.list) = s.list[1] /\ Head(s.list) \in Entry
          BY <3>2, <4>1, HeadTailProperties, EmptySeq, LenProperties
        <5>2. /\ DOMAIN l = 1 .. Len(s.list)
              /\ \A k \in 1 .. Len(s.list) - 1 : l[k] = s.list[k + 1]
              /\ l[Len(s.list)] = s.list[1]
          BY <5>1, AppendProperties
        <5> HIDE DEF l
        <5>3. ASSUME NEW k \in DOMAIN l PROVE \E j \in DOMAIN s.list : l[k] = s.list[j]
          <6>1. CASE k = Len(s.list)
            BY <5>1, <5>2, <6>1
          <6>2. CASE k # Len(s.list)
            <7>1. k \in 1 .. Len(s.list) - 1 /\ k + 1 \in DOMAIN s.list
              BY <5>1, <5>2, <6>2
            <7> QED BY <5>2, <7>1
          <6> QED BY <6>1, <6>2
        <5> QED BY <5>3 DEF Listed
      <4> HIDE DEF l, X
      <4> QED BY <3>2, <4>2, <4>3, ListServed DEF l
    <3> QED BY <3>1, <3>2
  <2>3. Served(s, H(turned), X) /\ (Expects => Reach(H(turned)))
    BY <1>2, <2>2
  <2> HIDE DEF turned, H
  <2> QED BY <2>1, <2>3
<1>9. CASE ~goto_poweroff_flag /\ role # "slave" /\ m.ev = "failed"
  <2>1. t = H(s)
    BY <1>9 DEF dual_conn_hci_event_handler
  <2>2. Served(s, H(s), X) /\ (Expects => Reach(H(s)))
    BY <1>2, <1>3
  <2> HIDE DEF H
  <2> QED BY <2>1, <2>2
<1> QED BY <1>1, <1>4, <1>5, <1>6, <1>7, <1>8, <1>9

\* What the sibling relays: only the phones it names.
RelayListed(m) == {m.list[i] : i \in DOMAIN m.list}

LEMMA RelayServed ==
  ASSUME NEW s \in GoodBud, NEW m \in RelayMessages, NEW esco \in BOOLEAN,
         link \in Links, role \in Roles
  PROVE  LET t == rx_device_info(s, m, esco) IN
         Served(s, t, RelayListed(m)) /\ (Expects => Reach(t))
<1> DEFINE off == IF s.inqOff = 0 THEN InqOnWire(m.inqOff) ELSE s.inqOff
           num == NumOnWire(m.inqOff, m.recorded)
           list == IF m.full /\ (role = "slave" \/ m.list # << >>)
                   THEN [i \in DOMAIN m.list |-> Fresh(m.list[i])] ELSE s.list
           t == [s EXCEPT !.inqOff = off, !.recorded = num, !.list = list]
           H == tws_dual_conn_state_handler(t, esco)
<1>1. m.list \in PageLists(Phones) /\ m.recorded \in 0 .. 2 /\ m.inqOff \in 0 .. 2
  BY DEF RelayMessages
<1>2. off \in 0 .. 2
  BY <1>1, FieldsLemma DEF InqOnWire, Bud
<1>3. num \in Nat
  BY <1>1 DEF NumOnWire
<1>4. list \in GoodList
  BY <1>1, FreshListLemma, FieldsLemma
<1>5. \A k \in DOMAIN list : list[k].mac \in Listed(s) \cup RelayListed(m)
  BY DEF Listed, RelayListed, Fresh
<1> HIDE DEF off, num, list
<1>6. /\ t \in GoodBud /\ t.list = list /\ t.timer = s.timer /\ t.loose = s.loose
      /\ t.scan = s.scan /\ t.paging = s.paging
  BY <1>2, <1>3, <1>4 DEF GoodBud, GoodList, Bud
<1> HIDE DEF t
<1>7. Listed(t) \subseteq Listed(s) \cup RelayListed(m)
  BY <1>5, <1>6 DEF Listed
<1>8. Served(s, t, RelayListed(m))
  BY <1>6, <1>7 DEF Served, Tended, Quiet
<1>9. Served(t, H, {}) /\ (Expects => Reach(H))
  BY <1>6, StateHandlerServed, StateHandlerReaches
<1>10. rx_device_info(s, m, esco) = IF role = "master" THEN H ELSE t
  BY DEF rx_device_info, t, off, num, list
<1>11. Expects => role = "master"
  BY DEF Expects, Due
<1> HIDE DEF H
<1>12. Served(s, H, RelayListed(m))
  BY <1>8, <1>9, ServedMore, ServedTwice
<1> QED BY <1>8, <1>9, <1>10, <1>11, <1>12

\* The siblings found each other.
LEMMA TwsConnectedServed ==
  ASSUME NEW s \in GoodBud, NEW r \in Roles, NEW esco \in BOOLEAN, link \in Links, role \in Roles
  PROVE  LET t == TwsConnected(s, r, esco) IN
         /\ Served(s, t, {})
         /\ r = "slave" /\ phase = "run" => Quiet(t)
         /\ Expects /\ r = "master" => Reach(t)
<1> DEFINE o == tws_dual_conn_state_handler(s, esco)
           c == write_scan_conn_enable(s, FALSE, FALSE)
           q == PageCancel(c)
           t == TwsConnected(s, r, esco)
<1>1. Served(s, o, {}) /\ (Expects => Reach(o))
  BY StateHandlerServed, StateHandlerReaches
<1>2. c \in GoodBud /\ Served(s, c, {}) /\ c.scan = Closed
  BY CommandsServed, ScanEffect DEF Served, Tended, Scanned, Closed
<1>3. t = CASE goto_poweroff_flag -> s
            [] ~goto_poweroff_flag /\ r = "master" -> PageOr(s, o, esco)
            [] OTHER -> q
  BY DEF TwsConnected
<1>4. phase = "run" => ~goto_poweroff_flag
  BY DEF goto_poweroff_flag
<1> HIDE DEF o, c
<1>5. Served(s, PageOr(s, o, esco), {}) /\ (Expects => Reach(PageOr(s, o, esco)))
  BY <1>1, PageOrServed
<1>6. Served(c, q, {}) /\ q.scan = Closed /\ q.paging = NoPhone
  BY <1>2, CommandsServed, CancelEffect
<1> HIDE DEF q
<1>7. Served(s, q, {}) /\ Quiet(q) /\ Served(s, s, {})
  BY <1>2, <1>6, CommandsServed, ServedTwice DEF Quiet
<1> HIDE DEF t
<1>8. Served(s, t, {})
  BY <1>3, <1>5, <1>7
<1>9. r = "slave" /\ phase = "run" => Quiet(t)
  BY <1>3, <1>4, <1>7
<1>10. Expects /\ r = "master" => Reach(t)
  BY <1>3, <1>4, <1>5 DEF Expects
<1> QED BY <1>8, <1>9, <1>10 DEF t

\* The siblings lost each other.  (A bud that has become a slave in the meantime may
\* open its scans here: the message that makes it a slave is still to come.)
LEMMA TwsDetachedServed ==
  ASSUME NEW s \in GoodBud, NEW r \in Roles, NEW esco \in BOOLEAN, link \in Links, role \in Roles,
         NEW reason \in {"poweroff", "super_timeout", "other", "remove_pairs"}
  PROVE  LET t == TwsDetached(s, r, reason, esco) IN
         /\ Tended(s, t, {})
         /\ Expects /\ (Usual => reason # "remove_pairs") => Reach(t)
<1> DEFINE d == DelTimer(s)
           t == PageCancel(d)
           w == Request(t, "wait")
           open == t.recorded > 1
           wide == write_scan_conn_enable(w, TRUE, TRUE)
           half == write_scan_conn_enable(w, FALSE, open)
           waits == CASE conn = {} -> wide
                      [] Connected = 1 -> half
                      [] OTHER -> w
           cleared == IF r = "slave" THEN clr_device_in_page_list(t) ELSE t
           found == write_scan_conn_enable(t, TRUE, TRUE)
           H(x) == tws_dual_conn_state_handler(x, esco)
           f == TwsDetached(s, r, reason, esco)
<1>0. f = CASE goto_poweroff_flag -> t
            [] OTHER ->
               CASE reason = "remove_pairs" -> IF r = "master" /\ conn # {} THEN t ELSE found
                 [] reason = "poweroff" -> H(t)
                 [] reason = "super_timeout" -> H(cleared)
                 [] reason = "other" -> PageOr(t, waits, esco)
  BY DEF TwsDetached
<1>1. d \in GoodBud /\ Served(s, d, {})
  BY TimersServed DEF Served, Tended
<1> HIDE DEF d
<1>2. t \in GoodBud /\ Served(s, t, {})
  BY <1>1, CommandsServed, ServedTwice DEF Served, Tended
<1> HIDE DEF t
<1>3. open \in BOOLEAN
  OBVIOUS
<1> HIDE DEF open
<1>4. w \in GoodBud /\ Commanded(t, w) /\ w.lib = "wait"
  BY <1>2, RequestEffect DEF Procedures, Commanded
<1> HIDE DEF w
<1>5. /\ Commanded(t, wide) /\ wide.lib = "wait"
      /\ Commanded(t, half) /\ half.lib = "wait"
  BY <1>3, <1>4, ScanEffect DEF Commanded
<1> HIDE DEF wide, half
<1>6. Commanded(t, waits) /\ waits.lib = "wait"
  BY <1>4, <1>5
<1> HIDE DEF waits
<1>7. ASSUME NEW x, Commanded(t, x) PROVE Tended(s, x, {})
  BY <1>2, <1>7 DEF Served, Tended, Commanded, Listed
<1>8. Tended(s, PageOr(t, waits, esco), {}) /\ (Expects => Reach(PageOr(t, waits, esco)))
  <2> DEFINE p == dual_conn_page_device(t, esco)
  <2>1. Served(t, p, {}) /\ (Expects => Reach(p))
    BY <1>2, PageDeviceServed
  <2>2. Served(s, p, {})
    BY <1>2, <2>1, ServedTwice
  <2>3. t.list = << >> => Reach(waits)
    BY <1>6, WaitingReaches DEF Waiting, Commanded
  <2> HIDE DEF p
  <2>4. PageOr(t, waits, esco) = IF t.list # << >> THEN p ELSE waits
    BY DEF PageOr, p
  <2> QED BY <1>6, <1>7, <2>1, <2>2, <2>3, <2>4 DEF Served
<1>9. Commanded(t, found) /\ (conn = {} => found.scan = [inq |-> TRUE, page |-> TRUE])
  BY <1>2, ScanEffect, WideScan
<1> HIDE DEF found
<1>10. Served(s, cleared, {}) /\ cleared \in GoodBud
  BY <1>2, ClearServed, ServedTwice DEF Served, Tended
<1> HIDE DEF cleared
<1>11. ASSUME NEW x \in GoodBud, Served(s, x, {})
       PROVE  Tended(s, H(x), {}) /\ (Expects => Reach(H(x)))
  <2>1. Served(x, H(x), {}) /\ (Expects => Reach(H(x)))
    BY <1>11, StateHandlerServed, StateHandlerReaches
  <2> HIDE DEF H
  <2> QED BY <1>11, <2>1, ServedTwice DEF Served
<1> HIDE DEF H, f
<1>12. Tended(s, f, {})
  <2>1. Tended(s, t, {}) /\ Tended(s, found, {})
    BY <1>2, <1>7, <1>9 DEF Served
  <2> QED BY <1>0, <1>2, <1>8, <1>10, <1>11, <2>1
<1>13. ASSUME Expects, Usual => reason # "remove_pairs" PROVE Reach(f)
  <2>1. ~goto_poweroff_flag /\ (~Usual => conn = {})
    BY <1>13 DEF Expects, Due, goto_poweroff_flag
  <2>2. CASE reason = "remove_pairs"
    <3>1. f = found /\ ~Usual /\ conn = {}
      BY <1>0, <1>13, <2>1, <2>2
    <3> QED BY <1>9, <3>1 DEF Reach, Heard
  <2>3. CASE reason # "remove_pairs"
    BY <1>0, <1>2, <1>8, <1>10, <1>11, <1>13, <2>1, <2>3
  <2> QED BY <2>2, <2>3
<1> QED BY <1>12, <1>13 DEF f

\* The siblings changed roles.
LEMMA RoleSwitchedServed ==
  ASSUME NEW s \in GoodBud, NEW r \in Roles
  PROVE  LET t == RoleSwitched(s, r) IN
         /\ Served(s, t, {})
         /\ r = "slave" => Quiet(t)
         /\ r = "master" => t = s
<1> DEFINE c == write_scan_conn_enable(s, FALSE, FALSE)
           q == PageCancel(c)
<1>1. c \in GoodBud /\ Served(s, c, {}) /\ c.scan = Closed
  BY CommandsServed, ScanEffect DEF Served, Tended, Scanned, Closed
<1>2. RoleSwitched(s, r) = IF r = "slave" THEN q ELSE s
  BY DEF RoleSwitched
<1> HIDE DEF c
<1>3. Served(c, q, {}) /\ q.scan = Closed /\ q.paging = NoPhone
  BY <1>1, CommandsServed, CancelEffect
<1> HIDE DEF q
<1>4. Served(s, q, {}) /\ Quiet(q) /\ Served(s, s, {})
  BY <1>1, <1>3, CommandsServed, ServedTwice DEF Quiet
<1> QED BY <1>2, <1>4 DEF Roles

-----------------------------------------------------------------------------
(* The other handlers. *)

\* The pairing key arms the pairing timer, and only that one.
LEMMA StartPairEffect ==
  ASSUME NEW s \in GoodBud
  PROVE  LET t == StartPair(s) IN
         /\ t \in GoodBud /\ t.list = s.list /\ t.loose = s.loose
         /\ t.timer = Pairing /\ Reach(t)
<1> DEFINE a == Request(s, "search")
           b == DelTimer(a)
           t == AddTimer(b, Pairing)
<1>1. a \in GoodBud /\ a.list = s.list /\ a.loose = s.loose
  BY RequestEffect DEF Procedures, Commanded
<1> HIDE DEF a
<1>2. b \in GoodBud /\ b.list = s.list /\ b.loose = s.loose /\ b.timer = "none"
  BY <1>1, TimerEffect
<1> HIDE DEF b
<1>3. Pairing \in Callbacks
  BY DEF Pairing, Callbacks
<1>4. /\ t \in GoodBud /\ t.list = s.list /\ t.timer = Pairing
      /\ t.loose = s.loose \cup Armed("none")
  BY <1>2, <1>3, TimerEffect
<1>5. Reach(t)
  BY <1>2, <1>3, TimerReaches
<1>6. StartPair(s) = t
  BY DEF StartPair, t, b, a, Pairing
<1> HIDE DEF t
<1> QED BY <1>4, <1>5, <1>6, NotArmed

\* Bluetooth mode is left.
LEMMA CloseServed ==
  ASSUME NEW s \in GoodBud
  PROVE  LET t == tws_dual_conn_close(s) IN
         Served(s, t, {}) /\ t.list = s.list /\ t.timer = "none"
<1> DEFINE a == DelTimer(s)
           b == cancle_create_connection(a)
           c == cancle_wait_pair(b)
           d == write_scan_conn_enable(c, FALSE, FALSE)
           e == PageCancel(d)
<1>1. a \in GoodBud /\ Served(s, a, {}) /\ a.list = s.list /\ a.timer = "none"
  BY TimersServed, TimerEffect
<1> HIDE DEF a
<1>2. Served(a, b, {}) /\ Commanded(a, b)
  BY <1>1, CommandsServed, CancelEffect
<1> HIDE DEF b
<1>3. Served(b, c, {}) /\ Commanded(b, c)
  BY <1>2, CommandsServed, CancelEffect DEF Commanded
<1> HIDE DEF c
<1>4. Served(c, d, {}) /\ Commanded(c, d)
  BY <1>3, CommandsServed, ScanEffect DEF Commanded
<1> HIDE DEF d
<1>5. Served(d, e, {}) /\ Commanded(d, e)
  BY <1>4, CommandsServed, CancelEffect DEF Commanded
<1> HIDE DEF e
<1>6. Served(s, e, {})
  BY <1>1, <1>2, <1>3, <1>4, <1>5, ServedTwice
<1>7. e.list = s.list /\ e.timer = "none"
  BY <1>1, <1>2, <1>3, <1>4, <1>5 DEF Commanded
<1> QED BY <1>6, <1>7 DEF tws_dual_conn_close, a, b, c, d, e

\* The inquiry-scan window ends: a master without a phone keeps its scans, and one
\* that expects the phone it has on record needs none.
LEMMA InquiryServed ==
  ASSUME NEW s \in GoodBud, s.inqTimers > 0
  PROVE  LET t == close_inquiry_scan(s) IN
         /\ Served(s, t, {}) /\ t.list = s.list /\ t.timer = s.timer
         /\ Reach(s) => Reach(t)
<1> DEFINE n == s.inqTimers - 1
           u == [s EXCEPT !.inqTimers = n, !.inqOff = 1]
           v == write_scan_conn_enable(u, FALSE, FALSE)
<1>1. n \in Nat /\ 1 \in 0 .. 2
  BY FieldsLemma DEF Bud
<1>2. close_inquiry_scan(s) = IF s.recorded = 1 /\ Connected = 1 THEN v ELSE u
  BY DEF close_inquiry_scan
<1> HIDE DEF n
<1>3. /\ u \in GoodBud /\ u.list = s.list /\ u.timer = s.timer /\ u.loose = s.loose
      /\ u.scan = s.scan /\ u.paging = s.paging /\ u.lib = s.lib /\ u.recorded = s.recorded
  BY <1>1 DEF GoodBud, Bud
<1> HIDE DEF u
<1>4. Served(s, u, {})
  BY <1>3 DEF Served, Tended, Listed, Quiet
<1>5. Served(u, v, {}) /\ Commanded(u, v) /\ v.lib = u.lib
  BY <1>3, CommandsServed, ScanEffect
<1> HIDE DEF v
<1>6. Served(s, v, {}) /\ v.list = s.list /\ v.timer = s.timer
  BY <1>3, <1>4, <1>5, ServedTwice DEF Commanded
<1>7. Reach(s) => Reach(u)
  BY <1>3 DEF Reach, Heard, Rolls, Returns, Ticks
<1>8. ASSUME Reach(s), s.recorded = 1, Connected = 1 PROVE Reach(v)
  <2>1. conn # {}
    BY <1>8, NoneConnected
  <2>2. /\ v.list = s.list /\ v.timer = s.timer /\ v.loose = s.loose /\ v.recorded = 1
    BY <1>3, <1>5, <1>8 DEF Commanded
  <2> QED BY <1>8, <2>1, <2>2 DEF Reach, Rolls, Returns, Ticks
<1> QED BY <1>2, <1>3, <1>4, <1>6, <1>7, <1>8

\* The stack is up: the phones on record are listed, and no page timer runs.
LEMMA InitOkEffect ==
  ASSUME NEW s \in GoodBud, NEW known \in PageLists(Phones)
  PROVE  LET t == dual_conn_page_devices_init(s, known) IN
         /\ t \in GoodBud /\ t.timer = s.timer /\ t.loose = s.loose
         /\ \A i \in DOMAIN t.list : ~t.list[i].timer
<1> DEFINE list == [k \in DOMAIN known |-> Fresh(known[k])]
           first == IF Len(known) = 1 THEN known[1] ELSE s.first
           num == Len(known)
           timers == s.inqTimers + 1
           t == dual_conn_page_devices_init(s, known)
<1>1. t = [s EXCEPT !.list = list, !.recorded = num, !.first = first,
                    !.inqOff = 0, !.inqTimers = timers]
  BY DEF dual_conn_page_devices_init
<1>2. t \in GoodBud
  BY InitOkLemma
<1>3. \A i \in DOMAIN list : ~list[i].timer
  BY DEF Fresh
<1> HIDE DEF list, first, num, timers, t
<1>4. t.timer = s.timer /\ t.loose = s.loose /\ t.list = list
  BY <1>1 DEF GoodBud, Bud
<1> QED BY <1>2, <1>3, <1>4 DEF t

=============================================================================
