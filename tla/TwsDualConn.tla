---------------------------- MODULE TwsDualConn ----------------------------
(***************************************************************************)
(* The reconnection engine of one earbud (apps/earphone/mode/bt/           *)
(* tws_dual_conn.c): it owns the list of phones to page, the one timer     *)
(* that alternates between waiting for the sibling and paging a phone, the *)
(* page timer of each listed phone, and every scan-enable command.         *)
(*                                                                         *)
(* All handlers and timer callbacks run in the task app_core, so each is   *)
(* atomic; but they handle events that were queued earlier while they read *)
(* the role, the TWS link and the number of connected phones as they are   *)
(* NOW.  The stack, the sibling and the phones are the environment.        *)
(*                                                                         *)
(* `bud' gathers what the file keeps in g_dual_conn with what it commands: *)
(* the scan mode, the phone being paged and the TWS procedure under way.   *)
(***************************************************************************)
EXTENDS Naturals, Sequences, FiniteSets, SequencesExt

CONSTANTS
  Phones,      \* phones that may ever connect
  NoPhone,     \* no address
  DualConfig,  \* get_bt_dual_config(): "CLOSE", "SET_ONE" or "SET_TWO"
  Happenings,  \* which of the rarer events may occur, see Environment
  MaxQueue,    \* bound: messages waiting in app_core
  MaxWindows   \* bound: close_inquiry_scan timers armed at once

ASSUME DualConnAssumption ==
  /\ NoPhone \notin Phones
  /\ DualConfig \in {"CLOSE", "SET_ONE", "SET_TWO"}
  /\ Happenings \subseteq {"poweroff", "modes", "test", "unpair", "exists", "inquiry"}
  /\ MaxQueue \in Nat /\ MaxWindows \in Nat

VARIABLES
  bud,        \* g_dual_conn and the state it commands, see Bud
  queue,      \* messages posted to app_core and not handled yet
  acl,        \* phones with a radio link
  conn,       \* phones counted by bt_get_total_connect_dev()
  link,       \* tws_api_get_tws_state(): "unpaired", "paired", "connected"
  role,       \* tws_api_get_role()
  phase,      \* where the program is between power-on and the idle mode
  remoteTest  \* bt_get_remote_test_flag()

vars == <<bud, queue, acl, conn, link, role, phase, remoteTest>>

Roles == {"master", "slave"}
Links == {"unpaired", "paired", "connected"}
Callbacks == {"tws_wait_conn_timeout", "tws_pair_new_tws", "tws_auto_pair_timeout",
              "page_next_device", "tws_pair_timeout", "tws_create_conn_timeout",
              "msg_tws_start_pair_timeout"}
Procedures == {"none", "create", "wait", "auto", "pair", "search"}

\* struct page_device_info: its address and whether its page timer is armed.
Entry == [mac : Phones, timer : BOOLEAN]

Scans == [inq : BOOLEAN, page : BOOLEAN]
Closed == [inq |-> FALSE, page |-> FALSE]

Bud == [list : Seq(Entry),                          \* page_head
        timer : Callbacks \cup {"none", "stale"},   \* what the handle names
        loose : SUBSET Callbacks,                   \* armed, but no handle names it
        recorded : Nat,                             \* device_num_recorded
        first : Phones \cup {NoPhone},              \* remote_addr[3]
        inqOff : 0 .. 2,                            \* inquiry_scan_disable
        inqTimers : Nat,                            \* close_inquiry_scan timers armed
        scan : Scans,                               \* lmp_hci_write_scan_enable
        paging : Phones \cup {NoPhone},             \* the page under way
        lib : Procedures]                           \* the TWS procedure requested last

\* "boot" until the stack is up, then "run".  A power-off sets goto_poweroff_flag
\* and leaves Bluetooth mode later; a build with other modes may leave it from
\* "run".  While it is being left, wait_exit is set.
Phases == {"boot", "run", "poweroff", "poweroff_exit", "exit"}
goto_poweroff_flag == phase \in {"poweroff", "poweroff_exit"}
wait_exit == phase \in {"exit", "poweroff_exit"}

\* At most TCFG_BT_SUPPORT_CONN_NUM phones are put on a list.
PageLists(S) ==
  {list \in {<< >>} \cup {<<p>> : p \in S} \cup {<<p, q>> : p \in S, q \in S} : IsInjective(list)}

Fresh(p) == [mac |-> p, timer |-> FALSE]
Listed(s) == {s.list[i].mac : i \in DOMAIN s.list}
IndexOf(s, p) == CHOOSE i \in DOMAIN s.list : s.list[i].mac = p

-----------------------------------------------------------------------------
(* The page list and the timers. *)

\* Mutant: listed without looking for an entry of the same phone.
add_device_Blindly(s, p) == [s EXCEPT !.list = Append(@, Fresh(p))]

\* A device already listed loses its page timer and goes to the tail.
add_device_2_page_list(s, p) ==
  [s EXCEPT !.list =
     Append(IF p \in Listed(s) THEN RemoveAt(@, IndexOf(s, p)) ELSE @, Fresh(p))]

\* Mutant: only the head of the list is looked at.
del_device_HeadOnly(s, p) ==
  IF s.list # << >> /\ Head(s.list).mac = p THEN [s EXCEPT !.list = Tail(@)] ELSE s

del_device_from_page_list(s, p) ==
  IF p \in Listed(s) THEN [s EXCEPT !.list = RemoveAt(@, IndexOf(s, p))] ELSE s

clr_device_in_page_list(s) == [s EXCEPT !.list = << >>]

Armed(t) == {t} \cap Callbacks

\* `timer = 0' and `timer = sys_timeout_add(...)': a timer the handle still
\* named stays armed and nobody can delete it any more.
ZeroTimer(s) == [s EXCEPT !.loose = @ \cup Armed(s.timer), !.timer = "none"]
AddTimer(s, cb) == [s EXCEPT !.loose = @ \cup Armed(s.timer), !.timer = cb]

\* `if (timer) { sys_timeout_del(timer); timer = 0; }'
DelTimer(s) == [s EXCEPT !.timer = "none"]

StartPage(s, p) == [s EXCEPT !.paging = p]
PageCancel(s) == [s EXCEPT !.paging = NoPhone]

\* The TWS library: one procedure at a time; the two cancels of tws_api.h.
Request(s, proc) == [s EXCEPT !.lib = proc]
cancle_wait_pair(s) == IF s.lib \in {"wait", "pair", "auto"} THEN Request(s, "none") ELSE s
cancle_create_connection(s) ==
  IF s.lib \in {"create", "search", "auto"} THEN Request(s, "none") ELSE s

-----------------------------------------------------------------------------
(* Scan control. *)

Connected == Cardinality(conn)

write_scan_conn_enable(s, i, c) ==
  [s EXCEPT !.scan = IF DualConfig # "SET_TWO" /\ conn # {} THEN Closed
                     ELSE [inq |-> i, page |-> c]]

dual_conn_try_open_inquiry_scan(s) ==
  IF s.inqOff # 0 \/ role = "slave" THEN s ELSE write_scan_conn_enable(s, TRUE, TRUE)

dual_conn_try_open_inquiry_page_scan(s) ==
  LET open == conn = {} \/ s.inqOff = 0
  IN IF role = "slave" THEN s ELSE write_scan_conn_enable(s, open, open)

\* A second phone is expected only when two are on record.
OpenForSecond(s) ==
  IF s.recorded > 1 THEN write_scan_conn_enable(s, FALSE, TRUE)
  ELSE dual_conn_try_open_inquiry_page_scan(s)

-----------------------------------------------------------------------------
(* tws_dual_conn_state_handler, by the state of the TWS link.  `esco' is    *)
(* what esco_player_runing() answers.                                      *)

SiblingConnected(s, esco) ==
  LET have == s.list # << >>
      paged == IF have THEN StartPage(s, Head(s.list).mac) ELSE s
      scanned ==
        CASE conn = {} -> write_scan_conn_enable(s, TRUE, TRUE)
          [] Connected = 1 /\ s.recorded > 1 /\ esco /\ have ->
               write_scan_conn_enable(paged, FALSE, FALSE)
          [] Connected = 1 /\ s.recorded > 1 /\ ~(esco /\ have) ->
               write_scan_conn_enable(paged, FALSE, TRUE)
          [] OTHER -> s
  IN IF have THEN AddTimer(scanned, "tws_wait_conn_timeout")
     ELSE IF s.recorded = 1 THEN dual_conn_try_open_inquiry_page_scan(scanned)
     ELSE scanned

ThenPage(s) == IF s.list # << >> THEN AddTimer(s, "tws_auto_pair_timeout") ELSE s

SiblingLost(s) ==
  CASE conn = {} ->
         AddTimer(write_scan_conn_enable(Request(s, "create"), TRUE, TRUE), "tws_pair_new_tws")
    [] Connected = 1 /\ remoteTest -> s
    [] Connected = 1 /\ ~remoteTest -> ThenPage(OpenForSecond(Request(s, "wait")))
    [] OTHER -> ThenPage(Request(s, "wait"))

NeverPaired(s) ==
  CASE conn = {} -> ThenPage(write_scan_conn_enable(Request(s, "auto"), TRUE, TRUE))
    [] Connected = 1 /\ ~remoteTest -> ThenPage(OpenForSecond(s))
    [] OTHER -> s

tws_dual_conn_state_handler(s, esco) ==
  LET t == DelTimer(s)
  IN CASE wait_exit -> s
       [] ~wait_exit /\ goto_poweroff_flag -> t
       [] OTHER ->
            CASE link = "connected" /\ role = "slave" -> write_scan_conn_enable(t, FALSE, FALSE)
              [] link = "connected" /\ role = "master" -> SiblingConnected(t, esco)
              [] link = "paired" -> SiblingLost(t)
              [] link = "unpaired" -> NeverPaired(t)

\* dual_conn_page_device: page the head of the list unless its page timer runs.
dual_conn_page_device(s, esco) ==
  CASE s.list # << >> /\ s.list[1].timer -> s
    [] s.list # << >> /\ ~s.list[1].timer /\ role = "master" ->
         StartPage([s EXCEPT !.list[1].timer = TRUE], s.list[1].mac)
    [] OTHER -> tws_dual_conn_state_handler(s, esco)

-----------------------------------------------------------------------------
(* Timer callbacks. *)

\* Mutants: the engine is not evaluated again; a phone is never given up.
page_device_timeout_Stops(s, i, over, esco) ==
  LET rest == RemoveAt(s.list, i)
  IN PageCancel([s EXCEPT !.list =
       IF over THEN rest ELSE Append(rest, Fresh(s.list[i].mac))])
page_device_timeout_Forever(s, i, over, esco) ==
  tws_dual_conn_state_handler(
    PageCancel([s EXCEPT !.list = Append(RemoveAt(@, i), Fresh(s.list[i].mac))]), esco)

\* One page of entry i is over.  `over': jiffies has passed info->timeout and
\* the phone is given up; otherwise it goes to the tail.
dual_conn_page_device_timeout(s, i, over, esco) ==
  LET rest == RemoveAt(s.list, i)
  IN tws_dual_conn_state_handler(
       PageCancel([s EXCEPT !.list =
         IF over THEN rest ELSE Append(rest, Fresh(s.list[i].mac))]), esco)

PageOr(s, other, esco) ==
  IF s.list # << >> THEN dual_conn_page_device(s, esco) ELSE other

RunCallback(s, cb, esco) ==
  CASE cb = "tws_wait_conn_timeout" ->    \* the handle is not cleared
         dual_conn_page_device(write_scan_conn_enable(s, FALSE, FALSE), esco)
    [] cb = "tws_pair_new_tws" ->
         AddTimer(Request(s, "auto"), "tws_auto_pair_timeout")
    [] cb = "tws_auto_pair_timeout" ->
         dual_conn_page_device(
           write_scan_conn_enable(Request(ZeroTimer(s), "none"), FALSE, FALSE), esco)
    [] cb = "page_next_device" -> dual_conn_page_device(ZeroTimer(s), esco)
    [] cb = "tws_pair_timeout" ->
         LET t == cancle_create_connection(ZeroTimer(s)) IN PageOr(t, Request(t, "pair"), esco)
    [] cb = "tws_create_conn_timeout" ->
         LET t == cancle_create_connection(ZeroTimer(s))
         IN PageOr(t, tws_dual_conn_state_handler(t, esco), esco)
    [] cb = "msg_tws_start_pair_timeout" -> Request(ZeroTimer(s), "pair")

\* Mutant: the scan is closed whether or not a phone is connected.
close_inquiry_scan_Always(s) ==
  write_scan_conn_enable([s EXCEPT !.inqTimers = @ - 1, !.inqOff = 1], FALSE, FALSE)

close_inquiry_scan(s) ==
  LET t == [s EXCEPT !.inqTimers = @ - 1, !.inqOff = 1]
  IN IF s.recorded = 1 /\ Connected = 1 THEN write_scan_conn_enable(t, FALSE, FALSE) ELSE t

-----------------------------------------------------------------------------
(* Message handlers. *)

\* BT_STATUS_INIT_OK, `known' being the most recent phones on record.
dual_conn_page_devices_init(s, known) ==
  [s EXCEPT !.list = [i \in DOMAIN known |-> Fresh(known[i])],
            !.recorded = Len(known),
            !.first = IF Len(known) = 1 THEN known[1] ELSE @,
            !.inqOff = 0,
            !.inqTimers = @ + 1]

OneMore(s) == [s EXCEPT !.recorded = IF @ = 1 THEN 2 ELSE @]

\* Mutant: the first phone closes the scans as the second one does.
WaitSecond_Closes(s) == write_scan_conn_enable(s, FALSE, FALSE)

\* Stay connectable for the second phone where the configuration allows two.
WaitSecond(s) == write_scan_conn_enable(s, FALSE, DualConfig # "CLOSE")

FirstConnected(s, p) ==
  LET t == del_device_from_page_list(DelTimer(s), p)
      u == IF link = "paired" THEN Request(t, "wait") ELSE t
      greet(x) == IF link = "connected" THEN dual_conn_try_open_inquiry_scan(x) ELSE x
  IN CASE remoteTest -> t
       [] ~remoteTest /\ role = "master" /\ t.list # << >> ->
            AddTimer(IF p # s.first THEN OneMore(t) ELSE t, "page_next_device")
       [] OTHER ->
            CASE s.recorded = 0 -> greet([u EXCEPT !.recorded = 1, !.first = p])
              [] s.recorded = 1 /\ p = s.first -> greet(u)
              [] OTHER -> IF role = "master" THEN WaitSecond(OneMore(u)) ELSE OneMore(u)

SecondConnected(s) ==
  LET t == clr_device_in_page_list(DelTimer(OneMore(s)))
      u == IF link = "paired" THEN Request(t, "wait") ELSE t
  IN IF role = "slave" THEN u ELSE write_scan_conn_enable(u, FALSE, FALSE)

\* After an unwanted loss the phone is paged again.
Relist(s, p) == IF remoteTest THEN s ELSE add_device_2_page_list(s, p)

dual_conn_hci_event_handler(s, m, esco) ==
  CASE goto_poweroff_flag \/ role = "slave" -> s
    [] OTHER ->
       CASE m.ev = "test" ->
              PageCancel(clr_device_in_page_list(cancle_wait_pair(DelTimer(s))))
         [] m.ev = "connected" -> del_device_from_page_list(DelTimer(s), m.mac)
         [] m.ev = "timeout" -> tws_dual_conn_state_handler(Relist(s, m.mac), esco)
         [] m.ev = "rejected" ->
              tws_dual_conn_state_handler(
                IF s.list = << >> THEN s
                ELSE [s EXCEPT !.list = Append(Tail(@), Head(@))], esco)
         [] m.ev = "failed" -> tws_dual_conn_state_handler(s, esco)

\* Mutant: the flag is shifted on the wire but not back.
InqOnWire_Shifted(inqOff) == inqOff * 2

\* The first byte of a relay is inquiry_scan_disable << 1 | recorded << 2, read
\* back as `& 0x02' and `>> 2': a flag already relayed (2) lands in the count.
InqOnWire(inqOff) == IF inqOff = 1 THEN 2 ELSE 0
NumOnWire(inqOff, n) == IF inqOff = 2 /\ n % 2 = 0 THEN n + 1 ELSE n

rx_device_info(s, m, esco) ==
  LET t == [s EXCEPT !.inqOff = IF @ = 0 THEN InqOnWire(m.inqOff) ELSE @,
                     !.recorded = NumOnWire(m.inqOff, m.recorded),
                     !.list = IF m.full /\ (role = "slave" \/ m.list # << >>)
                              THEN [i \in DOMAIN m.list |-> Fresh(m.list[i])] ELSE @]
  IN IF role = "master" THEN tws_dual_conn_state_handler(t, esco) ELSE t

TwsConnected(s, r, esco) ==
  CASE goto_poweroff_flag -> s
    [] ~goto_poweroff_flag /\ r = "master" ->
         PageOr(s, tws_dual_conn_state_handler(s, esco), esco)
    [] OTHER -> PageCancel(write_scan_conn_enable(s, FALSE, FALSE))

TwsDetached(s, r, reason, esco) ==
  LET t == PageCancel(DelTimer(s))
  IN CASE goto_poweroff_flag -> t
       [] OTHER ->
          CASE reason = "remove_pairs" ->
                 IF r = "master" /\ conn # {} THEN t ELSE write_scan_conn_enable(t, TRUE, TRUE)
            [] reason = "poweroff" -> tws_dual_conn_state_handler(t, esco)
            [] reason = "super_timeout" ->
                 tws_dual_conn_state_handler(
                   IF r = "slave" THEN clr_device_in_page_list(t) ELSE t, esco)
            [] reason = "other" ->
                 LET w == Request(t, "wait")
                     open == t.recorded > 1
                 IN PageOr(t, CASE conn = {} -> write_scan_conn_enable(w, TRUE, TRUE)
                                [] Connected = 1 -> write_scan_conn_enable(w, FALSE, open)
                                [] OTHER -> w, esco)

\* Mutant: the page is cancelled but the scans stay open.
RoleSwitched_KeepsScan(s, r) == IF r = "slave" THEN PageCancel(s) ELSE s

RoleSwitched(s, r) ==
  IF r = "slave" THEN PageCancel(write_scan_conn_enable(s, FALSE, FALSE)) ELSE s

\* Mutant: the pairing timer is armed over the running one.
StartPair_Overwrites(s) == AddTimer(Request(s, "search"), "msg_tws_start_pair_timeout")

StartPair(s) == AddTimer(DelTimer(Request(s, "search")), "msg_tws_start_pair_timeout")

tws_dual_conn_close(s) ==
  PageCancel(write_scan_conn_enable(
    cancle_wait_pair(cancle_create_connection(DelTimer(s))), FALSE, FALSE))

-----------------------------------------------------------------------------
(* app_core: handle the head of the queue, or run a timer callback. *)

Deliver(s) == /\ bud' = s
              /\ UNCHANGED <<acl, conn, link, role, phase, remoteTest>>

Handle(from) ==
  /\ queue # << >>
  /\ Head(queue).from = from
  /\ queue' = Tail(queue)

BtStackMsg ==
  /\ Handle("stack")
  /\ LET m == Head(queue) IN
     \/ /\ m.ev = "INIT_OK"
        /\ \E known \in PageLists(Phones) : bud' = dual_conn_page_devices_init(bud, known)
        /\ phase' = "run"
        /\ UNCHANGED <<acl, conn, link, role, remoteTest>>
     \/ m.ev = "FIRST_CONNECTED" /\ Deliver(FirstConnected(bud, m.mac))
     \/ m.ev = "SECOND_CONNECTED" /\ Deliver(SecondConnected(bud))

HciMsg ==
  /\ Handle("hci")
  /\ \E esco \in BOOLEAN : Deliver(dual_conn_hci_event_handler(bud, Head(queue), esco))

TwsMsg ==
  /\ Handle("tws")
  /\ LET m == Head(queue) IN \E esco \in BOOLEAN :
     \/ m.ev = "CONNECTED" /\ Deliver(TwsConnected(bud, m.role, esco))
     \/ m.ev = "DETACH" /\ Deliver(TwsDetached(bud, m.role, m.reason, esco))
     \/ m.ev = "ROLE_SWITCH" /\ Deliver(RoleSwitched(bud, m.role))

RelayMsg ==
  /\ Handle("relay")
  /\ \E esco \in BOOLEAN : Deliver(rx_device_info(bud, Head(queue), esco))

\* At power-on the pairing state read from flash decides; APP_MSG_TWS_START_PAIR
\* is the only other message of this kind a key of this product sends.
AppMsg ==
  /\ Handle("app")
  /\ LET m == Head(queue) IN
     \/ /\ m.ev = "TWS_PAIRED"
        /\ Deliver(AddTimer(Request(bud, "create"), "tws_create_conn_timeout"))
     \/ /\ m.ev = "TWS_UNPAIRED"
        /\ Deliver(AddTimer(Request(bud, "auto"), "tws_pair_timeout"))
     \/ /\ m.ev = "TWS_START_PAIR" /\ link # "connected"
        /\ bud' = StartPair(bud)
        /\ link' = "unpaired"
        /\ UNCHANGED <<acl, conn, role, phase, remoteTest>>
     \/ m.ev = "TWS_START_PAIR" /\ link = "connected" /\ Deliver(bud)

\* The timer that g_dual_conn.timer names has fired: the handle is now stale.
MainTimer ==
  /\ bud.timer \in Callbacks
  /\ \E esco \in BOOLEAN :
       Deliver(RunCallback([bud EXCEPT !.timer = "stale"], bud.timer, esco))
  /\ UNCHANGED queue

LooseTimer ==
  /\ \E cb \in bud.loose, esco \in BOOLEAN :
       Deliver(RunCallback([bud EXCEPT !.loose = @ \ {cb}], cb, esco))
  /\ UNCHANGED queue

PageTimer(over) ==
  /\ \E i \in DOMAIN bud.list, esco \in BOOLEAN :
       /\ bud.list[i].timer
       /\ Deliver(dual_conn_page_device_timeout(bud, i, over, esco))
  /\ UNCHANGED queue

InquiryTimer ==
  /\ bud.inqTimers > 0 /\ "inquiry" \in Happenings
  /\ Deliver(close_inquiry_scan(bud))
  /\ UNCHANGED queue

-----------------------------------------------------------------------------
(* The stack, the phones and the sibling.  Their events are queued in order. *)

Post(msgs) ==
  /\ Len(queue) + Len(msgs) <= MaxQueue
  /\ queue' = queue \o msgs

\* Nothing happens before the stack is up.
Happens == phase # "boot"

Stack(ev, p) == [from |-> "stack", ev |-> ev, mac |-> p]
Hci(ev, p) == [from |-> "hci", ev |-> ev, mac |-> p]
Tws(ev, r, reason) == [from |-> "tws", ev |-> ev, role |-> r, reason |-> reason]
Relay(full, n, off, list) ==
  [from |-> "relay", full |-> full, recorded |-> n, inqOff |-> off, list |-> list]

\* What the sibling may relay: its own inquiry_scan_disable, and phones that are not connected.
Flags == IF "inquiry" \in Happenings THEN 0 .. 2 ELSE {0}

Relays ==
  {Relay(TRUE, n, off, list) : n \in 0 .. 2, off \in Flags, list \in PageLists(Phones \ acl)}

\* A phone can be reached by a page, or reach an earbud that is connectable.
PhoneLinks(p) ==
  /\ Happens
  /\ p \notin acl /\ Cardinality(acl) < 2
  /\ \/ bud.paging = p \/ bud.scan.page
     \/ bud.lib \in {"wait", "pair", "auto"} \/ role = "slave"
  /\ acl' = acl \cup {p}
  /\ bud' = IF bud.paging = p THEN PageCancel(bud) ELSE bud
  /\ Post(<<Hci("connected", p)>>)
  /\ UNCHANGED <<conn, link, role, phase, remoteTest>>

PhoneConnects(p) ==
  /\ p \in acl \ conn
  /\ conn' = conn \cup {p}
  /\ Post(<<Stack(IF conn = {} THEN "FIRST_CONNECTED" ELSE "SECOND_CONNECTED", p)>>)
  /\ UNCHANGED <<bud, acl, link, role, phase, remoteTest>>

PhoneLost(p) ==
  /\ Happens
  /\ p \in acl
  /\ acl' = acl \ {p} /\ conn' = conn \ {p}
  /\ \E ev \in {"timeout", "failed"} : Post(<<Hci(ev, p)>>)
  /\ UNCHANGED <<bud, link, role, phase, remoteTest>>

PageFails ==
  /\ bud.paging # NoPhone
  /\ bud.paging \in acl => "exists" \in Happenings
  /\ bud' = PageCancel(bud)
  /\ \E ev \in {"rejected", "timeout", "failed"} : Post(<<Hci(ev, bud.paging)>>)
  /\ UNCHANGED <<acl, conn, link, role, phase, remoteTest>>

\* The bud with the phones stays master; a new slave is sent the page list.
SiblingConnects ==
  /\ Happens
  /\ link # "connected" /\ phase = "run"
  /\ link' = "connected"
  /\ \/ /\ role' = "master"
        /\ Post(<<Tws("CONNECTED", "master", "none")>>)
     \/ /\ acl = {}
        /\ role' = "slave"
        /\ \E m \in Relays : Post(<<Tws("CONNECTED", "slave", "none"), m>>)
  /\ UNCHANGED <<bud, acl, conn, phase, remoteTest>>

\* A lone earbud is its own master.  A slave loses its view of the phones.
Detach(reason) ==
  /\ link' = IF reason = "remove_pairs" THEN "unpaired" ELSE "paired"
  /\ role' = "master"
  /\ IF role = "slave" THEN acl' = {} /\ conn' = {} ELSE UNCHANGED <<acl, conn>>

SiblingDetaches ==
  /\ Happens
  /\ link = "connected"
  /\ \E reason \in {"poweroff", "super_timeout", "other", "remove_pairs"} :
       /\ reason = "remove_pairs" => "unpair" \in Happenings
       /\ Detach(reason)
       /\ Post(<<Tws("DETACH", role, reason)>>)
  /\ UNCHANGED <<bud, phase, remoteTest>>

\* The bud that becomes slave relays its list, unless the link goes first.
RolesSwitch ==
  /\ Happens
  /\ link = "connected"
  /\ LET r == IF role = "master" THEN "slave" ELSE "master"
         ev == Tws("ROLE_SWITCH", r, "none")
     IN \/ /\ r = "slave" /\ role' = r
           /\ Post(<<ev>>)
           /\ UNCHANGED <<acl, conn, link>>
        \/ /\ r = "master" /\ role' = r
           /\ \E m \in Relays : Post(<<ev, m>>) \/ Post(<<m, ev>>)
           /\ UNCHANGED <<acl, conn, link>>
        \/ /\ r = "master" /\ Detach("super_timeout")
           /\ Post(<<ev, Tws("DETACH", r, "super_timeout")>>)
  /\ UNCHANGED <<bud, phase, remoteTest>>

\* The master tells its slave that the inquiry-scan window is over.
SiblingClosesInquiry ==
  /\ Happens
  /\ "inquiry" \in Happenings
  /\ link = "connected" /\ role = "slave"
  /\ \E n \in 0 .. 2 : Post(<<Relay(FALSE, n, 1, << >>)>>)
  /\ UNCHANGED <<bud, acl, conn, link, role, phase, remoteTest>>

KeyStartPair ==
  /\ Happens
  /\ "unpair" \in Happenings
  /\ conn = {} /\ link # "connected"
  /\ Post(<<[from |-> "app", ev |-> "TWS_START_PAIR"]>>)
  /\ UNCHANGED <<bud, acl, conn, link, role, phase, remoteTest>>

TestBox ==
  /\ Happens
  /\ "test" \in Happenings /\ acl # {}
  /\ remoteTest' = ~remoteTest
  /\ IF remoteTest THEN UNCHANGED queue
     ELSE \E p \in acl : Post(<<Hci("test", p)>>)
  /\ UNCHANGED <<bud, acl, conn, link, role, phase>>

\* sys_enter_soft_poweroff and bt_nobackground_exit close the engine first.
SoftPoweroff ==
  /\ Happens
  /\ "poweroff" \in Happenings /\ phase = "run"
  /\ phase' = "poweroff"
  /\ bud' = tws_dual_conn_close(bud)
  /\ UNCHANGED <<queue, acl, conn, link, role, remoteTest>>

\* With goto_poweroff_flag set the mode is left once no phone is connected.
BtModeExit ==
  /\ \/ phase = "poweroff" /\ conn = {} /\ phase' = "poweroff_exit"
     \/ phase = "run" /\ "modes" \in Happenings /\ phase' = "exit"
  /\ bud' = tws_dual_conn_close(bud)
  /\ UNCHANGED <<queue, acl, conn, link, role, remoteTest>>

\* The stack is gone, later Bluetooth mode is entered again: g_dual_conn and
\* its timers survive.
BtModeInit ==
  /\ Happens
  /\ bud.inqTimers < MaxWindows
  /\ phase = "exit" /\ acl = {} /\ link # "connected" /\ queue = << >>
  /\ phase' = "boot"
  /\ bud' = [bud EXCEPT !.scan = Closed, !.paging = NoPhone, !.lib = "none"]
  /\ Post(<<Stack("INIT_OK", NoPhone),
            [from |-> "app", ev |-> IF link = "paired" THEN "TWS_PAIRED" ELSE "TWS_UNPAIRED"]>>)
  /\ UNCHANGED <<acl, conn, link, role, remoteTest>>

Init ==
  /\ bud = [list |-> << >>, timer |-> "none", loose |-> {}, recorded |-> 0,
            first |-> NoPhone, inqOff |-> 0, inqTimers |-> 0, scan |-> Closed,
            paging |-> NoPhone, lib |-> "none"]
  /\ acl = {} /\ conn = {} /\ role = "master" /\ phase = "boot"
  /\ remoteTest = FALSE
  /\ \/ /\ link = "paired"
        /\ queue = <<Stack("INIT_OK", NoPhone), [from |-> "app", ev |-> "TWS_PAIRED"]>>
     \/ /\ link = "unpaired"
        /\ queue = <<Stack("INIT_OK", NoPhone), [from |-> "app", ev |-> "TWS_UNPAIRED"]>>

Engine ==
  \/ BtStackMsg \/ HciMsg \/ TwsMsg \/ RelayMsg \/ AppMsg
  \/ MainTimer \/ LooseTimer \/ PageTimer(TRUE) \/ PageTimer(FALSE) \/ InquiryTimer

Environment ==
  \/ \E p \in Phones : PhoneLinks(p) \/ PhoneConnects(p) \/ PhoneLost(p)
  \/ PageFails \/ SiblingConnects \/ SiblingDetaches \/ RolesSwitch
  \/ SiblingClosesInquiry \/ KeyStartPair \/ TestBox
  \/ SoftPoweroff \/ BtModeExit \/ BtModeInit

Next == Engine \/ Environment

Spec == Init /\ [][Next]_vars

\* app_core drains its queue, armed timers fire, and jiffies passes every
\* timeout in the end.
Fairness ==
  /\ WF_vars(BtStackMsg \/ HciMsg \/ TwsMsg \/ RelayMsg \/ AppMsg)
  /\ WF_vars(MainTimer) /\ WF_vars(LooseTimer)
  /\ SF_vars(PageTimer(TRUE))

FairSpec == Spec /\ Fairness

-----------------------------------------------------------------------------
StackMessages ==
  [from : {"stack"}, ev : {"INIT_OK"}, mac : {NoPhone}]
  \cup [from : {"stack"}, ev : {"FIRST_CONNECTED", "SECOND_CONNECTED"}, mac : Phones]
HciMessages ==
  [from : {"hci"}, ev : {"connected", "rejected", "timeout", "failed", "test"}, mac : Phones]
TwsMessages ==
  [from : {"tws"}, ev : {"CONNECTED", "ROLE_SWITCH"}, role : Roles, reason : {"none"}]
  \cup [from : {"tws"}, ev : {"DETACH"}, role : Roles,
        reason : {"poweroff", "super_timeout", "other", "remove_pairs"}]
RelayMessages ==
  [from : {"relay"}, full : BOOLEAN, recorded : 0 .. 2, inqOff : 0 .. 2,
   list : PageLists(Phones)]
AppMessages == [from : {"app"}, ev : {"TWS_PAIRED", "TWS_UNPAIRED", "TWS_START_PAIR"}]

Messages ==
  StackMessages \cup HciMessages \cup TwsMessages \cup RelayMessages \cup AppMessages

TypeOK ==
  /\ bud \in Bud
  /\ queue \in Seq(Messages)
  /\ acl \in SUBSET Phones /\ conn \in SUBSET acl
  /\ link \in Links /\ role \in Roles
  /\ phase \in Phases
  /\ remoteTest \in BOOLEAN

Drained == queue = << >>

\* Some timer is armed that will call the engine again.
Pending ==
  \/ bud.timer \in Callbacks \/ bud.loose # {}
  \/ \E i \in DOMAIN bud.list : bud.list[i].timer

\* Once it has handled what was queued, the slave neither scans nor pages:
\* only the master of a pair may answer or call a phone (TWS_EVENT_CONNECTED,
\* TWS_EVENT_ROLE_SWITCH, tws_dual_conn_state_handler).
SlaveQuiet ==
  Drained /\ role = "slave" /\ phase = "run" => bud.scan = Closed /\ bud.paging = NoPhone

\* The reconnection of a listed phone never stalls: while one more phone may
\* connect and no event is waiting, a timer is running that will page it (every
\* path through the handlers).
NeverStalls ==
  Drained /\ role = "master" /\ phase = "run" /\ ~remoteTest /\ acl = conn /\ Connected < 2
    => bud.list = << >> \/ Pending

\* An earbud without a phone can be found: it is discoverable and connectable,
\* or a timer is running that will make it so.
NeverDeaf ==
  Drained /\ role = "master" /\ phase = "run" /\ acl = {}
    => \/ bud.scan = [inq |-> TRUE, page |-> TRUE]
       \/ bud.lib \in {"wait", "pair", "auto"}
       \/ Pending

\* Once the stack, the phones and the sibling are quiet, a phone that does not
\* answer is given up: the list of a master ends up empty (the rotation of
\* dual_conn_page_device_timeout and the waits between two pages).
GivesUp ==
  <>[][Engine]_vars => <>[](bud.list = << >> \/ role = "slave" \/ phase # "run")

\* No phone is listed twice, so no phone has two page timers.
OnceEach(list) == \A i, j \in DOMAIN list : list[i].mac = list[j].mac => i = j
ListedOnce == OnceEach(bud.list)

\* A phone that is connected is not paged again.
ConnectedNotListed ==
  Drained /\ phase = "run" => Listed(bud) \cap conn = {}

\* With two phones on record and one of them connected, the other can come
\* back: the earbud is connectable or a timer is running that will call it.
SecondCanReturn ==
  Drained /\ role = "master" /\ phase = "run" /\ ~remoteTest /\ acl = conn
    => (Connected = 1 /\ bud.recorded > 1 /\ DualConfig = "SET_TWO"
          => bud.scan.page \/ bud.lib \in {"wait", "pair", "auto"} \/ Pending)

\* Every armed timer of the engine can still be deleted through its handle.
NoForgottenTimer == bud.loose = {}
=============================================================================
