------------------------- MODULE TwsDualConnProofs -------------------------
(***************************************************************************)
(* Proofs about TwsDualConn.  Every operator of the engine maps a          *)
(* well-formed bud, a record of the right type whose list holds each phone *)
(* once, to a well-formed bud: the lemmas say so one operator at a time,   *)
(* the theorems put them together.                                         *)
(***************************************************************************)
EXTENDS TwsDualConn, TLAPS, SequenceTheorems

GoodList == {list \in Seq(Entry) : OnceEach(list)}

GoodBud == {s \in Bud : OnceEach(s.list)}

-----------------------------------------------------------------------------
(* The list. *)

\* Taking an entry out keeps the others, and its phone is not listed any more.
LEMMA RemoveAtLemma ==
  ASSUME NEW list \in GoodList, NEW i \in DOMAIN list
  PROVE  /\ RemoveAt(list, i) \in GoodList
         /\ \A k \in DOMAIN RemoveAt(list, i) : RemoveAt(list, i)[k].mac # list[i].mac
         /\ \A k \in DOMAIN RemoveAt(list, i) :
              \E j \in DOMAIN list : RemoveAt(list, i)[k] = list[j]
<1>1. list \in Seq(Entry) /\ Len(list) \in Nat /\ DOMAIN list = 1 .. Len(list)
      /\ \A k \in 1 .. Len(list) : list[k] \in Entry
  BY LenProperties DEF GoodList
<1>2. i \in Int /\ 1 <= i /\ i <= Len(list)
  BY <1>1
<1> DEFINE a == SubSeq(list, 1, i - 1)
           b == SubSeq(list, i + 1, Len(list))
           r == RemoveAt(list, i)
<1>3. /\ a \in Seq(Entry) /\ Len(a) = i - 1
      /\ \A k \in 1 .. i - 1 : a[k] = list[k]
  <2>1. \A k \in 1 .. i - 1 : list[k] \in Entry
    BY <1>1, <1>2
  <2>2. /\ SubSeq(list, 1, i - 1) \in Seq(Entry)
        /\ Len(SubSeq(list, 1, i - 1)) = IF 1 <= i - 1 THEN (i - 1) - 1 + 1 ELSE 0
        /\ \A k \in 1 .. (i - 1) - 1 + 1 : SubSeq(list, 1, i - 1)[k] = list[1 + k - 1]
    BY <1>2, <2>1, SubSeqProperties
  <2> QED BY <2>2, <1>2
<1>4. /\ b \in Seq(Entry) /\ Len(b) = Len(list) - i
      /\ \A k \in 1 .. Len(list) - i : b[k] = list[k + i]
  <2>1. \A k \in i + 1 .. Len(list) : list[k] \in Entry
    BY <1>1, <1>2
  <2>2. /\ SubSeq(list, i + 1, Len(list)) \in Seq(Entry)
        /\ Len(SubSeq(list, i + 1, Len(list)))
             = IF i + 1 <= Len(list) THEN Len(list) - (i + 1) + 1 ELSE 0
        /\ \A k \in 1 .. Len(list) - (i + 1) + 1 :
             SubSeq(list, i + 1, Len(list))[k] = list[(i + 1) + k - 1]
    BY <1>1, <1>2, <2>1, SubSeqProperties
  <2> QED BY <2>2, <1>1, <1>2
<1>5. r = a \o b
  BY DEF RemoveAt
<1>6. /\ r \in Seq(Entry) /\ Len(r) = Len(list) - 1
      /\ \A k \in 1 .. Len(r) : r[k] = IF k < i THEN list[k] ELSE list[k + 1]
  <2>1. /\ a \o b \in Seq(Entry) /\ Len(a \o b) = Len(a) + Len(b)
        /\ \A k \in 1 .. Len(a) + Len(b) :
             (a \o b)[k] = IF k <= Len(a) THEN a[k] ELSE b[k - Len(a)]
    BY <1>3, <1>4, ConcatProperties
  <2>2. Len(r) = Len(list) - 1
    <3>1. Len(r) = Len(a) + Len(b)
      BY <2>1, <1>5
    <3> HIDE DEF a, b, r
    <3> QED BY <3>1, <1>1, <1>2, <1>3, <1>4
  <2> HIDE DEF a, b, r
  <2>3. ASSUME NEW k \in 1 .. Len(r)
        PROVE  r[k] = IF k < i THEN list[k] ELSE list[k + 1]
    <3>1. r[k] = IF k <= Len(a) THEN a[k] ELSE b[k - Len(a)]
      BY <2>1, <2>2, <1>1, <1>2, <1>3, <1>4, <1>5
    <3>2. CASE k < i
      BY <3>1, <3>2, <1>2, <1>3
    <3>3. CASE ~(k < i)
      <4>1. k - (i - 1) \in 1 .. Len(list) - i /\ (k - (i - 1)) + i = k + 1
        BY <3>3, <2>2, <1>1, <1>2
      <4>2. r[k] = b[k - (i - 1)]
        BY <3>1, <3>3, <1>2, <1>3
      <4> QED BY <4>1, <4>2, <3>3, <1>4
    <3> QED BY <3>2, <3>3
  <2> QED BY <2>1, <2>2, <2>3, <1>5
<1> HIDE DEF a, b, r
<1>7. DOMAIN r = 1 .. Len(r)
  BY <1>6, LenProperties
<1> DEFINE at(k) == IF k < i THEN k ELSE k + 1
<1>8. \A k \in DOMAIN r : at(k) \in DOMAIN list /\ at(k) # i /\ r[k] = list[at(k)]
  BY <1>1, <1>2, <1>6, <1>7
<1>9. \A j, k \in DOMAIN r : at(j) = at(k) => j = k
  BY <1>2, <1>6, <1>7
<1>10. \A j, k \in DOMAIN list : list[j].mac = list[k].mac => j = k
  BY DEF GoodList, OnceEach
<1>11. OnceEach(r)
  <2> HIDE DEF at
  <2> QED BY <1>8, <1>9, <1>10 DEF OnceEach
<1>12. \A k \in DOMAIN r : r[k].mac # list[i].mac
  BY <1>8, <1>10
<1>13. \A k \in DOMAIN r : \E j \in DOMAIN list : r[k] = list[j]
  <2> HIDE DEF at
  <2> QED BY <1>8
<1> QED BY <1>6, <1>11, <1>12, <1>13 DEF GoodList, r

\* A phone that is not listed may go to the tail.
LEMMA AppendLemma ==
  ASSUME NEW list \in GoodList, NEW e \in Entry,
         \A k \in DOMAIN list : list[k].mac # e.mac
  PROVE  Append(list, e) \in GoodList
<1>1. list \in Seq(Entry) /\ Len(list) \in Nat /\ DOMAIN list = 1 .. Len(list)
  BY LenProperties DEF GoodList
<1>2. /\ Append(list, e) \in Seq(Entry)
      /\ DOMAIN Append(list, e) = 1 .. Len(list) + 1
      /\ \A k \in 1 .. Len(list) : Append(list, e)[k] = list[k]
      /\ Append(list, e)[Len(list) + 1] = e
  BY <1>1
<1>3. OnceEach(Append(list, e))
  BY <1>1, <1>2 DEF OnceEach, GoodList
<1> QED BY <1>2, <1>3 DEF GoodList

\* The head can go to the tail.
LEMMA RotateLemma ==
  ASSUME NEW list \in GoodList, list # << >>
  PROVE  Append(Tail(list), Head(list)) \in GoodList
<1>1. list \in Seq(Entry) /\ Len(list) \in Nat /\ Len(list) >= 1 /\ DOMAIN list = 1 .. Len(list)
  BY LenProperties, EmptySeq DEF GoodList
<1>2. /\ Tail(list) \in Seq(Entry) /\ Len(Tail(list)) = Len(list) - 1
      /\ \A k \in 1 .. Len(list) - 1 : Tail(list)[k] = list[k + 1]
      /\ DOMAIN Tail(list) = 1 .. Len(list) - 1
      /\ Head(list) = list[1] /\ Head(list) \in Entry
  <2>1. /\ Head(list) \in Entry /\ Tail(list) \in Seq(Entry)
        /\ Len(Tail(list)) = Len(list) - 1
        /\ \A k \in 1 .. Len(Tail(list)) : Tail(list)[k] = list[k + 1]
    BY <1>1, HeadTailProperties
  <2>2. DOMAIN Tail(list) = 1 .. Len(Tail(list))
    BY <2>1, LenProperties
  <2> QED BY <2>1, <2>2, <1>1
<1>3. \A j, k \in DOMAIN list : list[j].mac = list[k].mac => j = k
  BY DEF GoodList, OnceEach
<1>4. Tail(list) \in GoodList
  <2>1. OnceEach(Tail(list))
    BY <1>1, <1>2, <1>3 DEF OnceEach
  <2> QED BY <2>1, <1>2 DEF GoodList
<1>5. \A k \in DOMAIN Tail(list) : Tail(list)[k].mac # Head(list).mac
  BY <1>1, <1>2, <1>3
<1> QED BY <1>2, <1>4, <1>5, AppendLemma

-----------------------------------------------------------------------------
(* The record.  A field may be given any value of its own type. *)

LEMMA FieldsLemma ==
  ASSUME NEW s \in GoodBud
  PROVE  /\ s \in Bud /\ s.list \in GoodList
         /\ \A list \in GoodList : [s EXCEPT !.list = list] \in GoodBud
         /\ \A t \in Callbacks \cup {"none", "stale"} : [s EXCEPT !.timer = t] \in GoodBud
         /\ \A l \in SUBSET Callbacks : [s EXCEPT !.loose = l] \in GoodBud
         /\ \A n \in Nat : [s EXCEPT !.recorded = n] \in GoodBud
         /\ \A sc \in Scans : [s EXCEPT !.scan = sc] \in GoodBud
         /\ \A p \in Phones \cup {NoPhone} : [s EXCEPT !.paging = p] \in GoodBud
         /\ \A proc \in Procedures : [s EXCEPT !.lib = proc] \in GoodBud
<1>1. s \in Bud /\ s.list \in GoodList
  BY DEF GoodBud, GoodList, Bud
<1>2. ASSUME NEW list \in GoodList PROVE [s EXCEPT !.list = list] \in GoodBud
  BY DEF GoodBud, GoodList, Bud
<1>3. ASSUME NEW t \in Callbacks \cup {"none", "stale"}
      PROVE  [s EXCEPT !.timer = t] \in GoodBud
  BY DEF GoodBud, Bud
<1>4. ASSUME NEW l \in SUBSET Callbacks PROVE [s EXCEPT !.loose = l] \in GoodBud
  BY DEF GoodBud, Bud
<1>5. ASSUME NEW n \in Nat PROVE [s EXCEPT !.recorded = n] \in GoodBud
  BY DEF GoodBud, Bud
<1>6. ASSUME NEW sc \in Scans PROVE [s EXCEPT !.scan = sc] \in GoodBud
  BY DEF GoodBud, Bud
<1>7. ASSUME NEW p \in Phones \cup {NoPhone} PROVE [s EXCEPT !.paging = p] \in GoodBud
  BY DEF GoodBud, Bud
<1>8. ASSUME NEW proc \in Procedures PROVE [s EXCEPT !.lib = proc] \in GoodBud
  BY DEF GoodBud, Bud
<1> QED BY <1>1, <1>2, <1>3, <1>4, <1>5, <1>6, <1>7, <1>8

LEMMA TimersLemma ==
  ASSUME NEW s \in GoodBud
  PROVE  /\ ZeroTimer(s) \in GoodBud
         /\ DelTimer(s) \in GoodBud
         /\ \A cb \in Callbacks : AddTimer(s, cb) \in GoodBud
<1>1. s \in Bud /\ s.loose \cup Armed(s.timer) \in SUBSET Callbacks
  BY FieldsLemma DEF Bud, Armed
<1>2. ZeroTimer(s) \in GoodBud
  BY <1>1 DEF ZeroTimer, GoodBud, Bud
<1>3. DelTimer(s) \in GoodBud
  BY FieldsLemma DEF DelTimer
<1>4. ASSUME NEW cb \in Callbacks PROVE AddTimer(s, cb) \in GoodBud
  BY <1>1 DEF AddTimer, GoodBud, Bud
<1> QED BY <1>2, <1>3, <1>4

LEMMA CommandsLemma ==
  ASSUME NEW s \in GoodBud
  PROVE  /\ \A p \in Phones : StartPage(s, p) \in GoodBud
         /\ PageCancel(s) \in GoodBud
         /\ \A proc \in Procedures : Request(s, proc) \in GoodBud
         /\ cancle_wait_pair(s) \in GoodBud
         /\ cancle_create_connection(s) \in GoodBud
         /\ \A i, c \in BOOLEAN : write_scan_conn_enable(s, i, c) \in GoodBud
<1>1. \A p \in Phones : StartPage(s, p) \in GoodBud
  BY FieldsLemma DEF StartPage
<1>2. PageCancel(s) \in GoodBud
  BY FieldsLemma DEF PageCancel
<1>3. \A proc \in Procedures : Request(s, proc) \in GoodBud
  BY FieldsLemma DEF Request
<1>4. Request(s, "none") \in GoodBud
  BY <1>3 DEF Procedures
<1>5. cancle_wait_pair(s) \in GoodBud /\ cancle_create_connection(s) \in GoodBud
  BY <1>4 DEF cancle_wait_pair, cancle_create_connection
<1>6. ASSUME NEW i \in BOOLEAN, NEW c \in BOOLEAN
      PROVE  write_scan_conn_enable(s, i, c) \in GoodBud
  <2>1. (IF DualConfig # "SET_TWO" /\ conn # {} THEN Closed ELSE [inq |-> i, page |-> c]) \in Scans
    BY DEF Scans, Closed
  <2> QED BY <2>1, FieldsLemma DEF write_scan_conn_enable
<1> QED BY <1>1, <1>2, <1>3, <1>5, <1>6

LEMMA ScansLemma ==
  ASSUME NEW s \in GoodBud
  PROVE  /\ dual_conn_try_open_inquiry_scan(s) \in GoodBud
         /\ dual_conn_try_open_inquiry_page_scan(s) \in GoodBud
         /\ OpenForSecond(s) \in GoodBud
         /\ WaitSecond(s) \in GoodBud
<1>1. dual_conn_try_open_inquiry_scan(s) \in GoodBud
  BY CommandsLemma DEF dual_conn_try_open_inquiry_scan
<1>2. dual_conn_try_open_inquiry_page_scan(s) \in GoodBud
  <2>1. (conn = {} \/ s.inqOff = 0) \in BOOLEAN
    OBVIOUS
  <2> QED BY <2>1, CommandsLemma DEF dual_conn_try_open_inquiry_page_scan
<1>3. OpenForSecond(s) \in GoodBud
  BY <1>2, CommandsLemma DEF OpenForSecond
<1>4. WaitSecond(s) \in GoodBud
  <2>1. (DualConfig # "CLOSE") \in BOOLEAN
    OBVIOUS
  <2> QED BY <2>1, CommandsLemma DEF WaitSecond
<1> QED BY <1>1, <1>2, <1>3, <1>4

LEMMA HeadLemma ==
  ASSUME NEW s \in GoodBud, s.list # << >>
  PROVE  /\ 1 \in DOMAIN s.list
         /\ s.list[1] = Head(s.list)
         /\ s.list[1] \in Entry /\ s.list[1].mac \in Phones
<1>1. s.list \in Seq(Entry)
  BY FieldsLemma DEF GoodList
<1>2. Len(s.list) \in Nat \ {0} /\ DOMAIN s.list = 1 .. Len(s.list)
  BY <1>1, EmptySeq, LenProperties
<1>3. s.list[1] \in Entry
  BY <1>1, <1>2, ElementOfSeq
<1> QED BY <1>1, <1>2, <1>3 DEF Entry

LEMMA ListLemma ==
  ASSUME NEW s \in GoodBud, NEW p \in Phones
  PROVE  /\ add_device_2_page_list(s, p) \in GoodBud
         /\ del_device_from_page_list(s, p) \in GoodBud
         /\ clr_device_in_page_list(s) \in GoodBud
         /\ Relist(s, p) \in GoodBud
<1>1. s.list \in GoodList /\ Fresh(p) \in Entry /\ Fresh(p).mac = p
  BY FieldsLemma DEF Fresh, Entry
<1>2. ASSUME p \in Listed(s)
      PROVE  add_device_2_page_list(s, p) \in GoodBud /\ del_device_from_page_list(s, p) \in GoodBud
  <2>1. IndexOf(s, p) \in DOMAIN s.list /\ s.list[IndexOf(s, p)].mac = p
    BY <1>2 DEF Listed, IndexOf
  <2>2. /\ RemoveAt(s.list, IndexOf(s, p)) \in GoodList
        /\ \A k \in DOMAIN RemoveAt(s.list, IndexOf(s, p)) :
             RemoveAt(s.list, IndexOf(s, p))[k].mac # p
    BY <1>1, <2>1, RemoveAtLemma
  <2>3. Append(RemoveAt(s.list, IndexOf(s, p)), Fresh(p)) \in GoodList
    BY <1>1, <2>2, AppendLemma
  <2> QED BY <1>2, <2>2, <2>3, FieldsLemma
          DEF add_device_2_page_list, del_device_from_page_list
<1>3. ASSUME p \notin Listed(s)
      PROVE  add_device_2_page_list(s, p) \in GoodBud /\ del_device_from_page_list(s, p) \in GoodBud
  <2>1. \A k \in DOMAIN s.list : s.list[k].mac # p
    BY <1>3 DEF Listed
  <2>2. Append(s.list, Fresh(p)) \in GoodList
    BY <1>1, <2>1, AppendLemma
  <2> QED BY <1>3, <2>2, FieldsLemma DEF add_device_2_page_list, del_device_from_page_list
<1>4. clr_device_in_page_list(s) \in GoodBud
  <2>1. << >> \in GoodList
    BY DEF GoodList, OnceEach
  <2> QED BY <2>1, FieldsLemma DEF clr_device_in_page_list
<1> QED BY <1>2, <1>3, <1>4 DEF Relist

\* A relayed list, or the phones on record, each once.
LEMMA FreshListLemma ==
  ASSUME NEW list \in PageLists(Phones)
  PROVE  [k \in DOMAIN list |-> Fresh(list[k])] \in GoodList
<1>1. list \in Seq(Phones) /\ IsInjective(list)
  <2>1. CASE list = << >>
    BY <2>1 DEF PageLists
  <2>2. CASE \E p \in Phones : list = <<p>>
    BY <2>2 DEF PageLists
  <2>3. CASE \E p, q \in Phones : list = <<p, q>>
    BY <2>3 DEF PageLists
  <2> QED BY <2>1, <2>2, <2>3 DEF PageLists
<1>2. Len(list) \in Nat /\ DOMAIN list = 1 .. Len(list) /\ \A k \in 1 .. Len(list) : list[k] \in Phones
  BY <1>1, LenProperties
<1> DEFINE f == [k \in DOMAIN list |-> Fresh(list[k])]
<1>3. f \in [1 .. Len(list) -> Entry]
  BY <1>2 DEF Fresh, Entry
<1>4. f \in Seq(Entry)
  BY <1>2, <1>3
<1>5. \A j, k \in DOMAIN list : list[j] = list[k] => j = k
  BY <1>1 DEF IsInjective
<1>6. OnceEach(f)
  BY <1>5 DEF OnceEach, Fresh
<1> QED BY <1>4, <1>6 DEF GoodList

-----------------------------------------------------------------------------
(* The engine. *)

LEMMA StateHandlerLemma ==
  ASSUME NEW s \in GoodBud, NEW esco \in BOOLEAN, link \in Links, role \in Roles
  PROVE  tws_dual_conn_state_handler(s, esco) \in GoodBud
<1>1. DelTimer(s) \in GoodBud
  BY TimersLemma
<1>2. ASSUME NEW t \in GoodBud PROVE SiblingConnected(t, esco) \in GoodBud
  <2> DEFINE have == t.list # << >>
             paged == IF have THEN StartPage(t, Head(t.list).mac) ELSE t
             scanned ==
               CASE conn = {} -> write_scan_conn_enable(t, TRUE, TRUE)
                 [] Connected = 1 /\ t.recorded > 1 /\ esco /\ have ->
                      write_scan_conn_enable(paged, FALSE, FALSE)
                 [] Connected = 1 /\ t.recorded > 1 /\ ~(esco /\ have) ->
                      write_scan_conn_enable(paged, FALSE, TRUE)
                 [] OTHER -> t
  <2>1. paged \in GoodBud
    BY HeadLemma, CommandsLemma
  <2>5. scanned \in GoodBud
    <3> HIDE DEF paged
    <3>1. /\ write_scan_conn_enable(t, TRUE, TRUE) \in GoodBud
          /\ write_scan_conn_enable(paged, FALSE, FALSE) \in GoodBud
          /\ write_scan_conn_enable(paged, FALSE, TRUE) \in GoodBud
      BY <2>1, CommandsLemma
    <3> QED BY <3>1
  <2>6. SiblingConnected(t, esco)
          = IF have THEN AddTimer(scanned, "tws_wait_conn_timeout")
            ELSE IF t.recorded = 1 THEN dual_conn_try_open_inquiry_page_scan(scanned)
            ELSE scanned
    BY DEF SiblingConnected
  <2> HIDE DEF scanned, have, paged
  <2>7. /\ AddTimer(scanned, "tws_wait_conn_timeout") \in GoodBud
        /\ dual_conn_try_open_inquiry_page_scan(scanned) \in GoodBud
    BY <2>5, TimersLemma, ScansLemma DEF Callbacks
  <2> QED BY <2>5, <2>6, <2>7
<1>3. ASSUME NEW t \in GoodBud PROVE ThenPage(t) \in GoodBud
  BY TimersLemma DEF ThenPage, Callbacks
<1>4. ASSUME NEW t \in GoodBud PROVE SiblingLost(t) \in GoodBud
  <2>1. Request(t, "create") \in GoodBud /\ Request(t, "wait") \in GoodBud
    BY CommandsLemma DEF Procedures
  <2>2. AddTimer(write_scan_conn_enable(Request(t, "create"), TRUE, TRUE), "tws_pair_new_tws")
          \in GoodBud
    BY <2>1, CommandsLemma, TimersLemma DEF Callbacks
  <2>3. ThenPage(OpenForSecond(Request(t, "wait"))) \in GoodBud
    BY <2>1, <1>3, ScansLemma
  <2>4. ThenPage(Request(t, "wait")) \in GoodBud
    BY <2>1, <1>3
  <2> QED BY <2>2, <2>3, <2>4 DEF SiblingLost
<1>5. ASSUME NEW t \in GoodBud PROVE NeverPaired(t) \in GoodBud
  <2>1. ThenPage(write_scan_conn_enable(Request(t, "auto"), TRUE, TRUE)) \in GoodBud
    <3>1. Request(t, "auto") \in GoodBud
      BY CommandsLemma DEF Procedures
    <3> QED BY <3>1, <1>3, CommandsLemma
  <2>2. ThenPage(OpenForSecond(t)) \in GoodBud
    BY <1>3, ScansLemma
  <2> QED BY <2>1, <2>2 DEF NeverPaired
<1>6. write_scan_conn_enable(DelTimer(s), FALSE, FALSE) \in GoodBud
  BY <1>1, CommandsLemma
<1>7. \/ link = "connected" /\ role = "slave"
      \/ link = "connected" /\ role = "master"
      \/ link = "paired" \/ link = "unpaired"
  BY DEF Links, Roles
<1>8. (CASE link = "connected" /\ role = "slave" -> write_scan_conn_enable(DelTimer(s), FALSE, FALSE)
         [] link = "connected" /\ role = "master" -> SiblingConnected(DelTimer(s), esco)
         [] link = "paired" -> SiblingLost(DelTimer(s))
         [] link = "unpaired" -> NeverPaired(DelTimer(s))) \in GoodBud
  BY <1>1, <1>2, <1>4, <1>5, <1>6, <1>7
<1> QED BY <1>1, <1>8 DEF tws_dual_conn_state_handler

\* Paging the head arms its timer and changes nothing else in the list.
LEMMA PageDeviceLemma ==
  ASSUME NEW s \in GoodBud, NEW esco \in BOOLEAN, link \in Links, role \in Roles
  PROVE  dual_conn_page_device(s, esco) \in GoodBud
<1>1. ASSUME s.list # << >>
      PROVE  StartPage([s EXCEPT !.list[1].timer = TRUE], s.list[1].mac) \in GoodBud
  <2>1. s.list \in Seq(Entry) /\ OnceEach(s.list)
    BY FieldsLemma DEF GoodList
  <2>2. 1 \in 1 .. Len(s.list) /\ s.list[1] \in Entry /\ s.list[1].mac \in Phones
    BY <1>1, <2>1, HeadLemma, LenProperties
  <2> DEFINE e == [s.list[1] EXCEPT !.timer = TRUE]
             l == [s.list EXCEPT ![1] = e]
  <2>3. e \in Entry /\ e.mac = s.list[1].mac
    BY <2>2 DEF Entry
  <2>4. l \in Seq(Entry) /\ DOMAIN l = DOMAIN s.list
        /\ \A k \in DOMAIN s.list : l[k].mac = s.list[k].mac
    <3>1. /\ l \in Seq(Entry) /\ Len(l) = Len(s.list)
          /\ \A k \in 1 .. Len(s.list) : l[k] = IF k = 1 THEN e ELSE s.list[k]
      BY <2>1, <2>2, <2>3, ExceptSeq
    <3> HIDE DEF e, l
    <3> QED BY <3>1, <2>1, <2>3, LenProperties
  <2>5. l \in GoodList
    <3> HIDE DEF e, l
    <3> QED BY <2>1, <2>4 DEF GoodList, OnceEach
  <2>6. [s EXCEPT !.list = l] \in GoodBud
    <3> HIDE DEF l
    <3> QED BY <2>5, FieldsLemma
  <2>7. [s EXCEPT !.list[1].timer = TRUE] = [s EXCEPT !.list = l]
    BY FieldsLemma DEF Bud
  <2> QED BY <2>2, <2>6, <2>7, CommandsLemma
<1>2. tws_dual_conn_state_handler(s, esco) \in GoodBud
  BY StateHandlerLemma
<1> QED BY <1>1, <1>2 DEF dual_conn_page_device

LEMMA PageOrLemma ==
  ASSUME NEW s \in GoodBud, NEW other \in GoodBud, NEW esco \in BOOLEAN,
         link \in Links, role \in Roles
  PROVE  PageOr(s, other, esco) \in GoodBud
BY PageDeviceLemma DEF PageOr

\* A page that timed out: the phone goes to the tail, or is given up.
LEMMA PageTimeoutLemma ==
  ASSUME NEW s \in GoodBud, NEW i \in DOMAIN s.list, NEW over \in BOOLEAN,
         NEW esco \in BOOLEAN, link \in Links, role \in Roles
  PROVE  dual_conn_page_device_timeout(s, i, over, esco) \in GoodBud
<1>1. s.list \in GoodList /\ s.list \in Seq(Entry)
  BY FieldsLemma DEF GoodList
<1>2. RemoveAt(s.list, i) \in GoodList
      /\ \A k \in DOMAIN RemoveAt(s.list, i) : RemoveAt(s.list, i)[k].mac # s.list[i].mac
  BY <1>1, RemoveAtLemma
<1>3. s.list[i] \in Entry
  BY <1>1, LenProperties, ElementOfSeq
<1>4. Fresh(s.list[i].mac) \in Entry /\ Fresh(s.list[i].mac).mac = s.list[i].mac
  BY <1>3 DEF Fresh, Entry
<1>5. Append(RemoveAt(s.list, i), Fresh(s.list[i].mac)) \in GoodList
  BY <1>2, <1>4, AppendLemma
<1> DEFINE l == IF over THEN RemoveAt(s.list, i)
                ELSE Append(RemoveAt(s.list, i), Fresh(s.list[i].mac))
<1>6. l \in GoodList
  BY <1>2, <1>5
<1>7. PageCancel([s EXCEPT !.list = l]) \in GoodBud
  <2> HIDE DEF l
  <2> QED BY <1>6, FieldsLemma, CommandsLemma
<1>8. tws_dual_conn_state_handler(PageCancel([s EXCEPT !.list = l]), esco) \in GoodBud
  BY <1>7, StateHandlerLemma
<1> QED BY <1>8 DEF dual_conn_page_device_timeout

LEMMA CallbackLemma ==
  ASSUME NEW s \in GoodBud, NEW cb \in Callbacks, NEW esco \in BOOLEAN,
         link \in Links, role \in Roles
  PROVE  RunCallback(s, cb, esco) \in GoodBud
<1>1. dual_conn_page_device(write_scan_conn_enable(s, FALSE, FALSE), esco) \in GoodBud
  BY CommandsLemma, PageDeviceLemma
<1>2. AddTimer(Request(s, "auto"), "tws_auto_pair_timeout") \in GoodBud
  BY CommandsLemma, TimersLemma DEF Procedures, Callbacks
<1>3. ZeroTimer(s) \in GoodBud
  BY TimersLemma
<1>4. dual_conn_page_device(
        write_scan_conn_enable(Request(ZeroTimer(s), "none"), FALSE, FALSE), esco) \in GoodBud
  <2>1. Request(ZeroTimer(s), "none") \in GoodBud
    BY <1>3, CommandsLemma DEF Procedures
  <2> QED BY <2>1, CommandsLemma, PageDeviceLemma
<1>5. dual_conn_page_device(ZeroTimer(s), esco) \in GoodBud
  BY <1>3, PageDeviceLemma
<1> DEFINE t == cancle_create_connection(ZeroTimer(s))
<1>6. t \in GoodBud
  BY <1>3, CommandsLemma
<1>7. PageOr(t, Request(t, "pair"), esco) \in GoodBud
  <2> HIDE DEF t
  <2>1. Request(t, "pair") \in GoodBud
    BY <1>6, CommandsLemma DEF Procedures
  <2> QED BY <1>6, <2>1, PageOrLemma
<1>8. PageOr(t, tws_dual_conn_state_handler(t, esco), esco) \in GoodBud
  <2> HIDE DEF t
  <2>1. tws_dual_conn_state_handler(t, esco) \in GoodBud
    BY <1>6, StateHandlerLemma
  <2> QED BY <1>6, <2>1, PageOrLemma
<1>9. Request(ZeroTimer(s), "pair") \in GoodBud
  BY <1>3, CommandsLemma DEF Procedures
<1> QED BY <1>1, <1>2, <1>4, <1>5, <1>7, <1>8, <1>9 DEF RunCallback, Callbacks

-----------------------------------------------------------------------------
(* The message handlers. *)

LEMMA InitOkLemma ==
  ASSUME NEW s \in GoodBud, NEW known \in PageLists(Phones)
  PROVE  dual_conn_page_devices_init(s, known) \in GoodBud
<1>1. [k \in DOMAIN known |-> Fresh(known[k])] \in GoodList
  BY FreshListLemma
<1>2. /\ Len(known) \in Nat
      /\ (IF Len(known) = 1 THEN known[1] ELSE s.first) \in Phones \cup {NoPhone}
  <2>1. s.first \in Phones \cup {NoPhone}
    BY FieldsLemma DEF Bud
  <2>2. CASE known = << >>
    BY <2>1, <2>2
  <2>3. CASE \E p \in Phones : known = <<p>>
    BY <2>1, <2>3
  <2>4. CASE \E p, q \in Phones : known = <<p, q>>
    BY <2>1, <2>4
  <2> QED BY <2>2, <2>3, <2>4 DEF PageLists
<1> DEFINE list == [k \in DOMAIN known |-> Fresh(known[k])]
           first == IF Len(known) = 1 THEN known[1] ELSE s.first
           num == Len(known)
           timers == s.inqTimers + 1
<1>3. timers \in Nat /\ 0 \in 0 .. 2
  BY FieldsLemma DEF Bud
<1>4. dual_conn_page_devices_init(s, known)
        = [s EXCEPT !.list = list, !.recorded = num, !.first = first,
                    !.inqOff = 0, !.inqTimers = timers]
  BY DEF dual_conn_page_devices_init
<1> HIDE DEF list, first, num, timers
<1>5. [s EXCEPT !.list = list, !.recorded = num, !.first = first,
                !.inqOff = 0, !.inqTimers = timers] \in GoodBud
  BY <1>1, <1>2, <1>3 DEF GoodBud, GoodList, Bud, list, first, num
<1> QED BY <1>4, <1>5

LEMMA OneMoreLemma == ASSUME NEW s \in GoodBud PROVE OneMore(s) \in GoodBud
<1>1. (IF s.recorded = 1 THEN 2 ELSE s.recorded) \in Nat
  BY FieldsLemma DEF Bud
<1> QED BY <1>1, FieldsLemma DEF OneMore

LEMMA ConnectedLemma ==
  ASSUME NEW s \in GoodBud, NEW p \in Phones, link \in Links, role \in Roles
  PROVE  FirstConnected(s, p) \in GoodBud /\ SecondConnected(s) \in GoodBud
<1>1. FirstConnected(s, p) \in GoodBud
  <2> DEFINE t == del_device_from_page_list(DelTimer(s), p)
             u == IF link = "paired" THEN Request(t, "wait") ELSE t
             greet(x) == IF link = "connected" THEN dual_conn_try_open_inquiry_scan(x) ELSE x
             first == [u EXCEPT !.recorded = 1, !.first = p]
  <2>1. t \in GoodBud
    BY TimersLemma, ListLemma
  <2>2. u \in GoodBud
    <3> HIDE DEF t
    <3> QED BY <2>1, CommandsLemma DEF Procedures
  <2>3. first \in GoodBud
    <3> HIDE DEF u
    <3> QED BY <2>2 DEF GoodBud, Bud
  <2>4. greet(first) \in GoodBud /\ greet(u) \in GoodBud
    <3> HIDE DEF u, first
    <3> QED BY <2>2, <2>3, ScansLemma
  <2>5. /\ OneMore(u) \in GoodBud /\ WaitSecond(OneMore(u)) \in GoodBud
    <3> HIDE DEF u
    <3> QED BY <2>2, OneMoreLemma, ScansLemma
  <2>6. AddTimer(IF p # s.first THEN OneMore(t) ELSE t, "page_next_device") \in GoodBud
    <3> HIDE DEF t
    <3> QED BY <2>1, OneMoreLemma, TimersLemma DEF Callbacks
  <2>7. FirstConnected(s, p)
          = CASE remoteTest -> t
              [] ~remoteTest /\ role = "master" /\ t.list # << >> ->
                   AddTimer(IF p # s.first THEN OneMore(t) ELSE t, "page_next_device")
              [] OTHER ->
                   CASE s.recorded = 0 -> greet(first)
                     [] s.recorded = 1 /\ p = s.first -> greet(u)
                     [] OTHER -> IF role = "master" THEN WaitSecond(OneMore(u)) ELSE OneMore(u)
    BY DEF FirstConnected
  <2> HIDE DEF t, u, greet, first
  <2> QED BY <2>1, <2>2, <2>4, <2>5, <2>6, <2>7
<1>2. SecondConnected(s) \in GoodBud
  <2> DEFINE t == clr_device_in_page_list(DelTimer(OneMore(s)))
             u == IF link = "paired" THEN Request(t, "wait") ELSE t
  <2>1. DelTimer(OneMore(s)) \in GoodBud
    BY OneMoreLemma, TimersLemma
  <2>2. t \in GoodBud
    BY <2>1, ListLemma
  <2>3. u \in GoodBud
    <3> HIDE DEF t
    <3> QED BY <2>2, CommandsLemma DEF Procedures
  <2>4. write_scan_conn_enable(u, FALSE, FALSE) \in GoodBud
    <3> HIDE DEF u
    <3> QED BY <2>3, CommandsLemma
  <2> QED BY <2>3, <2>4 DEF SecondConnected
<1> QED BY <1>1, <1>2

LEMMA HciLemma ==
  ASSUME NEW s \in GoodBud, NEW m \in HciMessages, NEW esco \in BOOLEAN,
         link \in Links, role \in Roles
  PROVE  dual_conn_hci_event_handler(s, m, esco) \in GoodBud
<1>1. /\ m.mac \in Phones
      /\ m.ev \in {"connected", "rejected", "timeout", "failed", "test"}
  BY DEF HciMessages
<1>2. DelTimer(s) \in GoodBud
  BY TimersLemma
<1>3. PageCancel(clr_device_in_page_list(cancle_wait_pair(DelTimer(s)))) \in GoodBud
  <2>1. cancle_wait_pair(DelTimer(s)) \in GoodBud
    BY <1>2, CommandsLemma
  <2> QED BY <1>1, <2>1, ListLemma, CommandsLemma
<1>4. del_device_from_page_list(DelTimer(s), m.mac) \in GoodBud
  BY <1>1, <1>2, ListLemma
<1>5. tws_dual_conn_state_handler(Relist(s, m.mac), esco) \in GoodBud
  BY <1>1, ListLemma, StateHandlerLemma
<1>6. tws_dual_conn_state_handler(
        IF s.list = << >> THEN s
        ELSE [s EXCEPT !.list = Append(Tail(s.list), Head(s.list))], esco) \in GoodBud
  <2>1. ASSUME s.list # << >>
        PROVE  [s EXCEPT !.list = Append(Tail(s.list), Head(s.list))] \in GoodBud
    BY <2>1, RotateLemma, FieldsLemma
  <2> QED BY <2>1, StateHandlerLemma
<1>7. tws_dual_conn_state_handler(s, esco) \in GoodBud
  BY StateHandlerLemma
<1> QED BY <1>1, <1>3, <1>4, <1>5, <1>6, <1>7 DEF dual_conn_hci_event_handler

LEMMA RelayLemma ==
  ASSUME NEW s \in GoodBud, NEW m \in RelayMessages, NEW esco \in BOOLEAN,
         link \in Links, role \in Roles
  PROVE  rx_device_info(s, m, esco) \in GoodBud
<1>1. m.list \in PageLists(Phones) /\ m.recorded \in 0 .. 2 /\ m.inqOff \in 0 .. 2
  BY DEF RelayMessages
<1> DEFINE off == IF s.inqOff = 0 THEN InqOnWire(m.inqOff) ELSE s.inqOff
           num == NumOnWire(m.inqOff, m.recorded)
           list == IF m.full /\ (role = "slave" \/ m.list # << >>)
                   THEN [i \in DOMAIN m.list |-> Fresh(m.list[i])] ELSE s.list
           t == [s EXCEPT !.inqOff = off, !.recorded = num, !.list = list]
<1>2. off \in 0 .. 2
  BY <1>1, FieldsLemma DEF InqOnWire, Bud
<1>3. num \in Nat
  BY <1>1 DEF NumOnWire
<1>4. list \in GoodList
  BY <1>1, FreshListLemma, FieldsLemma
<1>5. t \in GoodBud
  <2> HIDE DEF off, num, list
  <2> QED BY <1>2, <1>3, <1>4 DEF GoodBud, GoodList, Bud
<1>6. rx_device_info(s, m, esco)
        = IF role = "master" THEN tws_dual_conn_state_handler(t, esco) ELSE t
  BY DEF rx_device_info
<1> HIDE DEF t
<1> QED BY <1>5, <1>6, StateHandlerLemma

LEMMA TwsLemma ==
  ASSUME NEW s \in GoodBud, NEW r \in Roles, NEW esco \in BOOLEAN,
         link \in Links, role \in Roles
  PROVE  /\ TwsConnected(s, r, esco) \in GoodBud
         /\ \A reason \in {"poweroff", "super_timeout", "other", "remove_pairs"} :
              TwsDetached(s, r, reason, esco) \in GoodBud
         /\ RoleSwitched(s, r) \in GoodBud
<1>1. PageCancel(write_scan_conn_enable(s, FALSE, FALSE)) \in GoodBud
  BY CommandsLemma
<1>2. TwsConnected(s, r, esco) \in GoodBud
  <2>1. tws_dual_conn_state_handler(s, esco) \in GoodBud
    BY StateHandlerLemma
  <2>2. PageOr(s, tws_dual_conn_state_handler(s, esco), esco) \in GoodBud
    BY <2>1, PageOrLemma
  <2> QED BY <1>1, <2>2 DEF TwsConnected
<1>3. ASSUME NEW reason \in {"poweroff", "super_timeout", "other", "remove_pairs"}
      PROVE  TwsDetached(s, r, reason, esco) \in GoodBud
  <2> DEFINE t == PageCancel(DelTimer(s))
             w == Request(t, "wait")
             open == t.recorded > 1
             waits == CASE conn = {} -> write_scan_conn_enable(w, TRUE, TRUE)
                        [] Connected = 1 -> write_scan_conn_enable(w, FALSE, open)
                        [] OTHER -> w
             cleared == IF r = "slave" THEN clr_device_in_page_list(t) ELSE t
  <2>1. t \in GoodBud
    BY TimersLemma, CommandsLemma
  <2>2. open \in BOOLEAN
    OBVIOUS
  <2> HIDE DEF t, open
  <2>3. w \in GoodBud
    BY <2>1, CommandsLemma DEF Procedures
  <2>4. waits \in GoodBud
    <3> HIDE DEF w
    <3>1. /\ write_scan_conn_enable(w, TRUE, TRUE) \in GoodBud
          /\ write_scan_conn_enable(w, FALSE, open) \in GoodBud
      BY <2>2, <2>3, CommandsLemma
    <3> QED BY <2>3, <3>1
  <2>5. cleared \in GoodBud
    <3>1. t.list \in GoodList /\ << >> \in GoodList
      BY <2>1, FieldsLemma DEF GoodList, OnceEach
    <3> QED BY <2>1, <3>1, FieldsLemma DEF clr_device_in_page_list
  <2>6. PageOr(t, waits, esco) \in GoodBud
    <3> HIDE DEF waits
    <3> QED BY <2>1, <2>4, PageOrLemma
  <2>7. /\ tws_dual_conn_state_handler(t, esco) \in GoodBud
        /\ tws_dual_conn_state_handler(cleared, esco) \in GoodBud
    <3> HIDE DEF cleared
    <3> QED BY <2>1, <2>5, StateHandlerLemma
  <2>8. write_scan_conn_enable(t, TRUE, TRUE) \in GoodBud
    BY <2>1, CommandsLemma
  <2>9. TwsDetached(s, r, reason, esco)
          = CASE goto_poweroff_flag -> t
              [] OTHER ->
                 CASE reason = "remove_pairs" ->
                        IF r = "master" /\ conn # {} THEN t
                        ELSE write_scan_conn_enable(t, TRUE, TRUE)
                   [] reason = "poweroff" -> tws_dual_conn_state_handler(t, esco)
                   [] reason = "super_timeout" -> tws_dual_conn_state_handler(cleared, esco)
                   [] reason = "other" -> PageOr(t, waits, esco)
    BY DEF TwsDetached, t, open
  <2> HIDE DEF w, waits, cleared
  <2> QED BY <2>1, <2>6, <2>7, <2>8, <2>9
<1>4. RoleSwitched(s, r) \in GoodBud
  BY <1>1 DEF RoleSwitched
<1> QED BY <1>2, <1>3, <1>4

LEMMA CloseLemma ==
  ASSUME NEW s \in GoodBud
  PROVE  tws_dual_conn_close(s) \in GoodBud /\ StartPair(s) \in GoodBud
<1>1. cancle_wait_pair(cancle_create_connection(DelTimer(s))) \in GoodBud
  BY TimersLemma, CommandsLemma
<1>2. tws_dual_conn_close(s) \in GoodBud
  <2>1. write_scan_conn_enable(
          cancle_wait_pair(cancle_create_connection(DelTimer(s))), FALSE, FALSE) \in GoodBud
    BY <1>1, CommandsLemma
  <2> QED BY <2>1, CommandsLemma DEF tws_dual_conn_close
<1>3. StartPair(s) \in GoodBud
  <2>1. DelTimer(Request(s, "search")) \in GoodBud
    BY CommandsLemma, TimersLemma DEF Procedures
  <2> QED BY <2>1, TimersLemma DEF StartPair, Callbacks
<1> QED BY <1>2, <1>3

LEMMA InquiryLemma ==
  ASSUME NEW s \in GoodBud, s.inqTimers > 0
  PROVE  close_inquiry_scan(s) \in GoodBud
<1> DEFINE t == [s EXCEPT !.inqTimers = @ - 1, !.inqOff = 1]
<1>1. t \in GoodBud
  <2> DEFINE n == s.inqTimers - 1
  <2>1. n \in Nat /\ 1 \in 0 .. 2
    BY FieldsLemma DEF Bud
  <2>2. [s EXCEPT !.inqTimers = n, !.inqOff = 1] \in GoodBud
    <3> HIDE DEF n
    <3> QED BY <2>1 DEF GoodBud, Bud
  <2> QED BY <2>2
<1>2. write_scan_conn_enable(t, FALSE, FALSE) \in GoodBud
  <2> HIDE DEF t
  <2> QED BY <1>1, CommandsLemma
<1> QED BY <1>1, <1>2 DEF close_inquiry_scan

-----------------------------------------------------------------------------
(* The invariant: the types, and each phone listed once. *)

Inv == TypeOK /\ ListedOnce

LEMMA InvIsGood == Inv => bud \in GoodBud /\ link \in Links /\ role \in Roles
BY DEF Inv, TypeOK, ListedOnce, GoodBud

LEMMA InitInv == Init => Inv
<1> SUFFICES ASSUME Init PROVE Inv
  OBVIOUS
<1>1. bud \in Bud
  <2>1. << >> \in Seq(Entry)
    OBVIOUS
  <2> QED BY <2>1 DEF Init, Bud, Closed, Scans, Procedures
<1>2. queue \in Seq(Messages)
  <2>1. /\ Stack("INIT_OK", NoPhone) \in Messages
        /\ [from |-> "app", ev |-> "TWS_PAIRED"] \in Messages
        /\ [from |-> "app", ev |-> "TWS_UNPAIRED"] \in Messages
    BY DEF Stack, Messages, StackMessages, AppMessages
  <2>2. \A m, n \in Messages : <<m, n>> \in Seq(Messages)
    OBVIOUS
  <2>3. \/ queue = <<Stack("INIT_OK", NoPhone), [from |-> "app", ev |-> "TWS_PAIRED"]>>
        \/ queue = <<Stack("INIT_OK", NoPhone), [from |-> "app", ev |-> "TWS_UNPAIRED"]>>
    BY DEF Init
  <2> QED BY <2>1, <2>2, <2>3
<1>3. OnceEach(bud.list)
  BY DEF Init, OnceEach
<1> QED BY <1>1, <1>2, <1>3 DEF Init, Inv, TypeOK, ListedOnce, Links, Roles, Phases

\* A step of the engine: the bud becomes a good one and the message, if the step
\* handles one, leaves the queue.
LEMMA DeliverLemma ==
  ASSUME Inv, NEW s \in GoodBud, Deliver(s), queue' \in Seq(Messages)
  PROVE  Inv'
BY DEF Inv, TypeOK, ListedOnce, Deliver, GoodBud

LEMMA HandleLemma ==
  ASSUME Inv, NEW from \in {"stack", "hci", "tws", "relay", "app"}, Handle(from)
  PROVE  /\ queue' \in Seq(Messages)
         /\ Head(queue) \in CASE from = "stack" -> StackMessages
                              [] from = "hci" -> HciMessages
                              [] from = "tws" -> TwsMessages
                              [] from = "relay" -> RelayMessages
                              [] from = "app" -> AppMessages
<1>1. queue \in Seq(Messages) /\ queue # << >>
  BY DEF Inv, TypeOK, Handle
<1>2. Head(queue) \in Messages /\ Tail(queue) \in Seq(Messages)
  BY <1>1, HeadTailProperties
<1>3. Head(queue).from = from /\ queue' = Tail(queue)
  BY DEF Handle
<1>4. \A m \in Messages :
        /\ m.from = "stack" => m \in StackMessages
        /\ m.from = "hci" => m \in HciMessages
        /\ m.from = "tws" => m \in TwsMessages
        /\ m.from = "relay" => m \in RelayMessages
        /\ m.from = "app" => m \in AppMessages
  BY DEF Messages, StackMessages, HciMessages, TwsMessages, RelayMessages, AppMessages
<1> QED BY <1>2, <1>3, <1>4

LEMMA PostLemma ==
  ASSUME Inv, NEW msgs \in Seq(Messages), Post(msgs)
  PROVE  queue' \in Seq(Messages)
BY DEF Inv, TypeOK, Post

LEMMA EngineInv ==
  ASSUME Inv, Engine
  PROVE  Inv'
<1> USE InvIsGood
<1>1. CASE BtStackMsg
  <2> DEFINE m == Head(queue)
  <2>1. m \in StackMessages /\ queue' \in Seq(Messages)
    BY <1>1, HandleLemma DEF BtStackMsg
  <2>2. CASE m.ev = "INIT_OK"
    <3>1. PICK known \in PageLists(Phones) : bud' = dual_conn_page_devices_init(bud, known)
      BY <1>1, <2>2 DEF BtStackMsg
    <3>2. bud' \in GoodBud
      BY <3>1, InitOkLemma
    <3>3. phase' = "run" /\ UNCHANGED <<acl, conn, link, role, remoteTest>>
      BY <1>1, <2>2 DEF BtStackMsg
    <3> QED BY <2>1, <3>2, <3>3 DEF Inv, TypeOK, ListedOnce, GoodBud, Phases
  <2>3. CASE m.ev = "FIRST_CONNECTED"
    <3>1. m.mac \in Phones
      BY <2>1, <2>3 DEF StackMessages
    <3>2. Deliver(FirstConnected(bud, m.mac))
      BY <1>1, <2>3 DEF BtStackMsg
    <3> HIDE DEF m
    <3> QED BY <2>1, <3>1, <3>2, ConnectedLemma, DeliverLemma
  <2>4. CASE m.ev = "SECOND_CONNECTED"
    <3>1. m.mac \in Phones
      BY <2>1, <2>4 DEF StackMessages
    <3>2. Deliver(SecondConnected(bud))
      BY <1>1, <2>4 DEF BtStackMsg
    <3> HIDE DEF m
    <3> QED BY <2>1, <3>1, <3>2, ConnectedLemma, DeliverLemma
  <2> QED BY <2>1, <2>2, <2>3, <2>4 DEF StackMessages
<1>2. CASE HciMsg
  <2>1. Head(queue) \in HciMessages /\ queue' \in Seq(Messages)
    BY <1>2, HandleLemma DEF HciMsg
  <2>2. PICK esco \in BOOLEAN : Deliver(dual_conn_hci_event_handler(bud, Head(queue), esco))
    BY <1>2 DEF HciMsg
  <2>3. dual_conn_hci_event_handler(bud, Head(queue), esco) \in GoodBud
    BY <2>1, HciLemma
  <2> QED BY <2>1, <2>2, <2>3, DeliverLemma
<1>3. CASE TwsMsg
  <2> DEFINE m == Head(queue)
  <2>1. m \in TwsMessages /\ queue' \in Seq(Messages)
    BY <1>3, HandleLemma DEF TwsMsg
  <2>2. /\ m.role \in Roles
        /\ m.ev \in {"CONNECTED", "DETACH", "ROLE_SWITCH"}
        /\ m.ev = "DETACH" => m.reason \in {"poweroff", "super_timeout", "other", "remove_pairs"}
    BY <2>1 DEF TwsMessages
  <2>3. PICK esco \in BOOLEAN :
          \/ m.ev = "CONNECTED" /\ Deliver(TwsConnected(bud, m.role, esco))
          \/ m.ev = "DETACH" /\ Deliver(TwsDetached(bud, m.role, m.reason, esco))
          \/ m.ev = "ROLE_SWITCH" /\ Deliver(RoleSwitched(bud, m.role))
    BY <1>3 DEF TwsMsg
  <2> HIDE DEF m
  <2>4. /\ TwsConnected(bud, m.role, esco) \in GoodBud
        /\ m.ev = "DETACH" => TwsDetached(bud, m.role, m.reason, esco) \in GoodBud
        /\ RoleSwitched(bud, m.role) \in GoodBud
    BY <2>2, TwsLemma
  <2> QED BY <2>1, <2>3, <2>4, DeliverLemma
<1>4. CASE RelayMsg
  <2>1. Head(queue) \in RelayMessages /\ queue' \in Seq(Messages)
    BY <1>4, HandleLemma DEF RelayMsg
  <2>2. PICK esco \in BOOLEAN : Deliver(rx_device_info(bud, Head(queue), esco))
    BY <1>4 DEF RelayMsg
  <2>3. rx_device_info(bud, Head(queue), esco) \in GoodBud
    BY <2>1, RelayLemma
  <2> QED BY <2>1, <2>2, <2>3, DeliverLemma
<1>5. CASE AppMsg
  <2> DEFINE m == Head(queue)
  <2>1. m \in AppMessages /\ queue' \in Seq(Messages)
    BY <1>5, HandleLemma DEF AppMsg
  <2>2. /\ AddTimer(Request(bud, "create"), "tws_create_conn_timeout") \in GoodBud
        /\ AddTimer(Request(bud, "auto"), "tws_pair_timeout") \in GoodBud
    BY CommandsLemma, TimersLemma DEF Procedures, Callbacks
  <2>3. CASE m.ev = "TWS_PAIRED"
    <3>1. Deliver(AddTimer(Request(bud, "create"), "tws_create_conn_timeout"))
      BY <1>5, <2>3 DEF AppMsg
    <3> QED BY <2>1, <2>2, <3>1, DeliverLemma
  <2>4. CASE m.ev = "TWS_UNPAIRED"
    <3>1. Deliver(AddTimer(Request(bud, "auto"), "tws_pair_timeout"))
      BY <1>5, <2>4 DEF AppMsg
    <3> QED BY <2>1, <2>2, <3>1, DeliverLemma
  <2>5. CASE m.ev = "TWS_START_PAIR" /\ link # "connected"
    <3>1. /\ bud' = StartPair(bud) /\ link' = "unpaired"
          /\ UNCHANGED <<acl, conn, role, phase, remoteTest>>
      BY <1>5, <2>5 DEF AppMsg
    <3>2. bud' \in GoodBud
      BY <3>1, CloseLemma
    <3> QED BY <2>1, <3>1, <3>2 DEF Inv, TypeOK, ListedOnce, GoodBud, Links
  <2>6. CASE m.ev = "TWS_START_PAIR" /\ link = "connected"
    <3>1. Deliver(bud)
      BY <1>5, <2>6 DEF AppMsg
    <3> QED BY <2>1, <3>1, DeliverLemma
  <2> QED BY <2>1, <2>3, <2>4, <2>5, <2>6 DEF AppMessages
<1>6. CASE MainTimer
  <2>1. PICK esco \in BOOLEAN :
          Deliver(RunCallback([bud EXCEPT !.timer = "stale"], bud.timer, esco))
    BY <1>6 DEF MainTimer
  <2>2. bud.timer \in Callbacks /\ queue' = queue
    BY <1>6 DEF MainTimer
  <2>3. [bud EXCEPT !.timer = "stale"] \in GoodBud
    BY FieldsLemma
  <2>4. RunCallback([bud EXCEPT !.timer = "stale"], bud.timer, esco) \in GoodBud
    BY <2>2, <2>3, CallbackLemma
  <2>5. queue' \in Seq(Messages)
    BY <2>2 DEF Inv, TypeOK
  <2> QED BY <2>1, <2>4, <2>5, DeliverLemma
<1>7. CASE LooseTimer
  <2>1. PICK cb \in bud.loose, esco \in BOOLEAN :
          Deliver(RunCallback([bud EXCEPT !.loose = @ \ {cb}], cb, esco))
    BY <1>7 DEF LooseTimer
  <2>2. bud.loose \in SUBSET Callbacks
    BY FieldsLemma DEF Bud
  <2>3. bud.loose \ {cb} \in SUBSET Callbacks /\ cb \in Callbacks
    BY <2>1, <2>2
  <2>4. [bud EXCEPT !.loose = @ \ {cb}] \in GoodBud
    BY <2>3, FieldsLemma
  <2>5. RunCallback([bud EXCEPT !.loose = @ \ {cb}], cb, esco) \in GoodBud
    BY <2>3, <2>4, CallbackLemma
  <2>6. queue' \in Seq(Messages)
    BY <1>7 DEF LooseTimer, Inv, TypeOK
  <2> QED BY <2>1, <2>5, <2>6, DeliverLemma
<1>8. ASSUME NEW over \in BOOLEAN, PageTimer(over) PROVE Inv'
  <2>1. PICK i \in DOMAIN bud.list, esco \in BOOLEAN :
          Deliver(dual_conn_page_device_timeout(bud, i, over, esco))
    BY <1>8 DEF PageTimer
  <2>2. dual_conn_page_device_timeout(bud, i, over, esco) \in GoodBud
    BY PageTimeoutLemma
  <2>3. queue' \in Seq(Messages)
    BY <1>8 DEF PageTimer, Inv, TypeOK
  <2> QED BY <2>1, <2>2, <2>3, DeliverLemma
<1>9. CASE InquiryTimer
  <2>1. Deliver(close_inquiry_scan(bud)) /\ bud.inqTimers > 0
    BY <1>9 DEF InquiryTimer
  <2>2. close_inquiry_scan(bud) \in GoodBud
    BY <2>1, InquiryLemma
  <2>3. queue' \in Seq(Messages)
    BY <1>9 DEF InquiryTimer, Inv, TypeOK
  <2> QED BY <2>1, <2>2, <2>3, DeliverLemma
<1> QED BY <1>1, <1>2, <1>3, <1>4, <1>5, <1>6, <1>7, <1>8, <1>9 DEF Engine

LEMMA RelaysLemma ==
  ASSUME NEW m \in Relays
  PROVE  \E n \in 0 .. 2, off \in Flags, list \in PageLists(Phones \ acl) :
           m = Relay(TRUE, n, off, list)
<1> DEFINE R(n, off, list) == Relay(TRUE, n, off, list)
<1>1. Relays = {R(n, off, list) : n \in 0 .. 2, off \in Flags, list \in PageLists(Phones \ acl)}
  BY DEF Relays
<1> HIDE DEF R
<1>2. \E n \in 0 .. 2, off \in Flags, list \in PageLists(Phones \ acl) : m = R(n, off, list)
  BY <1>1
<1> QED BY <1>2 DEF R

\* What the environment posts is of the right type.
LEMMA MessagesLemma ==
  /\ \A p \in Phones : \A ev \in {"connected", "rejected", "timeout", "failed", "test"} :
       <<Hci(ev, p)>> \in Seq(Messages)
  /\ \A p \in Phones : \A ev \in {"FIRST_CONNECTED", "SECOND_CONNECTED"} :
       <<Stack(ev, p)>> \in Seq(Messages)
  /\ Stack("INIT_OK", NoPhone) \in Messages
  /\ \A r \in Roles : /\ Tws("CONNECTED", r, "none") \in Messages
                      /\ Tws("ROLE_SWITCH", r, "none") \in Messages
                      /\ \A reason \in {"poweroff", "super_timeout", "other", "remove_pairs"} :
                           Tws("DETACH", r, reason) \in Messages
  /\ \A ev \in {"TWS_PAIRED", "TWS_UNPAIRED", "TWS_START_PAIR"} :
       [from |-> "app", ev |-> ev] \in Messages
  /\ acl \subseteq Phones => \A m \in Relays : m \in Messages
  /\ \A n \in 0 .. 2 : Relay(FALSE, n, 1, << >>) \in Messages
  /\ \A m, n \in Messages : <<m>> \in Seq(Messages) /\ <<m, n>> \in Seq(Messages)
<1>1. \A p \in Phones : \A ev \in {"connected", "rejected", "timeout", "failed", "test"} :
        Hci(ev, p) \in Messages
  BY DEF Hci, Messages, HciMessages
<1>2. \A p \in Phones : \A ev \in {"FIRST_CONNECTED", "SECOND_CONNECTED"} :
        Stack(ev, p) \in Messages
  BY DEF Stack, Messages, StackMessages
<1>3. Stack("INIT_OK", NoPhone) \in Messages
  BY DEF Stack, Messages, StackMessages
<1>4. ASSUME NEW r \in Roles
      PROVE  /\ Tws("CONNECTED", r, "none") \in Messages
             /\ Tws("ROLE_SWITCH", r, "none") \in Messages
             /\ \A reason \in {"poweroff", "super_timeout", "other", "remove_pairs"} :
                  Tws("DETACH", r, reason) \in Messages
  BY DEF Tws, Messages, TwsMessages
<1>5. \A ev \in {"TWS_PAIRED", "TWS_UNPAIRED", "TWS_START_PAIR"} :
        [from |-> "app", ev |-> ev] \in Messages
  BY DEF Messages, AppMessages
<1>6. ASSUME acl \subseteq Phones, NEW m \in Relays PROVE m \in Messages
  <2>1. PICK n \in 0 .. 2, off \in Flags, list \in PageLists(Phones \ acl) :
          m = Relay(TRUE, n, off, list)
    BY RelaysLemma
  <2>2. off \in 0 .. 2
    BY DEF Flags
  <2>3. list \in PageLists(Phones)
    <3>1. IsInjective(list)
      BY DEF PageLists
    <3>2. CASE list = << >>
      BY <3>1, <3>2 DEF PageLists
    <3>3. CASE \E p \in Phones \ acl : list = <<p>>
      BY <3>1, <3>3 DEF PageLists
    <3>4. CASE \E p, q \in Phones \ acl : list = <<p, q>>
      BY <3>1, <3>4 DEF PageLists
    <3> QED BY <3>2, <3>3, <3>4 DEF PageLists
  <2> QED BY <2>1, <2>2, <2>3 DEF Relay, Messages, RelayMessages
<1>7. \A n \in 0 .. 2 : Relay(FALSE, n, 1, << >>) \in Messages
  <2>1. << >> \in PageLists(Phones)
    BY DEF PageLists, IsInjective
  <2> QED BY <2>1 DEF Relay, Messages, RelayMessages
<1>8. \A m, n \in Messages : <<m>> \in Seq(Messages) /\ <<m, n>> \in Seq(Messages)
  OBVIOUS
<1> HIDE DEF Messages
<1> QED BY <1>1, <1>2, <1>3, <1>4, <1>5, <1>6, <1>7, <1>8

\* The stack, the phones and the sibling touch the bud only through the page it
\* has started, or by closing it.
LEMMA EnvironmentInv ==
  ASSUME Inv, Environment
  PROVE  Inv'
<1> USE InvIsGood, MessagesLemma
<1>0. acl \subseteq Phones /\ conn \subseteq acl /\ queue \in Seq(Messages)
  BY DEF Inv, TypeOK
<1>1. ASSUME NEW p \in Phones, PhoneLinks(p) PROVE Inv'
  <2>1. bud' \in GoodBud
    BY <1>1, CommandsLemma DEF PhoneLinks
  <2>2. queue' \in Seq(Messages)
    BY <1>1, PostLemma DEF PhoneLinks
  <2> QED BY <1>0, <1>1, <2>1, <2>2 DEF PhoneLinks, Inv, TypeOK, ListedOnce, GoodBud
<1>2. ASSUME NEW p \in Phones, PhoneConnects(p) PROVE Inv'
  <2>1. queue' \in Seq(Messages)
    BY <1>2, PostLemma DEF PhoneConnects
  <2> QED BY <1>0, <1>2, <2>1 DEF PhoneConnects, Inv, TypeOK, ListedOnce
<1>3. ASSUME NEW p \in Phones, PhoneLost(p) PROVE Inv'
  <2>1. queue' \in Seq(Messages)
    BY <1>3, PostLemma DEF PhoneLost
  <2> QED BY <1>0, <1>3, <2>1 DEF PhoneLost, Inv, TypeOK, ListedOnce
<1>4. CASE PageFails
  <2>1. bud.paging \in Phones /\ bud' \in GoodBud
    BY <1>4, FieldsLemma, CommandsLemma DEF PageFails, Bud
  <2>2. queue' \in Seq(Messages)
    BY <1>4, <2>1, PostLemma DEF PageFails
  <2> QED BY <1>0, <1>4, <2>1, <2>2 DEF PageFails, Inv, TypeOK, ListedOnce, GoodBud
<1>5. CASE SiblingConnects
  <2>1. queue' \in Seq(Messages)
    <3>1. CASE Post(<<Tws("CONNECTED", "master", "none")>>)
      BY <3>1, PostLemma DEF Roles
    <3>2. CASE \E m \in Relays : Post(<<Tws("CONNECTED", "slave", "none"), m>>)
      BY <1>0, <3>2, PostLemma DEF Roles
    <3> QED BY <1>5, <3>1, <3>2 DEF SiblingConnects
  <2> QED BY <1>0, <1>5, <2>1 DEF SiblingConnects, Inv, TypeOK, ListedOnce, Links, Roles
<1>6. CASE SiblingDetaches
  <2>1. queue' \in Seq(Messages)
    BY <1>6, PostLemma DEF SiblingDetaches
  <2>2. /\ link' \in Links /\ role' \in Roles /\ acl' \in {acl, {}}
        /\ conn' = {} \/ (acl' = acl /\ conn' = conn)
    BY <1>6 DEF SiblingDetaches, Detach, Links, Roles
  <2> QED BY <1>0, <1>6, <2>1, <2>2 DEF SiblingDetaches, Inv, TypeOK, ListedOnce
<1>7. CASE RolesSwitch
  <2> DEFINE r == IF role = "master" THEN "slave" ELSE "master"
             ev == Tws("ROLE_SWITCH", r, "none")
  <2>0. r \in Roles /\ ev \in Messages
    BY DEF Roles
  <2>1. queue' \in Seq(Messages)
    <3> HIDE DEF r
    <3>1. CASE Post(<<ev>>)
      BY <2>0, <3>1, PostLemma
    <3>2. CASE \E m \in Relays : Post(<<ev, m>>) \/ Post(<<m, ev>>)
      BY <1>0, <2>0, <3>2, PostLemma
    <3>3. CASE Post(<<ev, Tws("DETACH", r, "super_timeout")>>)
      BY <2>0, <3>3, PostLemma
    <3> QED BY <1>7, <3>1, <3>2, <3>3 DEF RolesSwitch, r
  <2>2. /\ link' \in Links /\ role' \in Roles /\ acl' \in {acl, {}}
        /\ conn' = {} \/ (acl' = acl /\ conn' = conn)
        /\ UNCHANGED <<bud, phase, remoteTest>>
    BY <1>7, <2>0 DEF RolesSwitch, Detach, Links, Roles
  <2> QED BY <1>0, <2>1, <2>2 DEF Inv, TypeOK, ListedOnce
<1>8. CASE SiblingClosesInquiry
  <2>1. queue' \in Seq(Messages)
    BY <1>8, PostLemma DEF SiblingClosesInquiry
  <2> QED BY <1>8, <2>1 DEF SiblingClosesInquiry, Inv, TypeOK, ListedOnce
<1>9. CASE KeyStartPair
  <2>1. queue' \in Seq(Messages)
    BY <1>9, PostLemma DEF KeyStartPair
  <2> QED BY <1>9, <2>1 DEF KeyStartPair, Inv, TypeOK, ListedOnce
<1>10. CASE TestBox
  <2>1. queue' \in Seq(Messages)
    BY <1>0, <1>10, PostLemma DEF TestBox
  <2> QED BY <1>10, <2>1 DEF TestBox, Inv, TypeOK, ListedOnce
<1>11. CASE SoftPoweroff \/ BtModeExit
  <2>1. bud' \in GoodBud /\ phase' \in Phases
        /\ UNCHANGED <<queue, acl, conn, link, role, remoteTest>>
    BY <1>11, CloseLemma DEF SoftPoweroff, BtModeExit, Phases
  <2> QED BY <2>1 DEF Inv, TypeOK, ListedOnce, GoodBud
<1>12. CASE BtModeInit
  <2>1. bud' \in GoodBud
    <3>1. [bud EXCEPT !.scan = Closed, !.paging = NoPhone, !.lib = "none"] \in GoodBud
      BY DEF GoodBud, Bud, Closed, Scans, Procedures
    <3> QED BY <1>12, <3>1 DEF BtModeInit
  <2>2. queue' \in Seq(Messages)
    BY <1>12, PostLemma DEF BtModeInit
  <2> QED BY <1>12, <2>1, <2>2 DEF BtModeInit, Inv, TypeOK, ListedOnce, GoodBud, Phases
<1> QED BY <1>1, <1>2, <1>3, <1>4, <1>5, <1>6, <1>7, <1>8, <1>9, <1>10, <1>11, <1>12
        DEF Environment

LEMMA StepInv == Inv /\ [Next]_vars => Inv'
<1>1. ASSUME Inv, UNCHANGED vars PROVE Inv'
  BY <1>1 DEF vars, Inv, TypeOK, ListedOnce
<1> QED BY <1>1, EngineInv, EnvironmentInv DEF Next

\* The invariant, for any phones, any configuration and any bound on the queue.
THEOREM Invariant == Spec => []Inv
BY InitInv, StepInv, PTL DEF Spec

\* The engine and its queue keep their types (g_dual_conn, struct page_device_info).
THEOREM TypesKept == Spec => []TypeOK
<1>1. Inv => TypeOK
  BY DEF Inv
<1> QED BY <1>1, Invariant, PTL

\* No phone is ever listed twice, whatever the order of connections, losses,
\* timeouts and relayed lists (add_device_2_page_list, dual_conn_page_device_timeout,
\* rx_device_info).
THEOREM PhoneListedOnce == Spec => []ListedOnce
<1>1. Inv => ListedOnce
  BY DEF Inv
<1> QED BY <1>1, Invariant, PTL

=============================================================================
