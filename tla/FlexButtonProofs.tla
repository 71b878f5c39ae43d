-------------------------- MODULE FlexButtonProofs --------------------------
(***************************************************************************)
(* Proofs about FlexButton, for any set of buttons, any thresholds in the  *)
(* order TicksAssumption states and any width of the counter.              *)
(*                                                                         *)
(* The inductive invariant says, per status, how the button's count is     *)
(* tied to the press it belongs to: while the count has not wrapped it is  *)
(* the number of scans the button has been down, and the status tells      *)
(* between which two thresholds that number lies.                          *)
(***************************************************************************)
EXTENDS FlexButton, TLAPS

Wrapped(p) == p.held >= CntMod - 1

\* Down: the count is one behind the scans held, and the start events
\* reported are those of the thresholds passed.
DownInv(s, p) ==
    /\ s.status \in {1, 4, 5, 6} => ~p.lifted /\ s.click_cnt = 0 /\ p.edges >= 1
    /\ s.status \in {1, 4, 5} => p.held = s.scan_cnt + 1
    /\ s.status = 1 => p.stage = "NONE" /\ s.scan_cnt < ShortTick
    /\ s.status = 4 => /\ p.stage = "SHORT_START"
                       /\ ShortTick <= s.scan_cnt /\ s.scan_cnt < LongTick
    /\ s.status = 5 => /\ p.stage = "LONG_START"
                       /\ LongTick <= s.scan_cnt /\ s.scan_cnt < HoldTick
    /\ s.status = 6 => /\ p.stage = "LONG_HOLD"
                       /\ HoldTick < p.held
                       /\ Wrapped(p) \/ p.held = s.scan_cnt + 1

\* The stage a press of p.held scans has reached when it ends.
StageOf(p) ==
    /\ p.stage = "NONE"        => p.held <= ShortTick
    /\ p.stage = "SHORT_START" => ShortTick < p.held /\ p.held <= LongTick
    /\ p.stage = "LONG_START"  => LongTick < p.held /\ p.held <= HoldTick
    /\ p.stage = "LONG_HOLD"   => HoldTick < p.held

\* Up: the first time with the count of the press, later with the count of
\* the double-click window.
UpInv(s, p) ==
    /\ s.status \in {2, 3} => p.lifted /\ p.edges >= 1
    /\ s.status = 2 /\ s.click_cnt = 0 =>
          /\ StageOf(p)
          /\ Wrapped(p) \/ s.scan_cnt = p.held
    /\ s.status = 3 \/ (s.status = 2 /\ s.click_cnt > 0) =>
          Wrapped(p) \/ (p.stage = "NONE" /\ p.held < ClickTick - 1)
    /\ s.status = 3 => s.click_cnt = 1 /\ s.scan_cnt < ClickTick
    /\ s.status = 2 /\ s.click_cnt = 1 => s.scan_cnt = ClickTick
    /\ s.status = 2 /\ s.click_cnt = 2 => s.scan_cnt < ClickTick /\ p.edges >= 2

\* What the callback was told last.
ToldInv(s, p) ==
    s.called /\ s.event \in FinalEvents =>
       /\ EndFits(s.event, p)
       /\ s.event = "DOUBLE_CLICK" =>
             (p.edges >= 2 /\ p.held < ClickTick - 1) \/ Wrapped(p)

ButtonInv(b) ==
    /\ DownInv(btn[b], press[b])
    /\ UpInv(btn[b], press[b])
    /\ ToldInv(btn[b], press[b])

IInv == TypeOK /\ \A b \in Buttons : ButtonInv(b)

-----------------------------------------------------------------------------
ButtonType == [status : 0 .. 6, event : Events, scan_cnt : 0 .. (CntMod - 1),
               click_cnt : 0 .. 2, called : BOOLEAN]

PressType == [held : 0 .. CntMod, lifted : BOOLEAN, edges : 0 .. 3,
              stage : {"NONE"} \cup StartEvents]

OneInv(s, p) == DownInv(s, p) /\ UpInv(s, p) /\ ToldInv(s, p)

\* The button's record, field by field, after a scan that called the
\* callback (Told) or did not (Quiet).
Fields(t, status, event, scan_cnt, click_cnt) ==
    /\ t \in ButtonType
    /\ t.status = status /\ t.event = event /\ t.scan_cnt = scan_cnt
    /\ t.click_cnt = click_cnt
Told(t, status, event, scan_cnt, click_cnt) ==
    Fields(t, status, event, scan_cnt, click_cnt) /\ t.called
Quiet(t, status, event, scan_cnt, click_cnt) ==
    Fields(t, status, event, scan_cnt, click_cnt) /\ ~t.called

\* What flex_button_process makes of a button, by its status and the level
\* of its pin; n is the advanced count.
ProcessSpec(s, down, edge, n, t) ==
    /\ n \in 0 .. (CntMod - 1)
    /\ s.status = 0 /\ edge => Told(t, 1, "DOWN", 0, 0)
    /\ s.status = 0 /\ ~edge => Quiet(t, 0, "NONE", s.scan_cnt, s.click_cnt)
    /\ s.status \in {1, 4, 5, 6} /\ ~down => Quiet(t, 2, s.event, n, s.click_cnt)
    /\ s.status = 1 /\ down /\ n \in ShortTick .. (LongTick - 1)
          => Told(t, 4, "SHORT_START", n, s.click_cnt)
    /\ s.status = 1 /\ down /\ n \notin ShortTick .. (LongTick - 1)
          => Quiet(t, 1, s.event, n, s.click_cnt)
    /\ s.status = 4 /\ down /\ n \in LongTick .. (HoldTick - 1)
          => Told(t, 5, "LONG_START", n, s.click_cnt)
    /\ s.status = 4 /\ down /\ n \notin LongTick .. (HoldTick - 1)
          => Quiet(t, 4, s.event, n, s.click_cnt)
    /\ s.status = 5 /\ down /\ n >= HoldTick
          => Told(t, 6, "LONG_HOLD", n, s.click_cnt)
    /\ s.status = 5 /\ down /\ n < HoldTick
          => Quiet(t, 5, s.event, n, s.click_cnt)
    /\ s.status = 6 /\ down => Quiet(t, 6, s.event, n, s.click_cnt)
    /\ s.status = 2 /\ n < ClickTick /\ s.click_cnt = 0
          => Quiet(t, 3, s.event, n, 1)
    /\ s.status = 2 /\ n < ClickTick /\ s.click_cnt # 0
          => Told(t, 0, "DOUBLE_CLICK", n, 0)
    /\ s.status = 2 /\ n >= ClickTick
          => Told(t, 0, UpEvent(n), n, 0)
    /\ s.status = 3 /\ edge => Quiet(t, 2, s.event, n - 1, 2)
    /\ s.status = 3 /\ ~edge /\ n >= ClickTick
          => Quiet(t, 2, s.event, n, s.click_cnt)
    /\ s.status = 3 /\ ~edge /\ n < ClickTick
          => Quiet(t, 3, s.event, n, s.click_cnt)

\* flex_button_process does that.
LEMMA ProcessFields ==
    ASSUME NEW s \in ButtonType, NEW down \in BOOLEAN, NEW edge \in BOOLEAN,
           s.status = 3 => s.scan_cnt < ClickTick /\ s.click_cnt = 1,
           NEW n, n = Inc(s.scan_cnt, CntMod),
           NEW t, t = Process(s, down, edge)
    PROVE  ProcessSpec(s, down, edge, n, t)
<1> DEFINE c == Count(s)
<1> USE TicksAssumption
<1>1. n \in 0 .. (CntMod - 1)
  BY DEF Inc, ButtonType
<1>2. /\ s.status = 0 => Quiet(c, 0, s.event, s.scan_cnt, s.click_cnt)
      /\ s.status > 0 => Quiet(c, s.status, s.event, n, s.click_cnt)
  BY <1>1 DEF Count, Button, Told, Quiet, Fields, ButtonType
<1>3. UpEvent(n) \in Events
  BY <1>1 DEF UpEvent, Events, FinalEvents, UpEvents
<1> HIDE DEF c
<1>4. CASE s.status = 0
  <2>1. t = Default(c, edge)
    BY <1>4 DEF Process, c
  <2> QED BY <1>1, <1>2, <1>4, <2>1 DEF ProcessSpec, Default, Button, Told,
         Quiet, Fields, ButtonType, Events
<1>5. CASE s.status = 1
  <2>1. t = Pressed(c, down)
    BY <1>5 DEF Process, c
  <2> QED BY <1>1, <1>2, <1>5, <2>1 DEF ProcessSpec, Pressed, Silent, Report,
         Button, Told, Quiet, Fields, ButtonType, Events, StartEvents
<1>6. CASE s.status = 2
  <2>1. t = Up(c)
    BY <1>6 DEF Process, c
  <2> QED BY <1>1, <1>2, <1>3, <1>6, <2>1 DEF ProcessSpec, Up, ReportEnd,
         Button, Told, Quiet, Fields, ButtonType, Events, FinalEvents
<1>7. CASE s.status = 3
  <2>1. t = DoubleClickCheck(c, edge)
    BY <1>7 DEF Process, c
  <2>2. n = s.scan_cnt + 1
    BY <1>7 DEF Inc, ButtonType
  <2> QED BY <1>1, <1>2, <1>7, <2>1, <2>2 DEF ProcessSpec, DoubleClickCheck,
         Silent, Button, Told, Quiet, Fields, ButtonType
<1>8. CASE s.status = 4
  <2>1. t = ShortPressed(c, down)
    BY <1>8 DEF Process, c
  <2> QED BY <1>1, <1>2, <1>8, <2>1 DEF ProcessSpec, ShortPressed, Silent,
         Report, Button, Told, Quiet, Fields, ButtonType, Events, StartEvents
<1>9. CASE s.status = 5
  <2>1. t = LongPressed(c, down)
    BY <1>9 DEF Process, c
  <2> QED BY <1>1, <1>2, <1>9, <2>1 DEF ProcessSpec, LongPressed, Silent,
         Report, Button, Told, Quiet, Fields, ButtonType, Events, StartEvents
<1>10. CASE s.status = 6
  <2>1. t = HoldPressed(c, down)
    BY <1>10 DEF Process, c
  <2> QED BY <1>1, <1>2, <1>10, <2>1 DEF ProcessSpec, HoldPressed, Silent,
         Button, Told, Quiet, Fields, ButtonType
<1>11. s.status \in 0 .. 6
  BY DEF ButtonType
<1> QED BY <1>1, <1>4, <1>5, <1>6, <1>7, <1>8, <1>9, <1>10, <1>11 DEF
       ProcessSpec

\* What Watch makes of the history of a press.
WatchSpec(p, t, down, edge, q) ==
    /\ q \in PressType
    /\ t.called /\ t.event = "DOWN" =>
          q.held = 1 /\ ~q.lifted /\ q.edges = 1 /\ q.stage = "NONE"
    /\ ~(t.called /\ t.event = "DOWN") =>
          /\ q.lifted <=> (p.lifted \/ ~down)
          /\ down /\ ~p.lifted =>
                q.held = IF p.held + 1 > CntMod THEN CntMod ELSE p.held + 1
          /\ ~down \/ p.lifted => q.held = p.held
          /\ q.edges >= p.edges
          /\ edge /\ p.edges >= 1 => q.edges >= 2
          /\ q.stage = IF t.called /\ t.event \in StartEvents THEN t.event ELSE p.stage

\* Watch does that.
LEMMA WatchFields ==
    ASSUME NEW p \in PressType, NEW t \in ButtonType,
           NEW down \in BOOLEAN, NEW edge \in BOOLEAN,
           NEW q, q = Watch(p, t, down, edge)
    PROVE  WatchSpec(p, t, down, edge, q)
<1> USE TicksAssumption
<1>1. CASE t.called /\ t.event = "DOWN"
  BY <1>1 DEF Watch, WatchSpec, PressType
<1>2. CASE ~(t.called /\ t.event = "DOWN")
  <2> DEFINE held == IF down /\ ~p.lifted THEN AtMost(p.held + 1, CntMod) ELSE p.held
             lifted == p.lifted \/ ~down
             edges == IF edge THEN AtMost(p.edges + 1, 3) ELSE p.edges
             stage == IF t.called /\ t.event \in StartEvents THEN t.event ELSE p.stage
  <2>1. q = [held |-> held, lifted |-> lifted, edges |-> edges, stage |-> stage]
    BY <1>2 DEF Watch
  <2>2. held \in 0 .. CntMod /\ edges \in 0 .. 3
    BY DEF PressType, AtMost
  <2>3. stage \in {"NONE"} \cup StartEvents /\ lifted \in BOOLEAN
    BY DEF PressType
  <2>4. q \in PressType
    BY <2>1, <2>2, <2>3 DEF PressType
  <2>5. q.held = held /\ q.edges = edges /\ q.stage = stage
    BY <2>1
  <2>6. q.lifted = lifted
    BY <2>1
  <2>7. q.edges >= p.edges /\ (edge /\ p.edges >= 1 => q.edges >= 2)
    BY <2>5 DEF PressType, AtMost
  <2>8. /\ down /\ ~p.lifted =>
              q.held = IF p.held + 1 > CntMod THEN CntMod ELSE p.held + 1
        /\ ~down \/ p.lifted => q.held = p.held
    BY <2>5 DEF AtMost
  <2>9. q.lifted <=> (p.lifted \/ ~down)
    BY <2>6
  <2> QED BY <1>2, <2>4, <2>5, <2>7, <2>8, <2>9 DEF WatchSpec
<1> QED BY <1>1, <1>2

\* One pass of flex_button_process over one button keeps its fields in
\* range and the invariant true, whatever level its pin has, and reports
\* the thresholds in order.
LEMMA ProcessStep ==
    ASSUME NEW s \in ButtonType, NEW p \in PressType, OneInv(s, p),
           NEW down \in BOOLEAN, NEW edge \in BOOLEAN,
           NEW t, t = Process(s, down, edge),
           NEW q, q = Watch(p, t, down, edge)
    PROVE  /\ t \in ButtonType /\ q \in PressType
           /\ OneInv(t, q)
           /\ t.called =>
                 /\ t.event = "SHORT_START" => p.stage = "NONE"
                 /\ t.event = "LONG_START"  => p.stage = "SHORT_START"
                 /\ t.event = "LONG_HOLD"   => p.stage = "LONG_START"
<1> DEFINE n == Inc(s.scan_cnt, CntMod)
<1>0. s.status = 3 => s.scan_cnt < ClickTick /\ s.click_cnt = 1
  BY DEF OneInv, UpInv
<1>p. ProcessSpec(s, down, edge, n, t)
  BY <1>0, ProcessFields
<1>n. n = IF s.scan_cnt + 1 = CntMod THEN 0 ELSE s.scan_cnt + 1
  BY DEF Inc
<1> HIDE DEF n
<1>12. n \in 0 .. (CntMod - 1) /\ s.status \in 0 .. 6
  BY <1>p DEF ProcessSpec, ButtonType
<1>t. t \in ButtonType
  BY <1>p, <1>12, TicksAssumption DEF ProcessSpec, Told, Quiet, Fields,
     ButtonType
<1>w. WatchSpec(p, t, down, edge, q)
  BY <1>t, WatchFields
<1>d. ~t.called \/ t.event # "DOWN" =>
        /\ down /\ ~p.lifted =>
              ~q.lifted /\ q.held = IF p.held = CntMod THEN CntMod ELSE p.held + 1
        /\ p.lifted \/ ~down => q.lifted /\ q.held = p.held
        /\ q.edges >= p.edges
        /\ edge /\ p.edges >= 1 => q.edges >= 2
  BY <1>w, TicksAssumption DEF WatchSpec, PressType
<1>q. ~t.called => q.stage = p.stage
  BY <1>w DEF WatchSpec
<1>r. t.called /\ t.event # "DOWN" =>
        /\ t.event \in StartEvents => q.stage = t.event
        /\ t.event \notin StartEvents => q.stage = p.stage
  BY <1>w DEF WatchSpec
<1>y. q \in PressType
  BY <1>w DEF WatchSpec
<1>ty. /\ s.scan_cnt \in 0 .. (CntMod - 1) /\ s.click_cnt \in 0 .. 2
       /\ p.held \in 0 .. CntMod /\ p.edges \in 0 .. 3
       /\ q.held \in 0 .. CntMod /\ q.edges \in 0 .. 3
       /\ p.lifted \in BOOLEAN /\ q.lifted \in BOOLEAN
  BY <1>y DEF ButtonType, PressType
<1>k. /\ ClickTick \in Nat /\ ShortTick \in Nat /\ LongTick \in Nat
      /\ HoldTick \in Nat /\ CntMod \in Nat
      /\ 1 < ClickTick /\ ClickTick + 1 < ShortTick
      /\ ShortTick + 1 < LongTick /\ LongTick + 1 < HoldTick
      /\ HoldTick + 2 < CntMod
  BY TicksAssumption
<1> USE <1>k
<1>1. CASE s.status = 0 /\ edge
  <2>1. Told(t, 1, "DOWN", 0, 0)
    BY <1>p, <1>12, <1>1 DEF ProcessSpec
  <2>2. /\ t.status = 1 /\ t.event = "DOWN" /\ t.scan_cnt = 0 /\ t.click_cnt = 0
        /\ t.called
    BY <2>1 DEF Told, Fields
  <2>3. q.held = 1 /\ ~q.lifted /\ q.edges = 1 /\ q.stage = "NONE"
    BY <1>w, <2>2 DEF WatchSpec
  <2>4. DownInv(t, q) /\ UpInv(t, q) /\ ToldInv(t, q)
    BY <2>2, <2>3 DEF DownInv, UpInv, ToldInv, FinalEvents, UpEvents
  <2> QED BY <1>t, <1>y, <2>2, <2>4 DEF OneInv
<1>2. CASE s.status = 0 /\ ~edge
  <2>1. Quiet(t, 0, "NONE", s.scan_cnt, s.click_cnt)
    BY <1>p, <1>12, <1>2 DEF ProcessSpec
  <2> QED BY <1>2, <2>1, <1>t, <1>w DEF WatchSpec, Told, Quiet, Fields,
         OneInv, DownInv, UpInv, ToldInv, Wrapped, FinalEvents, UpEvents,
         StartEvents
<1>3. CASE s.status \in {1, 4, 5, 6} /\ ~down
  <2>1. Quiet(t, 2, s.event, n, s.click_cnt)
    BY <1>p, <1>12, <1>3 DEF ProcessSpec
  <2>2. ~p.lifted /\ s.click_cnt = 0 /\ p.edges >= 1
    BY <1>3 DEF OneInv, DownInv
  <2>3. StageOf(p) /\ (Wrapped(p) \/ n = p.held)
    BY <1>3, <1>n, <1>ty DEF OneInv, DownInv, StageOf, Wrapped
  <2>4. t.status = 2 /\ t.scan_cnt = n /\ t.click_cnt = 0 /\ ~t.called
    BY <2>1, <2>2 DEF Quiet, Fields
  <2>5. q.lifted /\ q.held = p.held /\ q.stage = p.stage /\ q.edges >= 1
    BY <1>d, <1>q, <1>3, <1>ty, <2>2, <2>4
  <2>6. StageOf(q) /\ (Wrapped(q) \/ n = q.held)
    BY <2>3, <2>5 DEF StageOf, Wrapped
  <2>7. DownInv(t, q) /\ UpInv(t, q) /\ ToldInv(t, q)
    BY <2>4, <2>5, <2>6 DEF DownInv, UpInv, ToldInv
  <2> QED BY <1>t, <1>y, <2>4, <2>7 DEF OneInv
<1>4. CASE s.status = 1 /\ down
  <2>1. ~p.lifted /\ s.click_cnt = 0 /\ p.edges >= 1 /\ n = s.scan_cnt + 1 /\ p.held = n
    BY <1>4, <1>n, <1>ty DEF OneInv, DownInv
  <2>2. p.stage = "NONE" /\ s.scan_cnt < ShortTick
    BY <1>4, <1>n, <1>ty DEF OneInv, DownInv
  <2>3. CASE n \in ShortTick .. (LongTick - 1)
    <3>1. Told(t, 4, "SHORT_START", n, s.click_cnt)
      BY <1>p, <1>12, <1>4, <2>3 DEF ProcessSpec
    <3>2. /\ t.status = 4 /\ t.scan_cnt = n /\ t.click_cnt = 0 /\ t.called
          /\ t.event = "SHORT_START"
      BY <2>1, <3>1 DEF Told, Fields
    <3>3. /\ ~q.lifted /\ q.held = n + 1 /\ q.edges >= 1 /\ q.stage = "SHORT_START"
      <4>1. ~q.lifted /\ q.held = IF p.held = CntMod THEN CntMod ELSE p.held + 1
        BY <1>d, <1>4, <2>1, <3>2
      <4>2. q.held = n + 1
        BY <1>12, <2>1, <4>1
      <4>3. q.edges >= 1
        BY <1>d, <1>ty, <2>1, <3>2
      <4>4. q.stage = "SHORT_START"
        BY <1>r, <3>2 DEF StartEvents
      <4> QED BY <4>1, <4>2, <4>3, <4>4
    <3>4. DownInv(t, q) /\ UpInv(t, q) /\ ToldInv(t, q)
      BY <1>12, <2>2, <2>3, <3>2, <3>3 DEF DownInv, UpInv, ToldInv,
         FinalEvents, UpEvents
    <3> QED BY <1>t, <1>y, <2>2, <3>2, <3>4 DEF OneInv
  <2>4. CASE n < ShortTick
    <3>1. Quiet(t, 1, s.event, n, s.click_cnt)
      <4>1. n \notin ShortTick .. (LongTick - 1)
        BY <1>12, <2>4
      <4> QED BY <1>p, <1>4, <4>1 DEF ProcessSpec
    <3>2. t.status = 1 /\ t.scan_cnt = n /\ t.click_cnt = 0 /\ ~t.called
      BY <2>1, <3>1 DEF Quiet, Fields
    <3>3. ~q.lifted /\ q.held = n + 1 /\ q.edges >= 1 /\ q.stage = p.stage
      <4>1. ~q.lifted /\ q.held = IF p.held = CntMod THEN CntMod ELSE p.held + 1
        BY <1>d, <1>4, <2>1, <3>2
      <4>2. q.held = n + 1
        BY <1>12, <2>1, <4>1
      <4>3. q.edges >= 1
        BY <1>d, <1>ty, <2>1, <3>2
      <4> QED BY <1>q, <3>2, <4>1, <4>2, <4>3
    <3>4. DownInv(t, q) /\ UpInv(t, q) /\ ToldInv(t, q)
      BY <1>12, <1>ty, <2>1, <2>2, <2>4, <3>2, <3>3 DEF DownInv, UpInv, ToldInv
    <3> QED BY <1>t, <1>y, <3>2, <3>4 DEF OneInv
  <2> QED BY <1>12, <1>ty, <2>1, <2>2, <2>3, <2>4
<1>5. CASE s.status = 4 /\ down
  <2>1. ~p.lifted /\ s.click_cnt = 0 /\ p.edges >= 1 /\ n = s.scan_cnt + 1 /\ p.held = n
    BY <1>5, <1>n, <1>ty DEF OneInv, DownInv
  <2>2. p.stage = "SHORT_START" /\ ShortTick <= s.scan_cnt /\ s.scan_cnt < LongTick
    BY <1>5, <1>n, <1>ty DEF OneInv, DownInv
  <2>3. CASE n \in LongTick .. (HoldTick - 1)
    <3>1. Told(t, 5, "LONG_START", n, s.click_cnt)
      BY <1>p, <1>12, <1>5, <2>3 DEF ProcessSpec
    <3>2. /\ t.status = 5 /\ t.scan_cnt = n /\ t.click_cnt = 0 /\ t.called
          /\ t.event = "LONG_START"
      BY <2>1, <3>1 DEF Told, Fields
    <3>3. /\ ~q.lifted /\ q.held = n + 1 /\ q.edges >= 1 /\ q.stage = "LONG_START"
      <4>1. ~q.lifted /\ q.held = IF p.held = CntMod THEN CntMod ELSE p.held + 1
        BY <1>d, <1>5, <2>1, <3>2
      <4>2. q.held = n + 1
        BY <1>12, <2>1, <4>1
      <4>3. q.edges >= 1
        BY <1>d, <1>ty, <2>1, <3>2
      <4>4. q.stage = "LONG_START"
        BY <1>r, <3>2 DEF StartEvents
      <4> QED BY <4>1, <4>2, <4>3, <4>4
    <3>4. DownInv(t, q) /\ UpInv(t, q) /\ ToldInv(t, q)
      BY <1>12, <2>2, <2>3, <3>2, <3>3 DEF DownInv, UpInv, ToldInv,
         FinalEvents, UpEvents
    <3> QED BY <1>t, <1>y, <2>2, <3>2, <3>4 DEF OneInv
  <2>4. CASE n < LongTick
    <3>1. Quiet(t, 4, s.event, n, s.click_cnt)
      <4>1. n \notin LongTick .. (HoldTick - 1)
        BY <1>12, <2>4
      <4> QED BY <1>p, <1>5, <4>1 DEF ProcessSpec
    <3>2. t.status = 4 /\ t.scan_cnt = n /\ t.click_cnt = 0 /\ ~t.called
      BY <2>1, <3>1 DEF Quiet, Fields
    <3>3. ~q.lifted /\ q.held = n + 1 /\ q.edges >= 1 /\ q.stage = p.stage
      <4>1. ~q.lifted /\ q.held = IF p.held = CntMod THEN CntMod ELSE p.held + 1
        BY <1>d, <1>5, <2>1, <3>2
      <4>2. q.held = n + 1
        BY <1>12, <2>1, <4>1
      <4>3. q.edges >= 1
        BY <1>d, <1>ty, <2>1, <3>2
      <4> QED BY <1>q, <3>2, <4>1, <4>2, <4>3
    <3>4. DownInv(t, q) /\ UpInv(t, q) /\ ToldInv(t, q)
      BY <1>12, <1>ty, <2>1, <2>2, <2>4, <3>2, <3>3 DEF DownInv, UpInv, ToldInv
    <3> QED BY <1>t, <1>y, <3>2, <3>4 DEF OneInv
  <2> QED BY <1>12, <1>ty, <2>1, <2>2, <2>3, <2>4
<1>6. CASE s.status = 5 /\ down
  <2>1. ~p.lifted /\ s.click_cnt = 0 /\ p.edges >= 1 /\ n = s.scan_cnt + 1 /\ p.held = n
    BY <1>6, <1>n, <1>ty DEF OneInv, DownInv
  <2>2. p.stage = "LONG_START" /\ LongTick <= s.scan_cnt /\ s.scan_cnt < HoldTick
    BY <1>6, <1>n, <1>ty DEF OneInv, DownInv
  <2>3. CASE n >= HoldTick
    <3>1. Told(t, 6, "LONG_HOLD", n, s.click_cnt)
      BY <1>p, <1>12, <1>6, <2>3 DEF ProcessSpec
    <3>2. /\ t.status = 6 /\ t.scan_cnt = n /\ t.click_cnt = 0 /\ t.called
          /\ t.event = "LONG_HOLD"
      BY <2>1, <3>1 DEF Told, Fields
    <3>3. /\ ~q.lifted /\ q.held = n + 1 /\ q.edges >= 1 /\ q.stage = "LONG_HOLD"
      <4>1. ~q.lifted /\ q.held = IF p.held = CntMod THEN CntMod ELSE p.held + 1
        BY <1>d, <1>6, <2>1, <3>2
      <4>2. q.held = n + 1
        BY <1>12, <2>1, <4>1
      <4>3. q.edges >= 1
        BY <1>d, <1>ty, <2>1, <3>2
      <4>4. q.stage = "LONG_HOLD"
        BY <1>r, <3>2 DEF StartEvents
      <4> QED BY <4>1, <4>2, <4>3, <4>4
    <3>4. DownInv(t, q) /\ UpInv(t, q) /\ ToldInv(t, q)
      BY <1>12, <2>2, <2>3, <3>2, <3>3 DEF DownInv, UpInv, ToldInv,
         FinalEvents, UpEvents
    <3> QED BY <1>t, <1>y, <2>2, <3>2, <3>4 DEF OneInv
  <2>4. CASE n < HoldTick
    <3>1. Quiet(t, 5, s.event, n, s.click_cnt)
      BY <1>p, <1>12, <1>6, <2>4 DEF ProcessSpec
    <3>2. t.status = 5 /\ t.scan_cnt = n /\ t.click_cnt = 0 /\ ~t.called
      BY <2>1, <3>1 DEF Quiet, Fields
    <3>3. ~q.lifted /\ q.held = n + 1 /\ q.edges >= 1 /\ q.stage = p.stage
      <4>1. ~q.lifted /\ q.held = IF p.held = CntMod THEN CntMod ELSE p.held + 1
        BY <1>d, <1>6, <2>1, <3>2
      <4>2. q.held = n + 1
        BY <1>12, <2>1, <4>1
      <4>3. q.edges >= 1
        BY <1>d, <1>ty, <2>1, <3>2
      <4> QED BY <1>q, <3>2, <4>1, <4>2, <4>3
    <3>4. DownInv(t, q) /\ UpInv(t, q) /\ ToldInv(t, q)
      BY <1>12, <1>ty, <2>1, <2>2, <2>4, <3>2, <3>3 DEF DownInv, UpInv, ToldInv
    <3> QED BY <1>t, <1>y, <3>2, <3>4 DEF OneInv
  <2> QED BY <1>12, <1>ty, <2>1, <2>2, <2>3, <2>4
<1>7. CASE s.status = 6 /\ down
  <2>1. Quiet(t, 6, s.event, n, s.click_cnt)
    BY <1>p, <1>12, <1>7 DEF ProcessSpec
  <2>2. /\ ~p.lifted /\ s.click_cnt = 0 /\ p.edges >= 1 /\ p.stage = "LONG_HOLD"
        /\ HoldTick < p.held /\ (p.held >= CntMod - 1 \/ p.held = s.scan_cnt + 1)
    BY <1>7 DEF OneInv, DownInv, Wrapped
  <2>3. t.status = 6 /\ t.scan_cnt = n /\ t.click_cnt = 0 /\ ~t.called
    BY <2>1, <2>2 DEF Quiet, Fields
  <2>4. /\ ~q.lifted /\ q.edges >= 1 /\ q.stage = "LONG_HOLD"
        /\ q.held = IF p.held = CntMod THEN CntMod ELSE p.held + 1
    <3>1. ~q.lifted /\ q.held = IF p.held = CntMod THEN CntMod ELSE p.held + 1
      BY <1>d, <1>7, <2>2, <2>3
    <3>2. q.edges >= 1
      BY <1>d, <1>ty, <2>2, <2>3
    <3> QED BY <1>q, <2>2, <2>3, <3>1, <3>2
  <2>5. HoldTick < q.held /\ (q.held >= CntMod - 1 \/ q.held = n + 1)
    BY <1>n, <1>ty, <2>2, <2>4
  <2>6. DownInv(t, q) /\ UpInv(t, q) /\ ToldInv(t, q)
    BY <2>3, <2>4, <2>5 DEF DownInv, UpInv, ToldInv, Wrapped
  <2> QED BY <1>t, <1>y, <2>3, <2>6 DEF OneInv
<1>8. CASE s.status = 2 /\ n < ClickTick
  <2>1. p.lifted /\ p.edges >= 1
    BY <1>8 DEF OneInv, UpInv
  <2>2. CASE s.click_cnt = 0
    <3>1. Quiet(t, 3, s.event, n, 1)
      BY <1>p, <1>12, <1>8, <2>2 DEF ProcessSpec
    <3>2. t.status = 3 /\ t.scan_cnt = n /\ t.click_cnt = 1 /\ ~t.called
      BY <3>1 DEF Quiet, Fields
    <3>3. Wrapped(p) \/ (p.stage = "NONE" /\ p.held < ClickTick - 1)
      <4>1. StageOf(p) /\ (Wrapped(p) \/ s.scan_cnt = p.held)
        BY <1>8, <2>2 DEF OneInv, UpInv
      <4>2. p.stage \in {"NONE"} \cup StartEvents
        BY DEF PressType
      <4> QED BY <1>8, <1>n, <1>ty, <4>1, <4>2 DEF StageOf, Wrapped,
             StartEvents
    <3>4. q.lifted /\ q.held = p.held /\ q.stage = p.stage /\ q.edges >= 1
      BY <1>d, <1>q, <1>ty, <2>1, <3>2
    <3>5. Wrapped(q) \/ (q.stage = "NONE" /\ q.held < ClickTick - 1)
      BY <3>3, <3>4 DEF Wrapped
    <3>6. DownInv(t, q) /\ UpInv(t, q) /\ ToldInv(t, q)
      BY <1>8, <3>2, <3>4, <3>5 DEF DownInv, UpInv, ToldInv
    <3> QED BY <1>t, <1>y, <3>2, <3>6 DEF OneInv
  <2>3. CASE s.click_cnt # 0
    <3>1. Told(t, 0, "DOUBLE_CLICK", n, 0)
      BY <1>p, <1>12, <1>8, <2>3 DEF ProcessSpec
    <3>2. t.status = 0 /\ t.event = "DOUBLE_CLICK" /\ t.called
      BY <3>1 DEF Told, Fields
    <3>3. Wrapped(p) \/ (p.stage = "NONE" /\ p.held < ClickTick - 1)
      BY <1>8, <1>ty, <2>3 DEF OneInv, UpInv
    <3>4. p.edges >= 2
      BY <1>8, <1>n, <1>ty, <2>3 DEF OneInv, UpInv
    <3>5. q.held = p.held /\ q.stage = p.stage /\ q.edges >= 2
      BY <1>d, <1>r, <1>ty, <2>1, <3>2, <3>4 DEF StartEvents
    <3>6. ToldInv(t, q)
      BY <3>2, <3>3, <3>5 DEF ToldInv, EndFits, Wrapped
    <3>7. DownInv(t, q) /\ UpInv(t, q)
      BY <3>2 DEF DownInv, UpInv
    <3> QED BY <1>t, <1>y, <3>2, <3>6, <3>7 DEF OneInv
  <2> QED BY <2>2, <2>3
<1>9. CASE s.status = 2 /\ n >= ClickTick
  <2>1. Told(t, 0, UpEvent(n), n, 0)
    BY <1>p, <1>12, <1>9 DEF ProcessSpec
  <2>2. t.status = 0 /\ t.event = UpEvent(n) /\ t.called
    BY <2>1 DEF Told, Fields
  <2>3. UpEvent(n) \in {"CLICK", "SHORT_UP", "LONG_UP", "LONG_HOLD_UP"}
    BY DEF UpEvent
  <2>4. p.lifted
    BY <1>9 DEF OneInv, UpInv
  <2>5. q.held = p.held /\ q.stage = p.stage
    BY <1>d, <1>r, <1>ty, <2>2, <2>3, <2>4 DEF StartEvents
  <2>6. EndFits(UpEvent(n), p)
    <3>1. p.stage \in {"NONE", "SHORT_START", "LONG_START", "LONG_HOLD"}
      BY DEF PressType, StartEvents
    <3>2. CASE s.click_cnt = 0
      <4>1. StageOf(p) /\ (Wrapped(p) \/ s.scan_cnt = p.held)
        BY <1>9, <3>2 DEF OneInv, UpInv
      <4>2. Wrapped(p) \/ n = p.held + 1
        BY <1>n, <1>ty, <4>1 DEF Wrapped
      <4> QED BY <1>ty, <3>1, <4>1, <4>2 DEF StageOf, Wrapped, EndFits, UpEvent
    <3>3. CASE s.click_cnt # 0
      <4>1. Wrapped(p) \/ (p.stage = "NONE" /\ p.held < ClickTick - 1)
        BY <1>9, <1>ty, <3>3 DEF OneInv, UpInv
      <4>2. n < ShortTick
        BY <1>9, <1>n, <1>ty, <3>3 DEF OneInv, UpInv
      <4> QED BY <4>1, <4>2 DEF Wrapped, EndFits, UpEvent
    <3> QED BY <3>2, <3>3
  <2>7. EndFits(t.event, q)
    BY <2>2, <2>5, <2>6 DEF EndFits
  <2>8. ToldInv(t, q)
    BY <2>2, <2>3, <2>7 DEF ToldInv
  <2>9. DownInv(t, q) /\ UpInv(t, q)
    BY <2>2 DEF DownInv, UpInv
  <2> QED BY <1>t, <1>y, <2>2, <2>3, <2>8, <2>9 DEF OneInv
<1>10. CASE s.status = 3
  <2>1. /\ p.lifted /\ p.edges >= 1 /\ s.click_cnt = 1 /\ n = s.scan_cnt + 1
        /\ s.scan_cnt < ClickTick
    BY <1>10, <1>n, <1>ty DEF OneInv, UpInv
  <2>2. Wrapped(p) \/ (p.stage = "NONE" /\ p.held < ClickTick - 1)
    BY <1>10 DEF OneInv, UpInv
  <2>3. /\ edge => Quiet(t, 2, s.event, n - 1, 2)
        /\ ~edge /\ n >= ClickTick => Quiet(t, 2, s.event, n, s.click_cnt)
        /\ ~edge /\ n < ClickTick => Quiet(t, 3, s.event, n, s.click_cnt)
    BY <1>p, <1>10 DEF ProcessSpec
  <2>4. ~t.called
    BY <1>12, <2>3 DEF Quiet
  <2>5. q.lifted /\ q.held = p.held /\ q.stage = p.stage /\ q.edges >= 1
    BY <1>d, <1>q, <1>ty, <2>1, <2>4
  <2>6. Wrapped(q) \/ (q.stage = "NONE" /\ q.held < ClickTick - 1)
    BY <2>2, <2>5 DEF Wrapped
  <2>7. DownInv(t, q) /\ UpInv(t, q)
    <3>1. CASE edge
      <4>1. t.status = 2 /\ t.scan_cnt = s.scan_cnt /\ t.click_cnt = 2
        <5>1. n - 1 = s.scan_cnt
          BY <1>ty, <2>1
        <5> QED BY <2>3, <3>1, <5>1 DEF Quiet, Fields
      <4>2. q.edges >= 2
        BY <1>d, <1>q, <2>1, <2>4, <3>1
      <4> QED BY <2>1, <2>5, <2>6, <4>1, <4>2 DEF DownInv, UpInv
    <3>2. CASE ~edge /\ n >= ClickTick
      <4>1. t.status = 2 /\ t.scan_cnt = n /\ t.click_cnt = 1
        BY <2>1, <2>3, <3>2 DEF Quiet, Fields
      <4> QED BY <1>ty, <2>1, <2>5, <2>6, <3>2, <4>1 DEF DownInv, UpInv
    <3>3. CASE ~edge /\ n < ClickTick
      <4>1. t.status = 3 /\ t.scan_cnt = n /\ t.click_cnt = 1
        BY <2>1, <2>3, <3>3 DEF Quiet, Fields
      <4> QED BY <2>1, <2>5, <2>6, <3>3, <4>1 DEF DownInv, UpInv
    <3> QED BY <1>12, <3>1, <3>2, <3>3
  <2>8. ToldInv(t, q)
    BY <2>4 DEF ToldInv
  <2> QED BY <1>t, <1>y, <2>4, <2>7, <2>8 DEF OneInv
<1> QED BY <1>1, <1>2, <1>3, <1>4, <1>5, <1>6, <1>7, <1>8, <1>9, <1>10, <1>12

-----------------------------------------------------------------------------
\* What StartsInOrder says of one scan and one button.
InOrder(b) ==
    btn'[b].called =>
       /\ btn'[b].event = "SHORT_START" => press[b].stage = "NONE"
       /\ btn'[b].event = "LONG_START"  => press[b].stage = "SHORT_START"
       /\ btn'[b].event = "LONG_HOLD"   => press[b].stage = "LONG_START"

\* flex_button_register establishes the invariant.
LEMMA InitInv == Init => IInv
<1> SUFFICES ASSUME Init
             PROVE  IInv
  OBVIOUS
<1>1. TypeOK
  BY TicksAssumption DEF Init, TypeOK, Button, NoPress, Events, StartEvents
<1>2. ASSUME NEW b \in Buttons
      PROVE  ButtonInv(b)
  <2>1. btn[b].status = 0 /\ ~btn[b].called
    BY DEF Init, Button
  <2> QED BY <2>1 DEF ButtonInv, DownInv, UpInv, ToldInv
<1> QED BY <1>1, <1>2 DEF IInv

\* A scan keeps it, button by button, and reports thresholds in order.
LEMMA ScanInv ==
    ASSUME IInv, Scan
    PROVE  IInv' /\ \A b \in Buttons : InOrder(b)
<1>1. PICK read \in SUBSET Buttons :
         /\ cont' = read
         /\ btn' = [b \in Buttons |-> Process(btn[b], b \in read, b \in read \ cont)]
         /\ press' = [b \in Buttons |->
                         Watch(press[b], btn'[b], b \in read, b \in read \ cont)]
  BY Zenon DEF Scan
<1>2. ASSUME NEW b \in Buttons
      PROVE  /\ btn'[b] \in ButtonType /\ press'[b] \in PressType
             /\ OneInv(btn'[b], press'[b])
             /\ InOrder(b)
  <2> DEFINE down == b \in read
             edge == b \in read \ cont
  <2>1. btn[b] \in ButtonType /\ press[b] \in PressType /\ OneInv(btn[b], press[b])
    BY DEF IInv, TypeOK, ButtonInv, OneInv, ButtonType, PressType
  <2>2. btn'[b] = Process(btn[b], down, edge)
    BY <1>1, Zenon
  <2>3. press'[b] = Watch(press[b], btn'[b], down, edge)
    BY <1>1, Zenon
  <2>4. down \in BOOLEAN /\ edge \in BOOLEAN
    OBVIOUS
  <2> HIDE DEF down, edge
  <2> QED BY <2>1, <2>2, <2>3, <2>4, ProcessStep, Zenon DEF InOrder
<1>3. TypeOK'
  <2>1. cont' \subseteq Buttons
    BY <1>1
  <2>2. btn' = [b \in Buttons |-> btn'[b]] /\ press' = [b \in Buttons |-> press'[b]]
    BY <1>1, Zenon
  <2> QED BY <1>2, <2>1, <2>2, Zenon DEF TypeOK, ButtonType, PressType
<1>4. \A b \in Buttons : ButtonInv(b)'
  BY <1>2, Zenon DEF ButtonInv, OneInv
<1> QED BY <1>2, <1>3, <1>4 DEF IInv

\* The invariant holds of the scanner, for any buttons, thresholds and
\* width of the counter.
THEOREM Invariance == Spec => []IInv
<1>1. IInv /\ [Next]_vars => IInv'
  <2> SUFFICES ASSUME IInv, [Next]_vars
               PROVE  IInv'
    OBVIOUS
  <2>1. CASE Scan
    BY <2>1, ScanInv
  <2>2. CASE UNCHANGED vars
    BY <2>2 DEF vars, IInv, TypeOK, ButtonInv
  <2> QED BY <2>1, <2>2 DEF Next
<1> QED BY InitInv, <1>1, PTL DEF Spec

\* Every field of every button stays in its range.
THEOREM TypeCorrect == Spec => []TypeOK
<1>1. IInv => TypeOK
  BY DEF IInv
<1> QED BY Invariance, <1>1, PTL

\* The event that ends a press fits those reported while it lasted.
THEOREM EndsFit == Spec => []EndFitsStart
<1>1. IInv => EndFitsStart
  BY Zenon DEF IInv, ButtonInv, ToldInv, EndFitsStart
<1> QED BY Invariance, <1>1, PTL

\* A double click takes two presses.
THEOREM DoubleClicksAreTwo == Spec => []DoubleClickIsTwo
<1>1. IInv => DoubleClickIsTwo
  BY DEF IInv, ButtonInv, ToldInv, DoubleClickIsTwo, FinalEvents, Wrapped
<1> QED BY Invariance, <1>1, PTL

\* No threshold is reported twice, out of order or skipped.
THEOREM ThresholdsInOrder == Spec => StartsInOrder
<1> DEFINE A == \A b \in Buttons : InOrder(b)
<1>1. IInv /\ [Next]_vars => [A]_vars
  BY ScanInv DEF Next
<1>2. [][A]_vars => StartsInOrder
  BY PTL DEF StartsInOrder, InOrder
<1> QED BY Invariance, <1>1, <1>2, PTL DEF Spec
=============================================================================
