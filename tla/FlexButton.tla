----------------------------- MODULE FlexButton -----------------------------
(***************************************************************************)
(* The scanner of the board's keys: packages/FlexibleButton-v1.0.0/        *)
(* flexible_button.c as iotb_key_process.c uses it.  The "flex_btn" thread *)
(* calls flex_button_scan() every 10 ms: one read of all the pins, then    *)
(* one pass of a seven-status machine over every registered button.  The  *)
(* outside world is the set of buttons down at each scan, chosen freely.   *)
(***************************************************************************)
EXTENDS Integers

CONSTANTS
    Buttons,      \* the registered buttons (user_button[])
    ClickTick,    \* click_start_tick       (20)
    ShortTick,    \* short_press_start_tick (100)
    LongTick,     \* long_press_start_tick  (200)
    HoldTick,     \* long_hold_start_tick   (300)
    CntMod        \* scan_cnt is a uint16_t: counts modulo 2^16

\* iotb_key_process.c orders the thresholds, far apart, and all fit the
\* counter.  (With ShortTick = ClickTick + 1 a click would be reported as
\* SHORT_UP: its window closes one scan late; the later thresholds need
\* the same distance.)
ASSUME TicksAssumption ==
    /\ {ClickTick, ShortTick, LongTick, HoldTick, CntMod} \subseteq Nat
    /\ 1 < ClickTick /\ ClickTick + 1 < ShortTick
    /\ ShortTick + 1 < LongTick /\ LongTick + 1 < HoldTick
    /\ HoldTick + 2 < CntMod

VARIABLES
    cont,   \* the buttons down at the last scan (the mask of that name)
    btn,    \* each button's flex_button_t; "called" tells whether the
            \* last scan executed the callback, with .event as its argument
    press   \* history: the current press of each button, see Watch

vars == <<cont, btn, press>>

UpEvents == {"SHORT_UP", "LONG_UP", "LONG_HOLD_UP"}
FinalEvents == UpEvents \cup {"CLICK", "DOUBLE_CLICK"}
StartEvents == {"SHORT_START", "LONG_START", "LONG_HOLD"}
Events == {"NONE", "DOWN"} \cup StartEvents \cup FinalEvents

-----------------------------------------------------------------------------
(* flex_button_process, one operator per status.  "down" is the button's  *)
(* bit of cont, "edge" its bit of trg.                                     *)

Button(status, event, scan_cnt, click_cnt, called) ==
    [status |-> status, event |-> event, scan_cnt |-> scan_cnt,
     click_cnt |-> click_cnt, called |-> called]

\* A new status, with or without a call of the button's callback.
Silent(t, status) == Button(status, t.event, t.scan_cnt, t.click_cnt, FALSE)
Report(t, status, event) == Button(status, event, t.scan_cnt, t.click_cnt, TRUE)

\* A press ended: the click count goes with the status.
ReportEnd(t, event) == Button(0, event, t.scan_cnt, 0, TRUE)

\* Status 0, the default.
Default(t, edge) ==
    IF edge THEN Button(1, "DOWN", 0, 0, TRUE)
            ELSE Button(0, "NONE", t.scan_cnt, t.click_cnt, FALSE)

\* Status 1: down, no threshold passed yet.
\* A mutant that goes straight to status 5.
PressedSkips(t, down) ==
    IF ~down THEN Silent(t, 2)
    ELSE IF t.scan_cnt \in ShortTick .. (LongTick - 1)
         THEN Report(t, 5, "LONG_START")
         ELSE t

Pressed(t, down) ==
    IF ~down THEN Silent(t, 2)
    ELSE IF t.scan_cnt \in ShortTick .. (LongTick - 1)
         THEN Report(t, 4, "SHORT_START")
         ELSE t

\* What status 2 reports for a press that took n scans or more to end.
\* A mutant that takes the long-press threshold for the hold threshold.
UpEventSwapped(n) ==
    IF n < ShortTick THEN "CLICK"
    ELSE IF n < LongTick THEN "SHORT_UP"
    ELSE IF n < LongTick + 2 THEN "LONG_UP"
    ELSE "LONG_HOLD_UP"

UpEvent(n) ==
    IF n < ShortTick THEN "CLICK"
    ELSE IF n < LongTick THEN "SHORT_UP"
    ELSE IF n < HoldTick THEN "LONG_UP"
    ELSE "LONG_HOLD_UP"

\* Status 2, up: quick enough, the first click opens the double-click
\* window (status 3) and the second is the double click; else the press is
\* classified by the scans it took.
\* A mutant that takes any quick release for a double click.
UpEager(t) ==
    IF t.scan_cnt < ClickTick THEN ReportEnd(t, "DOUBLE_CLICK")
    ELSE ReportEnd(t, UpEvent(t.scan_cnt))

Up(t) ==
    IF t.scan_cnt < ClickTick
    THEN IF t.click_cnt = 0 THEN Button(3, t.event, t.scan_cnt, 1, FALSE)
                            ELSE ReportEnd(t, "DOUBLE_CLICK")
    ELSE ReportEnd(t, UpEvent(t.scan_cnt))

\* Status 3, the double-click window.  The decrement makes the next scan
\* see the count this scan saw.
\* A mutant whose window closes without a word.
DoubleClickCheckSilent(t, edge) ==
    IF edge THEN Button(2, t.event, t.scan_cnt - 1, t.click_cnt + 1, FALSE)
    ELSE IF t.scan_cnt >= ClickTick THEN Silent(t, 0)
    ELSE t

DoubleClickCheck(t, edge) ==
    IF edge THEN Button(2, t.event, t.scan_cnt - 1, t.click_cnt + 1, FALSE)
    ELSE IF t.scan_cnt >= ClickTick THEN Silent(t, 2)
    ELSE t

\* Statuses 4, 5 and 6: held past the short, the long, the hold threshold.
ShortPressed(t, down) ==
    IF ~down THEN Silent(t, 2)
    ELSE IF t.scan_cnt \in LongTick .. (HoldTick - 1)
         THEN Report(t, 5, "LONG_START")
         ELSE t

LongPressed(t, down) ==
    IF ~down THEN Silent(t, 2)
    ELSE IF t.scan_cnt >= HoldTick THEN Report(t, 6, "LONG_HOLD")
         ELSE t

HoldPressed(t, down) == IF ~down THEN Silent(t, 2) ELSE t

\* n + 1 in an unsigned field that holds 0 .. m - 1.
Inc(n, m) == IF n + 1 = m THEN 0 ELSE n + 1

\* The count advances in every status but the default.
\* A mutant that counts in a wider field than the one declared.
CountWide(b) ==
    Button(b.status, b.event,
           IF b.status > 0 THEN Inc(b.scan_cnt, CntMod + 1) ELSE b.scan_cnt,
           b.click_cnt, FALSE)

Count(b) ==
    Button(b.status, b.event,
           IF b.status > 0 THEN Inc(b.scan_cnt, CntMod) ELSE b.scan_cnt,
           b.click_cnt, FALSE)

Process(b, down, edge) ==
    LET t == Count(b)
    IN  IF b.status = 0 THEN Default(t, edge)
        ELSE IF b.status = 1 THEN Pressed(t, down)
        ELSE IF b.status = 2 THEN Up(t)
        ELSE IF b.status = 3 THEN DoubleClickCheck(t, edge)
        ELSE IF b.status = 4 THEN ShortPressed(t, down)
        ELSE IF b.status = 5 THEN LongPressed(t, down)
        ELSE HoldPressed(t, down)

-----------------------------------------------------------------------------
(* History of the press a button is in, kept for the properties:          *)
(*   held    scans its first stretch down took so far, at most CntMod     *)
(*   lifted  that stretch has ended                                        *)
(*   edges   presses seen since DOWN, at most 3                            *)
(*   stage   the last of the start events reported                         *)

NoPress == [held |-> 0, lifted |-> FALSE, edges |-> 0, stage |-> "NONE"]

AtMost(n, top) == IF n > top THEN top ELSE n

Watch(p, b, down, edge) ==
    IF b.called /\ b.event = "DOWN"
    THEN [held |-> 1, lifted |-> FALSE, edges |-> 1, stage |-> "NONE"]
    ELSE [held   |-> IF down /\ ~p.lifted THEN AtMost(p.held + 1, CntMod) ELSE p.held,
          lifted |-> p.lifted \/ ~down,
          edges  |-> IF edge THEN AtMost(p.edges + 1, 3) ELSE p.edges,
          stage  |-> IF b.called /\ b.event \in StartEvents THEN b.event ELSE p.stage]

-----------------------------------------------------------------------------
\* flex_button_register leaves every button in its default status.
Init ==
    /\ cont = {}
    /\ btn = [b \in Buttons |-> Button(0, "NONE", 0, 0, FALSE)]
    /\ press = [b \in Buttons |-> NoPress]

\* flex_button_scan: flex_button_read takes the level of every pin, then
\* flex_button_process steps every button.
Scan ==
    \E read \in SUBSET Buttons :
        LET trg == read \ cont
        IN  /\ cont' = read
            /\ btn' = [b \in Buttons |-> Process(btn[b], b \in read, b \in trg)]
            /\ press' = [b \in Buttons |->
                            Watch(press[b], btn'[b], b \in read, b \in trg)]

Next == Scan

Spec == Init /\ [][Next]_vars

\* button_scan loops for ever with a fixed delay.
FairSpec == Spec /\ WF_vars(Scan)

-----------------------------------------------------------------------------
(* Properties *)

\* The fields of every flex_button_t stay in their ranges (status fits its
\* three bits, the counters never leave their width).
TypeOK ==
    /\ cont \subseteq Buttons
    /\ btn \in [Buttons -> [status : 0 .. 6, event : Events,
                            scan_cnt : 0 .. (CntMod - 1),
                            click_cnt : 0 .. 2, called : BOOLEAN]]
    /\ press \in [Buttons -> [held : 0 .. CntMod, lifted : BOOLEAN, edges : 0 .. 3,
                              stage : {"NONE"} \cup StartEvents]]

\* The event that ends a press fits the start events reported for it.  The
\* exceptions are the two scans before and at a threshold, where the release
\* is classified one scan after it was seen (status 2), and a button held
\* until the 16-bit count wraps.
EndFits(event, p) ==
    \/ p.held >= CntMod - 1
    \/ /\ p.stage = "LONG_HOLD" => event = "LONG_HOLD_UP"
       /\ p.stage = "LONG_START" =>
             \/ event = "LONG_UP"
             \/ event = "LONG_HOLD_UP" /\ p.held \in {HoldTick - 1, HoldTick}
       /\ p.stage = "SHORT_START" =>
             \/ event = "SHORT_UP"
             \/ event = "LONG_UP" /\ p.held \in {LongTick - 1, LongTick}
       /\ p.stage = "NONE" =>
             \/ event \in {"CLICK", "DOUBLE_CLICK"}
             \/ event = "SHORT_UP" /\ p.held \in {ShortTick - 1, ShortTick}

\* flex_button_process, status 2: what a callback is told at the end of a
\* press agrees with what it was told while the button was down.
EndFitsStart ==
    \A b \in Buttons : btn[b].called /\ btn[b].event \in FinalEvents
                          => EndFits(btn[b].event, press[b])

\* A double click takes at least two presses, the first of them a click's
\* length: a single press never makes one.  (Three are possible: a press
\* seen in the one scan spent in status 2 is lost.)
DoubleClickIsTwo ==
    \A b \in Buttons : btn[b].called /\ btn[b].event = "DOUBLE_CLICK"
                          => \/ press[b].edges >= 2 /\ press[b].held < ClickTick - 1
                             \/ press[b].held >= CntMod - 1

\* The thresholds of one press are reported in order, none twice and none
\* skipped.
StartsInOrder ==
    [][\A b \in Buttons :
          btn'[b].called =>
             /\ btn'[b].event = "SHORT_START" => press[b].stage = "NONE"
             /\ btn'[b].event = "LONG_START"  => press[b].stage = "SHORT_START"
             /\ btn'[b].event = "LONG_HOLD"   => press[b].stage = "LONG_START"]_vars

\* Every release of a pressed button is answered: the application hears how
\* the press ended, even if the button is pressed again meanwhile.
ReleaseReported ==
    \A b \in Buttons :
        (b \notin cont /\ btn[b].status # 0)
            ~> (btn[b].called /\ btn[b].event \in FinalEvents)
=============================================================================
