------------------------------ MODULE IotbEvent ------------------------------
(***************************************************************************)
(* From a key to the screen: applications/iotb_event.c with the key        *)
(* callbacks of iotb_key_process.c.  A callback of the scanner puts a      *)
(* (source, type) message in the queue "event_mq"; the thread "event_thr"  *)
(* takes the messages one by one and turns each into a bit of the event    *)
(* set "lcd_event", which the screen's thread reads (LcdMenu).             *)
(***************************************************************************)
EXTENDS Naturals, Sequences, FiniteSets

CONSTANTS
    Messages,     \* the messages the keys can send in the instance checked
    MqCapacity,   \* messages event_mq holds: the 80-byte pool has room for 6
    MaxPending    \* bound: a key is pressed only while fewer than this many
                  \* messages and bits wait (the pool being full excepted)

ASSUME CapacityAssumption == MqCapacity \in Nat \ {0} /\ MaxPending \in Nat

VARIABLES
    event_mq,     \* the message queue
    lcd_event     \* the bits set in the event of the same name

eventVars == <<event_mq, lcd_event>>

Keys == {"KEY0", "KEY1", "KEY2", "WKUP"}
Types == {"CLICK", "DOUBLE_CLICK", "SHORT_PRESSED", "SHORT_PRESSED_UP", "LONG_PRESSED",
          "LONG_PRESSED_UP", "LONG_HOLD", "LONG_HOLD_UP"}

NEXT == <<"MENU", "NEXT">>
MUSIC_PLAY == <<"MENU", "MUSIC_PLAY">>

ASSUME MessagesAssumption == Messages \subseteq Keys \X Types

\* The bit iotb_event_process sets for a message, if any.
LcdBits(msg) ==
    CASE msg = <<"KEY0", "CLICK">>        -> {MUSIC_PLAY}
      [] msg = <<"KEY0", "DOUBLE_CLICK">> -> {NEXT}
      [] msg[2] \in {"SHORT_PRESSED", "LONG_HOLD"} -> {msg}
      [] msg[2] \in {"CLICK", "DOUBLE_CLICK"}      -> {msg}
      [] OTHER -> {}

AllBits == UNION {LcdBits(m) : m \in Keys \X Types}

EventInit == event_mq = <<>> /\ lcd_event = {}

\* A key callback calls iotb_event_put (putting is never disabled): a
\* message that finds the queue full is dropped, after a nap of 100 ms.
Put(msg) ==
    /\ \/ Len(event_mq) + Cardinality(lcd_event) < MaxPending
       \/ Len(event_mq) = MqCapacity
    /\ event_mq' = IF Len(event_mq) < MqCapacity
                   THEN Append(event_mq, msg) ELSE event_mq
    /\ UNCHANGED lcd_event

\* iotb_event_handler: the oldest message becomes a bit; a bit already set
\* stays one bit.
EventHandler ==
    /\ event_mq # <<>>
    /\ lcd_event' = lcd_event \cup LcdBits(Head(event_mq))
    /\ event_mq' = Tail(event_mq)
=============================================================================
