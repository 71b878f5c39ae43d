----------------------------- MODULE AudioReplay -----------------------------
(***************************************************************************)
(* The replay path of the audio framework,                                 *)
(* rt-thread/components/drivers/audio/audio.c, on the double-buffered DMA  *)
(* of board/ports/audio/drv_sound.c: one thread (wav_p) opens, writes and  *)
(* closes the device; the DMA interrupt moves blocks from the data queue   *)
(* into the half of the FIFO that the DMA has just left.                   *)
(*                                                                         *)
(* Data are units, numbered in the order they are written; 0 is silence.   *)
(* The interrupt handler runs to its end before the thread goes on, and    *)
(* before the DMA leaves the next half.                                    *)
(***************************************************************************)
EXTENDS Integers, Sequences, FiniteSets

CONSTANTS
  BLOCK,       \* units of a memory pool block: RT_AUDIO_REPLAY_MP_BLOCK_SIZE
  POOL,        \* blocks of the pool: RT_AUDIO_REPLAY_MP_BLOCK_COUNT
  QUEUE,       \* items of the data queue: CFG_AUDIO_REPLAY_QUEUE_COUNT
  FRAME,       \* units of one half of the FIFO: buf_info.block_size
  WriteSizes,  \* sizes passed to rt_device_write
  MaxUnits     \* bound on the units written in a behaviour

TOTAL == 2 * FRAME

ASSUME FrameAssumption == FRAME \in Nat \ {0}
ASSUME BlockAssumption == BLOCK \in Nat \ {0} /\ BLOCK % FRAME = 0
ASSUME PoolAssumption  == POOL \in Nat \ {0} /\ QUEUE \in Nat /\ POOL <= QUEUE
\* A larger first write would wait for a block that only the DMA, which is
\* started after it, gives back.
ASSUME WriteAssumption == WriteSizes \subseteq 1..(POOL * BLOCK)
ASSUME BoundAssumption == MaxUnits \in Nat

VARIABLES
  \* struct rt_audio_replay (drivers/include/drivers/audio.h:133-146)
  writeData,   \* the block being filled: BLOCK units
  writeIndex, readIndex, pos,
  stopEvent,   \* event & REPLAY_EVT_STOP
  activated,
  free,        \* free blocks of mp
  queue,       \* the data queue: items [data, size]
  cmpFlag, cmpWaiting,
  \* the thread
  tpc, left,   \* position, and size - index of _audio_dev_write
  \* the interrupt handler _audio_send_replay_frame
  isr,         \* "idle", "enter" or "copy"
  index, remain,
  \* the DMA
  fifo,        \* tx_fifo
  dmaOn, half, \* the half it transmits, 0 or 1
  \* history
  written,     \* units written
  sent,        \* the last unit transmitted, or dropped with an old session
  halves       \* halves transmitted since the DMA was started, up to 2

replayVars == <<writeData, writeIndex, readIndex, pos, stopEvent, activated>>
ipcVars == <<free, queue, cmpFlag, cmpWaiting>>
isrVars == <<isr, index, remain>>
dmaVars == <<fifo, dmaOn, half>>
history == <<written, sent, halves>>
vars == <<writeData, writeIndex, readIndex, pos, stopEvent, activated,
          free, queue, cmpFlag, cmpWaiting, tpc, left, isr, index, remain,
          fifo, dmaOn, half, written, sent, halves>>

Smaller(a, b) == IF a < b THEN a ELSE b

Silence == [i \in 0..(BLOCK - 1) |-> 0]

\* rt_hw_sound_init clears the FIFO once; the device is closed.
Init ==
  /\ writeData = Silence /\ writeIndex = 0 /\ readIndex = 0 /\ pos = 0
  /\ stopEvent = FALSE /\ activated = FALSE
  /\ free = POOL /\ queue = <<>> /\ cmpFlag = FALSE /\ cmpWaiting = FALSE
  /\ tpc = "closed" /\ left = 0
  /\ isr = "idle" /\ index = 0 /\ remain = 0
  /\ fifo = [i \in 0..(TOTAL - 1) |-> 0] /\ dmaOn = FALSE /\ half = 0
  /\ written = 0 /\ sent = 0 /\ halves = 0

-----------------------------------------------------------------------------
(* The thread.  It does not run while the interrupt handler does.          *)

At(l) == tpc = l /\ isr = "idle"
Goto(l) == tpc' = l

\* _audio_dev_open for writing
Open ==
  /\ At("closed")
  /\ writeIndex' = 0 /\ readIndex' = 0 /\ pos' = 0 /\ stopEvent' = FALSE
  /\ Goto("open")
  /\ UNCHANGED <<writeData, activated, ipcVars, left, isrVars, dmaVars, history>>

\* rt_device_write is called.
Write ==
  /\ At("open")
  /\ \E n \in WriteSizes : written + n <= MaxUnits /\ left' = n
  /\ Goto("write")
  /\ UNCHANGED <<replayVars, ipcVars, isrVars, dmaVars, history>>

\* rt_mp_alloc waits for a free block.
BlockReady == free > 0

\* The head of the loop 389-396: a new block is taken from the pool when the
\* last one was pushed, and the thread waits for one if it has to.
WriteAlloc ==
  /\ At("write") /\ left > 0 /\ writeIndex % BLOCK = 0
  /\ BlockReady
  /\ free' = free - 1
  /\ writeData' = Silence
  /\ Goto("copy")
  /\ UNCHANGED <<writeIndex, readIndex, pos, stopEvent, activated, queue,
                 cmpFlag, cmpWaiting, left, isrVars, dmaVars, history>>

WriteMore ==
  /\ At("write") /\ left > 0 /\ writeIndex % BLOCK # 0
  /\ Goto("copy")
  /\ UNCHANGED <<replayVars, ipcVars, left, isrVars, dmaVars, history>>

\* 399-404
WriteCopy ==
  /\ At("copy")
  /\ LET n == Smaller(BLOCK - writeIndex, left) IN
     /\ writeData' = [i \in 0..(BLOCK - 1) |->
                        IF i >= writeIndex /\ i < writeIndex + n
                        THEN written + 1 + (i - writeIndex) ELSE writeData[i]]
     /\ writeIndex' = (writeIndex + n) % BLOCK
     /\ left' = left - n
     /\ written' = written + n
     /\ Goto(IF writeIndex' = 0 THEN "push" ELSE "write")
  /\ UNCHANGED <<readIndex, pos, stopEvent, activated, ipcVars, isrVars,
                 dmaVars, sent, halves>>

\* 406-412; rt_data_queue_push waits while the queue is full.
WritePush ==
  /\ At("push") /\ Len(queue) < QUEUE
  /\ queue' = Append(queue, [data |-> writeData, size |-> BLOCK])
  /\ Goto("write")
  /\ UNCHANGED <<replayVars, free, cmpFlag, cmpWaiting, left, isrVars, dmaVars,
                 history>>

\* 414-421: the first write starts the DMA on the FIFO as it is.
WriteEnd ==
  /\ At("write") /\ left = 0
  /\ IF activated
     THEN UNCHANGED <<activated, dmaOn, half, halves>>
     ELSE activated' = TRUE /\ dmaOn' = TRUE /\ half' = 0 /\ halves' = 0
  /\ Goto("open")
  /\ UNCHANGED <<writeData, writeIndex, readIndex, pos, stopEvent, ipcVars,
                 left, isrVars, fifo, written, sent>>

\* _audio_dev_close and _aduio_replay_stop, which does nothing to a stream that
\* was never started.
Close ==
  /\ At("open")
  /\ Goto(IF activated THEN "flush" ELSE "closed")
  /\ UNCHANGED <<replayVars, ipcVars, left, isrVars, dmaVars, history>>

\* _audio_flush_replay_frame hands over what the last block holds.
Flushed == IF writeIndex # 0
           THEN Append(queue, [data |-> writeData, size |-> writeIndex])
           ELSE queue

Flush ==
  /\ At("flush") /\ (writeIndex # 0 => Len(queue) < QUEUE)
  /\ queue' = Flushed
  /\ writeIndex' = 0
  /\ Goto("notify")
  /\ UNCHANGED <<writeData, readIndex, pos, stopEvent, activated, free,
                 cmpFlag, cmpWaiting, left, isrVars, dmaVars, history>>

\* 154: from now on the interrupt acknowledges an empty queue.
NotifyStop ==
  /\ At("notify")
  /\ stopEvent' = TRUE
  /\ Goto("cmpinit")
  /\ UNCHANGED <<writeData, writeIndex, readIndex, pos, activated, ipcVars,
                 left, isrVars, dmaVars, history>>

\* 157: an acknowledgement that came already is forgotten.
CompletionInit ==
  /\ At("cmpinit")
  /\ cmpFlag' = FALSE /\ cmpWaiting' = FALSE
  /\ Goto("cmpwait")
  /\ UNCHANGED <<replayVars, free, queue, left, isrVars, dmaVars, history>>

\* 158
CompletionWait ==
  /\ At("cmpwait")
  /\ \/ cmpFlag /\ cmpFlag' = FALSE /\ Goto("clear") /\ UNCHANGED cmpWaiting
     \/ ~cmpFlag /\ cmpWaiting' = TRUE /\ Goto("suspended") /\ UNCHANGED cmpFlag
  /\ UNCHANGED <<replayVars, free, queue, left, isrVars, dmaVars, history>>

CompletionWoken ==
  /\ At("suspended") /\ ~cmpWaiting
  /\ cmpFlag' = FALSE
  /\ Goto("clear")
  /\ UNCHANGED <<replayVars, free, queue, cmpWaiting, left, isrVars, dmaVars,
                 history>>

\* 159
ClearStop ==
  /\ At("clear")
  /\ stopEvent' = FALSE
  /\ Goto("stop")
  /\ UNCHANGED <<writeData, writeIndex, readIndex, pos, activated, ipcVars,
                 left, isrVars, dmaVars, history>>

\* 161-165: sound_stop aborts the DMA where it is.  What was not transmitted
\* will not be: the next session counts from here.
StopDma ==
  /\ At("stop")
  /\ dmaOn' = FALSE /\ activated' = FALSE
  /\ sent' = written
  /\ Goto("closed")
  /\ UNCHANGED <<writeData, writeIndex, readIndex, pos, stopEvent, ipcVars,
                 left, isrVars, fifo, half, written, halves>>

-----------------------------------------------------------------------------
(* The DMA and its interrupt, HAL_SAI_TxHalfCpltCallback and               *)
(* HAL_SAI_TxCpltCallback -> rt_audio_tx_complete.                         *)

\* The units of the half the DMA has transmitted.
FrameOut == [i \in 1..FRAME |-> fifo[half * FRAME + i - 1]]

SentAfter == LET units == {FrameOut[i] : i \in 1..FRAME} \ {0} IN
  IF halves < 2 \/ units = {} THEN sent
  ELSE CHOOSE u \in units : \A v \in units : v <= u

\* A half is transmitted, the circular DMA goes on with the other one.
HalfDone ==
  /\ dmaOn /\ isr = "idle"
  /\ half' = 1 - half
  /\ halves' = Smaller(halves + 1, 2)
  /\ sent' = SentAfter
  /\ isr' = "enter" /\ index' = 0
  /\ UNCHANGED <<replayVars, ipcVars, tpc, left, remain, fifo, dmaOn, written>>

Zeroed == [i \in 0..(TOTAL - 1) |->
             IF i >= pos /\ i < pos + FRAME THEN 0 ELSE fifo[i]]

\* Mutant: the interrupt does not acknowledge the stop.
AckStopNot == UNCHANGED <<cmpFlag, cmpWaiting>>

\* 50-51, rt_completion_done resumes the waiting thread.
AckStop == IF stopEvent
           THEN cmpFlag' = TRUE /\ cmpWaiting' = FALSE
           ELSE UNCHANGED <<cmpFlag, cmpWaiting>>

\* 46-58: nothing queued.
SendZero ==
  /\ isr = "enter" /\ queue = <<>>
  /\ AckStop
  /\ fifo' = Zeroed
  /\ pos' = (pos + FRAME) % TOTAL
  /\ isr' = "idle"
  /\ UNCHANGED <<writeData, writeIndex, readIndex, stopEvent, activated, free,
                 queue, tpc, left, index, remain, dmaOn, half, history>>

\* 61
SendBegin ==
  /\ isr = "enter" /\ queue # <<>>
  /\ fifo' = Zeroed
  /\ isr' = "copy"
  /\ UNCHANGED <<replayVars, ipcVars, tpc, left, index, remain, dmaOn, half,
                 history>>

\* The units one turn of the loop copies (78).
Piece == Smaller(FRAME - index, Head(queue).size - readIndex)

\* Mutant: the offset into the block is lost between two frames.
ReadIndexLost == 0

\* Mutant: the offset is not reset at the end of the block.
ReadIndexRunsOn == readIndex + Piece

\* 83, 87-90
ReadIndexAfter == IF readIndex + Piece = Head(queue).size
                  THEN 0 ELSE readIndex + Piece

\* Mutant: a consumed block is not given back.
BlocksFreedNone == 0

\* 87-92
BlocksFreed == IF readIndex + Piece = Head(queue).size THEN 1 ELSE 0

\* One turn of the loop 64-98.
SendCopy ==
  /\ isr = "copy" /\ index < FRAME /\ queue # <<>>
  /\ fifo' = [i \in 0..(TOTAL - 1) |->
                IF i >= pos /\ i < pos + Piece
                THEN Head(queue).data[readIndex + i - pos] ELSE fifo[i]]
  /\ index' = index + Piece
  /\ remain' = Piece
  /\ readIndex' = ReadIndexAfter
  /\ pos' = (pos + Piece) % TOTAL
  /\ free' = free + BlocksFreed
  /\ queue' = IF readIndex + Piece = Head(queue).size THEN Tail(queue) ELSE queue
  /\ UNCHANGED <<writeData, writeIndex, stopEvent, activated, cmpFlag,
                 cmpWaiting, tpc, left, isr, dmaOn, half, history>>

\* Mutant: the position is left where the data ended.
PosAfterUnderRunKept == pos

\* 70-72
PosAfterUnderRun == (pos - remain + FRAME) % TOTAL

\* 67-76
SendUnderRun ==
  /\ isr = "copy" /\ index < FRAME /\ queue = <<>>
  /\ pos' = PosAfterUnderRun
  /\ readIndex' = 0
  /\ isr' = "idle"
  /\ UNCHANGED <<writeData, writeIndex, stopEvent, activated, ipcVars, tpc,
                 left, index, remain, dmaVars, history>>

SendEnd ==
  /\ isr = "copy" /\ index >= FRAME
  /\ isr' = "idle"
  /\ UNCHANGED <<replayVars, ipcVars, tpc, left, index, remain, dmaVars, history>>

-----------------------------------------------------------------------------
ThreadStep ==
  \/ WriteAlloc \/ WriteMore \/ WriteCopy \/ WritePush \/ WriteEnd
  \/ Flush \/ NotifyStop \/ CompletionInit \/ CompletionWait
  \/ CompletionWoken \/ ClearStop \/ StopDma

InterruptStep ==
  HalfDone \/ SendZero \/ SendBegin \/ SendCopy \/ SendUnderRun \/ SendEnd

Next == Open \/ Write \/ Close \/ ThreadStep \/ InterruptStep

Spec == Init /\ [][Next]_vars

\* The thread is scheduled between interrupts, which are rare against its
\* steps (SF: an interrupt disables it for a moment); the DMA does not stall.
\* Nobody has to open, write or close.
FairSpec == Spec /\ SF_vars(ThreadStep) /\ WF_vars(InterruptStep)

-----------------------------------------------------------------------------
(* Properties.                                                             *)

Units == 0..MaxUnits
Items == [data : [0..(BLOCK - 1) -> Units], size : 1..BLOCK]

ThreadPositions == {"closed", "open", "write", "copy", "push", "flush",
                    "notify", "cmpinit", "cmpwait", "suspended", "clear",
                    "stop"}

\* The types of struct rt_audio_replay, the pool, the queue and the FIFO.
TypeOK ==
  /\ writeData \in [0..(BLOCK - 1) -> Units]
  /\ writeIndex \in 0..(BLOCK - 1) /\ readIndex \in 0..(BLOCK - 1)
  /\ pos \in 0..(TOTAL - 1)
  /\ stopEvent \in BOOLEAN /\ activated \in BOOLEAN
  /\ free \in 0..POOL
  /\ \A i \in 1..Len(queue) : queue[i] \in Items
  /\ cmpFlag \in BOOLEAN /\ cmpWaiting \in BOOLEAN
  /\ tpc \in ThreadPositions /\ left \in Nat
  /\ isr \in {"idle", "enter", "copy"}
  /\ index \in 0..FRAME /\ remain \in 0..FRAME
  /\ fifo \in [0..(TOTAL - 1) -> Units]
  /\ dmaOn \in BOOLEAN /\ half \in {0, 1}
  /\ written \in Units /\ sent \in Units /\ halves \in 0..2

\* The interrupt writes only into the half the DMA has left: each memset and
\* memcpy (54, 61, 79) starts at a frame boundary and stays inside the half,
\* under-runs included (70-72).
FillsIdleHalf ==
  /\ dmaOn /\ isr = "idle" => pos = half * FRAME
  /\ isr = "enter" => pos = (1 - half) * FRAME
  /\ isr = "copy" /\ index < FRAME => pos = (1 - half) * FRAME + index

\* A block is in the pool, in the queue or being filled, and in one of them
\* only (394, 408, 116, 91-92).
BlocksConserved ==
  free + Len(queue) + (IF writeIndex # 0 \/ tpc \in {"copy", "push"}
                       THEN 1 ELSE 0) = POOL

\* What leaves the DMA, after the two halves the FIFO held when it was started,
\* is what was written, in order and without a gap; a frame is padded with
\* silence only behind the last unit there was (31-99).  A block or an offset
\* left behind by one session would be heard first in the next (144-170).
PlayedInOrder ==
  [][HalfDone /\ halves = 2 =>
       \E k \in 0..FRAME : \A i \in 1..FRAME :
         FrameOut[i] = IF i <= k THEN sent + i ELSE 0]_vars

\* A write and a close return, however the stop notification and the
\* acknowledgement of the interrupt interleave (154-158).
CallsReturn == (tpc \notin {"open", "closed"}) ~> (tpc \in {"open", "closed"})
=============================================================================
