-------------------------- MODULE AudioReplayProofs --------------------------
(***************************************************************************)
(* The safety invariants of AudioReplay and the order of what it plays,    *)
(* for any frame, any block of whole frames, any pool that fits into the   *)
(* queue and any writes that fit into the pool.                            *)
(*                                                                         *)
(* That the interrupt fills the idle half is not inductive: an under-run   *)
(* finds the frame boundary again only if it had copied one piece of one   *)
(* block (70-72 of audio.c take back the last piece).  So it must be shown *)
(* that all blocks but the last of a session are full (QueueInv), that     *)
(* this last one is followed by nothing until the stop has been            *)
(* acknowledged on an empty queue (StopInv), and that full blocks are read *)
(* by whole frames (CopyInv).                                              *)
(***************************************************************************)
EXTENDS AudioReplay, TLAPS, WellFoundedInduction

\* _audio_dev_close after its flush: nothing is written any more.
Stopping == {"notify", "cmpinit", "cmpwait", "suspended", "clear", "stop"}

\* The block under construction and the units still to be written.
ThreadInv ==
  /\ tpc \in {"closed", "push"} \cup Stopping => writeIndex = 0
  /\ tpc = "open" /\ ~activated => writeIndex = 0
  /\ tpc = "copy" => left > 0
  /\ tpc = "closed" => ~activated
  /\ tpc \in {"flush"} \cup Stopping => activated
  /\ written + left <= MaxUnits

\* An acknowledgement that the closing thread can see was given on an empty
\* queue, which stays empty.
StopInv ==
  /\ tpc \in {"cmpwait", "suspended"} /\ cmpFlag => queue = <<>>
  /\ tpc = "suspended" /\ ~cmpWaiting => queue = <<>>
  /\ tpc \in {"clear", "stop", "closed"} => queue = <<>>
  /\ tpc = "open" /\ ~activated => queue = <<>>

\* Every block but the last of a session is full, and is read frame by frame.
QueueInv ==
  /\ queue \in Seq(Items)
  /\ queue = <<>> => readIndex = 0
  /\ queue # <<>> => readIndex < Head(queue).size
  /\ \A i \in 1..Len(queue) :
       queue[i].size # BLOCK => i = Len(queue) /\ tpc \in Stopping
  /\ \E k \in Nat : readIndex = k * FRAME

\* The loop of the interrupt copies a whole frame at once, or what the last
\* block of the session has.
CopyInv ==
  \/ index = 0 /\ queue # <<>> /\ pos = (1 - half) * FRAME
  \/ index = FRAME /\ pos = half * FRAME
  \/ /\ 0 < index /\ index < FRAME /\ queue = <<>> /\ remain = index
     /\ pos = (1 - half) * FRAME + index

\* The FIFO is filled where the DMA does not read, between interrupts and
\* inside one.
DmaInv ==
  /\ dmaOn <=> activated
  /\ isr # "idle" => dmaOn
  /\ ~dmaOn /\ tpc # "closed" => pos = 0
  /\ dmaOn /\ isr = "idle" => pos = half * FRAME
  /\ isr = "enter" => index = 0 /\ pos = (1 - half) * FRAME
  /\ isr = "copy" => CopyInv

\* The inductive invariant.
IInv == TypeOK /\ BlocksConserved /\ ThreadInv /\ StopInv /\ QueueInv /\ DmaInv

-----------------------------------------------------------------------------
(* Remainders, multiples and maxima.                                       *)

\* A position inside the ring stays what it is.
LEMMA ModLess ==
  ASSUME NEW m \in Nat \ {0}, NEW x \in Nat, x < m
  PROVE  x % m = x
OBVIOUS

\* A block is a whole number of frames.
LEMMA Multiple ==
  ASSUME NEW m \in Nat \ {0}, NEW x \in Nat, x % m = 0
  PROVE  \E k \in Nat : x = k * m
OBVIOUS

\* Between two multiples of a frame there is room for a frame.
LEMMA FrameFits ==
  ASSUME NEW j \in Nat, NEW k \in Nat, NEW m \in Nat \ {0}, j * m < k * m
  PROVE  j * m + m <= k * m
<1>1. j < k
  OBVIOUS
<1>2. (j + 1) * m <= k * m
  BY <1>1
<1>. QED BY <1>2

\* A nonempty set of units has a largest one.
LEMMA Largest ==
  ASSUME NEW n \in Nat, NEW S \in SUBSET (0..n), S # {}
  PROVE  \E u \in S : \A v \in S : v <= u
<1> DEFINE R == OpToRel(<, Nat)
          T == {n - u : u \in S}
<1>1. IsWellFoundedOn(R, Nat)
  BY NatLessThanWellFounded
<1>2. T \subseteq Nat /\ T # {}
  <2>1. \A u \in S : u \in Nat /\ u <= n
    OBVIOUS
  <2>2. \A u \in S : n - u \in Nat
    BY <2>1
  <2>3. PICK u \in S : TRUE
    OBVIOUS
  <2>. QED BY <2>2, <2>3
<1>3. PICK x \in T : \A y \in T : ~(<<y, x>> \in R)
  <2> HIDE DEF R, T
  <2> QED BY <1>1, <1>2, WFMin
<1>4. \A y \in T : ~(y < x)
  <2>1. ASSUME NEW y \in T PROVE ~(y < x)
    <3>1. y \in Nat /\ x \in Nat /\ ~(<<y, x>> \in R)
      BY <1>2, <1>3
    <3>. HIDE DEF T
    <3>. QED BY <3>1 DEF OpToRel
  <2>. QED BY <2>1
<1>. QED
  <2>1. PICK u \in S : x = n - u
    BY <1>3
  <2>2. \A v \in S : ~(n - v < n - u)
    BY <1>4, <2>1
  <2>3. \A v \in S : v \in Nat
    OBVIOUS
  <2>. QED BY <2>2, <2>3

\* A full block wraps the write index to 0.
LEMMA ModSelf ==
  ASSUME NEW m \in Nat \ {0}
  PROVE  m % m = 0
OBVIOUS

\* The other half follows.
LEMMA NextHalf ==
  ASSUME NEW h \in {0, 1}
  PROVE  ((1 - h) * FRAME + FRAME) % TOTAL = h * FRAME
<1>1. TOTAL \in Nat \ {0} /\ TOTAL = FRAME + FRAME /\ FRAME \in Nat \ {0}
  BY FrameAssumption DEF TOTAL
<1>2. CASE h = 0
  BY <1>1, <1>2, ModSelf
<1>3. CASE h = 1
  <2>1. FRAME < TOTAL /\ (1 - h) * FRAME + FRAME = FRAME /\ h * FRAME = FRAME
    BY <1>1, <1>3
  <2>. QED BY <1>1, <2>1, ModLess
<1>. QED BY <1>2, <1>3

-----------------------------------------------------------------------------
(* The data queue.                                                         *)

\* What a push into the queue changes (rt_data_queue_push).
LEMMA AppendItems ==
  ASSUME NEW q \in Seq(Items), NEW x \in Items
  PROVE  /\ Append(q, x) \in Seq(Items) /\ Append(q, x) # <<>>
         /\ Len(Append(q, x)) = Len(q) + 1
         /\ \A i \in 1..Len(q) : Append(q, x)[i] = q[i]
         /\ Append(q, x)[Len(q) + 1] = x
         /\ \A i \in 1..(Len(q) + 1) : Append(q, x)[i] \in Items
         /\ Head(Append(q, x)) = IF q = <<>> THEN x ELSE Head(q)
<1>. DEFINE r == Append(q, x)
<1>1. /\ r \in Seq(Items) /\ Len(r) = Len(q) + 1 /\ Len(q) \in Nat
      /\ \A i \in 1..Len(q) : r[i] = q[i] /\ q[i] \in Items
      /\ r[Len(q) + 1] = x
  OBVIOUS
<1>2. r # <<>> /\ Head(r) = r[1]
  <2>. HIDE DEF r
  <2>1. r # <<>>
    BY <1>1
  <2>. QED BY <1>1, <2>1
<1>3. /\ q = <<>> => Len(q) = 0
      /\ q # <<>> => 1 \in 1..Len(q) /\ Head(q) = q[1]
  OBVIOUS
<1>. HIDE DEF r
<1>4. \A i \in 1..(Len(q) + 1) : r[i] \in Items
  BY <1>1
<1>5. Head(r) = IF q = <<>> THEN x ELSE Head(q)
  BY <1>1, <1>2, <1>3
<1>. QED BY <1>1, <1>2, <1>4, <1>5 DEF r

\* What a pop of the queue leaves (rt_data_queue_pop).
LEMMA TailItems ==
  ASSUME NEW q \in Seq(Items), q # <<>>
  PROVE  /\ Len(q) \in Nat \ {0} /\ Head(q) = q[1] /\ Head(q) \in Items
         /\ Tail(q) \in Seq(Items) /\ Len(Tail(q)) = Len(q) - 1
         /\ \A i \in 1..Len(Tail(q)) : Tail(q)[i] = q[i + 1]
         /\ Tail(q) # <<>> => Head(Tail(q)) = q[2]
OBVIOUS

\* The last unit transmitted is one that was in the FIFO.
LEMMA SentInUnits ==
  ASSUME TypeOK
  PROVE  SentAfter \in Units
<1>. DEFINE units == {FrameOut[i] : i \in 1..FRAME} \ {0}
<1>1. units \in SUBSET Units
  <2>1. \A i \in 1..FRAME : half * FRAME + i - 1 \in 0..(TOTAL - 1)
    <3>1. half * FRAME \in {0, FRAME}
      BY FrameAssumption DEF TypeOK
    <3>. QED BY <3>1, FrameAssumption DEF TOTAL
  <2>2. fifo \in [0..(TOTAL - 1) -> Units]
    BY DEF TypeOK
  <2>3. \A i \in 1..FRAME : FrameOut[i] \in Units
    BY <2>1, <2>2 DEF FrameOut
  <2>. QED BY <2>3
<1>2. CASE halves < 2 \/ units = {}
  BY <1>2 DEF SentAfter, TypeOK
<1>3. CASE ~(halves < 2 \/ units = {})
  <2>1. \E u \in units : \A v \in units : v <= u
    <3>. HIDE DEF units
    <3>. QED BY <1>1, <1>3, Largest, BoundAssumption DEF Units
  <2>2. SentAfter = CHOOSE u \in units : \A v \in units : v <= u
    BY <1>3 DEF SentAfter
  <2>. HIDE DEF units
  <2>. QED BY <1>1, <2>1, <2>2
<1>. QED BY <1>2, <1>3

-----------------------------------------------------------------------------
(* Every step preserves the invariant.                                     *)

\* _audio_dev_open finds the DMA stopped and the queue empty.
LEMMA OpenStep ==
  ASSUME IInv, Open
  PROVE  IInv'
<1>. USE DEF IInv, Open, At, Goto, replayVars, ipcVars, isrVars, dmaVars,
            history
<1>1. TypeOK'
  BY FrameAssumption, BlockAssumption, BoundAssumption, PoolAssumption
  DEF TypeOK, ThreadPositions, TOTAL
<1>2. BlocksConserved'
  BY DEF BlocksConserved, ThreadInv, Stopping
<1>3. ThreadInv'
  BY DEF ThreadInv, Stopping, TypeOK
<1>4. StopInv'
  BY DEF StopInv, Stopping
<1>5. QueueInv'
  BY DEF QueueInv, StopInv, Stopping
<1>6. DmaInv'
  BY DEF DmaInv, ThreadInv
<1>. QED
  BY <1>1, <1>2, <1>3, <1>4, <1>5, <1>6

\* _audio_dev_write is entered.
LEMMA WriteStep ==
  ASSUME IInv, Write
  PROVE  IInv'
<1>. USE DEF IInv, Write, At, Goto, replayVars, ipcVars, isrVars, dmaVars,
            history
<1>1. TypeOK'
  <2>1. left' \in Nat
    <3>1. \A n \in WriteSizes : n \in Nat
      <4>1. POOL * BLOCK \in Nat
        BY BlockAssumption, PoolAssumption
      <4>. HIDE DEF IInv, Write
      <4>. QED BY <4>1, WriteAssumption
    <3>2. left' \in WriteSizes
      OBVIOUS
    <3>. HIDE DEF IInv, Write
    <3>. QED BY <3>1, <3>2
  <2>. QED BY <2>1 DEF TypeOK, ThreadPositions
<1>2. BlocksConserved'
  BY DEF BlocksConserved, ThreadInv, Stopping
<1>3. ThreadInv'
  BY DEF ThreadInv, Stopping, TypeOK
<1>4. StopInv'
  BY DEF StopInv, Stopping
<1>5. QueueInv'
  BY DEF QueueInv, StopInv, Stopping
<1>6. DmaInv'
  BY DEF DmaInv
<1>. QED
  BY <1>1, <1>2, <1>3, <1>4, <1>5, <1>6

\* The write goes on in a block it has filled in part.
LEMMA WriteMoreStep ==
  ASSUME IInv, WriteMore
  PROVE  IInv'
<1>. USE DEF IInv, WriteMore, At, Goto, replayVars, ipcVars, isrVars, dmaVars,
            history
<1>1. TypeOK'
  BY FrameAssumption, BlockAssumption, BoundAssumption, PoolAssumption
  DEF TypeOK, ThreadPositions, Items, Units, TOTAL
<1>2. BlocksConserved'
  <2>1. writeIndex # 0
    BY BlockAssumption, ModLess DEF TypeOK
  <2>. QED BY <2>1 DEF BlocksConserved
<1>3. ThreadInv'
  BY DEF ThreadInv, Stopping, TypeOK
<1>4. StopInv'
  BY DEF StopInv, Stopping
<1>5. QueueInv'
  BY DEF QueueInv, StopInv, Stopping
<1>6. DmaInv'
  BY DEF DmaInv
<1>. QED
  BY <1>1, <1>2, <1>3, <1>4, <1>5, <1>6

\* The write takes a block out of the pool; it held none.
LEMMA WriteAllocStep ==
  ASSUME IInv, WriteAlloc
  PROVE  IInv'
<1>. USE DEF IInv, WriteAlloc, At, Goto, replayVars, ipcVars, isrVars,
            dmaVars, history, BlockReady
<1>a. writeIndex = 0
  <2>1. writeIndex \in Nat /\ writeIndex < BLOCK /\ writeIndex % BLOCK = 0
    BY BlockAssumption DEF TypeOK
  <2>. HIDE DEF IInv, WriteAlloc
  <2>. QED BY <2>1, ModLess, BlockAssumption
<1>1. TypeOK'
  <2>1. writeData' \in [0..(BLOCK - 1) -> Units]
    BY BoundAssumption DEF Silence, Units
  <2>2. free' \in 0..POOL
    BY PoolAssumption DEF TypeOK
  <2>. QED BY <2>1, <2>2 DEF TypeOK, ThreadPositions
<1>2. BlocksConserved'
  BY <1>a, PoolAssumption DEF BlocksConserved, TypeOK
<1>3. ThreadInv'
  BY DEF ThreadInv, Stopping, TypeOK
<1>4. StopInv'
  BY DEF StopInv, Stopping
<1>5. QueueInv'
  BY DEF QueueInv, StopInv, Stopping
<1>6. DmaInv'
  BY DEF DmaInv
<1>. QED
  BY <1>1, <1>2, <1>3, <1>4, <1>5, <1>6

\* The write copies up to the end of the block, or of its data.
LEMMA WriteCopyStep ==
  ASSUME IInv, WriteCopy
  PROVE  IInv'
<1>. USE DEF IInv, WriteCopy, At, Goto, replayVars, ipcVars, isrVars, dmaVars,
            history
<1>. DEFINE n == Smaller(BLOCK - writeIndex, left)
<1>a. /\ n \in Nat \ {0} /\ n <= left /\ writeIndex + n <= BLOCK
      /\ writeIndex \in Nat /\ left \in Nat /\ written \in Nat
      /\ written + n <= MaxUnits
  BY BlockAssumption, BoundAssumption DEF TypeOK, ThreadInv, Smaller, Units
<1>b. /\ writeIndex' = (writeIndex + n) % BLOCK
      /\ left' = left - n /\ written' = written + n
  OBVIOUS
<1>c. \/ writeIndex' = 0
      \/ writeIndex' = writeIndex + n /\ writeIndex' \in 1..(BLOCK - 1)
  <2>1. CASE writeIndex + n = BLOCK
    <3>. HIDE DEF IInv, WriteCopy, n
    <3>. QED BY <1>b, <2>1, ModSelf, BlockAssumption
  <2>2. CASE writeIndex + n < BLOCK
    <3>. HIDE DEF IInv, WriteCopy, n
    <3>1. writeIndex + n \in Nat /\ writeIndex + n # 0
      BY <1>a
    <3>2. (writeIndex + n) % BLOCK = writeIndex + n
      BY <2>2, <3>1, ModLess, BlockAssumption
    <3>. QED BY <1>b, <2>2, <3>1, <3>2, BlockAssumption
  <2>. HIDE DEF IInv, WriteCopy, n
  <2>. QED BY <1>a, <2>1, <2>2, BlockAssumption
<1>1. TypeOK'
  <2>1. writeData' \in [0..(BLOCK - 1) -> Units]
    <3>1. \A i \in 0..(BLOCK - 1) :
            i >= writeIndex /\ i < writeIndex + n
              => written + 1 + (i - writeIndex) \in Units
      BY <1>a, BlockAssumption, BoundAssumption DEF Units
    <3>2. writeData \in [0..(BLOCK - 1) -> Units]
      BY DEF TypeOK
    <3>3. writeData' = [i \in 0..(BLOCK - 1) |->
                      IF i >= writeIndex /\ i < writeIndex + n
                      THEN written + 1 + (i - writeIndex) ELSE writeData[i]]
      OBVIOUS
    <3>. HIDE DEF n
    <3>. QED BY <3>1, <3>2, <3>3
  <2>2. writeIndex' \in 0..(BLOCK - 1)
    BY <1>c, BlockAssumption
  <2>3. left' \in Nat /\ written' \in Units
    BY <1>a, <1>b, BoundAssumption DEF Units
  <2>. QED BY <2>1, <2>2, <2>3 DEF TypeOK, ThreadPositions
<1>2. BlocksConserved'
  BY DEF BlocksConserved, ThreadInv, Stopping
<1>3. ThreadInv'
  <2>1. written' + left' <= MaxUnits
    BY <1>a, <1>b, BoundAssumption DEF ThreadInv
  <2>. QED BY <2>1, <1>c DEF ThreadInv, Stopping
<1>4. StopInv'
  BY DEF StopInv, Stopping
<1>5. QueueInv'
  BY DEF QueueInv, StopInv, Stopping
<1>6. DmaInv'
  BY DEF DmaInv
<1>. QED
  BY <1>1, <1>2, <1>3, <1>4, <1>5, <1>6

\* A full block goes from the writer to the end of the queue.
LEMMA WritePushStep ==
  ASSUME IInv, WritePush
  PROVE  IInv'
<1>. USE DEF IInv, WritePush, At, Goto, replayVars, ipcVars, isrVars, dmaVars,
            history
<1>. DEFINE item == [data |-> writeData, size |-> BLOCK]
<1>a. item \in Items /\ item.size = BLOCK
  BY BlockAssumption DEF TypeOK, Items
<1>b. queue \in Seq(Items) /\ queue' = Append(queue, item)
  BY DEF QueueInv
<1>1. TypeOK'
  <2>1. \A i \in 1..Len(queue') : queue'[i] \in Items
    <3>. HIDE DEF item
    <3>. QED BY <1>a, <1>b, AppendItems
  <2>. QED BY <2>1 DEF TypeOK, ThreadPositions
<1>2. BlocksConserved'
  <2>1. Len(queue') = Len(queue) + 1
    <3>. HIDE DEF item
    <3>. QED BY <1>a, <1>b, AppendItems
  <2>2. Len(queue) \in Nat /\ writeIndex = 0
    BY <1>b DEF ThreadInv
  <2>. QED BY <2>1, <2>2, PoolAssumption DEF BlocksConserved, TypeOK
<1>3. ThreadInv'
  BY DEF ThreadInv, Stopping, TypeOK
<1>4. StopInv'
  BY DEF StopInv, Stopping
<1>5. QueueInv'
  <2>1. /\ queue' \in Seq(Items) /\ queue' # <<>>
        /\ Len(queue') = Len(queue) + 1
        /\ \A i \in 1..Len(queue) : queue'[i] = queue[i]
        /\ queue'[Len(queue')] = item
        /\ Head(queue') = IF queue = <<>> THEN item ELSE Head(queue)
    <3>. HIDE DEF item
    <3>. QED BY <1>a, <1>b, AppendItems
  <2>2. readIndex' < Head(queue').size
    BY <1>a, <2>1, BlockAssumption DEF QueueInv
  <2>3. \A i \in 1..Len(queue') : queue'[i].size = BLOCK
    <3>1. \A i \in 1..Len(queue) : queue[i].size = BLOCK
      BY DEF QueueInv, Stopping
    <3>. QED BY <1>a, <1>b, <2>1, <3>1
  <2>. QED BY <2>1, <2>2, <2>3 DEF QueueInv
<1>6. DmaInv'
  BY DEF DmaInv
<1>. QED
  BY <1>1, <1>2, <1>3, <1>4, <1>5, <1>6

\* The first write of a session starts the DMA on half 0, with pos at 0.
LEMMA WriteEndStep ==
  ASSUME IInv, WriteEnd
  PROVE  IInv'
<1>. USE DEF IInv, WriteEnd, At, Goto, replayVars, ipcVars, isrVars, dmaVars,
            history
<1>1. TypeOK'
  <2>1. /\ activated' \in BOOLEAN /\ dmaOn' \in BOOLEAN
        /\ half' \in {0, 1} /\ halves' \in 0..2
    <3>1. CASE activated
      BY <3>1 DEF TypeOK
    <3>2. CASE ~activated
      BY <3>2 DEF TypeOK
    <3>. QED BY <3>1, <3>2
  <2>. QED BY <2>1 DEF TypeOK, ThreadPositions
<1>2. BlocksConserved'
  BY DEF BlocksConserved, ThreadInv, Stopping
<1>3. ThreadInv'
  BY DEF ThreadInv, Stopping, TypeOK
<1>4. StopInv'
  BY DEF StopInv, Stopping
<1>5. QueueInv'
  BY DEF QueueInv, StopInv, Stopping
<1>6. DmaInv'
  <2>1. CASE activated
    BY <2>1 DEF DmaInv
  <2>2. CASE ~activated
    BY <2>2, FrameAssumption DEF DmaInv
  <2>. QED BY <2>1, <2>2
<1>. QED
  BY <1>1, <1>2, <1>3, <1>4, <1>5, <1>6

\* _audio_dev_close is entered.
LEMMA CloseStep ==
  ASSUME IInv, Close
  PROVE  IInv'
<1>. USE DEF IInv, Close, At, Goto, replayVars, ipcVars, isrVars, dmaVars,
            history
<1>1. TypeOK'
  BY FrameAssumption, BlockAssumption, BoundAssumption, PoolAssumption
  DEF TypeOK, ThreadPositions, Items, Units, TOTAL
<1>2. BlocksConserved'
  BY DEF BlocksConserved, ThreadInv, Stopping
<1>3. ThreadInv'
  BY DEF ThreadInv, Stopping, TypeOK
<1>4. StopInv'
  BY DEF StopInv, Stopping
<1>5. QueueInv'
  BY DEF QueueInv, StopInv, Stopping
<1>6. DmaInv'
  BY DEF DmaInv
<1>. QED
  BY <1>1, <1>2, <1>3, <1>4, <1>5, <1>6

\* The last block, which may be short, is the last in the queue until the stop.
LEMMA FlushStep ==
  ASSUME IInv, Flush
  PROVE  IInv'
<1>. USE DEF IInv, Flush, At, Goto, replayVars, ipcVars, isrVars, dmaVars,
            history, Flushed
<1>. DEFINE item == [data |-> writeData, size |-> writeIndex]
<1>a. queue \in Seq(Items) /\ Len(queue) \in Nat /\ writeIndex' = 0
  BY DEF QueueInv
<1>b. writeIndex = 0 => queue' = queue
  OBVIOUS
<1>c. writeIndex # 0 => /\ item \in Items /\ item.size = writeIndex
                        /\ queue' = Append(queue, item)
  BY BlockAssumption DEF TypeOK, Items
<1>1. TypeOK'
  <2>1. \A i \in 1..Len(queue') : queue'[i] \in Items
    <3>. HIDE DEF item
    <3>. QED BY <1>a, <1>b, <1>c, AppendItems DEF TypeOK
  <2>. QED BY <1>a, <2>1, BlockAssumption DEF TypeOK, ThreadPositions
<1>2. BlocksConserved'
  <2>1. Len(queue') = Len(queue) + IF writeIndex # 0 THEN 1 ELSE 0
    <3>. HIDE DEF item
    <3>. QED BY <1>a, <1>b, <1>c, AppendItems
  <2>. QED BY <1>a, <2>1, PoolAssumption DEF BlocksConserved, TypeOK
<1>3. ThreadInv'
  BY DEF ThreadInv, Stopping, TypeOK
<1>4. StopInv'
  BY DEF StopInv, Stopping
<1>5. QueueInv'
  <2>1. CASE writeIndex = 0
    BY <1>b, <2>1 DEF QueueInv, Stopping
  <2>2. CASE writeIndex # 0
    <3>1. /\ queue' \in Seq(Items) /\ queue' # <<>>
          /\ Len(queue') = Len(queue) + 1
          /\ \A i \in 1..Len(queue) : queue'[i] = queue[i]
          /\ Head(queue') = IF queue = <<>> THEN item ELSE Head(queue)
      <4>. HIDE DEF item
      <4>. QED BY <1>a, <1>c, <2>2, AppendItems
    <3>2. readIndex' < Head(queue').size
      BY <1>c, <2>2, <3>1, BlockAssumption DEF QueueInv, TypeOK
    <3>3. \A i \in 1..Len(queue) : queue[i].size = BLOCK
      BY DEF QueueInv, Stopping
    <3>. QED BY <1>a, <3>1, <3>2, <3>3 DEF QueueInv, Stopping
  <2>. QED BY <2>1, <2>2
<1>6. DmaInv'
  BY DEF DmaInv
<1>. QED
  BY <1>1, <1>2, <1>3, <1>4, <1>5, <1>6

\* The stop is notified and the acknowledgement awaited.
LEMMA CloseSteps ==
  ASSUME IInv,
         NotifyStop \/ CompletionInit \/ CompletionWait \/ CompletionWoken
           \/ ClearStop
  PROVE  IInv'
<1>. USE DEF IInv, NotifyStop, CompletionInit, CompletionWait,
            CompletionWoken, ClearStop, At, Goto, replayVars, ipcVars,
            isrVars, dmaVars, history
<1>1. TypeOK'
  BY FrameAssumption, BlockAssumption, BoundAssumption, PoolAssumption
  DEF TypeOK, ThreadPositions, Items, Units, TOTAL
<1>2. BlocksConserved'
  BY DEF BlocksConserved, ThreadInv, Stopping
<1>3. ThreadInv'
  BY DEF ThreadInv, Stopping, TypeOK
<1>4. StopInv'
  BY DEF StopInv, Stopping
<1>5. QueueInv'
  BY DEF QueueInv, StopInv, Stopping
<1>6. DmaInv'
  BY DEF DmaInv
<1>. QED
  BY <1>1, <1>2, <1>3, <1>4, <1>5, <1>6

\* The DMA is stopped on an empty queue.
LEMMA StopDmaStep ==
  ASSUME IInv, StopDma
  PROVE  IInv'
<1>. USE DEF IInv, StopDma, At, Goto, replayVars, ipcVars, isrVars, dmaVars,
            history
<1>1. TypeOK'
  BY FrameAssumption, BlockAssumption, BoundAssumption, PoolAssumption
  DEF TypeOK, ThreadPositions, Items, Units, TOTAL
<1>2. BlocksConserved'
  BY DEF BlocksConserved, ThreadInv, Stopping
<1>3. ThreadInv'
  BY DEF ThreadInv, Stopping, TypeOK
<1>4. StopInv'
  BY DEF StopInv, Stopping
<1>5. QueueInv'
  BY DEF QueueInv, StopInv, Stopping
<1>6. DmaInv'
  BY DEF DmaInv
<1>. QED
  BY <1>1, <1>2, <1>3, <1>4, <1>5, <1>6

\* The DMA goes to the half that was filled, the interrupt to the other.
LEMMA HalfDoneStep ==
  ASSUME IInv, HalfDone
  PROVE  IInv'
<1>. USE DEF IInv, HalfDone, At, Goto, replayVars, ipcVars, isrVars, dmaVars,
            history
<1>a. half' \in {0, 1} /\ (1 - half') * FRAME = half * FRAME
  BY FrameAssumption DEF TypeOK
<1>1. TypeOK'
  <2>1. sent' \in Units
    BY SentInUnits
  <2>2. halves' \in 0..2 /\ index' \in 0..FRAME
    BY FrameAssumption DEF TypeOK, Smaller
  <2>. QED BY <1>a, <2>1, <2>2 DEF TypeOK
<1>2. BlocksConserved'
  BY DEF BlocksConserved, ThreadInv, Stopping
<1>3. ThreadInv'
  BY DEF ThreadInv, Stopping, TypeOK
<1>4. StopInv'
  BY DEF StopInv, Stopping
<1>5. QueueInv'
  BY DEF QueueInv, StopInv, Stopping
<1>6. DmaInv'
  BY <1>a DEF DmaInv
<1>. QED
  BY <1>1, <1>2, <1>3, <1>4, <1>5, <1>6

\* With nothing queued the idle half is silence, and the stop acknowledged.
LEMMA SendZeroStep ==
  ASSUME IInv, SendZero
  PROVE  IInv'
<1>. USE DEF IInv, SendZero, At, Goto, replayVars, ipcVars, isrVars, dmaVars,
            history, AckStop
<1>a. pos = (1 - half) * FRAME /\ index = 0 /\ half \in {0, 1}
  BY DEF DmaInv, TypeOK
<1>b. fifo' \in [0..(TOTAL - 1) -> Units]
  BY BoundAssumption DEF TypeOK, Zeroed, Units
<1>c. pos' = half * FRAME
  BY <1>a, NextHalf
<1>1. TypeOK'
  <2>1. pos' \in 0..(TOTAL - 1)
    BY <1>a, <1>c, FrameAssumption DEF TOTAL
  <2>. QED BY <1>b, <2>1 DEF TypeOK
<1>2. BlocksConserved'
  BY DEF BlocksConserved, ThreadInv, Stopping
<1>3. ThreadInv'
  BY DEF ThreadInv, Stopping, TypeOK
<1>4. StopInv'
  BY DEF StopInv, Stopping
<1>5. QueueInv'
  BY DEF QueueInv, StopInv, Stopping
<1>6. DmaInv'
  BY <1>c DEF DmaInv
<1>. QED
  BY <1>1, <1>2, <1>3, <1>4, <1>5, <1>6

\* The idle half is cleared before it is filled.
LEMMA SendBeginStep ==
  ASSUME IInv, SendBegin
  PROVE  IInv'
<1>. USE DEF IInv, SendBegin, At, Goto, replayVars, ipcVars, isrVars, dmaVars,
            history
<1>a. pos = (1 - half) * FRAME /\ index = 0 /\ half \in {0, 1}
  BY DEF DmaInv, TypeOK
<1>b. fifo' \in [0..(TOTAL - 1) -> Units]
  BY BoundAssumption DEF TypeOK, Zeroed, Units
<1>1. TypeOK'
  BY <1>b DEF TypeOK
<1>2. BlocksConserved'
  BY DEF BlocksConserved, ThreadInv, Stopping
<1>3. ThreadInv'
  BY DEF ThreadInv, Stopping, TypeOK
<1>4. StopInv'
  BY DEF StopInv, Stopping
<1>5. QueueInv'
  BY DEF QueueInv, StopInv, Stopping
<1>6. DmaInv'
  BY <1>a DEF DmaInv, CopyInv
<1>. QED
  BY <1>1, <1>2, <1>3, <1>4, <1>5, <1>6

\* A turn of the loop fills the half, or takes the last, short block.  A block
\* that is full and read by frames still has a frame, so that a shorter piece
\* comes from the last block and leaves the queue empty.
LEMMA SendCopyStep ==
  ASSUME IInv, SendCopy
  PROVE  IInv'
<1>. USE DEF IInv, SendCopy, At, Goto, replayVars, ipcVars, isrVars, dmaVars,
            history
<1>. DEFINE size == Head(queue).size
            done == readIndex + Piece = size
<1>a. /\ index = 0 /\ pos = (1 - half) * FRAME /\ half \in {0, 1}
      /\ dmaOn /\ FRAME \in Nat \ {0}
  BY FrameAssumption DEF DmaInv, CopyInv, TypeOK
<1>b. /\ queue \in Seq(Items) /\ Len(queue) \in Nat \ {0}
      /\ Head(queue) = queue[1] /\ Head(queue) \in Items
  BY TailItems DEF QueueInv
<1>c. /\ size \in 1..BLOCK /\ readIndex \in Nat /\ readIndex < size
  BY <1>b DEF Items, QueueInv, TypeOK
<1>d. /\ Piece \in 1..FRAME /\ Piece <= size - readIndex
      /\ Piece = FRAME \/ done
  BY <1>a, <1>c, BlockAssumption DEF Piece, Smaller
<1>e. size = BLOCK => Piece = FRAME
  <2>1. PICK k \in Nat : readIndex = k * FRAME
    BY DEF QueueInv
  <2>2. PICK b \in Nat : BLOCK = b * FRAME
    BY Multiple, FrameAssumption, BlockAssumption
  <2>3. size = BLOCK => readIndex + FRAME <= BLOCK
    BY <1>c, <2>1, <2>2, FrameFits, FrameAssumption
  <2>4. size = BLOCK /\ readIndex + FRAME <= BLOCK => Piece = FRAME
    <3>. HIDE DEF IInv, SendCopy
    <3>. QED BY <1>a, <1>c, BlockAssumption DEF Piece, Smaller
  <2>. QED BY <2>3, <2>4
<1>f. /\ pos \in {0, FRAME}
      /\ Piece = FRAME => pos' = half * FRAME
      /\ Piece # FRAME => pos' = pos + Piece
  <2>1. pos \in {0, FRAME} /\ TOTAL \in Nat \ {0} /\ TOTAL = 2 * FRAME
    BY <1>a DEF TOTAL
  <2>2. CASE Piece = FRAME
    BY <1>a, <2>1, <2>2, NextHalf
  <2>3. CASE Piece # FRAME
    <3>1. pos + Piece \in Nat /\ pos + Piece < TOTAL
      <4>. DEFINE p == Piece
      <4>1. p \in 1..FRAME /\ p # FRAME /\ FRAME \in Nat
        BY <1>a, <1>d, <2>3
      <4>. HIDE DEF IInv, SendCopy, p
      <4>2. pos + p \in Nat /\ pos + p < TOTAL
        BY <2>1, <4>1
      <4>. QED BY <4>2 DEF p
    <3>. QED BY <2>1, <2>3, <3>1, ModLess
  <2>. QED BY <2>1, <2>2, <2>3
<1>g. /\ done => queue' = Tail(queue) /\ readIndex' = 0 /\ free' = free + 1
      /\ ~done => /\ queue' = queue /\ free' = free
                  /\ readIndex' = readIndex + Piece
  BY <1>b DEF ReadIndexAfter, BlocksFreed, TypeOK
<1>h. /\ Tail(queue) \in Seq(Items) /\ Len(Tail(queue)) = Len(queue) - 1
      /\ \A i \in 1..Len(Tail(queue)) : Tail(queue)[i] = queue[i + 1]
      /\ Tail(queue) # <<>> => Head(Tail(queue)) = queue[2]
  BY <1>b, TailItems
<1>1. TypeOK'
  <2>1. fifo' \in [0..(TOTAL - 1) -> Units]
    <3>1. \A i \in 0..(TOTAL - 1) :
            i >= pos /\ i < pos + Piece
              => Head(queue).data[readIndex + i - pos] \in Units
      <4>1. Head(queue).data \in [0..(BLOCK - 1) -> Units]
        BY <1>b DEF Items
      <4>2. \A i \in 0..(TOTAL - 1) :
              i >= pos /\ i < pos + Piece
                => readIndex + i - pos \in 0..(BLOCK - 1)
        <5>. HIDE DEF IInv, SendCopy, size
        <5>. QED BY <1>a, <1>c, <1>d, <1>f, BlockAssumption DEF TOTAL
      <4>. QED BY <4>1, <4>2
    <3>2. fifo \in [0..(TOTAL - 1) -> Units]
      BY DEF TypeOK
    <3>3. fifo' = [i \in 0..(TOTAL - 1) |->
                     IF i >= pos /\ i < pos + Piece
                     THEN Head(queue).data[readIndex + i - pos] ELSE fifo[i]]
      OBVIOUS
    <3>. QED BY <3>1, <3>2, <3>3
  <2>2. pos' \in 0..(TOTAL - 1)
    BY <1>a, <1>d, <1>f DEF TOTAL
  <2>3. readIndex' \in 0..(BLOCK - 1)
    <3>. HIDE DEF IInv, SendCopy, size
    <3>. QED BY <1>c, <1>d, <1>g, BlockAssumption
  <2>4. free' \in 0..POOL
    BY <1>b, <1>g, PoolAssumption DEF TypeOK, BlocksConserved
  <2>5. \A i \in 1..Len(queue') : queue'[i] \in Items
    <3>1. queue \in Seq(Items) /\ \A i \in 1..Len(queue) : queue[i] \in Items
      BY <1>b
    <3>. HIDE DEF IInv, SendCopy, size, done
    <3>2. CASE done
      BY <1>b, <1>g, <1>h, <3>1, <3>2
    <3>3. CASE ~done
      BY <1>g, <3>1, <3>3
    <3>. QED BY <3>2, <3>3
  <2>6. index' \in 0..FRAME /\ remain' \in 0..FRAME
    BY <1>a, <1>d
  <2>. QED BY <2>1, <2>2, <2>3, <2>4, <2>5, <2>6 DEF TypeOK
<1>2. BlocksConserved'
  <2>1. /\ free \in Nat /\ writeIndex' = writeIndex /\ tpc' = tpc
        /\ POOL \in Nat /\ BlocksConserved
    BY PoolAssumption DEF TypeOK
  <2>. HIDE DEF IInv, SendCopy, size, done
  <2>2. free' + Len(queue') = free + Len(queue)
    BY <1>b, <1>g, <1>h, <2>1
  <2>3. Len(queue') \in Nat /\ free' \in Nat
    BY <1>b, <1>g, <1>h, <2>1
  <2>. QED BY <1>b, <2>1, <2>2, <2>3 DEF BlocksConserved
<1>3. ThreadInv'
  BY DEF ThreadInv, Stopping, TypeOK
<1>4. StopInv'
  BY <1>b, <1>g DEF StopInv, Stopping
<1>5. QueueInv'
  <2>1. CASE done
    <3>1. \A i \in 1..Len(queue) :
            /\ queue[i].size \in Nat \ {0}
            /\ queue[i].size # BLOCK => i = Len(queue) /\ tpc' \in Stopping
      <4>1. \A i \in 1..Len(queue) : queue[i] \in Items
        BY <1>b
      <4>. QED BY <4>1, BlockAssumption DEF Items, QueueInv
    <3>2. queue' = Tail(queue) /\ readIndex' = 0 /\ 0 = 0 * FRAME
      BY <1>a, <1>g, <2>1
    <3>. HIDE DEF IInv, SendCopy, size, done
    <3>3. queue' # <<>> => Head(queue').size \in Nat \ {0}
      <4>1. Tail(queue) # <<>> => 2 \in 1..Len(queue)
        BY <1>b, <1>h
      <4>. QED BY <1>h, <3>1, <3>2, <4>1
    <3>4. \A i \in 1..Len(queue') :
            queue'[i].size # BLOCK => i = Len(queue') /\ tpc' \in Stopping
      <4>1. \A i \in 1..Len(Tail(queue)) :
              i + 1 \in 1..Len(queue) /\ Tail(queue)[i] = queue[i + 1]
        BY <1>b, <1>h
      <4>2. \A i \in 1..Len(Tail(queue)) :
              Tail(queue)[i].size # BLOCK
                => i + 1 = Len(queue) /\ tpc' \in Stopping
        BY <3>1, <4>1
      <4>3. \A i \in 1..Len(Tail(queue)) :
              Tail(queue)[i].size # BLOCK
                => i = Len(Tail(queue)) /\ tpc' \in Stopping
        <5>1. /\ Len(queue) \in Nat /\ Len(Tail(queue)) \in Nat
              /\ Len(Tail(queue)) = Len(queue) - 1
          BY <1>b, <1>h
        <5>2. SUFFICES ASSUME NEW i \in 1..Len(Tail(queue)),
                              Tail(queue)[i].size # BLOCK
                       PROVE  i = Len(Tail(queue)) /\ tpc' \in Stopping
          OBVIOUS
        <5>3. i + 1 = Len(queue) /\ tpc' \in Stopping
          BY <4>2, <5>2
        <5>4. i \in Int
          BY <5>1
        <5>. QED BY <5>1, <5>3, <5>4
      <4>. QED BY <3>2, <4>3
    <3>5. /\ queue' # <<>> => readIndex' < Head(queue').size
          /\ \E k \in Nat : readIndex' = k * FRAME
      BY <3>2, <3>3
    <3>. QED BY <1>h, <3>2, <3>4, <3>5 DEF QueueInv
  <2>2. CASE ~done
    <3>1. PICK k \in Nat : readIndex = k * FRAME
      BY DEF QueueInv
    <3>2. readIndex' = (k + 1) * FRAME
      BY <1>a, <1>d, <1>g, <2>2, <3>1
    <3>3. readIndex' < Head(queue').size
      BY <1>c, <1>d, <1>g, <2>2, BlockAssumption
    <3>. QED BY <1>b, <1>g, <2>2, <3>1, <3>2, <3>3 DEF QueueInv
  <2>. QED BY <2>1, <2>2
<1>6. DmaInv'
  <2>1. CopyInv'
    <3>1. CASE Piece = FRAME
      BY <1>a, <1>f, <3>1 DEF CopyInv
    <3>2. CASE Piece # FRAME
      <4>1. done /\ size # BLOCK
        BY <1>d, <1>e, <3>2
      <4>2. 1 = Len(queue)
        <5>1. 1 \in 1..Len(queue) /\ queue[1].size # BLOCK
          BY <1>b, <4>1
        <5>. QED BY <5>1 DEF QueueInv
      <4>3. queue' = <<>>
        <5>1. queue' = Tail(queue)
          BY <1>g, <4>1
        <5>. HIDE DEF IInv, SendCopy, size, done
        <5>. QED BY <1>h, <4>2, <5>1
      <4>. QED BY <1>a, <1>d, <1>f, <3>2, <4>3 DEF CopyInv
    <3>. QED BY <3>1, <3>2
  <2>. QED BY <1>a, <2>1 DEF DmaInv, ThreadInv
<1>. QED
  BY <1>1, <1>2, <1>3, <1>4, <1>5, <1>6

\* Only one piece was copied: 70-72 find the frame boundary after it.
LEMMA SendUnderRunStep ==
  ASSUME IInv, SendUnderRun
  PROVE  IInv'
<1>. USE DEF IInv, SendUnderRun, At, Goto, replayVars, ipcVars, isrVars,
            dmaVars, history
<1>a. /\ half \in {0, 1} /\ FRAME \in Nat \ {0}
      /\ pos' = half * FRAME
  <2>1. /\ remain = index /\ pos = (1 - half) * FRAME + index
        /\ half \in {0, 1} /\ index \in Nat /\ FRAME \in Nat \ {0}
    BY FrameAssumption DEF DmaInv, CopyInv, TypeOK
  <2>2. pos - remain + FRAME = (1 - half) * FRAME + FRAME
    BY <2>1
  <2>. QED BY <2>1, <2>2, NextHalf DEF PosAfterUnderRun
<1>1. TypeOK'
  BY <1>a, BlockAssumption DEF TypeOK, TOTAL
<1>2. BlocksConserved'
  BY DEF BlocksConserved, ThreadInv, Stopping
<1>3. ThreadInv'
  BY DEF ThreadInv, Stopping, TypeOK
<1>4. StopInv'
  BY DEF StopInv, Stopping
<1>5. QueueInv'
  BY DEF QueueInv, StopInv, Stopping
<1>6. DmaInv'
  BY <1>a DEF DmaInv
<1>. QED
  BY <1>1, <1>2, <1>3, <1>4, <1>5, <1>6

\* The half is full.
LEMMA SendEndStep ==
  ASSUME IInv, SendEnd
  PROVE  IInv'
<1>. USE DEF IInv, SendEnd, At, Goto, replayVars, ipcVars, isrVars, dmaVars,
            history
<1>1. TypeOK'
  BY FrameAssumption, BlockAssumption, BoundAssumption, PoolAssumption
  DEF TypeOK, ThreadPositions, Items, Units, TOTAL
<1>2. BlocksConserved'
  BY DEF BlocksConserved, ThreadInv, Stopping
<1>3. ThreadInv'
  BY DEF ThreadInv, Stopping, TypeOK
<1>4. StopInv'
  BY DEF StopInv, Stopping
<1>5. QueueInv'
  BY DEF QueueInv, StopInv, Stopping
<1>6. DmaInv'
  BY FrameAssumption DEF DmaInv, CopyInv, TypeOK
<1>. QED
  BY <1>1, <1>2, <1>3, <1>4, <1>5, <1>6

-----------------------------------------------------------------------------
(* The theorems.                                                           *)

\* The closed device with its whole pool.
LEMMA InitIInv == Init => IInv
<1>. SUFFICES ASSUME Init PROVE IInv
  OBVIOUS
<1>. USE DEF Init
<1>1. TypeOK
  <2>1. /\ writeData \in [0..(BLOCK - 1) -> Units]
        /\ fifo \in [0..(TOTAL - 1) -> Units]
    BY BoundAssumption DEF Silence, Units
  <2>2. queue = <<>> /\ \A i \in 1..Len(queue) : queue[i] \in Items
    OBVIOUS
  <2>3. /\ writeIndex \in 0..(BLOCK - 1) /\ readIndex \in 0..(BLOCK - 1)
        /\ pos \in 0..(TOTAL - 1) /\ free \in 0..POOL /\ left \in Nat
        /\ index \in 0..FRAME /\ remain \in 0..FRAME
    BY FrameAssumption, BlockAssumption, PoolAssumption DEF TOTAL
  <2>4. written \in Units /\ sent \in Units
    BY BoundAssumption DEF Units
  <2>5. /\ stopEvent \in BOOLEAN /\ activated \in BOOLEAN
        /\ cmpFlag \in BOOLEAN /\ cmpWaiting \in BOOLEAN
        /\ dmaOn \in BOOLEAN
    OBVIOUS
  <2>6. /\ tpc \in ThreadPositions /\ isr \in {"idle", "enter", "copy"}
        /\ half \in {0, 1} /\ halves \in 0..2
    BY DEF ThreadPositions
  <2>. HIDE DEF Init
  <2>. QED
    BY <2>1, <2>2, <2>3, <2>4, <2>5, <2>6 DEF TypeOK
<1>2. BlocksConserved
  BY PoolAssumption DEF BlocksConserved
<1>3. ThreadInv /\ StopInv
  BY BoundAssumption DEF ThreadInv, StopInv, Stopping
<1>4. QueueInv
  <2>1. 0 = 0 * FRAME
    BY FrameAssumption
  <2>. QED BY <2>1 DEF QueueInv
<1>5. DmaInv
  BY DEF DmaInv
<1>. QED
  BY <1>1, <1>2, <1>3, <1>4, <1>5 DEF IInv

\* The invariant holds in every state of the replay, for any sizes of frame,
\* block, pool and queue and any writes that fit into the pool.
THEOREM Invariance == Spec => []IInv
<1>1. IInv /\ [Next]_vars => IInv'
  <2>. SUFFICES ASSUME IInv, [Next]_vars
                PROVE  IInv'
    OBVIOUS
  <2>1. CASE Open
    BY <2>1, OpenStep
  <2>2. CASE Write
    BY <2>2, WriteStep
  <2>3. CASE Close
    BY <2>3, CloseStep
  <2>4. CASE WriteAlloc
    BY <2>4, WriteAllocStep
  <2>5. CASE WriteMore
    BY <2>5, WriteMoreStep
  <2>6. CASE WriteCopy
    BY <2>6, WriteCopyStep
  <2>7. CASE WritePush
    BY <2>7, WritePushStep
  <2>8. CASE WriteEnd
    BY <2>8, WriteEndStep
  <2>9. CASE Flush
    BY <2>9, FlushStep
  <2>10. CASE NotifyStop \/ CompletionInit \/ CompletionWait
              \/ CompletionWoken \/ ClearStop
    BY <2>10, CloseSteps
  <2>11. CASE StopDma
    BY <2>11, StopDmaStep
  <2>12. CASE HalfDone
    BY <2>12, HalfDoneStep
  <2>13. CASE SendZero
    BY <2>13, SendZeroStep
  <2>14. CASE SendBegin
    BY <2>14, SendBeginStep
  <2>15. CASE SendCopy
    BY <2>15, SendCopyStep
  <2>16. CASE SendUnderRun
    BY <2>16, SendUnderRunStep
  <2>17. CASE SendEnd
    BY <2>17, SendEndStep
  <2>18. CASE UNCHANGED vars
    BY <2>18
    DEF vars, IInv, TypeOK, BlocksConserved, ThreadInv, StopInv, QueueInv,
        DmaInv, CopyInv
  <2>. QED
    BY <2>1, <2>2, <2>3, <2>4, <2>5, <2>6, <2>7, <2>8, <2>9, <2>10, <2>11,
       <2>12, <2>13, <2>14, <2>15, <2>16, <2>17, <2>18
    DEF Next, ThreadStep, InterruptStep
<1>. QED
  BY InitIInv, <1>1, PTL DEF Spec

\* The types of struct rt_audio_replay, the pool, the queue and the FIFO; in
\* particular the write position stays inside the FIFO (audio.c:54-98).
THEOREM TypeCorrect == Spec => []TypeOK
<1>1. IInv => TypeOK
  BY DEF IInv
<1>. QED
  BY <1>1, Invariance, PTL

\* The interrupt writes only into the half of the FIFO that the DMA has left,
\* under-runs included (audio.c:46-98).
THEOREM IdleHalfFilled == Spec => []FillsIdleHalf
<1>1. IInv => FillsIdleHalf
  BY FrameAssumption DEF IInv, TypeOK, DmaInv, CopyInv, FillsIdleHalf
<1>. QED
  BY <1>1, Invariance, PTL

\* A block of the pool is never lost nor given back twice (audio.c:87-97,
\* 110-125, 388-412).
THEOREM NoBlockLost == Spec => []BlocksConserved
<1>1. IInv => BlocksConserved
  BY DEF IInv
<1>. QED
  BY <1>1, Invariance, PTL

-----------------------------------------------------------------------------
(* The order of what is played.                                            *)
(*                                                                         *)
(* PlayedInOrder speaks of the half that the DMA has just transmitted,     *)
(* which was filled one interrupt earlier from blocks pushed long before.  *)
(* So every place a unit passes through must be followed: the block being  *)
(* filled, the queue (ContentsInv), the half the interrupt fills and the   *)
(* half the DMA transmits, each of which goes on where the one ahead of it *)
(* ends (HalvesHold).                                                      *)

\* What the thread holds back: a block that is full and not yet pushed, or the
\* beginning of one.
Filled == IF tpc = "push" THEN BLOCK ELSE writeIndex

\* Each block, and the one being filled, is a run of units, and a block goes on
\* where the one before it in the queue ends.
ContentsInv ==
  /\ \A i \in 1..Len(queue) : \A j \in 0..(queue[i].size - 1) :
       queue[i].data[j] = queue[i].data[0] + j
  /\ \A i \in 1..(Len(queue) - 1) :
       queue[i + 1].data[0] = queue[i].data[0] + queue[i].size
  /\ queue # <<>> =>
       queue[Len(queue)].data[0] + queue[Len(queue)].size = written - Filled + 1
  /\ \A j \in 0..(Filled - 1) : writeData[j] = written - Filled + 1 + j

\* Half h of the FIFO holds n units, which follow unit s, and then silence.
HalfHolds(h, s, n) ==
  \A i \in 1..FRAME :
    fifo[h * FRAME + i - 1] = IF i <= n THEN s + i ELSE 0

\* The next unit of the queue, or the next to be flushed, follows unit s.
QueueFollows(s) ==
  IF queue = <<>> THEN s = written - Filled
  ELSE queue[1].data[0] + readIndex = s + 1

\* The c units the DMA transmits follow what was transmitted, the o units
\* filled into the other half follow them, and the queue follows those.
HalvesHold(c, o) ==
  /\ IF dmaOn /\ halves = 2 THEN HalfHolds(half, sent, c) ELSE c = 0
  /\ IF dmaOn /\ halves >= 1 /\ isr # "enter"
     THEN HalfHolds(1 - half, sent + c, o) ELSE o = 0
  /\ isr = "copy" => o = index
  /\ QueueFollows(sent + c + o)

OrderInv ==
  /\ isr # "idle" => halves >= 1
  /\ ContentsInv
  /\ \E c \in 0..FRAME, o \in 0..FRAME : HalvesHold(c, o)

\* The invariant of the contents, over the one of the positions.
OInv == IInv /\ OrderInv

\* What the conjuncts of the invariant say of numbers.
LEMMA OrderTypes ==
  ASSUME IInv
  PROVE  /\ FRAME \in Nat \ {0} /\ BLOCK \in Nat \ {0}
         /\ queue \in Seq(Items) /\ Len(queue) \in Nat
         /\ writeIndex \in 0..(BLOCK - 1) /\ readIndex \in Nat
         /\ written \in Nat /\ sent \in Nat /\ halves \in 0..2
         /\ half \in {0, 1} /\ index \in 0..FRAME
         /\ Filled \in 0..BLOCK
         /\ \A i \in 1..Len(queue) :
              /\ queue[i].size \in 1..BLOCK
              /\ \A j \in 0..(BLOCK - 1) : queue[i].data[j] \in Nat
         /\ \A j \in 0..(BLOCK - 1) : writeData[j] \in Nat
<1>1. \A i \in 1..Len(queue) : queue[i] \in Items
  BY DEF IInv, TypeOK
<1>2. \A x \in Items : x.size \in 1..BLOCK
                       /\ \A j \in 0..(BLOCK - 1) : x.data[j] \in Nat
  <2>1. Units \subseteq Nat
    BY BoundAssumption DEF Units
  <2>. QED BY <2>1 DEF Items
<1>3. \A j \in 0..(BLOCK - 1) : writeData[j] \in Nat
  BY BoundAssumption DEF IInv, TypeOK, Units
<1>4. queue \in Seq(Items)
  BY DEF IInv, QueueInv
<1>5. /\ FRAME \in Nat \ {0} /\ BLOCK \in Nat \ {0} /\ Len(queue) \in Nat
      /\ writeIndex \in 0..(BLOCK - 1) /\ readIndex \in Nat
      /\ written \in Nat /\ sent \in Nat /\ halves \in 0..2
      /\ half \in {0, 1} /\ index \in 0..FRAME
  BY <1>4, FrameAssumption, BlockAssumption, BoundAssumption
  DEF IInv, TypeOK, Units
<1>6. Filled \in 0..BLOCK
  BY <1>5 DEF Filled
<1>. QED BY <1>1, <1>2, <1>3, <1>4, <1>5, <1>6

\* A step of the thread that moves no unit.
LEMMA NothingMoved ==
  ASSUME OrderInv, NEW b \in Nat, Filled = b, Filled' = b,
         \A j \in 0..(b - 1) : writeData'[j] = writeData[j],
         queue = <<>> \/ readIndex' = readIndex,
         UNCHANGED <<queue, written, sent, halves, fifo, dmaOn, half, isr, index>>
  PROVE  OrderInv'
<1>1. ContentsInv'
  BY DEF OrderInv, ContentsInv
<1>2. ASSUME NEW c \in 0..FRAME, NEW o \in 0..FRAME, HalvesHold(c, o)
      PROVE  HalvesHold(c, o)'
  BY <1>2 DEF HalvesHold, HalfHolds, QueueFollows
<1>. QED BY <1>1, <1>2 DEF OrderInv

\* The calls, the positions of the writing loop and the handshake of the close
\* move no unit.
LEMMA QuietOrder ==
  ASSUME OInv,
         \/ Open \/ Write \/ Close \/ WriteAlloc \/ WriteMore \/ NotifyStop
         \/ CompletionInit \/ CompletionWait \/ CompletionWoken \/ ClearStop
         \/ SendEnd
  PROVE  OrderInv'
<1>. USE DEF At, Goto, replayVars, ipcVars, isrVars, dmaVars, history
<1>a. Filled \in Nat /\ readIndex \in Nat
  BY OrderTypes DEF OInv
<1>1. CASE Open
  <2>1. queue = <<>> /\ Filled = 0 /\ Filled' = 0
    BY <1>1 DEF Open, OInv, IInv, StopInv, ThreadInv, Filled
  <2>2. UNCHANGED <<queue, written, sent, halves, fifo, dmaOn, half, isr, index>>
    BY <1>1 DEF Open
  <2>3. \A j \in 0..(0 - 1) : writeData'[j] = writeData[j]
    OBVIOUS
  <2>. QED BY <2>1, <2>2, <2>3, NothingMoved DEF OInv
<1>2. CASE WriteAlloc
  <2>1. writeIndex = 0
    <3>1. writeIndex \in Nat /\ writeIndex < BLOCK /\ writeIndex % BLOCK = 0
      BY <1>2, BlockAssumption DEF OInv, IInv, TypeOK, WriteAlloc
    <3>. QED BY <3>1, ModLess, BlockAssumption
  <2>2. Filled = 0 /\ Filled' = 0
    BY <1>2, <2>1 DEF WriteAlloc, Filled
  <2>3. /\ UNCHANGED <<queue, written, sent, halves, fifo, dmaOn, half, isr, index>>
        /\ readIndex' = readIndex
    BY <1>2 DEF WriteAlloc
  <2>4. \A j \in 0..(0 - 1) : writeData'[j] = writeData[j]
    OBVIOUS
  <2>. QED BY <2>2, <2>3, <2>4, NothingMoved DEF OInv
<1>3. CASE Write \/ Close \/ WriteMore \/ NotifyStop \/ CompletionInit
           \/ CompletionWait \/ CompletionWoken \/ ClearStop
  <2>1. /\ UNCHANGED <<queue, written, sent, halves, fifo, dmaOn, half, isr,
                       index, readIndex, writeData, writeIndex>>
        /\ tpc # "push" /\ tpc' # "push"
    BY <1>3 DEF Write, Close, WriteMore, NotifyStop, CompletionInit,
                CompletionWait, CompletionWoken, ClearStop
  <2>2. Filled' = Filled
    BY <2>1 DEF Filled
  <2>. QED BY <1>a, <2>1, <2>2, NothingMoved DEF OInv
<1>4. CASE SendEnd
  <2>1. /\ UNCHANGED <<queue, written, sent, halves, fifo, dmaOn, half, index,
                       readIndex, writeData, writeIndex, tpc>>
        /\ isr = "copy" /\ isr' = "idle"
    BY <1>4 DEF SendEnd
  <2>2. Filled' = Filled
    BY <2>1 DEF Filled
  <2>3. ContentsInv'
    BY <2>1, <2>2 DEF OInv, OrderInv, ContentsInv
  <2>4. ASSUME NEW c \in 0..FRAME, NEW o \in 0..FRAME, HalvesHold(c, o)
        PROVE  HalvesHold(c, o)'
    BY <2>1, <2>2, <2>4 DEF HalvesHold, HalfHolds, QueueFollows
  <2>. QED BY <2>1, <2>3, <2>4 DEF OInv, OrderInv
<1>. QED BY <1>1, <1>2, <1>3, <1>4

\* The units copied into the block follow those it holds (398-404).
LEMMA WriteCopyOrder ==
  ASSUME OInv, WriteCopy
  PROVE  OrderInv'
<1>. USE DEF WriteCopy, At, Goto, ipcVars, isrVars, dmaVars
<1>. DEFINE n == Smaller(BLOCK - writeIndex, left)
<1>a. /\ n \in Nat \ {0} /\ writeIndex + n <= BLOCK /\ writeIndex \in Nat
      /\ written \in Nat /\ BLOCK \in Nat \ {0}
  BY BlockAssumption, OrderTypes
  DEF OInv, IInv, TypeOK, ThreadInv, Smaller
<1>b. Filled = writeIndex /\ Filled' = writeIndex + n
  <2>1. writeIndex' = (writeIndex + n) % BLOCK
    OBVIOUS
  <2>2. tpc = "copy" /\ (tpc' = IF writeIndex' = 0 THEN "push" ELSE "write")
    OBVIOUS
  <2>. HIDE DEF n, WriteCopy
  <2>3. CASE writeIndex + n = BLOCK
    BY <1>a, <2>1, <2>2, <2>3, ModSelf DEF Filled
  <2>4. CASE writeIndex + n < BLOCK
    <3>1. (writeIndex + n) % BLOCK = writeIndex + n /\ writeIndex + n # 0
      BY <1>a, <2>4, ModLess
    <3>. QED BY <2>1, <2>2, <3>1 DEF Filled
  <2>. QED BY <1>a, <2>3, <2>4
<1>c. written' = written + n
  OBVIOUS
<1>d. /\ UNCHANGED <<queue, sent, halves, fifo, dmaOn, half, isr, index,
                     readIndex>>
      /\ written' - Filled' = written - Filled
  BY <1>a, <1>b, <1>c
<1>1. ContentsInv'
  <2>1. \A j \in 0..(Filled' - 1) : writeData'[j] = written' - Filled' + 1 + j
    <3>1. SUFFICES ASSUME NEW j \in 0..(writeIndex + n - 1)
                   PROVE  writeData'[j] = written - writeIndex + 1 + j
      <4>1. /\ Filled' - 1 = writeIndex + n - 1
            /\ written' - Filled' + 1 = written - writeIndex + 1
        <5>. HIDE DEF n, WriteCopy
        <5>. QED BY <1>a, <1>b, <1>c
      <4>. HIDE DEF n, WriteCopy
      <4>. QED BY <4>1
    <3>2. writeData'[j] = IF j >= writeIndex /\ j < writeIndex + n
                          THEN written + 1 + (j - writeIndex) ELSE writeData[j]
      <4>1. j \in 0..(BLOCK - 1)
        BY <1>a
      <4>. QED BY <4>1
    <3>3. j < writeIndex => writeData[j] = written - writeIndex + 1 + j
      BY <1>a, <1>b DEF OInv, OrderInv, ContentsInv
    <3>. HIDE DEF n, WriteCopy
    <3>. QED BY <1>a, <3>2, <3>3
  <2>2. written' - Filled' + 1 = written - Filled + 1
    BY <1>d
  <2>. HIDE DEF n, WriteCopy
  <2>. QED BY <1>d, <2>1, <2>2 DEF OInv, OrderInv, ContentsInv
<1>2. ASSUME NEW c \in 0..FRAME, NEW o \in 0..FRAME, HalvesHold(c, o)
      PROVE  HalvesHold(c, o)'
  BY <1>d, <1>2 DEF HalvesHold, HalfHolds, QueueFollows
<1>. QED BY <1>d, <1>1, <1>2 DEF OInv, OrderInv

\* What the thread holds back goes to the end of the queue.
LEMMA AppendedOrder ==
  ASSUME OInv, NEW m \in 1..BLOCK, Filled = m, Filled' = 0,
         queue' = Append(queue, [data |-> writeData, size |-> m]),
         UNCHANGED <<readIndex, sent, halves, fifo, dmaOn, half, isr, index,
                     written, writeData>>
  PROVE  OrderInv'
<1>. DEFINE item == [data |-> writeData, size |-> m]
            L == Len(queue)
<1>a. /\ queue \in Seq(Items) /\ L \in Nat /\ BLOCK \in Nat \ {0}
      /\ written \in Nat /\ sent \in Nat /\ m \in Nat \ {0}
      /\ \A i \in 1..L : /\ queue[i].size \in Nat
                         /\ queue[i].data[0] \in Nat
  <2>1. 0 \in 0..(BLOCK - 1)
    BY OrderTypes DEF OInv
  <2>. QED BY <2>1, OrderTypes DEF OInv
<1>b. item \in Items /\ item.data = writeData /\ item.size = m
  BY DEF OInv, IInv, TypeOK, Items
<1>c. /\ \A j \in 0..(m - 1) : writeData[j] = written - m + 1 + j
      /\ \A i \in 1..L : \A j \in 0..(queue[i].size - 1) :
           queue[i].data[j] = queue[i].data[0] + j
      /\ \A i \in 1..(L - 1) :
           queue[i + 1].data[0] = queue[i].data[0] + queue[i].size
      /\ queue # <<>> =>
           queue[L].data[0] + queue[L].size = written - m + 1
  BY DEF OInv, OrderInv, ContentsInv
<1>d. /\ queue' # <<>> /\ Len(queue') = L + 1
      /\ \A i \in 1..L : queue'[i] = queue[i]
      /\ queue'[L + 1] = item
  <2>. HIDE DEF item
  <2>. QED BY <1>a, <1>b, AppendItems DEF item
<1>e. writeData[0] = written - m + 1
  <2>1. 0 \in 0..(m - 1) /\ written - m + 1 + 0 = written - m + 1
    BY <1>a
  <2>. QED BY <1>c, <2>1
<1>f. queue = <<>> <=> L = 0
  BY <1>a
<1>. HIDE DEF item, L
<1>1. ContentsInv'
  <2>1. \A i \in 1..(L + 1) : \A j \in 0..(queue'[i].size - 1) :
          queue'[i].data[j] = queue'[i].data[0] + j
    <3>1. ASSUME NEW i \in 1..L, NEW j \in 0..(queue'[i].size - 1)
          PROVE  queue'[i].data[j] = queue'[i].data[0] + j
      BY <1>c, <1>d
    <3>2. ASSUME NEW j \in 0..(m - 1)
          PROVE  writeData[j] = writeData[0] + j
      BY <1>c, <1>e
    <3>3. \A i \in 1..(L + 1) : i \in 1..L \/ i = L + 1
      BY <1>a
    <3>. QED BY <1>b, <1>d, <3>1, <3>2, <3>3
  <2>2. \A i \in 1..L :
          queue'[i + 1].data[0] = queue'[i].data[0] + queue'[i].size
    <3>1. ASSUME NEW i \in 1..(L - 1)
          PROVE  queue'[i + 1].data[0] = queue'[i].data[0] + queue'[i].size
      <4>1. i \in 1..L /\ i + 1 \in 1..L
        BY <1>a
      <4>. QED BY <1>c, <1>d, <4>1
    <3>2. ASSUME L # 0
          PROVE  queue'[L + 1].data[0] = queue'[L].data[0] + queue'[L].size
      <4>1. L \in 1..L /\ queue # <<>>
        BY <1>a, <1>f, <3>2
      <4>2. queue[L].data[0] + queue[L].size = written - m + 1
        BY <1>c, <4>1
      <4>. QED BY <1>b, <1>d, <1>e, <4>1, <4>2
    <3>3. \A i \in 1..L : i \in 1..(L - 1) \/ (i = L /\ L # 0)
      BY <1>a
    <3>. QED BY <3>1, <3>2, <3>3
  <2>3. queue'[L + 1].data[0] + queue'[L + 1].size = written' - 0 + 1
    <3>1. written - m + 1 + m = written - 0 + 1
      BY <1>a
    <3>. QED BY <1>b, <1>d, <1>e, <3>1
  <2>4. \A j \in 0..(0 - 1) : writeData'[j] = written' - 0 + 1 + j
    OBVIOUS
  <2>5. Len(queue') - 1 = L
    BY <1>a, <1>d
  <2>6. \A i \in 1..(Len(queue') - 1) :
          queue'[i + 1].data[0] = queue'[i].data[0] + queue'[i].size
    BY <2>2, <2>5
  <2>7. /\ \A i \in 1..Len(queue') : \A j \in 0..(queue'[i].size - 1) :
             queue'[i].data[j] = queue'[i].data[0] + j
        /\ queue'[Len(queue')].data[0] + queue'[Len(queue')].size
             = written' - Filled' + 1
        /\ \A j \in 0..(Filled' - 1) :
             writeData'[j] = written' - Filled' + 1 + j
    BY <1>d, <2>1, <2>3, <2>4
  <2>. QED BY <2>6, <2>7 DEF ContentsInv
<1>2. ASSUME NEW c \in 0..FRAME, NEW o \in 0..FRAME, HalvesHold(c, o)
      PROVE  HalvesHold(c, o)'
  <2>1. QueueFollows(sent + c + o)'
    <3>. DEFINE s == sent + c + o
    <3>1. s \in Nat /\ s' = s
      BY <1>a, OrderTypes DEF OInv
    <3>2. CASE queue = <<>>
      <4>1. L = 0 /\ s = written - m
        BY <1>2, <1>f, <3>2 DEF HalvesHold, QueueFollows
      <4>2. queue'[1] = item /\ readIndex' = 0
        <5>1. readIndex = 0
          BY <3>2 DEF OInv, IInv, QueueInv
        <5>. QED BY <1>d, <4>1, <5>1
      <4>3. queue'[1].data[0] + readIndex' = s + 1
        <5>1. written - m + 1 + 0 = s + 1
          BY <1>a, <4>1
        <5>. QED BY <1>b, <1>e, <4>2, <5>1
      <4>. QED BY <1>d, <3>1, <4>3 DEF QueueFollows
    <3>3. CASE queue # <<>>
      <4>1. 1 \in 1..L
        BY <1>a, <1>f, <3>3
      <4>2. queue[1].data[0] + readIndex = s + 1
        BY <1>2, <3>3 DEF HalvesHold, QueueFollows
      <4>. QED BY <1>d, <3>1, <4>1, <4>2 DEF QueueFollows
    <3>. QED BY <3>2, <3>3
  <2>. QED BY <1>2, <2>1 DEF HalvesHold, HalfHolds
<1>. QED BY <1>1, <1>2 DEF OInv, OrderInv

\* A full block is pushed behind the block it goes on from (406-412).
LEMMA WritePushOrder ==
  ASSUME OInv, WritePush
  PROVE  OrderInv'
<1>1. /\ queue' = Append(queue, [data |-> writeData, size |-> BLOCK])
      /\ Filled = BLOCK /\ Filled' = 0 /\ BLOCK \in 1..BLOCK
      /\ UNCHANGED <<readIndex, sent, halves, fifo, dmaOn, half, isr, index,
                     written, writeData>>
  BY BlockAssumption
  DEF WritePush, At, Goto, OInv, IInv, Filled, ThreadInv, replayVars, isrVars,
      dmaVars, history
<1>. QED BY <1>1, AppendedOrder

\* The flush hands over the last block as far as it was filled (110-125).
LEMMA FlushOrder ==
  ASSUME OInv, Flush
  PROVE  OrderInv'
<1>1. /\ Filled = writeIndex /\ Filled' = 0 /\ writeIndex \in 0..(BLOCK - 1)
      /\ UNCHANGED <<readIndex, sent, halves, fifo, dmaOn, half, isr, index,
                     written, writeData>>
      /\ queue' = Flushed /\ BLOCK \in Nat \ {0}
  BY BlockAssumption
  DEF Flush, At, Goto, OInv, IInv, Filled, TypeOK, isrVars, dmaVars, history
<1>2. CASE writeIndex = 0
  <2>1. queue' = queue /\ \A j \in 0..(0 - 1) : writeData'[j] = writeData[j]
    BY <1>1, <1>2 DEF Flushed
  <2>. QED BY <1>1, <1>2, <2>1, NothingMoved DEF OInv
<1>3. CASE writeIndex # 0
  <2>1. /\ queue' = Append(queue, [data |-> writeData, size |-> writeIndex])
        /\ writeIndex \in 1..BLOCK
    BY <1>1, <1>3 DEF Flushed
  <2>. QED BY <1>1, <2>1, AppendedOrder
<1>. QED BY <1>2, <1>3

\* The first write of a session starts the DMA on halves that do not count
\* (414-421).
LEMMA WriteEndOrder ==
  ASSUME OInv, WriteEnd
  PROVE  OrderInv'
<1>. USE DEF WriteEnd, At, Goto, ipcVars, isrVars
<1>1. /\ UNCHANGED <<queue, written, sent, fifo, isr, index, readIndex,
                     writeData, writeIndex>>
      /\ isr = "idle" /\ Filled' = Filled
  BY DEF Filled
<1>2. ContentsInv'
  BY <1>1 DEF OInv, OrderInv, ContentsInv
<1>3. ASSUME NEW c \in 0..FRAME, NEW o \in 0..FRAME, HalvesHold(c, o)
      PROVE  HalvesHold(c, o)'
  <2>1. QueueFollows(sent + c + o)'
    BY <1>1, <1>3 DEF HalvesHold, QueueFollows
  <2>2. CASE activated
    BY <1>1, <1>3, <2>1, <2>2 DEF HalvesHold, HalfHolds
  <2>3. CASE ~activated
    <3>1. ~dmaOn /\ halves' = 0
      BY <2>3 DEF OInv, IInv, DmaInv
    <3>. QED BY <1>1, <1>3, <2>1, <3>1 DEF HalvesHold
  <2>. QED BY <2>2, <2>3
<1>. QED BY <1>1, <1>2, <1>3 DEF OInv, OrderInv

\* What was not transmitted when the DMA stops is dropped (161-165).
LEMMA StopDmaOrder ==
  ASSUME OInv, StopDma
  PROVE  OrderInv'
<1>1. /\ UNCHANGED <<queue, written, fifo, half, isr, index, readIndex,
                     writeData, writeIndex>>
      /\ isr = "idle" /\ ~dmaOn' /\ sent' = written /\ Filled = 0
      /\ Filled' = 0 /\ queue = <<>> /\ written \in Nat /\ FRAME \in Nat
  BY OrderTypes
  DEF StopDma, At, Goto, OInv, IInv, ThreadInv, Stopping, StopInv, Filled,
      ipcVars, isrVars
<1>2. ContentsInv'
  BY <1>1 DEF OInv, OrderInv, ContentsInv
<1>3. HalvesHold(0, 0)'
  BY <1>1 DEF HalvesHold, QueueFollows
<1>4. 0 \in 0..FRAME
  BY <1>1
<1>. QED BY <1>1, <1>2, <1>3, <1>4 DEF OrderInv

\* The last unit of a half, or of the halves before it, is the one transmitted
\* last.
LEMMA SentCounts ==
  ASSUME OInv, halves = 2, NEW c \in 0..FRAME, HalfHolds(half, sent, c)
  PROVE  SentAfter = sent + c
<1>. DEFINE units == {FrameOut[i] : i \in 1..FRAME} \ {0}
<1>a. sent \in Nat /\ FRAME \in Nat \ {0}
  BY OrderTypes DEF OInv
<1>1. \A i \in 1..FRAME : FrameOut[i] = IF i <= c THEN sent + i ELSE 0
  BY DEF HalfHolds, FrameOut
<1>2. \A u : u \in units <=> \E i \in 1..c : u = sent + i
  <2>1. \A i \in 1..FRAME : (i <= c <=> i \in 1..c) /\ sent + i # 0
    BY <1>a
  <2>2. \A i \in 1..c : i \in 1..FRAME
    BY <1>a
  <2>. QED BY <1>1, <2>1, <2>2
<1>3. SentAfter = IF units = {} THEN sent
                  ELSE CHOOSE u \in units : \A v \in units : v <= u
  BY DEF SentAfter
<1>. HIDE DEF units
<1>4. CASE c = 0
  BY <1>a, <1>2, <1>3, <1>4
<1>5. CASE c # 0
  <2>1. sent + c \in units /\ \A v \in units : v <= sent + c /\ v \in Nat
    BY <1>a, <1>2, <1>5
  <2>2. \A u \in units : (\A v \in units : v <= u) => u = sent + c
    BY <1>a, <2>1
  <2>. QED BY <1>3, <2>1, <2>2
<1>. QED BY <1>4, <1>5

\* The half that was filled is transmitted next, after the one that was.
LEMMA HalfDoneOrder ==
  ASSUME OInv, HalfDone
  PROVE  OrderInv'
<1>. USE DEF replayVars, ipcVars
<1>1. /\ UNCHANGED <<queue, written, fifo, readIndex, writeData, writeIndex,
                     tpc, dmaOn>>
      /\ dmaOn /\ isr = "idle" /\ isr' = "enter" /\ half' = 1 - half
      /\ halves' = Smaller(halves + 1, 2) /\ sent' = SentAfter
  BY DEF HalfDone
<1>2. Filled' = Filled
  BY <1>1 DEF Filled
<1>3. /\ halves' >= 1 /\ (halves' = 2 <=> halves >= 1)
      /\ sent \in Nat /\ 0 \in 0..FRAME
  <2>1. halves \in 0..2 /\ sent \in Nat /\ FRAME \in Nat
    BY OrderTypes DEF OInv
  <2>2. halves' = IF halves + 1 < 2 THEN halves + 1 ELSE 2
    BY <1>1, <2>1 DEF Smaller
  <2>. QED BY <2>1, <2>2
<1>4. ContentsInv'
  BY <1>1, <1>2 DEF OInv, OrderInv, ContentsInv
<1>5. ASSUME NEW c \in 0..FRAME, NEW o \in 0..FRAME, HalvesHold(c, o)
      PROVE  HalvesHold(o, 0)'
  <2>1. sent' = sent + c
    <3>1. CASE halves = 2
      BY <1>1, <1>5, <3>1, SentCounts DEF HalvesHold
    <3>2. CASE halves # 2
      BY <1>1, <1>3, <1>5, <3>2, OrderTypes DEF HalvesHold, SentAfter, OInv
    <3>. QED BY <3>1, <3>2
  <2>2. IF halves >= 1 THEN HalfHolds(1 - half, sent + c, o) ELSE o = 0
    BY <1>1, <1>5 DEF HalvesHold
  <2>3. IF halves' = 2 THEN HalfHolds(half, sent, o)' ELSE o = 0
    BY <1>1, <1>3, <2>1, <2>2 DEF HalfHolds
  <2>4. QueueFollows(sent + o + 0)'
    <3>1. sent' + o + 0 = sent + c + o
      BY <1>3, <2>1
    <3>2. QueueFollows(sent + c + o)
      BY <1>5 DEF HalvesHold
    <3>. QED BY <1>1, <1>2, <3>1, <3>2 DEF QueueFollows
  <2>. QED BY <1>1, <2>3, <2>4 DEF HalvesHold
<1>. QED BY <1>1, <1>3, <1>4, <1>5 DEF OInv, OrderInv

\* The memset of the idle half leaves the other as it is (54, 61).
LEMMA ZeroedHalves ==
  ASSUME IInv, isr = "enter", fifo' = Zeroed, half' = half, sent' = sent
  PROVE  /\ \A s : HalfHolds(1 - half, s, 0)'
         /\ \A c : HalfHolds(half, sent, c) => HalfHolds(half, sent, c)'
<1>1. /\ FRAME \in Nat \ {0} /\ half \in {0, 1} /\ TOTAL = FRAME + FRAME
      /\ pos = (1 - half) * FRAME
  BY OrderTypes DEF IInv, DmaInv, TOTAL
<1>2. \A i \in 1..FRAME :
        /\ fifo'[(1 - half) * FRAME + i - 1] = 0
        /\ fifo'[half * FRAME + i - 1] = fifo[half * FRAME + i - 1]
  <2>1. CASE half = 0
    BY <1>1, <2>1 DEF Zeroed
  <2>2. CASE half = 1
    BY <1>1, <2>2 DEF Zeroed
  <2>. QED BY <1>1, <2>1, <2>2
<1>3. \A i \in 1..FRAME : ~(i <= 0)
  OBVIOUS
<1>. QED BY <1>2, <1>3 DEF HalfHolds

\* The idle half is silence, or will be filled.
LEMMA SendZeroBeginOrder ==
  ASSUME OInv, SendZero \/ SendBegin
  PROVE  OrderInv'
<1>. USE DEF replayVars, ipcVars
<1>1. /\ UNCHANGED <<queue, written, readIndex, writeData, writeIndex,
                     tpc, dmaOn, half, halves, sent, index>>
      /\ isr = "enter" /\ fifo' = Zeroed /\ isr' # "enter"
      /\ (isr' = "copy" => index' = 0)
  BY DEF SendZero, SendBegin, OInv, IInv, DmaInv, history
<1>2. Filled' = Filled
  BY <1>1 DEF Filled
<1>3. ContentsInv' /\ halves' >= 1
  BY <1>1, <1>2 DEF OInv, OrderInv, ContentsInv
<1>4. ASSUME NEW c \in 0..FRAME, NEW o \in 0..FRAME, HalvesHold(c, o)
      PROVE  HalvesHold(c, 0)'
  <2>1. o = 0 /\ QueueFollows(sent + c + o)
    BY <1>1, <1>4 DEF HalvesHold
  <2>2. QueueFollows(sent + c + 0)'
    BY <1>1, <1>2, <2>1 DEF QueueFollows
  <2>3. HalfHolds(1 - half, sent + c, 0)'
    <3>1. \A s : HalfHolds(1 - half, s, 0)'
      BY <1>1, ZeroedHalves DEF OInv
    <3>. QED BY <1>1, <3>1 DEF HalfHolds
  <2>4. IF dmaOn /\ halves = 2 THEN HalfHolds(half, sent, c)' ELSE c = 0
    BY <1>1, <1>4, ZeroedHalves DEF OInv, HalvesHold
  <2>. QED BY <1>1, <2>2, <2>3, <2>4 DEF HalvesHold
<1>5. 0 \in 0..FRAME
  BY OrderTypes DEF OInv
<1>. QED BY <1>1, <1>3, <1>4, <1>5 DEF OInv, OrderInv

\* The frame ends before it is full: what it has follows, and silence.
LEMMA SendUnderRunOrder ==
  ASSUME OInv, SendUnderRun
  PROVE  OrderInv'
<1>1. /\ UNCHANGED <<queue, written, writeData, writeIndex, tpc, dmaOn, half,
                     fifo, halves, sent, index>>
      /\ isr = "copy" /\ isr' = "idle" /\ queue = <<>>
  BY DEF SendUnderRun, dmaVars, ipcVars, history
<1>2. Filled' = Filled
  BY <1>1 DEF Filled
<1>3. ContentsInv'
  BY <1>1, <1>2 DEF OInv, OrderInv, ContentsInv
<1>4. ASSUME NEW c \in 0..FRAME, NEW o \in 0..FRAME, HalvesHold(c, o)
      PROVE  HalvesHold(c, o)'
  BY <1>1, <1>2, <1>4 DEF HalvesHold, HalfHolds, QueueFollows
<1>. QED BY <1>1, <1>3, <1>4 DEF OInv, OrderInv

\* One turn of the loop takes the next units of the queue to the idle half.
LEMMA SendCopyOrder ==
  ASSUME OInv, SendCopy
  PROVE  OrderInv'
<1>. DEFINE head == queue[1]
            L == Len(queue)
            done == readIndex + Piece = head.size
<1>1. /\ UNCHANGED <<written, writeData, writeIndex, tpc, dmaOn, half, halves,
                     sent, isr>>
      /\ isr = "copy" /\ index = 0 /\ pos = (1 - half) * FRAME /\ dmaOn
      /\ queue # <<>> /\ index' = index + Piece /\ halves >= 1
  BY FrameAssumption
  DEF SendCopy, OInv, IInv, OrderInv, DmaInv, CopyInv, history
<1>2. /\ L \in Nat \ {0} /\ Head(queue) = head /\ queue \in Seq(Items)
      /\ Len(Tail(queue)) = L - 1
      /\ \A i \in 1..(L - 1) : Tail(queue)[i] = queue[i + 1]
  BY <1>1, TailItems DEF OInv, IInv, QueueInv
<1>3. /\ FRAME \in Nat \ {0} /\ half \in {0, 1} /\ TOTAL = FRAME + FRAME
      /\ sent \in Nat /\ readIndex \in Nat /\ head.size \in 1..BLOCK
      /\ readIndex < head.size /\ BLOCK \in Nat /\ written \in Nat
      /\ \A i \in 1..L : queue[i].size \in Nat /\ queue[i].data[0] \in Nat
  <2>1. 1 \in 1..L
    BY <1>2
  <2>3. readIndex < Head(queue).size
    BY <1>1 DEF OInv, IInv, QueueInv
  <2>2. 0 \in 0..(BLOCK - 1)
    BY OrderTypes DEF OInv
  <2>4. /\ FRAME \in Nat \ {0} /\ BLOCK \in Nat \ {0} /\ half \in {0, 1}
        /\ sent \in Nat /\ readIndex \in Nat /\ written \in Nat
        /\ \A i \in 1..L : queue[i].size \in 1..BLOCK /\ queue[i].data[0] \in Nat
    BY <2>2, OrderTypes DEF OInv
  <2>5. head = queue[1] /\ head.size \in 1..BLOCK /\ readIndex < head.size
    BY <1>2, <2>1, <2>3, <2>4
  <2>6. TOTAL = FRAME + FRAME
    BY <2>4 DEF TOTAL
  <2>7. \A i \in 1..L : queue[i].size \in Nat
    BY <2>4
  <2>. HIDE DEF L, head
  <2>. QED BY <2>4, <2>5, <2>6, <2>7
<1>4. PICK n \in 1..FRAME : n = Piece /\ readIndex + n <= head.size
  <2>1. Piece = Smaller(FRAME, head.size - readIndex)
    BY <1>1, <1>2, <1>3 DEF Piece
  <2>. HIDE DEF head
  <2>. QED BY <1>3, <2>1 DEF Smaller
<1>5. /\ done => queue' = Tail(queue) /\ readIndex' = 0
      /\ ~done => queue' = queue /\ readIndex' = readIndex + n
  BY <1>2, <1>4 DEF SendCopy, ReadIndexAfter
<1>6. /\ \A i \in 1..L : \A j \in 0..(queue[i].size - 1) :
           queue[i].data[j] = queue[i].data[0] + j
      /\ \A i \in 1..(L - 1) :
           queue[i + 1].data[0] = queue[i].data[0] + queue[i].size
      /\ queue[L].data[0] + queue[L].size = written - Filled + 1
      /\ \A j \in 0..(Filled - 1) : writeData[j] = written - Filled + 1 + j
  BY <1>1 DEF OInv, OrderInv, ContentsInv
<1>7. Filled' = Filled
  BY <1>1 DEF Filled
<1>8. fifo' = [i \in 0..(TOTAL - 1) |->
                 IF i >= pos /\ i < pos + n
                 THEN head.data[readIndex + i - pos] ELSE fifo[i]]
  BY <1>2, <1>4 DEF SendCopy
<1>. HIDE DEF head, done, L
<1>9. ContentsInv'
  <2>1. CASE done
    <3>1. /\ queue' = Tail(queue) /\ Len(queue') = L - 1
          /\ \A i \in 1..(L - 1) : queue'[i] = queue[i + 1] /\ i + 1 \in 1..L
      <4>1. \A i \in 1..(L - 1) : i + 1 \in 1..L
        BY <1>2
      <4>. QED BY <1>2, <1>5, <2>1, <4>1
    <3>2. \A i \in 1..Len(queue') : \A j \in 0..(queue'[i].size - 1) :
            queue'[i].data[j] = queue'[i].data[0] + j
      <4>1. SUFFICES ASSUME NEW i \in 1..(L - 1),
                            NEW j \in 0..(queue'[i].size - 1)
                     PROVE  queue'[i].data[j] = queue'[i].data[0] + j
        BY <3>1
      <4>2. queue'[i] = queue[i + 1] /\ i + 1 \in 1..L
        BY <3>1
      <4>. QED BY <1>6, <4>2
    <3>3. \A i \in 1..(Len(queue') - 1) :
            queue'[i + 1].data[0] = queue'[i].data[0] + queue'[i].size
      <4>1. SUFFICES ASSUME NEW i \in 1..(L - 1 - 1)
                     PROVE  queue'[i + 1].data[0]
                              = queue'[i].data[0] + queue'[i].size
        BY <3>1
      <4>2. i \in 1..(L - 1) /\ i + 1 \in 1..(L - 1)
        BY <1>2
      <4>. QED BY <1>6, <3>1, <4>2
    <3>4. queue' # <<>> =>
            queue'[Len(queue')].data[0] + queue'[Len(queue')].size
              = written' - Filled' + 1
      <4>1. SUFFICES ASSUME queue' # <<>>
                     PROVE  queue'[L - 1] = queue[L]
        BY <1>1, <1>6, <1>7, <3>1
      <4>2. queue' \in Seq(Items)
        BY <1>1, <1>2, <3>1, TailItems
      <4>3. L - 1 # 0
        BY <3>1, <4>1, <4>2
      <4>4. L - 1 \in 1..(L - 1) /\ L - 1 + 1 = L
        BY <1>2, <4>3
      <4>. QED BY <3>1, <4>4
    <3>. QED BY <1>1, <1>6, <1>7, <3>2, <3>3, <3>4 DEF ContentsInv
  <2>2. CASE ~done
    BY <1>1, <1>5, <1>7, <2>2 DEF OInv, OrderInv, ContentsInv
  <2>. QED BY <2>1, <2>2
<1>10. ASSUME NEW c \in 0..FRAME, NEW o \in 0..FRAME, HalvesHold(c, o)
       PROVE  HalvesHold(c, n)'
  <2>1. o = 0 /\ head.data[0] + readIndex = sent + c + 1
    <3>1. o = 0 /\ sent + c + o + 1 = sent + c + 1
      BY <1>1, <1>3, <1>10 DEF HalvesHold
    <3>. QED BY <1>1, <1>10, <3>1 DEF HalvesHold, QueueFollows, head
  <2>2. \A i \in 1..FRAME :
          /\ fifo'[half * FRAME + i - 1] = fifo[half * FRAME + i - 1]
          /\ fifo'[(1 - half) * FRAME + i - 1]
               = IF i <= n THEN head.data[readIndex + i - 1]
                 ELSE fifo[(1 - half) * FRAME + i - 1]
    <3>1. ASSUME NEW i \in 1..FRAME
          PROVE  /\ half * FRAME + i - 1 \in 0..(TOTAL - 1)
                 /\ (1 - half) * FRAME + i - 1 \in 0..(TOTAL - 1)
                 /\ readIndex + ((1 - half) * FRAME + i - 1) - pos
                      = readIndex + i - 1
                 /\ (1 - half) * FRAME + i - 1 >= pos
                 /\ (1 - half) * FRAME + i - 1 < pos + n <=> i <= n
                 /\ ~(/\ half * FRAME + i - 1 >= pos
                      /\ half * FRAME + i - 1 < pos + n)
      <4>. DEFINE own == half * FRAME
                  other == (1 - half) * FRAME
      <4>1. /\ FRAME \in Nat \ {0} /\ TOTAL = FRAME + FRAME /\ readIndex \in Nat
            /\ n \in 1..FRAME /\ pos = other
        BY <1>1, <1>3, <1>4
      <4>2. (own = 0 /\ other = FRAME) \/ (own = FRAME /\ other = 0)
        BY <1>3
      <4>. HIDE DEF own, other
      <4>3. /\ own + i - 1 \in 0..(TOTAL - 1) /\ other + i - 1 \in 0..(TOTAL - 1)
            /\ readIndex + (other + i - 1) - pos = readIndex + i - 1
            /\ other + i - 1 >= pos /\ (other + i - 1 < pos + n <=> i <= n)
            /\ ~(own + i - 1 >= pos /\ own + i - 1 < pos + n)
        BY <4>1, <4>2
      <4>. QED BY <4>3 DEF own, other
    <3>. QED BY <1>8, <3>1
  <2>3. \A i \in 1..FRAME :
          fifo'[(1 - half) * FRAME + i - 1]
            = IF i <= n THEN sent + c + i ELSE 0
    <3>1. ASSUME NEW i \in 1..FRAME, i <= n
          PROVE  head.data[readIndex + i - 1] = sent + c + i
      <4>1. 1 \in 1..L
        BY <1>2
      <4>2. readIndex + i - 1 \in 0..(head.size - 1)
        BY <1>3, <1>4, <3>1
      <4>3. head.data[readIndex + i - 1] = head.data[0] + (readIndex + i - 1)
        BY <1>6, <4>1, <4>2 DEF head
      <4>4. head.data[0] \in Nat
        BY <1>3, <4>1 DEF head
      <4>. QED BY <1>3, <2>1, <4>3, <4>4
    <3>2. ASSUME NEW i \in 1..FRAME
          PROVE  fifo[(1 - half) * FRAME + i - 1] = 0
      BY <1>1, <1>10, <2>1 DEF HalvesHold, HalfHolds
    <3>. QED BY <2>2, <3>1, <3>2
  <2>4. QueueFollows(sent + c + n)'
    <3>1. CASE ~done
      <4>1. head.data[0] + (readIndex + n) = sent + c + n + 1
        <5>1. head.data[0] \in Nat
          BY <1>2, <1>3 DEF head
        <5>. QED BY <1>3, <1>4, <2>1, <5>1
      <4>2. (sent + c + n)' = sent + c + n
        BY <1>1
      <4>. QED BY <1>1, <1>5, <3>1, <4>1 DEF QueueFollows, head
    <3>2. CASE done
      <4>1. sent + c + n + 1 = head.data[0] + head.size
        <5>1. head.data[0] \in Nat
          BY <1>2, <1>3 DEF head
        <5>. QED BY <1>3, <1>4, <2>1, <3>2, <5>1 DEF done
      <4>2. CASE L = 1
        <5>1. queue' = <<>>
          <6>1. Tail(queue) \in Seq(Items) /\ Len(Tail(queue)) = 0
            BY <1>1, <1>2, <4>2, TailItems
          <6>. QED BY <1>5, <3>2, <6>1
        <5>2. sent + c + n + 1 = written - Filled + 1
          BY <1>6, <4>1, <4>2 DEF head
        <5>3. sent + c + n = written - Filled
          <6>1. Filled \in Nat
            BY OrderTypes DEF OInv
          <6>. QED BY <1>3, <1>4, <5>2, <6>1
        <5>. QED BY <1>1, <1>7, <5>1, <5>3 DEF QueueFollows
      <4>3. CASE L # 1
        <5>1. 1 \in 1..(L - 1)
          BY <1>2, <4>3
        <5>2. queue'[1].data[0] = sent + c + n + 1
          BY <1>2, <1>5, <1>6, <3>2, <4>1, <5>1 DEF head
        <5>3. queue'[1].data[0] + 0 = sent + c + n + 1
          BY <1>3, <1>4, <5>2
        <5>4. queue' # <<>>
          <6>1. Len(queue') = L - 1
            BY <1>2, <1>5, <3>2
          <6>. QED BY <1>2, <4>3, <6>1
        <5>. QED BY <1>1, <1>5, <3>2, <5>3, <5>4 DEF QueueFollows
      <4>. QED BY <4>2, <4>3
    <3>. QED BY <3>1, <3>2
  <2>5. IF dmaOn /\ halves = 2 THEN HalfHolds(half, sent, c)' ELSE c = 0
    BY <1>1, <1>10, <2>2 DEF HalvesHold, HalfHolds
  <2>6. HalfHolds(1 - half, sent + c, n)'
    BY <1>1, <2>3 DEF HalfHolds
  <2>7. n = index'
    BY <1>1, <1>3, <1>4
  <2>. QED BY <1>1, <2>4, <2>5, <2>6, <2>7 DEF HalvesHold
<1>11. n \in 0..FRAME
  BY <1>3
<1>. QED BY <1>1, <1>9, <1>10, <1>11 DEF OInv, OrderInv

\* The closed device has transmitted nothing, and holds nothing.
LEMMA InitOrder == Init => OrderInv
<1>. SUFFICES ASSUME Init PROVE OrderInv
  OBVIOUS
<1>1. /\ queue = <<>> /\ written = 0 /\ sent = 0 /\ Filled = 0 /\ isr = "idle"
      /\ dmaOn = FALSE
  BY DEF Init, Filled
<1>2. ContentsInv
  BY <1>1 DEF ContentsInv
<1>3. HalvesHold(0, 0) /\ 0 \in 0..FRAME
  BY <1>1, FrameAssumption DEF HalvesHold, QueueFollows
<1>. QED BY <1>1, <1>2, <1>3 DEF OrderInv

\* Every unit that is written is in its place until it is transmitted.
THEOREM OrderInvariance == Spec => []OInv
<1>1. Init => OInv
  BY InitIInv, InitOrder DEF OInv
<1>2. IInv /\ OrderInv /\ [Next]_vars => OrderInv'
  <2>. SUFFICES ASSUME OInv, [Next]_vars
                PROVE  OrderInv'
    BY DEF OInv
  <2>1. CASE \/ Open \/ Write \/ Close \/ WriteAlloc \/ WriteMore
             \/ NotifyStop \/ CompletionInit \/ CompletionWait
             \/ CompletionWoken \/ ClearStop \/ SendEnd
    BY <2>1, QuietOrder
  <2>2. CASE WriteCopy
    BY <2>2, WriteCopyOrder
  <2>3. CASE WritePush
    BY <2>3, WritePushOrder
  <2>4. CASE WriteEnd
    BY <2>4, WriteEndOrder
  <2>5. CASE Flush
    BY <2>5, FlushOrder
  <2>6. CASE StopDma
    BY <2>6, StopDmaOrder
  <2>7. CASE HalfDone
    BY <2>7, HalfDoneOrder
  <2>8. CASE SendZero \/ SendBegin
    BY <2>8, SendZeroBeginOrder
  <2>9. CASE SendCopy
    BY <2>9, SendCopyOrder
  <2>10. CASE SendUnderRun
    BY <2>10, SendUnderRunOrder
  <2>11. CASE UNCHANGED vars
    BY <2>11
    DEF vars, OInv, OrderInv, ContentsInv, HalvesHold, HalfHolds,
        QueueFollows, Filled
  <2>. QED
    BY <2>1, <2>2, <2>3, <2>4, <2>5, <2>6, <2>7, <2>8, <2>9, <2>10, <2>11
    DEF Next, ThreadStep, InterruptStep
<1>. QED
  BY <1>1, <1>2, Invariance, PTL DEF Spec, OInv

\* What leaves the DMA is what was written, in order, without a gap and without
\* a repetition, whatever the interleaving of the writer, the stop and the
\* interrupt and however the writes, blocks and frames divide the stream
\* (audio.c:31-170, 371-424).
THEOREM InOrder == Spec => PlayedInOrder
<1>1. OInv /\ [Next]_vars =>
        [HalfDone /\ halves = 2 =>
           \E k \in 0..FRAME : \A i \in 1..FRAME :
             FrameOut[i] = IF i <= k THEN sent + i ELSE 0]_vars
  <2>. SUFFICES ASSUME OInv, HalfDone, halves = 2
                PROVE  \E k \in 0..FRAME : \A i \in 1..FRAME :
                         FrameOut[i] = IF i <= k THEN sent + i ELSE 0
    OBVIOUS
  <2>1. PICK c \in 0..FRAME : HalfHolds(half, sent, c)
    BY DEF HalfDone, OInv, OrderInv, HalvesHold
  <2>. QED BY <2>1 DEF HalfHolds, FrameOut
<1>. QED
  BY <1>1, OrderInvariance, PTL DEF Spec, PlayedInOrder
=============================================================================
