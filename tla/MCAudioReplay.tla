--------------------------- MODULE MCAudioReplay ---------------------------
(* Constants of the TLC runs of AudioReplay.  A unit is half a frame, 512  *)
(* bytes: the frame is 2 units as TX_FIFO_SIZE / 2 is 1024, the block is 4 *)
(* units, so that it takes two frames, and writes of 1 and 3 units leave   *)
(* blocks and frames partly filled.  The pool has the 2 blocks of          *)
(* rtconfig.h, and the queue 2 items instead of 4: the fewest              *)
(* PoolAssumption allows.                                                  *)
EXTENDS AudioReplay

SmallWrites == {1, 3, 8}
=============================================================================
