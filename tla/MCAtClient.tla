----------------------------- MODULE MCAtClient -----------------------------
(* Constants of the TLC runs of AtClient.                                  *)
EXTENDS AtClient

CONSTANTS lcd_thr, sys_work

\* The thread of the sockets and the one that reads the network's addresses.
TwoThreads == {lcd_thr, sys_work}
=============================================================================
