---------------------------- MODULE MCWavPlayer ----------------------------
(* Constants of the TLC runs of WavPlayer.                                 *)
EXTENDS WavPlayer, TLC

CONSTANTS lcd_thr, tshell, songA, songB

OneCaller == {lcd_thr}
TwoCallers == {lcd_thr, tshell}
OneFile == {songA}
TwoFiles == {songA, songB}

\* rt_mq_create("wav_p", 10, sizeof(struct play_msg), ...): ten-byte messages,
\* eight of them.
MqCapacity == 8

\* One argument below VOLUME_MIN and one in range.
SomeVolumes == {-5, 42}

CommandsAndVolume == AllOps
OnlyCommands == Commands

\* Callers and files are interchangeable.
Symmetry == Permutations(Callers) \cup Permutations(Files)
=============================================================================
