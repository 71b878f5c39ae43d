---------------------------- MODULE MCFlexButton ----------------------------
(***************************************************************************)
(* FlexButton for TLC: two keys, the thresholds 20/100/200/300 scaled to   *)
(* the smallest distances that keep every status and both boundary scans   *)
(* of every threshold apart, and a counter that wraps shortly after the    *)
(* hold threshold.                                                         *)
(***************************************************************************)
EXTENDS FlexButton
=============================================================================
