----------------------------- MODULE MCEsp8266 -----------------------------
(* Constants of the TLC runs of Esp8266.                                   *)
EXTENDS Esp8266

\* An old address and a new one.
TwoAddresses == {1, 2}
=============================================================================
