----------------------------- MODULE MCWebClient -----------------------------
(* Constants of the TLC runs of WebClient.                                 *)
EXTENDS WebClient

Unit(k, n) == [k |-> k, n |-> n]
Blank == Unit("blank", 0)

\* A song of three pieces: with its length, in two chunks, and until the close;
\* and an answer without it.
HttpStreams ==
  { <<Unit("length", 3), Blank, Unit("piece", 1), Unit("piece", 2), Unit("piece", 3)>>,
    <<Unit("chunked", 0), Blank, Unit("size", 2), Unit("piece", 1), Unit("piece", 2),
      Blank, Unit("size", 1), Unit("piece", 3), Blank, Unit("size", 0), Blank>>,
    <<Unit("close", 0), Blank, Unit("piece", 1), Unit("piece", 2), Unit("piece", 3)>>,
    <<Unit("notfound", 0), Blank, Unit("piece", 9)>> }
=============================================================================
