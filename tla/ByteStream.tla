----------------------------- MODULE ByteStream -----------------------------
(***************************************************************************)
(* What a socket promises the program that reads it, without the list of   *)
(* packets, the notices, the thread at_clnt, the serial line and the       *)
(* module behind it: recv returns what the server sends on a connection,   *)
(* piece by piece from its beginning, and reports the end of it when all   *)
(* of it was returned.  That holds until the program is told of a trouble, *)
(* or one is there that it cannot know of: trouble says how far.           *)
(***************************************************************************)
EXTENDS Naturals, Sequences

CONSTANT Streams

VARIABLES
  source,   \* what the server sends on this connection
  taken,    \* what recv has returned of it
  trouble,  \* the worst that happened: "none", "cut", "gap" or "late"
  over      \* the last call reported the end

streamVars == <<source, taken, trouble, over>>

\* "cut" ends a stream before its end, and changes nothing of what came before.
InOrder == trouble \in {"none", "cut"}

Init == source = <<>> /\ taken = <<>> /\ trouble = "none" /\ over = FALSE

\* socket(): nothing has been read of the connection to come.
Begin ==
  /\ taken' = <<>> /\ source' \in {source, <<>>}
  /\ trouble' = (IF trouble = "late" THEN "late" ELSE "none")
  /\ over' = FALSE

\* A server answers, to a program that has not read anything.
Accept ==
  /\ taken = <<>> /\ source' \in Streams
  /\ UNCHANGED <<taken, trouble, over>>

\* recv returns the next n units.
Read ==
  /\ InOrder
  /\ \E n \in 1..(Len(source) - Len(taken)) :
       taken' = SubSeq(source, 1, Len(taken) + n)
  /\ over' = FALSE
  /\ UNCHANGED <<source, trouble>>

\* recv returns 0, or send meets a connection that was closed and read out.
End ==
  /\ trouble = "none" => taken = source
  /\ over' = TRUE
  /\ UNCHANGED <<source, taken, trouble>>

\* Another call begins or returns.
Call == over' = FALSE /\ UNCHANGED <<source, taken, trouble>>

\* The server breaks off, recv gives up, data are lost, a command times out.
Worsen ==
  /\ \/ trouble = "none" /\ trouble' \in {"cut", "gap", "late"}
     \/ trouble = "cut"  /\ trouble' \in {"gap", "late"}
     \/ trouble = "gap"  /\ trouble' = "late"
  /\ over' \in BOOLEAN
  /\ UNCHANGED <<source, taken>>

\* Nothing is promised any more; after a timeout not even whose answer it is.
Broken ==
  /\ ~InOrder
  /\ taken' \in {taken, <<>>}
  /\ source' = source \/ (trouble = "late" /\ source' \in Streams)
  /\ over' \in BOOLEAN
  /\ UNCHANGED trouble

Next == Begin \/ Accept \/ Read \/ End \/ Call \/ Worsen \/ Broken

Spec == Init /\ [][Next]_streamVars
=============================================================================
