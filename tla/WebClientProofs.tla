--------------------------- MODULE WebClientProofs ---------------------------
(***************************************************************************)
(* What holds of a download of WebClient, for every stream of a server and *)
(* every buffer: the invariant of its socket (AtSocketProofs), where the   *)
(* program is while the socket is in which state and which call goes on,   *)
(* and that its lengths leave something to read whenever it reads (IInv);  *)
(* and over it that the file is the song (FInv), for streams that are      *)
(* answers of HTTP (AnswerAssumption).                                     *)
(***************************************************************************)
EXTENDS WebClient, AtSocketProofs

\* Where webclient_get_file is, and its socket.
Reading == {"header", "firstchunk", "chunk", "nextchunk", "nextsize", "plain"}

SessionInv ==
  /\ at = "idle" => state = "NONE" /\ pc = "idle" /\ ~socket
  /\ at = "connect" => state # "NONE" /\ pc = "idle" /\ ~socket
  /\ at = "connected" =>
       /\ pc \in {"idle", "start", "reclose"} /\ state # "NONE" /\ ~socket
       /\ pc = "idle" /\ ret.kind = "ok" => state \in {"CONNECT", "CLOSED"}
  /\ at = "requested" =>
       /\ pc \in {"idle", "cipsend", "sendwait", "sendresult"}
       /\ state \in {"CONNECT", "CLOSED"} /\ socket
  /\ at \in Reading =>
       /\ pc \in {"idle", "recvstate", "recvwait"}
       /\ state \in {"CONNECT", "CLOSED"} /\ socket
  /\ at = "responded" => pc = "idle" /\ state \in {"CONNECT", "CLOSED"} /\ socket
  /\ at \in {"loop", "finish"} /\ socket =>
       pc = "idle" /\ state \in {"CONNECT", "CLOSED"}
  /\ at \in {"loop", "finish", "closed"} /\ ~socket =>
       pc = "closing" \/ (pc = "idle" /\ state = "NONE")
  /\ at = "closed" => ~socket

\* The lengths of the session, so that no read asks for nothing or too much.
LengthInv ==
  /\ chunk_sz = None => at \in {"loop", "finish", "closed", "idle"} /\ ~socket
  /\ at \in {"responded", "loop", "firstchunk", "chunk", "nextchunk", "nextsize",
             "plain"} /\ content_length \notin {None, 0}
       => content_remainder \in Nat
  /\ at \in {"responded", "loop"} /\ socket /\ chunk_sz # 0
       => chunk_offset < chunk_sz
  /\ at = "plain" =>
       /\ chunk_sz = 0 /\ content_length # 0 /\ left > 0
       /\ content_length # None => total + left <= content_remainder
       /\ pc # "idle" => want = left
       /\ pc = "idle" /\ ret.kind = "data" => Len(ret.data) <= left

\* The inductive invariant.
IInv == SInv /\ TypeOK /\ SessionInv /\ LengthInv

-----------------------------------------------------------------------------
(* Each step of the download preserves the invariant.                      *)

\* Where the download may be.
Places == {"idle", "connect", "connected", "requested", "header", "firstchunk",
           "responded", "loop", "chunk", "nextchunk", "nextsize", "plain",
           "finish", "closed"}

\* The parts of the invariant, as a step finds them.
LEMMA WebParts ==
  ASSUME IInv
  PROVE  /\ SInv /\ SessionInv /\ LengthInv
         /\ at \in Places /\ socket \in BOOLEAN /\ garbled \in BOOLEAN
         /\ rc \in {"OK", "ERROR"}
         /\ content_length \in Nat \cup {None} /\ content_remainder \in Nat \cup {None}
         /\ chunk_sz \in Nat \cup {None} /\ chunk_offset \in Nat /\ offset \in Nat
         /\ total \in Nat /\ left \in Nat
BY DEF IInv, TypeOK, Lengths, Places

\* And as it has to leave them.
LEMMA WebTypes ==
  ASSUME SInv', at' \in Places, socket' \in BOOLEAN, garbled' \in BOOLEAN,
         rc' \in {"OK", "ERROR"},
         content_length' \in Nat \cup {None}, content_remainder' \in Nat \cup {None},
         chunk_sz' \in Nat \cup {None}, chunk_offset' \in Nat, offset' \in Nat,
         total' \in Nat, left' \in Nat
  PROVE  TypeOK'
BY DEF SInv, SocketTypes, TypeOK, Lengths, Places

\* Data that recv returned begin with a unit.
LEMMA FirstUnit ==
  ASSUME SInv, ret.kind = "data"
  PROVE  /\ ret.data[1].n \in Nat /\ Number(ret.data[1]) \in Nat
         /\ Len(ret.data) \in Nat \ {0}
<1>1. ret.data \in Seq(Units) /\ ret.data # <<>>
  BY Parts DEF SocketTypes, Results
<1>2. Len(ret.data) \in Nat \ {0}
  BY <1>1, EmptySeq
<1>3. ret.data[1] \in Units
  BY <1>1, <1>2
<1>. QED BY <1>2, <1>3, UnitsAssumption DEF Number

\* A number of units is asked for.
LEMMA Asks ==
  ASSUME SInv, NEW n \in Nat \ {0}, Recv(n), state \in {"CONNECT", "CLOSED"}
  PROVE  /\ SInv' /\ state' = state /\ pc' \in {"idle", "recvstate"}
         /\ pc' # "idle" => want' = n
         /\ pc' = "idle" /\ ret'.kind = "data" => Len(ret'.data) <= n
<1>1. SInv'
  BY RecvStep
<1>2. /\ state' = state
      /\ \/ pc' = "idle" /\ ret'.kind = "data" /\ Len(ret'.data) \in 1..n
         \/ pc' = "recvstate" /\ want' = n
  BY CallBegins
<1>. QED BY <1>1, <1>2

\* Where a program leaves the socket alone.
LEMMA SocketIdle ==
  ASSUME SInv, UNCHANGED atVars
  PROVE  SInv' /\ UNCHANGED <<pc, state, ret, want>>
BY Untouched DEF atVars

\* A download begins with a socket of its own.
LEMMA GetStep ==
  ASSUME IInv, Get
  PROVE  IInv'
<1>1. SInv /\ at = "idle" /\ trouble # "late" /\ Socket
  BY WebParts, Parts DEF Get
<1>2. SInv' /\ pc' = "idle" /\ state' = "OPEN"
  BY <1>1, SocketStep, CallBegins
<1>3. /\ at' = "connect" /\ socket' = FALSE /\ content_length' = None
      /\ content_remainder' = 0 /\ chunk_sz' = 0 /\ chunk_offset' = 0 /\ rc' = "OK"
      /\ garbled' = FALSE /\ offset' = 0 /\ total' = 0 /\ left' = 0
  BY DEF Get, Goto
<1>4. TypeOK'
  BY <1>2, <1>3, WebTypes DEF Places
<1>5. SessionInv'
  BY <1>2, <1>3 DEF SessionInv, Reading
<1>6. LengthInv'
  BY <1>3 DEF LengthInv, None
<1>. QED BY <1>2, <1>4, <1>5, <1>6 DEF IInv

\* The socket is connected.
LEMMA ConnectToStep ==
  ASSUME IInv, ConnectTo
  PROVE  IInv'
<1>1. /\ SInv /\ Connect /\ at = "connect" /\ state # "NONE" /\ ~socket
      /\ at' = "connected" /\ UNCHANGED <<sessionVars, readVars, garbled>>
  BY WebParts DEF ConnectTo, SessionInv, Goto
<1>2. /\ SInv' /\ pc' \in {"idle", "start"} /\ state' = state
      /\ pc' = "idle" => ret'.kind = "fail"
  BY <1>1, ConnectStep, CallBegins
<1>3. TypeOK'
  BY <1>1, <1>2, WebParts, WebTypes DEF sessionVars, readVars, Places
<1>4. SessionInv'
  BY <1>1, <1>2 DEF SessionInv, Reading, sessionVars
<1>5. LengthInv'
  BY <1>1, WebParts DEF LengthInv, sessionVars, readVars
<1>. QED BY <1>2, <1>3, <1>4, <1>5 DEF IInv

\* The request goes out, or a socket that did not connect is closed.
LEMMA ConnectedStep ==
  ASSUME IInv, Connected
  PROVE  IInv'
<1>1. /\ SInv /\ at = "connected" /\ state # "NONE" /\ ~socket
      /\ UNCHANGED <<content_length, content_remainder, chunk_sz, chunk_offset, readVars,
                     garbled>>
  BY WebParts DEF Connected, SessionInv
<1>2. CASE ret.kind = "ok"
  <2>1. Send /\ socket' = TRUE /\ at' = "requested" /\ rc' = rc
    BY <1>2 DEF Connected, Goto
  <2>2. pc = "idle" /\ state \in {"CONNECT", "CLOSED"}
    BY <1>1, <1>2, <2>1, WebParts DEF SessionInv, Send
  <2>3. SInv' /\ pc' \in {"idle", "cipsend"} /\ state' = state
    BY <1>1, <2>1, <2>2, SendStep, CallBegins
  <2>4. TypeOK'
    BY <1>1, <2>1, <2>3, WebParts, WebTypes DEF readVars, Places
  <2>5. SessionInv'
    BY <2>1, <2>2, <2>3 DEF SessionInv, Reading
  <2>6. LengthInv'
    BY <1>1, <2>1, WebParts DEF LengthInv
  <2>. QED BY <2>3, <2>4, <2>5, <2>6 DEF IInv
<1>3. CASE ret.kind # "ok"
  <2>1. Close /\ rc' = "ERROR" /\ at' = "finish" /\ socket' = socket
    BY <1>3 DEF Connected, Goto
  <2>2. SInv' /\ (pc' = "closing" \/ (pc' = "idle" /\ state' = "NONE"))
    BY <1>1, <2>1, CloseStep, CallBegins
  <2>3. TypeOK'
    BY <1>1, <2>1, <2>2, WebParts, WebTypes DEF readVars, Places
  <2>4. SessionInv'
    BY <1>1, <2>1, <2>2 DEF SessionInv, Reading
  <2>5. LengthInv'
    BY <1>1, <2>1, WebParts DEF LengthInv
  <2>. QED BY <2>2, <2>3, <2>4, <2>5 DEF IInv
<1>. QED BY <1>2, <1>3

\* The answer is read, or the socket closed because the request did not go out.
LEMMA RequestedStep ==
  ASSUME IInv, Requested
  PROVE  IInv'
<1>1. /\ SInv /\ at = "requested" /\ state \in {"CONNECT", "CLOSED"} /\ socket
      /\ UNCHANGED <<content_length, content_remainder, chunk_sz, chunk_offset, readVars,
                     garbled>>
  BY WebParts DEF Requested, SessionInv
<1>2. CASE ret.kind = "ok"
  <2>1. Recv(1) /\ at' = "header" /\ UNCHANGED <<socket, rc>>
    BY <1>2 DEF Requested, Goto
  <2>2. SInv' /\ state' = state /\ pc' \in {"idle", "recvstate"}
    BY <1>1, <2>1, Asks
  <2>3. TypeOK'
    BY <1>1, <2>1, <2>2, WebParts, WebTypes DEF readVars, Places
  <2>4. SessionInv'
    BY <1>1, <2>1, <2>2 DEF SessionInv, Reading
  <2>5. LengthInv'
    BY <1>1, <2>1, WebParts DEF LengthInv
  <2>. QED BY <2>2, <2>3, <2>4, <2>5 DEF IInv
<1>3. CASE ret.kind # "ok"
  <2>1. Close /\ socket' = FALSE /\ rc' = "ERROR" /\ at' = "finish"
    BY <1>3 DEF Requested, Goto
  <2>2. SInv' /\ (pc' = "closing" \/ (pc' = "idle" /\ state' = "NONE"))
    BY <1>1, <2>1, CloseStep, CallBegins
  <2>3. TypeOK'
    BY <1>1, <2>1, <2>2, WebParts, WebTypes DEF readVars, Places
  <2>4. SessionInv'
    BY <1>1, <2>1, <2>2 DEF SessionInv, Reading
  <2>5. LengthInv'
    BY <1>1, <2>1, WebParts DEF LengthInv
  <2>. QED BY <2>2, <2>3, <2>4, <2>5 DEF IInv
<1>. QED BY <1>2, <1>3

\* A line of the header.
LEMMA HeaderLineStep ==
  ASSUME IInv, HeaderLine
  PROVE  IInv'
<1>1. /\ SInv /\ at = "header" /\ pc = "idle" /\ ret.kind = "data"
      /\ state \in {"CONNECT", "CLOSED"} /\ socket
      /\ content_length' \in {ret.data[1].n, content_length}
      /\ chunk_sz' \in {1, chunk_sz} /\ Recv(1)
      /\ UNCHANGED <<at, socket, content_remainder, chunk_offset, rc, readVars, garbled>>
  BY WebParts DEF HeaderLine, SessionInv, Reading
<1>2. SInv' /\ state' = state /\ pc' \in {"idle", "recvstate"}
  BY <1>1, Asks
<1>3. content_length' \in Nat \cup {None} /\ chunk_sz' \in Nat \cup {None}
  BY <1>1, WebParts, FirstUnit
<1>4. TypeOK'
  BY <1>1, <1>2, <1>3, WebParts, WebTypes DEF readVars
<1>5. SessionInv'
  BY <1>1, <1>2 DEF SessionInv, Reading
<1>6. LengthInv'
  <2>1. chunk_sz # None
    BY <1>1, WebParts DEF LengthInv
  <2>. QED BY <1>1, <2>1 DEF LengthInv, None
<1>. QED BY <1>2, <1>4, <1>5, <1>6 DEF IInv

\* The empty line, or none any more.
LEMMA HeaderEndStep ==
  ASSUME IInv, HeaderEnd
  PROVE  IInv'
<1>1. /\ SInv /\ at = "header" /\ pc = "idle"
      /\ state \in {"CONNECT", "CLOSED"} /\ socket
      /\ rc' \in {"ERROR", rc}
      /\ content_remainder' = IF content_length = 0 THEN None ELSE content_length
      /\ UNCHANGED <<socket, content_length, chunk_sz, chunk_offset, readVars, garbled>>
  BY WebParts DEF HeaderEnd, SessionInv, Reading
<1>2. /\ SInv' /\ state' = state /\ pc' \in {"idle", "recvstate"}
      /\ \/ at' = "firstchunk"
         \/ at' = "responded" /\ pc' = "idle" /\ chunk_sz = 0
  <2>1. CASE chunk_sz # 0
    <3>1. Recv(1) /\ at' = "firstchunk"
      BY <2>1 DEF HeaderEnd, Goto
    <3>. QED BY <1>1, <3>1, Asks
  <2>2. CASE chunk_sz = 0
    <3>1. UNCHANGED atVars /\ at' = "responded"
      BY <2>2 DEF HeaderEnd, Goto
    <3>. QED BY <1>1, <2>2, <3>1, SocketIdle
  <2>. QED BY <2>1, <2>2
<1>3. TypeOK'
  BY <1>1, <1>2, WebParts, WebTypes DEF readVars, Places
<1>4. SessionInv'
  BY <1>1, <1>2 DEF SessionInv, Reading
<1>5. LengthInv'
  BY <1>1, <1>2, WebParts DEF LengthInv
<1>. QED BY <1>2, <1>3, <1>4, <1>5 DEF IInv

\* The first size, or what strtol makes of the buffer without it.
LEMMA FirstChunkStep ==
  ASSUME IInv, FirstChunk
  PROVE  IInv'
<1>1. /\ SInv /\ at = "firstchunk" /\ pc = "idle" /\ at' = "responded"
      /\ state \in {"CONNECT", "CLOSED"} /\ socket
      /\ chunk_offset' = 0 /\ garbled' \in {garbled, TRUE}
      /\ UNCHANGED <<socket, content_length, content_remainder, rc, readVars, atVars>>
  BY WebParts DEF FirstChunk, SessionInv, Reading, Goto
<1>2. chunk_sz' \in Nat
  BY <1>1, FirstUnit DEF FirstChunk
<1>3. SInv' /\ UNCHANGED <<pc, state, ret, want>>
  BY <1>1, SocketIdle
<1>4. TypeOK'
  BY <1>1, <1>2, <1>3, WebParts, WebTypes DEF readVars, Places
<1>5. SessionInv'
  BY <1>1, <1>3 DEF SessionInv, Reading
<1>6. LengthInv'
  BY <1>1, <1>2, WebParts DEF LengthInv, None
<1>. QED BY <1>3, <1>4, <1>5, <1>6 DEF IInv

\* The file is there, or the download fails.
LEMMA OpenFileStep ==
  ASSUME IInv, OpenFile
  PROVE  IInv'
<1>1. /\ SInv /\ at = "responded" /\ pc = "idle"
      /\ state \in {"CONNECT", "CLOSED"} /\ socket
      /\ at' \in {"loop", "finish"} /\ rc' \in {rc, "ERROR"} /\ offset' = 0
      /\ UNCHANGED <<socket, content_length, content_remainder, chunk_sz, chunk_offset,
                     total, left, garbled, atVars>>
  BY WebParts DEF OpenFile, SessionInv, Goto
<1>2. SInv' /\ UNCHANGED <<pc, state, ret, want>>
  BY <1>1, SocketIdle
<1>3. TypeOK'
  BY <1>1, <1>2, WebParts, WebTypes DEF Places
<1>4. SessionInv'
  BY <1>1, <1>2 DEF SessionInv, Reading
<1>5. LengthInv'
  BY <1>1, WebParts DEF LengthInv
<1>. QED BY <1>2, <1>3, <1>4, <1>5 DEF IInv

\* The loop is over.
LEMMA LoopEndsStep ==
  ASSUME IInv, LoopEnds
  PROVE  IInv'
<1>1. /\ SInv /\ at = "loop" /\ at' = "finish"
      /\ UNCHANGED <<sessionVars, readVars, garbled, atVars>>
  BY WebParts DEF LoopEnds, Goto
<1>2. SInv' /\ UNCHANGED <<pc, state, ret, want>>
  BY <1>1, SocketIdle
<1>. USE DEF sessionVars, readVars
<1>3. TypeOK'
  BY <1>1, <1>2, WebParts, WebTypes DEF Places
<1>4. SessionInv'
  BY <1>1, <1>2, WebParts DEF SessionInv, Reading
<1>5. LengthInv'
  BY <1>1, WebParts DEF LengthInv
<1>. QED BY <1>2, <1>3, <1>4, <1>5 DEF IInv

\* What the loop asks for is something.
LEMMA LengthAsks ==
  ASSUME IInv, Reads
  PROVE  Length \in Nat \ {0}
BY WebParts, BufszAssumption DEF Reads, Length, Smaller, None

\* A part of a chunk is asked for, of what is left of it.
LEMMA ReadChunkStep ==
  ASSUME IInv, ReadChunk
  PROVE  IInv'
<1>1. /\ SInv /\ at = "loop" /\ socket /\ chunk_sz # None /\ chunk_sz # 0
      /\ pc = "idle" /\ state \in {"CONNECT", "CLOSED"}
      /\ Recv(ChunkLength) /\ at' = "chunk"
      /\ UNCHANGED <<sessionVars, readVars, garbled>>
  BY WebParts DEF ReadChunk, Reads, SessionInv, Goto
<1>2. Reads
  BY DEF ReadChunk
<1>3. chunk_offset \in Nat /\ chunk_sz \in Nat /\ chunk_offset < chunk_sz
  BY <1>1, WebParts DEF LengthInv
<1>4. ChunkLength \in Nat \ {0}
  <2>1. Length \in Nat \ {0}
    BY <1>2, LengthAsks
  <2>. QED BY <1>3, <2>1 DEF ChunkLength, Smaller
<1>5. SInv' /\ state' = state /\ pc' \in {"idle", "recvstate"}
  BY <1>1, <1>4, Asks
<1>. USE DEF sessionVars, readVars
<1>6. TypeOK'
  BY <1>1, <1>5, WebParts, WebTypes DEF Places
<1>7. SessionInv'
  BY <1>1, <1>5 DEF SessionInv, Reading
<1>8. LengthInv'
  BY <1>1, WebParts DEF LengthInv
<1>. QED BY <1>5, <1>6, <1>7, <1>8 DEF IInv

\* Data of a chunk; at its end the next line is asked for.
LEMMA ChunkDataStep ==
  ASSUME IInv, ChunkData
  PROVE  IInv'
<1>1. /\ SInv /\ at = "chunk" /\ pc = "idle" /\ ret.kind = "data"
      /\ state \in {"CONNECT", "CLOSED"} /\ socket
      /\ offset' = offset + Len(ret.data) /\ chunk_offset' = chunk_offset + Len(ret.data)
      /\ UNCHANGED <<socket, content_length, content_remainder, chunk_sz, rc,
                     total, left, garbled>>
  BY WebParts DEF ChunkData, SessionInv, Reading
<1>2. Len(ret.data) \in Nat
  BY <1>1, FirstUnit
<1>3. offset' \in Nat /\ chunk_offset' \in Nat /\ chunk_sz \in Nat
  BY <1>1, <1>2, WebParts DEF LengthInv
<1>4. /\ SInv' /\ state' = state /\ pc' \in {"idle", "recvstate"}
      /\ \/ at' = "nextchunk"
         \/ at' = "loop" /\ pc' = "idle" /\ chunk_offset' < chunk_sz
  <2>1. CASE chunk_offset' >= chunk_sz
    <3>1. Recv(1) /\ at' = "nextchunk"
      BY <2>1 DEF ChunkData, Goto
    <3>. QED BY <1>1, <3>1, Asks
  <2>2. CASE ~(chunk_offset' >= chunk_sz)
    <3>1. UNCHANGED atVars /\ at' = "loop"
      BY <2>2 DEF ChunkData, Goto
    <3>. QED BY <1>1, <1>3, <2>2, <3>1, SocketIdle
  <2>. QED BY <2>1, <2>2
<1>5. TypeOK'
  BY <1>1, <1>3, <1>4, WebParts, WebTypes DEF Places
<1>6. SessionInv'
  BY <1>1, <1>4 DEF SessionInv, Reading
<1>7. LengthInv'
  BY <1>1, <1>4, WebParts DEF LengthInv
<1>. QED BY <1>4, <1>5, <1>6, <1>7 DEF IInv

\* Nothing comes: the socket is closed, or left to webclient_close.
LEMMA ReadFailsStep ==
  ASSUME IInv, ReadFails
  PROVE  IInv'
<1>1. /\ SInv /\ at \in {"chunk", "plain"} /\ pc = "idle"
      /\ state \in {"CONNECT", "CLOSED"} /\ socket /\ at' = "finish"
      /\ UNCHANGED <<content_length, content_remainder, chunk_sz, chunk_offset, rc,
                     readVars, garbled>>
  BY WebParts DEF ReadFails, CloseAndEnd, SessionInv, Reading, Goto
<1>2. /\ SInv'
      /\ \/ socket' = socket /\ UNCHANGED <<pc, state>>
         \/ socket' = FALSE /\ (pc' = "closing" \/ (pc' = "idle" /\ state' = "NONE"))
  <2>1. CASE ret.kind = "timeout"
    BY <1>1, <2>1, SocketIdle DEF ReadFails
  <2>2. CASE ret.kind # "timeout"
    BY <1>1, <2>2, CloseStep, CallBegins DEF ReadFails, CloseAndEnd
  <2>. QED BY <2>1, <2>2
<1>3. TypeOK'
  BY <1>1, <1>2, WebParts, WebTypes DEF readVars, Places
<1>4. SessionInv'
  BY <1>1, <1>2 DEF SessionInv, Reading
<1>5. LengthInv'
  BY <1>1, WebParts DEF LengthInv
<1>. QED BY <1>2, <1>3, <1>4, <1>5 DEF IInv

\* The size of the next chunk, none after the last, or no line.
LEMMA NextChunkStep ==
  ASSUME IInv, NextChunk
  PROVE  IInv'
<1>1. /\ SInv /\ at \in {"nextchunk", "nextsize"} /\ pc = "idle"
      /\ state \in {"CONNECT", "CLOSED"} /\ socket
      /\ UNCHANGED <<content_length, content_remainder, rc, readVars, garbled>>
  BY WebParts DEF NextChunk, SessionInv, Reading
<1>2. ASSUME ret.kind = "data", Recv(1), at' = "nextsize",
             UNCHANGED <<socket, chunk_sz, chunk_offset>>
      PROVE  IInv'
  <2>1. SInv' /\ state' = state /\ pc' \in {"idle", "recvstate"}
    BY <1>1, <1>2, Asks
  <2>2. TypeOK'
    BY <1>1, <1>2, <2>1, WebParts, WebTypes DEF readVars, Places
  <2>3. SessionInv'
    BY <1>1, <1>2, <2>1 DEF SessionInv, Reading
  <2>4. LengthInv'
    BY <1>1, <1>2, WebParts DEF LengthInv
  <2>. QED BY <2>1, <2>2, <2>3, <2>4 DEF IInv
<1>3. ASSUME Close, socket' = FALSE, at' = "loop", chunk_sz' \in {None, chunk_sz},
             chunk_offset' \in {0, chunk_offset}
      PROVE  IInv'
  <2>1. SInv' /\ (pc' = "closing" \/ (pc' = "idle" /\ state' = "NONE"))
    BY <1>1, <1>3, CloseStep, CallBegins
  <2>2. TypeOK'
    <3>1. chunk_sz' \in Nat \cup {None} /\ chunk_offset' \in Nat
      BY <1>3, WebParts
    <3>2. at' \in Places /\ socket' \in BOOLEAN
      BY <1>3 DEF Places
    <3>. QED BY <1>1, <2>1, <3>1, <3>2, WebParts, WebTypes DEF readVars
  <2>3. SessionInv'
    BY <1>3, <2>1 DEF SessionInv, Reading
  <2>4. LengthInv'
    BY <1>1, <1>3, WebParts DEF LengthInv
  <2>. QED BY <2>1, <2>2, <2>3, <2>4 DEF IInv
<1>4. ASSUME ret.kind = "data", chunk_offset' = 0, Number(ret.data[1]) # 0,
             chunk_sz' = Number(ret.data[1]), UNCHANGED <<socket, atVars>>, at' = "loop"
      PROVE  IInv'
  <2>1. SInv' /\ UNCHANGED <<pc, state, ret, want>>
    BY <1>1, <1>4, SocketIdle
  <2>2. chunk_sz' \in Nat \ {0}
    BY <1>1, <1>4, FirstUnit
  <2>3. TypeOK'
    BY <1>1, <1>4, <2>1, <2>2, WebParts, WebTypes DEF readVars, Places
  <2>4. SessionInv'
    BY <1>1, <1>4, <2>1 DEF SessionInv, Reading
  <2>5. LengthInv'
    BY <1>1, <1>4, <2>2, WebParts DEF LengthInv, None
  <2>. QED BY <2>1, <2>3, <2>4, <2>5 DEF IInv
<1>. QED BY <1>2, <1>3, <1>4 DEF NextChunk, Goto

\* What is left of the body is asked for, as far as the buffer goes.
LEMMA PlainAsks ==
  ASSUME IInv, ReadPlain
  PROVE  /\ left' \in Nat \ {0} /\ Recv(left') /\ content_length # 0
         /\ content_length # None => left' <= content_remainder
<1>1. /\ at = "loop" /\ socket /\ chunk_sz = 0
      /\ content_length \notin {None, 0} => content_remainder > 0
      /\ content_length # None => offset < content_length
      /\ content_length \in Nat \cup {None} /\ offset \in Nat
  BY WebParts DEF ReadPlain, Reads
<1>2. Length \in Nat \ {0} /\ content_length # 0
  <2>1. Reads
    BY DEF ReadPlain
  <2>. QED BY <1>1, <2>1, LengthAsks DEF None
<1>3. CASE content_length = None
  BY <1>2, <1>3 DEF ReadPlain
<1>4. CASE content_length # None
  <2>1. content_remainder \in Nat \ {0}
    BY <1>1, <1>2, <1>4, WebParts DEF LengthInv
  <2>. QED BY <1>2, <1>4, <2>1 DEF ReadPlain, Smaller
<1>. QED BY <1>3, <1>4

\* It is read without chunks.
LEMMA ReadPlainStep ==
  ASSUME IInv, ReadPlain
  PROVE  IInv'
<1>1. /\ SInv /\ at = "loop" /\ socket /\ chunk_sz = 0
      /\ pc = "idle" /\ state \in {"CONNECT", "CLOSED"}
      /\ at' = "plain" /\ total' = 0
      /\ UNCHANGED <<sessionVars, offset, garbled>>
  BY WebParts DEF ReadPlain, Reads, SessionInv, Goto
<1>2. /\ left' \in Nat \ {0} /\ Recv(left') /\ content_length # 0
      /\ content_length # None => left' <= content_remainder
  BY PlainAsks
<1>3. /\ SInv' /\ state' = state /\ pc' \in {"idle", "recvstate"}
      /\ pc' # "idle" => want' = left'
      /\ pc' = "idle" /\ ret'.kind = "data" => Len(ret'.data) <= left'
  BY <1>1, <1>2, Asks
<1>. USE DEF sessionVars
<1>4. TypeOK'
  BY <1>1, <1>2, <1>3, WebParts, WebTypes DEF Places
<1>5. SessionInv'
  BY <1>1, <1>3 DEF SessionInv, Reading
<1>6. LengthInv'
  BY <1>1, <1>2, <1>3, WebParts DEF LengthInv, None
<1>. QED BY <1>3, <1>4, <1>5, <1>6 DEF IInv

\* It reads on until it has what it asked for.
LEMMA PlainDataStep ==
  ASSUME IInv, PlainData
  PROVE  IInv'
<1>1. /\ SInv /\ at = "plain" /\ pc = "idle" /\ ret.kind = "data"
      /\ state \in {"CONNECT", "CLOSED"} /\ socket
      /\ left' = left - Len(ret.data) /\ total' = total + Len(ret.data)
      /\ UNCHANGED <<socket, content_length, chunk_sz, chunk_offset, rc, garbled>>
  BY WebParts DEF PlainData, SessionInv, Reading
<1>2. /\ chunk_sz = 0 /\ content_length # 0 /\ left > 0
      /\ content_length # None => total + left <= content_remainder
      /\ Len(ret.data) <= left /\ Len(ret.data) \in Nat
      /\ content_length # None => content_remainder \in Nat
  BY <1>1, FirstUnit, WebParts DEF LengthInv
<1>3. /\ left' \in Nat /\ total' \in Nat /\ total' + left' = total + left
  <2>. DEFINE m == Len(ret.data)
  <2>1. /\ left \in Nat /\ total \in Nat /\ m \in Nat /\ m <= left
        /\ left' = left - m /\ total' = total + m
    BY <1>1, <1>2, WebParts
  <2>. HIDE DEF m
  <2>. QED BY <2>1
<1>4. ASSUME left' = 0
      PROVE  IInv'
  <2>1. /\ UNCHANGED atVars /\ at' = "loop" /\ offset' = offset + total'
        /\ content_remainder' = IF content_length = None THEN content_remainder
                                ELSE content_remainder - total'
    BY <1>4 DEF PlainData, Returns, Goto
  <2>2. /\ offset' \in Nat /\ content_remainder' \in Nat \cup {None}
        /\ content_length # None => content_remainder' \in Nat
    BY <1>2, <1>3, <1>4, <2>1, WebParts
  <2>3. SInv' /\ UNCHANGED <<pc, state, ret, want>>
    BY <1>1, <2>1, SocketIdle
  <2>4. TypeOK'
    BY <1>1, <1>3, <2>1, <2>2, <2>3, WebParts, WebTypes DEF Places
  <2>5. SessionInv'
    BY <1>1, <2>1, <2>3 DEF SessionInv, Reading
  <2>6. LengthInv'
    BY <1>1, <1>2, <2>1, <2>2 DEF LengthInv, None
  <2>. QED BY <2>3, <2>4, <2>5, <2>6 DEF IInv
<1>5. ASSUME left' # 0
      PROVE  IInv'
  <2>1. Recv(left') /\ UNCHANGED <<at, offset, content_remainder>> /\ left' \in Nat \ {0}
    BY <1>3, <1>5 DEF PlainData
  <2>2. /\ SInv' /\ state' = state /\ pc' \in {"idle", "recvstate"}
        /\ pc' # "idle" => want' = left'
        /\ pc' = "idle" /\ ret'.kind = "data" => Len(ret'.data) <= left'
    BY <1>1, <2>1, Asks
  <2>3. TypeOK'
    BY <1>1, <1>3, <2>1, <2>2, WebParts, WebTypes
  <2>4. SessionInv'
    BY <1>1, <2>1, <2>2 DEF SessionInv, Reading
  <2>5. LengthInv'
    BY <1>1, <1>2, <1>3, <2>1, <2>2 DEF LengthInv, None
  <2>. QED BY <2>2, <2>3, <2>4, <2>5 DEF IInv
<1>. QED BY <1>4, <1>5

\* It returns what it has.
LEMMA PlainPartStep ==
  ASSUME IInv, PlainPart
  PROVE  IInv'
<1>1. /\ SInv /\ at = "plain" /\ pc = "idle"
      /\ state \in {"CONNECT", "CLOSED"} /\ socket
      /\ at' = "loop" /\ offset' = offset + total
      /\ content_remainder' = IF content_length = None THEN content_remainder
                              ELSE content_remainder - total
      /\ UNCHANGED <<socket, content_length, chunk_sz, chunk_offset, rc, total, left,
                     garbled, atVars>>
  BY WebParts DEF PlainPart, Returns, SessionInv, Reading, Goto
<1>2. /\ chunk_sz = 0 /\ content_length # 0 /\ left \in Nat /\ total \in Nat
      /\ content_length # None =>
           content_remainder \in Nat /\ total + left <= content_remainder
  BY <1>1, WebParts DEF LengthInv
<1>3. /\ offset' \in Nat /\ content_remainder' \in Nat \cup {None}
      /\ content_length # None => content_remainder' \in Nat
  BY <1>1, <1>2, WebParts
<1>4. SInv' /\ UNCHANGED <<pc, state, ret, want>>
  BY <1>1, SocketIdle
<1>5. TypeOK'
  BY <1>1, <1>3, <1>4, WebParts, WebTypes DEF Places
<1>6. SessionInv'
  BY <1>1, <1>4 DEF SessionInv, Reading
<1>7. LengthInv'
  BY <1>1, <1>2, <1>3 DEF LengthInv, None
<1>. QED BY <1>4, <1>5, <1>6, <1>7 DEF IInv

\* A socket that is still there is closed.
LEMMA FinishStep ==
  ASSUME IInv, Finish
  PROVE  IInv'
<1>1. /\ SInv /\ at = "finish" /\ pc = "idle" /\ at' = "closed"
      /\ ~socket => state = "NONE"
      /\ UNCHANGED <<content_length, content_remainder, chunk_sz, chunk_offset, rc,
                     readVars, garbled>>
  BY WebParts DEF Finish, SessionInv, Goto
<1>2. SInv' /\ socket' = FALSE /\ (pc' = "closing" \/ (pc' = "idle" /\ state' = "NONE"))
  <2>1. CASE socket
    BY <1>1, <2>1, CloseStep, CallBegins DEF Finish, ClosesSession
  <2>2. CASE ~socket
    BY <1>1, <2>2, SocketIdle, WebParts DEF Finish, ClosesSession
  <2>. QED BY <2>1, <2>2
<1>3. TypeOK'
  BY <1>1, <1>2, WebParts, WebTypes DEF readVars, Places
<1>4. SessionInv'
  BY <1>1, <1>2 DEF SessionInv, Reading
<1>5. LengthInv'
  BY <1>1, <1>2, WebParts DEF LengthInv
<1>. QED BY <1>2, <1>3, <1>4, <1>5 DEF IInv

\* The next download may begin.
LEMMA DoneStep ==
  ASSUME IInv, Done
  PROVE  IInv'
<1>1. /\ SInv /\ at = "closed" /\ pc = "idle" /\ state = "NONE" /\ ~socket
      /\ at' = "idle" /\ UNCHANGED <<sessionVars, readVars, garbled, atVars>>
  BY WebParts DEF Done, SessionInv, Goto
<1>2. SInv' /\ UNCHANGED <<pc, state, ret, want>>
  BY <1>1, SocketIdle
<1>. USE DEF sessionVars, readVars
<1>3. TypeOK'
  BY <1>1, <1>2, WebParts, WebTypes DEF Places
<1>4. SessionInv'
  BY <1>1, <1>2 DEF SessionInv, Reading
<1>5. LengthInv'
  BY <1>1, WebParts DEF LengthInv
<1>. QED BY <1>2, <1>3, <1>4, <1>5 DEF IInv

-----------------------------------------------------------------------------
(* Each step of a call and of the other threads preserves the invariant.   *)

\* Such a step leaves the program where it is.
LEMMA CallsStep ==
  ASSUME IInv, CallStep, UNCHANGED webVars
  PROVE  IInv'
<1>1. SInv /\ SInv' /\ UNCHANGED <<at, sessionVars, readVars, garbled>>
  BY WebParts, SocketKept DEF webVars
<1>. USE DEF sessionVars, readVars
<1>2. /\ pc # "idle"
      /\ pc \in {"start", "reclose"} =>
           /\ pc' \in {"idle", "start", "reclose"} /\ state' \in {state, "CONNECT"}
           /\ pc' = "idle" /\ ret'.kind = "ok" => state' = "CONNECT"
      /\ pc \in {"cipsend", "sendwait", "sendresult"} =>
           pc' \in {"idle", "sendwait", "sendresult"} /\ state' = state
      /\ pc \in {"recvstate", "recvwait"} =>
           /\ pc' \in {"idle", "recvwait"} /\ state' = state /\ want' = want
           /\ pc' = "idle" /\ ret'.kind = "data" => Len(ret'.data) <= want
      /\ pc = "closing" => pc' = "idle" /\ state' = "NONE"
  BY <1>1, CallGoesOn
<1>3. TypeOK'
  BY <1>1, WebParts, WebTypes
<1>4. SessionInv'
  BY <1>1, <1>2, WebParts DEF SessionInv, Reading
<1>5. LengthInv'
  <2>1. ASSUME at = "plain"
        PROVE  /\ pc' # "idle" => want' = left
               /\ pc' = "idle" /\ ret'.kind = "data" => Len(ret'.data) <= left
    <3>1. pc \in {"recvstate", "recvwait"}
      BY <1>2, <2>1, WebParts DEF SessionInv, Reading
    <3>. QED BY <1>2, <2>1, <3>1, WebParts DEF LengthInv
  <2>. QED BY <1>1, <2>1, WebParts DEF LengthInv
<1>. QED BY <1>1, <1>3, <1>4, <1>5 DEF IInv

\* The other threads may close the socket, and no more.
LEMMA OthersStep ==
  ASSUME IInv, Environment
  PROVE  IInv'
<1>1. /\ SInv /\ SInv' /\ UNCHANGED <<at, sessionVars, readVars, garbled>>
  BY WebParts, SocketKept DEF Environment, webVars
<1>. USE DEF sessionVars, readVars
<1>2. /\ UNCHANGED <<pc, want, ret>>
      /\ state' \in {state, "CLOSED"} /\ (state = "NONE" => state' = "NONE")
  BY OthersGoOn DEF Environment
<1>3. TypeOK'
  BY <1>1, WebParts, WebTypes
<1>4. SessionInv'
  BY <1>1, <1>2, WebParts DEF SessionInv, Reading
<1>5. LengthInv'
  BY <1>1, <1>2, WebParts DEF LengthInv
<1>. QED BY <1>1, <1>3, <1>4, <1>5 DEF IInv

-----------------------------------------------------------------------------
(* The theorems.                                                           *)

\* Before the first download.
LEMMA InitIInv == Init => IInv
<1>. SUFFICES ASSUME Init PROVE IInv
  OBVIOUS
<1>1. /\ SInv /\ at = "idle" /\ socket = FALSE /\ content_length = None
      /\ content_remainder = 0 /\ chunk_sz = 0 /\ chunk_offset = 0 /\ rc = "ERROR"
      /\ offset = 0 /\ total = 0 /\ left = 0 /\ garbled = FALSE
      /\ state = "NONE" /\ pc = "idle"
  BY InitSInv DEF Init, InitSocket
<1>2. TypeOK
  <2>1. SocketTypeOK
    BY <1>1, Parts
  <2>2. content_length \in Lengths /\ content_remainder \in Lengths /\ chunk_sz \in Lengths
    BY <1>1 DEF Lengths
  <2>3. chunk_offset \in Nat /\ offset \in Nat /\ total \in Nat /\ left \in Nat
    BY <1>1
  <2>. QED BY <1>1, <2>1, <2>2, <2>3 DEF TypeOK
<1>3. SessionInv
  BY <1>1 DEF SessionInv, Reading
<1>4. LengthInv
  BY <1>1 DEF LengthInv, None
<1>. QED BY <1>1, <1>2, <1>3, <1>4 DEF IInv

\* The invariant is inductive.
LEMMA NextIInv == IInv /\ [Next]_vars => IInv'
<1>. SUFFICES ASSUME IInv, [Next]_vars PROVE IInv'
  OBVIOUS
<1>1. CASE Get
  BY <1>1, GetStep
<1>2. CASE GetFileStep
  BY <1>2, ConnectToStep, ConnectedStep, RequestedStep, HeaderLineStep, HeaderEndStep,
     FirstChunkStep, OpenFileStep, LoopEndsStep, ReadChunkStep, ChunkDataStep,
     ReadFailsStep, NextChunkStep, ReadPlainStep, PlainDataStep, PlainPartStep,
     FinishStep, DoneStep
  DEF GetFileStep
<1>3. CASE CallStep /\ UNCHANGED webVars
  BY <1>3, CallsStep
<1>4. CASE Environment
  BY <1>4, OthersStep
<1>5. CASE UNCHANGED vars
  <2>1. /\ SInv /\ SInv' /\ UNCHANGED <<pc, state, ret, want>>
        /\ UNCHANGED <<at, socket, content_length, content_remainder, chunk_sz,
                       chunk_offset, rc, offset, total, left, garbled>>
    BY <1>5, WebParts, SocketIdle DEF vars
  <2>2. TypeOK'
    BY <2>1, WebParts, WebTypes
  <2>3. SessionInv' /\ LengthInv'
    BY <2>1, WebParts DEF SessionInv, LengthInv
  <2>. QED BY <2>1, <2>2, <2>3 DEF IInv
<1>. QED BY <1>1, <1>2, <1>3, <1>4, <1>5 DEF Next, Thread

\* The inductive invariant of the download and its socket holds, whatever the
\* module answers and when, and whatever the server sends (webclient_file.c:39-140,
\* at_socket.c, at_socket_esp8266.c).
THEOREM Invariance == Spec => []IInv
BY InitIInv, NextIInv, PTL DEF Spec

\* The session and the loops that read have their types: no length of them runs
\* below zero, though most are unsigned (webclient.c:1083-1260).
THEOREM TypeCorrect == Spec => []TypeOK
<1>1. IInv => TypeOK
  BY DEF IInv
<1>. QED BY <1>1, Invariance, PTL

\* What recv has returned, what the list holds and what is on the serial line is
\* what the server has sent, in order, however the packets fell on the calls
\* (at_socket.c:156-200, 634-653).
THEOREM StreamOfTheServer == Spec => []StreamIntact
<1>1. IInv => StreamIntact
  BY SocketPromises DEF IInv
<1>. QED BY <1>1, Invariance, PTL

\* A thread that sleeps in recv has a notice for the data in the list and for a
\* connection that was closed (at_socket.c:806-815, 650, 669).
THEOREM SleeperHasNotice == Spec => []WaiterNotified
<1>1. IInv => WaiterNotified
  BY SocketPromises DEF IInv
<1>. QED BY <1>1, Invariance, PTL

\* After a download, however it went, the socket is free, and the link behind it
\* closed unless a command timed out (webclient.c:1343-1395, at_socket.c:490-520).
THEOREM EndsWithNothingOpen == Spec => []NothingLeftOpen
<1>1. IInv => NothingLeftOpen
  BY SocketPromises DEF IInv, SessionInv, NothingLeftOpen
<1>. QED BY <1>1, Invariance, PTL

-----------------------------------------------------------------------------
(* The file is the song.                                                   *)
(*                                                                         *)
(* Used is how far the download has come in the stream: what recv returned *)
(* and the program has not looked at yet comes after it.  While it goes on *)
(* (Going), the file is the song up to there, and the grammar of the       *)
(* answer says what comes next; once the server has broken off before the  *)
(* end of the header (Drained), nothing comes any more.                    *)

\* What a download takes and writes is followed up to a gap, while it has not
\* failed.
Followed == trouble \in {"none", "cut"} /\ rc = "OK"

\* A read returned data that the download has not looked at.
Fetched == at \in Reading /\ pc = "idle" /\ ret.kind = "data"

\* Units of the stream that the download has looked at.
Used == IF Fetched THEN Len(taken) - Len(ret.data) ELSE Len(taken)

\* A download begins with nothing.
FreshInv ==
  at \in {"connect", "connected", "requested"} =>
    /\ taken = <<>> /\ file = <<>> /\ content_length = None /\ chunk_sz = 0
    /\ status = 0 /\ ~garbled

\* What recv returned last is the end of what was taken, or the stream is over.
RetInv ==
  at \in Reading /\ pc = "idle" =>
    /\ ret.kind \in {"data", "closed", "timeout"}
    /\ ret.kind = "data" =>
         /\ Len(ret.data) <= Len(taken)
         /\ ret.data = SubSeq(taken, Len(taken) - Len(ret.data) + 1, Len(taken))
    /\ ret.kind = "closed" => Ended
    /\ ret.kind = "timeout" => trouble = "cut"

\* A read asks for no more than n units, and gets no more.
AsksFor(n) ==
  /\ pc # "idle" => want <= n
  /\ pc = "idle" /\ ret.kind = "data" => Len(ret.data) <= n

AskInv ==
  /\ at \in {"header", "firstchunk", "nextchunk", "nextsize"} => AsksFor(1)
  /\ at = "chunk" => chunk_offset < chunk_sz /\ AsksFor(chunk_sz - chunk_offset)

\* What the status line says.
Told ==
  /\ source # <<>>
  /\ status = IF source[1].k = "notfound" THEN 404 ELSE 200
  /\ content_length = IF source[1].k = "length" THEN source[1].n ELSE None
  /\ chunk_sz = IF source[1].k = "chunked" THEN 1 ELSE 0

HeaderInv ==
  at = "header" =>
    /\ file = <<>> /\ ~garbled
    /\ \/ Used = 0 /\ status = 0 /\ content_length = None /\ chunk_sz = 0
       \/ Used = 1 /\ Told

\* The chunk that is read has its size in unit p.
InChunk(p) ==
  /\ p \in 3..Len(source) /\ source[p].k = "size" /\ source[p].n = chunk_sz
  /\ chunk_sz # 0

\* With a length, the loops count what there is in the file.
LengthGoes ==
  /\ source[1].k = "length" /\ chunk_sz = 0 /\ content_length = source[1].n
  /\ content_length # 0 =>
       content_remainder = content_length - (IF at = "responded" THEN 0 ELSE offset)
  /\ \/ at = "responded" /\ Used = 2
     \/ at = "loop" /\ Used = 2 + offset
     \/ at = "plain" /\ Used = 2 + offset + total

CloseGoes ==
  /\ source[1].k = "close" /\ chunk_sz = 0 /\ content_length = None
  /\ at \in {"responded", "loop", "plain"}

ChunkGoes ==
  /\ source[1].k = "chunked" /\ content_length = None
  /\ \/ at = "firstchunk" /\ Used = 2
     \/ at \in {"responded", "loop", "chunk"} /\ InChunk(Used - chunk_offset)
     \/ at = "nextchunk" /\ InChunk(Used - chunk_sz)
     \/ at = "nextsize" /\ InChunk(Used - chunk_sz - 1)

Going ==
  /\ source # <<>> /\ Used >= 2
  /\ Pieces(file, source, Used)
  /\ at \in {"firstchunk", "responded"} => file = <<>>
  /\ LengthGoes \/ CloseGoes \/ ChunkGoes

\* The server has closed the connection within the header.
Drained ==
  /\ Ended /\ trouble = "cut" /\ file = <<>>
  /\ ~Fetched

InBody == \/ at \in {"firstchunk", "responded", "chunk", "nextchunk", "nextsize", "plain"}
          \/ at = "loop" /\ socket

BodyInv ==
  InBody /\ ~garbled => Drained \/ Going \/ (at = "responded" /\ status # 200)

\* The download is over.
OverInv ==
  at \in {"finish", "closed", "idle"} \/ (at = "loop" /\ ~socket) =>
    /\ trouble = "none" => Pieces(file, source, Len(source))
    /\ ~garbled => \E n \in 0..Len(source) : Pieces(file, source, n)

SongInv ==
  /\ RetInv /\ AskInv /\ HeaderInv /\ BodyInv /\ OverInv
  /\ garbled => trouble # "none"

\* The invariant of the file, over that of the download.
FInv ==
  /\ IInv /\ EndInv /\ SourceInv /\ FreshInv
  /\ file \in Seq(Units)
  /\ Followed => SongInv

-----------------------------------------------------------------------------
(* The song in the beginning of a stream.                                  *)

\* There is none in the header.
LEMMA NoPieces ==
  ASSUME NEW src, NEW n \in Nat, \A k \in 1..n : ~Piece(src[k])
  PROVE  Pieces(<<>>, src, n)
<1>1. Len(<<>>) = 0 /\ 1..0 = {}
  OBVIOUS
<1>. DEFINE pos == [i \in 1..0 |-> i]
<1>2. pos \in [1..Len(<<>>) -> 1..n]
  BY <1>1
<1>. QED BY <1>1, <1>2 DEF Pieces

\* What is not a piece of it leaves the file as it is.
LEMMA PiecesBehind ==
  ASSUME NEW f, NEW src, NEW n \in Nat, NEW m \in Nat, n <= m, Pieces(f, src, n),
         \A k \in (n + 1)..m : ~Piece(src[k])
  PROVE  Pieces(f, src, m)
<1>1. PICK pos \in [1..Len(f) -> 1..n] :
        /\ \A i \in 1..Len(f) : Piece(src[pos[i]]) /\ f[i] = src[pos[i]]
        /\ \A i, j \in 1..Len(f) : i < j => pos[i] < pos[j]
        /\ \A k \in 1..n : Piece(src[k]) => \E i \in 1..Len(f) : pos[i] = k
  BY DEF Pieces
<1>2. pos \in [1..Len(f) -> 1..m]
  BY <1>1
<1>3. \A k \in 1..m : Piece(src[k]) => k \in 1..n
  OBVIOUS
<1>. QED BY <1>1, <1>2, <1>3 DEF Pieces

\* Pieces that follow go to the end of the file.
LEMMA MorePieces ==
  ASSUME NEW f \in Seq(Units), NEW d \in Seq(Units), NEW src, NEW n \in Nat,
         Pieces(f, src, n),
         \A i \in 1..Len(d) : d[i] = src[n + i] /\ Piece(src[n + i])
  PROVE  Pieces(f \o d, src, n + Len(d))
<1>. DEFINE a == Len(f)
            b == Len(d)
<1>1. a \in Nat /\ b \in Nat
  OBVIOUS
<1>2. /\ Len(f \o d) = a + b
      /\ \A i \in 1..(a + b) : (f \o d)[i] = IF i <= a THEN f[i] ELSE d[i - a]
  BY ConcatProperties
<1>3. PICK pos \in [1..a -> 1..n] :
        /\ \A i \in 1..a : Piece(src[pos[i]]) /\ f[i] = src[pos[i]]
        /\ \A i, j \in 1..a : i < j => pos[i] < pos[j]
        /\ \A k \in 1..n : Piece(src[k]) => \E i \in 1..a : pos[i] = k
  BY DEF Pieces
<1>. HIDE DEF a, b
<1>. DEFINE ext == [i \in 1..(a + b) |-> IF i <= a THEN pos[i] ELSE n + (i - a)]
<1>4. /\ \A i \in 1..a : i \in 1..(a + b) /\ ext[i] = pos[i] /\ pos[i] \in 1..n
      /\ \A i \in (a + 1)..(a + b) :
           ext[i] = n + (i - a) /\ i - a \in 1..b /\ i \in 1..(a + b)
      /\ \A i \in 1..(a + b) : i \in 1..a \/ i \in (a + 1)..(a + b)
  <2>1. \A i \in 1..a : i \in 1..(a + b) /\ i <= a /\ pos[i] \in 1..n
    BY <1>1, <1>3
  <2>2. \A i \in (a + 1)..(a + b) : ~(i <= a) /\ i - a \in 1..b /\ i \in 1..(a + b)
    BY <1>1
  <2>3. \A i \in 1..(a + b) : i \in 1..a \/ i \in (a + 1)..(a + b)
    BY <1>1
  <2>. QED BY <2>1, <2>2, <2>3
<1>5. ext \in [1..(a + b) -> 1..(n + b)]
  <2>1. \A i \in 1..(a + b) : (IF i <= a THEN pos[i] ELSE n + (i - a)) \in 1..(n + b)
    BY <1>1, <1>3
  <2>. QED BY <2>1
<1>. HIDE DEF ext
<1>6. ASSUME NEW i \in 1..(a + b)
      PROVE  Piece(src[ext[i]]) /\ (f \o d)[i] = src[ext[i]]
  <2>1. CASE i \in 1..a
    <3>1. i <= a
      BY <1>1, <2>1
    <3>. QED BY <1>2, <1>3, <1>4, <2>1, <3>1
  <2>2. CASE i \in (a + 1)..(a + b)
    <3>1. ~(i <= a)
      BY <1>1, <2>2
    <3>2. (f \o d)[i] = d[i - a]
      BY <1>2, <3>1
    <3>. QED BY <1>4, <2>2, <3>2 DEF b
  <2>. QED BY <1>4, <2>1, <2>2
<1>7. ASSUME NEW i \in 1..(a + b), NEW j \in 1..(a + b), i < j
      PROVE  ext[i] < ext[j]
  <2>1. CASE j \in 1..a
    <3>1. i \in 1..a
      BY <1>1, <1>7, <2>1
    <3>. QED BY <1>3, <1>4, <1>7, <2>1, <3>1
  <2>2. CASE i \in 1..a /\ j \in (a + 1)..(a + b)
    BY <1>1, <1>4, <2>2
  <2>3. CASE i \in (a + 1)..(a + b) /\ j \in (a + 1)..(a + b)
    BY <1>1, <1>4, <1>7, <2>3
  <2>4. i \in (a + 1)..(a + b) => j \in (a + 1)..(a + b)
    BY <1>1, <1>7
  <2>. QED BY <1>4, <2>1, <2>2, <2>3, <2>4
<1>8. ASSUME NEW k \in 1..(n + b), Piece(src[k])
      PROVE  \E i \in 1..(a + b) : ext[i] = k
  <2>1. CASE k <= n
    <3>1. k \in 1..n
      BY <1>1, <2>1
    <3>2. PICK i \in 1..a : pos[i] = k
      BY <1>3, <1>8, <3>1
    <3>. QED BY <1>4, <3>2
  <2>2. CASE n < k
    <3>. DEFINE i == a + (k - n)
    <3>1. i \in (a + 1)..(a + b) /\ n + (i - a) = k
      BY <1>1, <2>2
    <3>. HIDE DEF i
    <3>2. ext[i] = k /\ i \in 1..(a + b)
      BY <1>4, <3>1
    <3>. QED BY <3>2
  <2>. QED BY <1>1, <2>1, <2>2
<1>9. ext \in [1..Len(f \o d) -> 1..(n + Len(d))]
  BY <1>2, <1>5 DEF b
<1>10. Len(f \o d) = a + b /\ Len(d) = b
  BY <1>2 DEF b
<1>. DEFINE h == f \o d
            places == [1..Len(h) -> 1..(n + Len(d))]
<1>. HIDE DEF b, h
<1>11. /\ ext \in places
       /\ \A i \in 1..Len(h) : Piece(src[ext[i]]) /\ h[i] = src[ext[i]]
       /\ \A i, j \in 1..Len(h) : i < j => ext[i] < ext[j]
       /\ \A k \in 1..(n + Len(d)) : Piece(src[k]) => \E i \in 1..Len(h) : ext[i] = k
  BY <1>6, <1>7, <1>8, <1>9, <1>10 DEF h
<1>. QED BY <1>11 DEF Pieces, h

-----------------------------------------------------------------------------
(* What the download has read.                                             *)

\* The parts of the invariant, as a step finds them.
LEMMA FileParts ==
  ASSUME FInv
  PROVE  /\ IInv /\ SInv /\ SessionInv /\ LengthInv /\ EndInv /\ SourceInv /\ FreshInv
         /\ file \in Seq(Units)
         /\ Followed => SongInv
         /\ at \in Places /\ socket \in BOOLEAN /\ garbled \in BOOLEAN
         /\ content_length \in Nat \cup {None} /\ content_remainder \in Nat \cup {None}
         /\ chunk_sz \in Nat \cup {None} /\ chunk_offset \in Nat /\ offset \in Nat
         /\ total \in Nat /\ left \in Nat
BY WebParts DEF FInv

\* An answer has the grammar of one, and its numbers.
LEMMA SourceIs ==
  ASSUME FInv, source # <<>>
  PROVE  /\ Answer(source) /\ source \in Seq(Units) /\ Len(source) \in Nat \ {0}
         /\ \A i \in 1..Len(source) : source[i].n \in Nat
<1>1. source \in Streams /\ source \in Seq(Units)
  BY FileParts, Parts DEF SourceInv, SocketTypes
<1>. QED BY <1>1, AnswerAssumption, UnitsAssumption, EmptySeq

\* Data go to the end of what was taken.
LEMMA EndOfTaken ==
  ASSUME NEW a \in Seq(Units), NEW d \in Seq(Units)
  PROVE  /\ Len(a \o d) = Len(a) + Len(d) /\ Len(a) \in Nat /\ Len(d) \in Nat
         /\ d = SubSeq(a \o d, Len(a \o d) - Len(d) + 1, Len(a \o d))
<1>1. Len(a) \in Nat /\ Len(d) \in Nat /\ Len(a \o d) = Len(a) + Len(d)
  BY ConcatProperties
<1>2. d = SubSeq(a \o d, Len(a) + 1, Len(a) + Len(d))
  BY SubSeqOfConcat2
<1>. QED BY <1>1, <1>2

\* Where the download has a socket it has used a beginning of the source.
LEMMA UsedIs ==
  ASSUME FInv, Followed, state # "NONE", pc # "closing"
  PROVE  /\ Len(taken) \in Nat /\ Len(source) \in Nat /\ Len(taken) <= Len(source)
         /\ Used \in Nat /\ Used <= Len(taken) /\ (~Fetched => Used = Len(taken))
         /\ source = <<>> => Used = 0
<1>1. /\ Len(taken) \in Nat /\ Len(source) \in Nat /\ Len(taken) <= Len(source)
  BY FileParts, TakenPrefix DEF Followed
<1>2. Fetched => Len(ret.data) \in Nat /\ Len(ret.data) <= Len(taken)
  BY FileParts, FirstUnit DEF SongInv, RetInv, Fetched
<1>. QED BY <1>1, <1>2 DEF Used

\* What a read returned is what comes next in the source.
LEMMA FetchedIs ==
  ASSUME FInv, Followed, Fetched
  PROVE  /\ Len(ret.data) \in Nat \ {0} /\ ret.data \in Seq(Units)
         /\ Used + Len(ret.data) = Len(taken) /\ Used + Len(ret.data) <= Len(source)
         /\ \A i \in 1..Len(ret.data) : ret.data[i] = source[Used + i]
         /\ source # <<>> /\ Used \in Nat /\ Len(taken) \in Nat /\ Len(source) \in Nat
<1>1. state # "NONE" /\ pc # "closing" /\ pc = "idle" /\ at \in Reading
  BY FileParts DEF Fetched, SessionInv
<1>2. /\ Len(taken) \in Nat /\ Len(source) \in Nat /\ Len(taken) <= Len(source)
      /\ \A i \in 1..Len(taken) : taken[i] = source[i]
  BY <1>1, FileParts, TakenPrefix DEF Followed
<1>3. /\ Len(ret.data) \in Nat \ {0} /\ Len(ret.data) <= Len(taken)
      /\ ret.data = SubSeq(taken, Len(taken) - Len(ret.data) + 1, Len(taken))
  BY <1>1, FileParts, FirstUnit DEF SongInv, RetInv, Fetched
<1>4. ret.data \in Seq(Units) /\ taken \in Seq(Units)
  BY FileParts, Parts DEF SocketTypes, Results
<1>5. Used = Len(taken) - Len(ret.data)
  BY DEF Used
<1>. DEFINE m == Len(ret.data)
            t == Len(taken)
<1>6. \A i \in 1..m : ret.data[i] = taken[t - m + i]
  <2>0. m \in Nat /\ t \in Nat /\ m <= t /\ ret.data = SubSeq(taken, t - m + 1, t)
    BY <1>2, <1>3
  <2>. HIDE DEF m, t
  <2>1. /\ m \in Nat /\ t \in Nat /\ m <= t /\ t - m + 1 \in Int /\ t \in Int
        /\ ret.data = SubSeq(taken, t - m + 1, t)
    BY <2>0
  <2>2. \A i \in (t - m + 1)..t : taken[i] \in Units
    BY <1>4, <2>1 DEF t
  <2>3. \A i \in 1..(t - (t - m + 1) + 1) :
          SubSeq(taken, t - m + 1, t)[i] = taken[(t - m + 1) + i - 1]
    BY <2>1, <2>2, SubSeqProperties
  <2>4. t - (t - m + 1) + 1 = m /\ \A i \in 1..m : (t - m + 1) + i - 1 = t - m + i
    BY <2>1
  <2>. QED BY <2>1, <2>3, <2>4
<1>7. \A i \in 1..m : Used + i \in 1..t /\ Used + i = t - m + i
  BY <1>2, <1>3, <1>5
<1>8. source # <<>>
  BY <1>2, <1>3
<1>9. \A i \in 1..m : ret.data[i] = source[Used + i]
  BY <1>2, <1>6, <1>7
<1>10. Used + m = t /\ Used \in Nat /\ t <= Len(source)
  BY <1>2, <1>3, <1>5
<1>. QED BY <1>2, <1>3, <1>4, <1>8, <1>9, <1>10

\* A read is begun after what was taken.
LEMMA ReadBegins ==
  ASSUME FInv, Followed, NEW n \in Nat \ {0}, Recv(n), state \in {"CONNECT", "CLOSED"},
         at' \in Reading
  PROVE  /\ RetInv' /\ Used' = Len(taken) /\ UNCHANGED <<source, trouble>>
         /\ pc' # "idle" => want' = n
         /\ pc' = "idle" /\ ret'.kind = "data" => Len(ret'.data) <= n
         /\ Ended => Ended' /\ ~Fetched'
<1>1. taken \in Seq(Units) /\ SInv /\ trouble \in {"none", "cut"}
  BY FileParts, Parts DEF SocketTypes, Followed
<1>2. /\ UNCHANGED <<source, state, trouble>>
      /\ \/ /\ recvpkt_list # <<>> /\ pc' = "idle" /\ ret'.kind = "data"
            /\ ret'.data \in Seq(Units) /\ Len(ret'.data) \in 1..n
            /\ taken' = taken \o ret'.data
         \/ /\ recvpkt_list = <<>> /\ pc' = "recvstate" /\ want' = n
            /\ UNCHANGED <<taken, recvpkt_list>>
  BY <1>1, RecvReads
<1>3. CASE pc' = "idle"
  <2>1. /\ ret'.kind = "data" /\ ret'.data \in Seq(Units) /\ taken' = taken \o ret'.data
        /\ Len(ret'.data) \in 1..n /\ recvpkt_list # <<>>
    BY <1>2, <1>3
  <2>2. /\ Len(taken') = Len(taken) + Len(ret'.data)
        /\ Len(taken) \in Nat /\ Len(ret'.data) \in Nat
        /\ ret'.data = SubSeq(taken', Len(taken') - Len(ret'.data) + 1, Len(taken'))
    BY <1>1, <2>1, EndOfTaken
  <2>3. RetInv'
    BY <1>3, <2>1, <2>2 DEF RetInv
  <2>4. Used' = Len(taken)
    BY <1>3, <2>1, <2>2 DEF Used, Fetched
  <2>. QED BY <1>2, <1>3, <2>1, <2>3, <2>4 DEF Ended
<1>4. CASE pc' # "idle"
  BY <1>2, <1>4 DEF RetInv, Used, Fetched, Ended
<1>. QED BY <1>3, <1>4

\* While a read goes on nothing is used.
LEMMA ReadGoesOn ==
  ASSUME FInv, CallStep, Followed', Followed, at \in Reading, UNCHANGED webVars
  PROVE  /\ RetInv' /\ AskInv' /\ Used' = Used /\ UNCHANGED source
         /\ trouble' \in {trouble, "cut"}
         /\ Ended => Ended' /\ ~Fetched'
<1>. USE DEF webVars, sessionVars, readVars
<1>1. /\ taken \in Seq(Units) /\ SInv /\ trouble' \in {"none", "cut"}
      /\ pc \in {"recvstate", "recvwait"} /\ UNCHANGED <<at, chunk_sz, chunk_offset>>
      /\ AskInv
  <2>1. pc # "idle" /\ SInv
    BY FileParts, CallGoesOn
  <2>. QED BY <2>1, FileParts, Parts DEF SocketTypes, Followed, SessionInv, SongInv
<1>2. /\ trouble \in {"none", "cut"} /\ UNCHANGED <<source, state, want>>
      /\ \/ pc' = "recvwait" /\ UNCHANGED <<taken, trouble, recvpkt_list>>
         \/ /\ pc' = "idle" /\ ret'.kind = "data" /\ recvpkt_list # <<>>
            /\ ret'.data \in Seq(Units) /\ Len(ret'.data) \in 1..want
            /\ taken' = taken \o ret'.data /\ UNCHANGED trouble
         \/ /\ pc' = "idle" /\ ret'.kind = "closed" /\ Ended'
            /\ UNCHANGED <<taken, trouble, recvpkt_list>>
         \/ /\ pc' = "idle" /\ ret'.kind = "timeout" /\ trouble' = "cut"
            /\ UNCHANGED <<taken, recvpkt_list>>
  BY <1>1, CallReads
<1>3. Used = Len(taken) /\ want \in Nat
  BY <1>1, FileParts, Parts DEF Used, Fetched, SocketTypes
<1>4. CASE pc' = "idle" /\ ret'.kind = "data"
  <2>1. /\ Len(taken') = Len(taken) + Len(ret'.data) /\ Len(ret'.data) <= want
        /\ Len(taken) \in Nat /\ Len(ret'.data) \in Nat
        /\ ret'.data = SubSeq(taken', Len(taken') - Len(ret'.data) + 1, Len(taken'))
        /\ recvpkt_list # <<>> /\ UNCHANGED trouble
    <3>1. ret'.data \in Seq(Units) /\ Len(ret'.data) \in 1..want /\ taken' = taken \o ret'.data
      BY <1>2, <1>4
    <3>. QED BY <1>1, <1>2, <1>3, <1>4, <3>1, EndOfTaken
  <2>2. RetInv'
    BY <1>4, <2>1 DEF RetInv
  <2>3. Used' = Used
    BY <1>1, <1>3, <1>4, <2>1 DEF Used, Fetched
  <2>4. AskInv'
    BY <1>1, <1>2, <1>3, <1>4, <2>1, FileParts DEF AskInv, AsksFor, None
  <2>. QED BY <1>2, <2>1, <2>2, <2>3, <2>4 DEF Ended
<1>5. CASE ~(pc' = "idle" /\ ret'.kind = "data")
  <2>1. RetInv'
    BY <1>2, <1>5 DEF RetInv
  <2>2. Used' = Used /\ ~Fetched'
    BY <1>1, <1>2, <1>3, <1>5 DEF Used, Fetched
  <2>3. AskInv'
    BY <1>1, <1>2, <1>5 DEF AskInv, AsksFor
  <2>4. Ended => Ended'
    BY <1>2, <1>5 DEF Ended
  <2>. QED BY <1>2, <2>1, <2>2, <2>3, <2>4
<1>. QED BY <1>4, <1>5

\* What is not in the middle of a read has nothing fetched.
LEMMA Elsewhere ==
  ASSUME at' \notin Reading
  PROVE  RetInv' /\ AskInv' /\ HeaderInv' /\ ~Fetched' /\ Used' = Len(taken')
BY DEF RetInv, AskInv, HeaderInv, Fetched, Used, Reading

\* A step that uses nothing and leaves the program where it is, or breaks off what
\* was sound.
LEMMA InPlace ==
  ASSUME FInv, Followed, UNCHANGED webVars, UNCHANGED source,
         trouble' \in {trouble, "cut"},
         InBody \/ at = "header" => Used' = Used /\ (Ended /\ ~Fetched => Ended' /\ ~Fetched')
  PROVE  /\ HeaderInv' /\ BodyInv' /\ OverInv'
         /\ garbled' => trouble' # "none"
<1>. USE DEF webVars, sessionVars, readVars
<1>1. /\ HeaderInv /\ BodyInv /\ OverInv /\ (garbled => trouble # "none")
      /\ trouble = "cut" => trouble' = "cut"
  BY FileParts DEF SongInv
<1>2. HeaderInv'
  BY <1>1 DEF HeaderInv, Told
<1>3. BodyInv'
  <2>1. ASSUME InBody, Going PROVE Going'
    BY <2>1 DEF Going, LengthGoes, CloseGoes, ChunkGoes, InChunk
  <2>2. ASSUME InBody, Drained PROVE Drained'
    BY <1>1, <2>2 DEF Drained
  <2>. QED BY <1>1, <2>1, <2>2 DEF BodyInv, InBody
<1>4. OverInv'
  BY <1>1 DEF OverInv
<1>. QED BY <1>1, <1>2, <1>3, <1>4

\* The program waits for a call.
LEMMA CallsSong ==
  ASSUME FInv, CallStep, UNCHANGED webVars, Followed'
  PROVE  SongInv'
<1>. USE DEF webVars, sessionVars, readVars
<1>1. /\ SInv /\ pc # "idle" /\ Followed /\ UNCHANGED at
      /\ trouble' = "none" => trouble = "none"
      /\ trouble' \in {"none", "cut"} /\ trouble \in {"none", "cut"}
  BY FileParts, CallGoesOn, TroubleGrows DEF Followed
<1>2. CASE at \in Reading
  <2>1. /\ RetInv' /\ AskInv' /\ Used' = Used /\ UNCHANGED source
        /\ trouble' \in {trouble, "cut"} /\ (Ended => Ended' /\ ~Fetched')
    BY <1>1, <1>2, ReadGoesOn
  <2>2. HeaderInv' /\ BodyInv' /\ OverInv' /\ (garbled' => trouble' # "none")
    BY <1>1, <2>1, InPlace
  <2>. QED BY <2>1, <2>2 DEF SongInv
<1>3. CASE at \notin Reading
  <2>1. at \in {"connected", "requested"} \/ (at \in {"loop", "finish", "closed"} /\ ~socket)
    BY <1>1, <1>3, FileParts DEF SessionInv, Reading, Places
  <2>2. RetInv' /\ AskInv' /\ HeaderInv'
    BY <1>1, <1>3, Elsewhere
  <2>3. ~InBody /\ at # "header" /\ ~InBody'
    BY <1>1, <2>1 DEF InBody
  <2>4. CASE at \in {"connected", "requested"}
    BY <1>1, <2>2, <2>3, <2>4, FileParts DEF SongInv, BodyInv, OverInv, FreshInv
  <2>5. CASE at \in {"loop", "finish", "closed"} /\ ~socket
    <3>1. Closed
      <4>1. pc = "closing"
        BY <1>1, <2>5, FileParts DEF SessionInv
      <4>. QED BY <4>1 DEF CallStep, Started, Reclosed, Prompted, SendSeen, SendResult,
             RecvState, RecvTakes, RecvTimeout
    <3>2. UNCHANGED source
      BY <3>1 DEF Closed, netVars
    <3>3. trouble' \in {trouble, "cut"}
      BY <1>1
    <3>4. HeaderInv' /\ BodyInv' /\ OverInv' /\ (garbled' => trouble' # "none")
      BY <1>1, <2>3, <3>2, <3>3, InPlace
    <3>. QED BY <2>2, <3>4 DEF SongInv
  <2>. QED BY <2>1, <2>4, <2>5
<1>. QED BY <1>2, <1>3

\* The other threads and the server go on.
LEMMA OthersSong ==
  ASSUME FInv, Environment, Followed'
  PROVE  SongInv'
<1>. USE DEF webVars, sessionVars, readVars
<1>1. /\ SInv /\ Followed /\ UNCHANGED webVars /\ (Parser \/ Network)
      /\ trouble' \in {"none", "cut"} /\ trouble \in {"none", "cut"}
      /\ (trouble = "cut" => trouble' = "cut")
  BY FileParts, TroubleGrows DEF Followed, Environment
<1>2. CASE at \in {"connect", "connected", "requested"}
  <2>1. RetInv' /\ AskInv' /\ HeaderInv'
    BY <1>1, <1>2, Elsewhere DEF Reading
  <2>2. ~InBody'
    BY <1>1, <1>2 DEF InBody
  <2>. QED BY <1>1, <1>2, <2>1, <2>2, FileParts DEF SongInv, BodyInv, OverInv, FreshInv
<1>3. CASE at \notin {"connect", "connected", "requested"}
  <2>1. pc \in {"idle", "recvstate", "recvwait", "closing"}
        /\ (InBody \/ at \in Reading => pc # "closing")
    BY <1>3, FileParts DEF SessionInv, Reading, Places, InBody
  <2>2. /\ UNCHANGED <<source, taken, pc, ret, want>>
        /\ Ended /\ pc # "closing" => Ended'
    BY <1>1, <2>1, OthersRead
  <2>3. /\ Used' = Used /\ Fetched' = Fetched
    BY <1>1, <2>2 DEF Used, Fetched
  <2>4. /\ HeaderInv' /\ BodyInv' /\ OverInv' /\ (garbled' => trouble' # "none")
    <3>1. trouble' \in {trouble, "cut"}
      BY <1>1
    <3>2. InBody \/ at = "header" => pc # "closing"
      BY <2>1 DEF Reading
    <3>. QED BY <1>1, <2>2, <2>3, <3>1, <3>2, InPlace
  <2>5. RetInv' /\ AskInv'
    <3>1. /\ RetInv /\ AskInv /\ (at \in Reading => pc # "closing")
          /\ UNCHANGED <<at, chunk_sz, chunk_offset>>
      BY <1>1, <2>1, FileParts DEF SongInv
    <3>. QED BY <1>1, <2>2, <3>1 DEF RetInv, AskInv, AsksFor
  <2>. QED BY <2>4, <2>5 DEF SongInv
<1>. QED BY <1>2, <1>3

-----------------------------------------------------------------------------
(* The steps of the download.                                              *)

\* Data that were asked for one by one.
LEMMA OneUnit ==
  ASSUME FInv, Followed, at \in {"header", "firstchunk", "nextchunk", "nextsize"}, Fetched
  PROVE  /\ Len(ret.data) = 1 /\ ret.data[1] = source[Used + 1]
         /\ Used + 1 = Len(taken) /\ Used + 1 <= Len(source) /\ Used \in Nat
         /\ source # <<>> /\ Len(source) \in Nat
<1>1. Len(ret.data) <= 1
  BY FileParts DEF SongInv, AskInv, AsksFor, Fetched
<1>2. /\ Len(ret.data) \in Nat \ {0} /\ source # <<>> /\ Used \in Nat /\ Len(source) \in Nat
      /\ Used + Len(ret.data) = Len(taken) /\ Used + Len(ret.data) <= Len(source)
      /\ \A i \in 1..Len(ret.data) : ret.data[i] = source[Used + i]
  BY FetchedIs
<1>3. Len(ret.data) = 1
  <2>. DEFINE m == Len(ret.data)
  <2>1. m \in Nat \ {0} /\ m <= 1
    BY <1>1, <1>2
  <2>. HIDE DEF m
  <2>2. m = 1
    BY <2>1
  <2>. QED BY <2>2 DEF m
<1>. QED BY <1>2, <1>3

\* A read that returned no data from a stream that nothing happened to is at its end.
LEMMA NothingFetched ==
  ASSUME FInv, Followed, at \in Reading, pc = "idle", ret.kind # "data"
  PROVE  /\ Used = Len(taken) /\ Used \in Nat /\ Used <= Len(source) /\ Len(source) \in Nat
         /\ trouble = "none" => Used = Len(source) /\ Ended
         /\ ret.kind = "closed" => Ended
         /\ ret.kind \in {"closed", "timeout"}
<1>1. state # "NONE" /\ pc # "closing" /\ ~Fetched /\ SInv /\ EndInv
  BY FileParts DEF Fetched, SessionInv
<1>2. /\ Used = Len(taken) /\ Used \in Nat /\ Used <= Len(source) /\ Len(source) \in Nat
  BY <1>1, UsedIs
<1>3. /\ ret.kind \in {"closed", "timeout"} /\ (ret.kind = "closed" => Ended)
      /\ trouble = "none" => ret.kind = "closed"
  BY FileParts DEF SongInv, RetInv
<1>4. trouble = "none" => Used = Len(source)
  BY <1>1, <1>2, <1>3, AllTaken
<1>. QED BY <1>2, <1>3, <1>4

\* A download begins.
LEMMA GetSong ==
  ASSUME FInv, Get
  PROVE  SongInv' /\ FreshInv'
<1>1. /\ at' = "connect" /\ garbled' = FALSE /\ taken' = <<>> /\ file' = <<>>
      /\ content_length' = None /\ chunk_sz' = 0 /\ status' = 0
  BY DEF Get, Goto, Socket
<1>2. RetInv' /\ AskInv' /\ HeaderInv'
  BY <1>1, Elsewhere DEF Reading
<1>. QED BY <1>1, <1>2 DEF SongInv, BodyInv, InBody, OverInv, FreshInv

\* And connects.
LEMMA ConnectToSong ==
  ASSUME FInv, ConnectTo
  PROVE  SongInv' /\ FreshInv'
<1>1. /\ at = "connect" /\ at' = "connected" /\ UNCHANGED <<sessionVars, file, garbled, taken>>
  BY DEF ConnectTo, Goto, Connect
<1>2. RetInv' /\ AskInv' /\ HeaderInv'
  BY <1>1, Elsewhere DEF Reading
<1>3. FreshInv' /\ ~garbled'
  BY <1>1, FileParts DEF FreshInv, sessionVars
<1>. QED BY <1>1, <1>2, <1>3 DEF SongInv, BodyInv, InBody, OverInv

\* And sends its request, or is over.
LEMMA ConnectedSong ==
  ASSUME FInv, Connected
  PROVE  (Followed' => SongInv') /\ FreshInv'
<1>1. CASE ret.kind = "ok"
  <2>1. /\ at = "connected" /\ at' = "requested"
        /\ UNCHANGED <<content_length, chunk_sz, status, file, garbled, taken>>
    BY <1>1 DEF Connected, Goto, Send
  <2>2. RetInv' /\ AskInv' /\ HeaderInv'
    BY <2>1, Elsewhere DEF Reading
  <2>3. FreshInv' /\ ~garbled'
    BY <2>1, FileParts DEF FreshInv
  <2>. QED BY <2>1, <2>2, <2>3 DEF SongInv, BodyInv, InBody, OverInv
<1>2. CASE ret.kind # "ok"
  <2>1. rc' = "ERROR" /\ at' = "finish"
    BY <1>2 DEF Connected, Goto
  <2>. QED BY <2>1 DEF Followed, FreshInv
<1>. QED BY <1>1, <1>2

\* The header is read from the beginning.
LEMMA RequestedSong ==
  ASSUME FInv, Requested, Followed'
  PROVE  SongInv'
<1>1. /\ at = "requested" /\ ret.kind = "ok" /\ Recv(1) /\ at' = "header"
      /\ UNCHANGED <<content_length, chunk_sz, status, rc, file, garbled>>
  BY DEF Requested, Goto, Followed
<1>2. UNCHANGED trouble /\ Followed
  BY <1>1 DEF Recv, Followed
<1>3. /\ taken = <<>> /\ file = <<>> /\ content_length = None /\ chunk_sz = 0
      /\ status = 0 /\ ~garbled /\ state \in {"CONNECT", "CLOSED"}
  BY <1>1, FileParts DEF FreshInv, SessionInv
<1>4. /\ RetInv' /\ Used' = 0
      /\ pc' # "idle" => want' = 1
      /\ pc' = "idle" /\ ret'.kind = "data" => Len(ret'.data) <= 1
  BY <1>1, <1>2, <1>3, ReadBegins DEF Reading
<1>5. AskInv'
  BY <1>1, <1>4 DEF AskInv, AsksFor
<1>6. HeaderInv'
  BY <1>1, <1>3, <1>4 DEF HeaderInv
<1>. QED BY <1>1, <1>3, <1>4, <1>5, <1>6 DEF SongInv, BodyInv, InBody, OverInv

\* The status line.
LEMMA HeaderLineSong ==
  ASSUME FInv, HeaderLine, Followed'
  PROVE  SongInv'
<1>1. /\ at = "header" /\ at' = "header" /\ Fetched /\ ret.data[1].k # "blank" /\ Recv(1)
      /\ status' = CASE ret.data[1].k = "notfound" -> 404
                     [] ret.data[1].k \in StatusLines \ {"notfound"} -> 200
                     [] OTHER -> status
      /\ content_length' = IF ret.data[1].k = "length" THEN ret.data[1].n ELSE content_length
      /\ chunk_sz' = IF ret.data[1].k = "chunked" THEN 1 ELSE chunk_sz
      /\ UNCHANGED <<rc, file, garbled>>
  BY DEF HeaderLine, Fetched, Reading
<1>2. UNCHANGED trouble /\ Followed /\ state \in {"CONNECT", "CLOSED"}
  BY <1>1, FileParts DEF Recv, Followed, SessionInv, Reading
<1>3. /\ RetInv' /\ Used' = Len(taken) /\ UNCHANGED source
      /\ pc' # "idle" => want' = 1
      /\ pc' = "idle" /\ ret'.kind = "data" => Len(ret'.data) <= 1
  BY <1>1, <1>2, ReadBegins DEF Reading
<1>4. /\ ret.data[1] = source[Used + 1] /\ Used + 1 = Len(taken)
      /\ source # <<>> /\ Used + 1 <= Len(source) /\ Used \in Nat
  BY <1>1, <1>2, OneUnit
<1>5. /\ file = <<>> /\ ~garbled
      /\ \/ Used = 0 /\ status = 0 /\ content_length = None /\ chunk_sz = 0
         \/ Used = 1
  BY <1>1, <1>2, FileParts DEF SongInv, HeaderInv
<1>6. source[1].k \in StatusLines /\ source[2].k = "blank"
  BY <1>4, SourceIs DEF Answer
<1>7. Used = 0 /\ Used' = 1 /\ ret.data[1] = source[1] /\ chunk_sz = 0
      /\ content_length = None
  BY <1>1, <1>3, <1>4, <1>5, <1>6
<1>8. Told'
  <2>1. status' = IF source[1].k = "notfound" THEN 404 ELSE 200
    BY <1>1, <1>6, <1>7
  <2>. QED BY <1>1, <1>3, <1>4, <1>7, <2>1 DEF Told
<1>9. AskInv'
  BY <1>1, <1>3 DEF AskInv, AsksFor
<1>10. HeaderInv'
  BY <1>1, <1>5, <1>7, <1>8 DEF HeaderInv
<1>. QED BY <1>1, <1>3, <1>5, <1>9, <1>10 DEF SongInv, BodyInv, InBody, OverInv

\* Before the song come the status line and the empty one.
LEMMA AfterHeader ==
  ASSUME FInv, source # <<>>
  PROVE  /\ Pieces(<<>>, source, 2) /\ Len(source) \in Nat /\ Len(source) >= 2
         /\ source[1].k \in StatusLines /\ source[1].n \in Nat /\ source[2].k = "blank"
         /\ source[1].k \in {"length", "close"} => \A i \in 3..Len(source) : Piece(source[i])
         /\ source[1].k = "length" => Len(source) = 2 + source[1].n
         /\ source[1].k = "chunked" =>
              /\ Len(source) >= 3 /\ source[3].k = "size" /\ source[3].n # 0
              /\ \A p \in 3..Len(source) : source[p].k = "size" => Chunk(source, p)
<1>1. Answer(source) /\ Len(source) \in Nat \ {0} /\ \A i \in 1..Len(source) : source[i].n \in Nat
  BY SourceIs
<1>2. \A k \in 1..2 : ~Piece(source[k])
  <2>1. ~Piece(source[1]) /\ ~Piece(source[2])
    BY <1>1 DEF Answer, Piece, StatusLines
  <2>. QED BY <2>1
<1>3. Pieces(<<>>, source, 2)
  BY <1>2, NoPieces
<1>. QED BY <1>1, <1>3 DEF Answer

\* The header is over.
LEMMA HeaderEndSong ==
  ASSUME FInv, HeaderEnd, Followed'
  PROVE  SongInv'
<1>1. /\ at = "header" /\ pc = "idle" /\ rc = "OK" /\ ret.kind # "timeout"
      /\ ret.kind = "data" => ret.data[1].k = "blank"
      /\ content_remainder' = IF content_length = 0 THEN None ELSE content_length
      /\ UNCHANGED <<content_length, chunk_sz, status, file, garbled>>
  BY DEF HeaderEnd, Followed
<1>2. /\ UNCHANGED <<trouble, source>> /\ Followed /\ state \in {"CONNECT", "CLOSED"}
      /\ (Ended => Ended \/ Ended')
      /\ \/ chunk_sz # 0 /\ Recv(1) /\ at' = "firstchunk"
         \/ chunk_sz = 0 /\ UNCHANGED atVars /\ at' = "responded"
  BY <1>1, FileParts DEF HeaderEnd, Goto, Recv, netVars, atVars, Followed, SessionInv, Reading
<1>3. /\ file = <<>> /\ ~garbled
      /\ \/ Used = 0 /\ status = 0 /\ content_length = None /\ chunk_sz = 0
         \/ Used = 1 /\ Told
  BY <1>1, <1>2, FileParts DEF SongInv, HeaderInv
<1>4. /\ RetInv' /\ AskInv' /\ Used' = Len(taken)
      /\ Ended => Ended' /\ ~Fetched'
  <2>1. CASE chunk_sz # 0
    <3>1. /\ RetInv' /\ Used' = Len(taken) /\ (Ended => Ended' /\ ~Fetched')
          /\ pc' # "idle" => want' = 1
          /\ pc' = "idle" /\ ret'.kind = "data" => Len(ret'.data) <= 1
      BY <1>2, <2>1, ReadBegins DEF Reading
    <3>. QED BY <1>2, <2>1, <3>1 DEF AskInv, AsksFor
  <2>2. CASE chunk_sz = 0
    <3>1. UNCHANGED <<taken, state, recvpkt_list>> /\ at' = "responded"
      BY <1>2, <2>2 DEF atVars
    <3>. QED BY <3>1, Elsewhere DEF Reading, Ended
  <2>. QED BY <2>1, <2>2
<1>5. CASE ret.kind = "data"
  <2>1. /\ ret.data[1] = source[Used + 1] /\ Used + 1 = Len(taken) /\ source # <<>>
    BY <1>1, <1>2, <1>5, OneUnit DEF Fetched, Reading
  <2>2. source[1].k \in StatusLines /\ Pieces(<<>>, source, 2) /\ source[1].n \in Nat
    BY <2>1, AfterHeader
  <2>3. Used = 1 /\ Told
    BY <1>1, <1>3, <1>5, <2>1, <2>2 DEF StatusLines
  <2>4. Used' = 2 /\ Pieces(file', source', Used')
    <3>0. Used = 1 => Used + 1 = 2
      OBVIOUS
    <3>1. Used' = 2
      BY <1>4, <2>1, <2>3, <3>0
    <3>2. file' = <<>> /\ source' = source
      BY <1>1, <1>2, <1>3
    <3>. QED BY <2>2, <3>1, <3>2
  <2>5. CASE chunk_sz # 0
    <3>1. ChunkGoes'
      BY <1>1, <1>2, <2>3, <2>4, <2>5 DEF ChunkGoes, Told
    <3>2. Going'
      BY <1>1, <1>2, <1>3, <2>1, <2>4, <2>5, <3>1 DEF Going
    <3>. QED BY <1>1, <1>2, <1>3, <1>4, <2>5, <3>2
          DEF SongInv, HeaderInv, BodyInv, InBody, OverInv
  <2>6. CASE chunk_sz = 0 /\ status = 200
    <3>1. source[1].k \in {"length", "close"}
      BY <2>2, <2>3, <2>6 DEF Told, StatusLines
    <3>2. LengthGoes' \/ CloseGoes'
      BY <1>1, <1>2, <2>2, <2>3, <2>4, <2>6, <3>1 DEF LengthGoes, CloseGoes, Told
    <3>3. Going'
      BY <1>1, <1>2, <1>3, <2>1, <2>4, <2>6, <3>2 DEF Going
    <3>. QED BY <1>1, <1>2, <1>3, <1>4, <2>6, <3>3
          DEF SongInv, HeaderInv, BodyInv, InBody, OverInv
  <2>7. CASE chunk_sz = 0 /\ status # 200
    BY <1>1, <1>2, <1>3, <1>4, <2>7 DEF SongInv, HeaderInv, BodyInv, InBody, OverInv
  <2>. QED BY <2>5, <2>6, <2>7
<1>6. CASE ret.kind # "data"
  <2>1. /\ Ended /\ Used \in Nat /\ Used <= Len(source) /\ Len(source) \in Nat
        /\ trouble = "none" => Used = Len(source)
    BY <1>1, <1>2, <1>6, NothingFetched DEF Reading
  <2>2. trouble \in {"none", "cut"}
    BY <1>2 DEF Followed
  <2>3. CASE trouble = "cut"
    BY <1>1, <1>2, <1>3, <1>4, <2>1, <2>3
    DEF SongInv, HeaderInv, BodyInv, OverInv, InBody, Drained
  <2>4. CASE trouble = "none"
    <3>1. ~(Used = 1 /\ Told)
      BY <2>1, <2>4, AfterHeader DEF Told
    <3>. QED BY <1>1, <1>2, <1>3, <1>4, <3>1 DEF SongInv, HeaderInv, BodyInv, OverInv, InBody
  <2>. QED BY <2>2, <2>3, <2>4
<1>. QED BY <1>5, <1>6

\* The first size of a chunked answer.
LEMMA FirstChunkSong ==
  ASSUME FInv, FirstChunk, Followed'
  PROVE  SongInv'
<1>1. /\ at = "firstchunk" /\ at' = "responded" /\ pc = "idle" /\ chunk_offset' = 0
      /\ UNCHANGED <<content_length, content_remainder, status, rc, file, taken, source,
                     trouble>>
      /\ \/ /\ Fetched /\ chunk_sz' = Number(ret.data[1]) /\ UNCHANGED garbled
         \/ ret.kind # "data" /\ garbled' = TRUE
  BY DEF FirstChunk, Goto, atVars, Fetched, Reading
<1>2. /\ Followed /\ (garbled => trouble # "none")
      /\ ~garbled => Drained \/ Going
  BY <1>1, FileParts DEF Followed, SongInv, BodyInv, InBody
<1>3. RetInv' /\ AskInv' /\ HeaderInv' /\ Used' = Len(taken)
  BY <1>1, Elsewhere DEF Reading
<1>4. ASSUME Going
      PROVE  /\ source # <<>> /\ source[1].k = "chunked" /\ Used = 2 /\ file = <<>>
             /\ content_length = None /\ Pieces(<<>>, source, 2)
             /\ Len(source) \in Nat /\ Len(source) >= 3
             /\ source[3].k = "size" /\ source[3].n # 0
  BY <1>1, <1>4, AfterHeader DEF Going, LengthGoes, CloseGoes, ChunkGoes
<1>5. CASE Fetched /\ chunk_sz' = Number(ret.data[1]) /\ UNCHANGED garbled
  <2>1. CASE garbled
    BY <1>1, <1>2, <1>3, <1>5, <2>1 DEF SongInv, BodyInv, OverInv
  <2>2. CASE ~garbled
    <3>1. Going
      BY <1>2, <1>5, <2>2 DEF Drained
    <3>2. ret.data[1] = source[3] /\ Len(taken) = 3
      BY <1>1, <1>2, <1>4, <1>5, <3>1, OneUnit
    <3>3. chunk_sz' = source[3].n
      BY <1>4, <1>5, <3>1, <3>2 DEF Number
    <3>4. Pieces(<<>>, source, 3)
      <4>1. \A k \in 3..3 : ~Piece(source[k])
        BY <1>4, <3>1 DEF Piece
      <4>. QED BY <1>4, <3>1, <4>1, PiecesBehind
    <3>5. Used' = 3 /\ Used' - chunk_offset' = 3
      BY <1>1, <1>3, <3>2
    <3>6. InChunk(Used - chunk_offset)'
      BY <1>1, <1>4, <3>1, <3>3, <3>5 DEF InChunk
    <3>7. Going'
      BY <1>1, <1>4, <3>1, <3>4, <3>5, <3>6 DEF Going, ChunkGoes
    <3>. QED BY <1>1, <1>2, <1>3, <1>5, <2>2, <3>7 DEF SongInv, BodyInv, OverInv
  <2>. QED BY <2>1, <2>2
<1>6. CASE ret.kind # "data" /\ garbled' = TRUE
  <2>1. trouble # "none"
    <3>1. trouble = "none" => Used = Len(source)
      BY <1>1, <1>2, <1>6, NothingFetched DEF Reading
    <3>. QED BY <1>2, <1>4, <3>1 DEF Drained
  <2>. QED BY <1>1, <1>3, <1>6, <2>1 DEF SongInv, BodyInv, OverInv
<1>. QED BY <1>1, <1>5, <1>6

\* The song is read into an empty file.
LEMMA OpenFileSong ==
  ASSUME FInv, OpenFile, Followed'
  PROVE  SongInv'
<1>1. /\ at = "responded" /\ at' = "loop" /\ rc' = rc /\ status = 200
      /\ file' = <<>> /\ offset' = 0
      /\ UNCHANGED <<socket, content_length, content_remainder, chunk_sz, chunk_offset,
                     status, garbled, trouble, source, taken, state, recvpkt_list>>
  BY DEF OpenFile, StatusOK, Goto, Followed, atVars
<1>2. /\ Followed /\ (garbled => trouble # "none") /\ socket
      /\ ~garbled => Drained \/ Going
  BY <1>1, FileParts DEF Followed, SongInv, BodyInv, InBody, SessionInv
<1>3. RetInv' /\ AskInv' /\ HeaderInv' /\ ~Fetched' /\ Used' = Len(taken)
  BY <1>1, Elsewhere DEF Reading
<1>4. Used = Len(taken)
  BY <1>1 DEF Used, Fetched, Reading
<1>5. ASSUME Going PROVE Going'
  <2>1. /\ source # <<>> /\ Used >= 2 /\ file = <<>> /\ Pieces(<<>>, source, Used)
        /\ source[1].n \in Nat
    BY <1>1, <1>5, AfterHeader DEF Going
  <2>2. Used' = Used /\ Pieces(file', source', Used')
    BY <1>1, <1>3, <1>4, <2>1
  <2>3. ASSUME LengthGoes PROVE LengthGoes'
    <3>1. /\ source[1].k = "length" /\ chunk_sz = 0 /\ content_length = source[1].n
          /\ content_length # 0 => content_remainder = content_length
          /\ Used = 2
      BY <1>1, <2>1, <2>3 DEF LengthGoes
    <3>. QED BY <1>1, <2>1, <2>2, <3>1 DEF LengthGoes
  <2>4. ASSUME CloseGoes PROVE CloseGoes'
    BY <1>1, <2>4 DEF CloseGoes
  <2>5. ASSUME ChunkGoes PROVE ChunkGoes'
    BY <1>1, <2>2, <2>5 DEF ChunkGoes, InChunk
  <2>. QED BY <1>1, <1>5, <2>1, <2>2, <2>3, <2>4, <2>5 DEF Going
<1>6. ASSUME Drained PROVE Drained'
  BY <1>1, <1>3, <1>6 DEF Drained, Ended
<1>. QED BY <1>1, <1>2, <1>3, <1>5, <1>6 DEF SongInv, BodyInv, OverInv

\* A body that is read has begun, and what there is of the song is a part of it.
LEMMA PartSoFar ==
  ASSUME FInv, Followed, InBody, at # "responded"
  PROVE  /\ ~garbled => \E n \in 0..Len(source) : Pieces(file, source, n)
         /\ ~garbled => Drained \/ Going
         /\ garbled => trouble # "none"
         /\ trouble = "none" => ~garbled /\ Going
         /\ state # "NONE" /\ pc # "closing" /\ Used \in Nat /\ Used <= Len(source)
         /\ Len(source) \in Nat
<1>1. state # "NONE" /\ pc # "closing"
  BY FileParts DEF InBody, SessionInv, Reading
<1>2. Used \in Nat /\ Used <= Len(source) /\ Len(source) \in Nat
  <2>1. /\ Len(taken) \in Nat /\ Len(source) \in Nat /\ Len(taken) <= Len(source)
        /\ Used \in Nat /\ Used <= Len(taken)
    BY <1>1, UsedIs
  <2>. QED BY <2>1
<1>3. /\ garbled => trouble # "none"
      /\ ~garbled => Drained \/ Going
      /\ Drained => trouble = "cut"
  BY FileParts DEF SongInv, BodyInv, Drained
<1>4. ASSUME Drained
      PROVE  \E n \in 0..Len(source) : Pieces(file, source, n)
  <2>1. Pieces(<<>>, source, 0)
    BY NoPieces
  <2>. QED BY <1>2, <1>4, <2>1 DEF Drained
<1>5. ASSUME Going
      PROVE  \E n \in 0..Len(source) : Pieces(file, source, n)
  BY <1>2, <1>5 DEF Going
<1>. QED BY <1>1, <1>2, <1>3, <1>4, <1>5

\* The loop is over: the song is, or the socket was closed before.
LEMMA LoopEndsSong ==
  ASSUME FInv, LoopEnds, Followed'
  PROVE  SongInv'
<1>1. /\ at = "loop" /\ at' = "finish"
      /\ UNCHANGED <<sessionVars, offset, file, garbled, trouble, source>>
      /\ \/ content_length # None /\ offset >= content_length
         \/ chunk_sz = None
         \/ ~socket
         \/ chunk_sz = 0 /\ content_length \notin {None, 0} /\ content_remainder = 0
  BY DEF LoopEnds, Goto, atVars, readVars
<1>2. Followed /\ (garbled => trouble # "none")
  BY <1>1, FileParts DEF Followed, SongInv, sessionVars
<1>3. RetInv' /\ AskInv' /\ HeaderInv'
  BY <1>1, Elsewhere DEF Reading
<1>4. CASE ~socket
  BY <1>1, <1>2, <1>3, <1>4, FileParts DEF SongInv, BodyInv, InBody, OverInv
<1>5. CASE socket
  <2>1. /\ ~garbled => \E n \in 0..Len(source) : Pieces(file, source, n)
        /\ trouble = "none" => Going
        /\ Used \in Nat /\ Used <= Len(source) /\ Len(source) \in Nat
    BY <1>1, <1>2, <1>5, PartSoFar DEF InBody
  <2>2. chunk_sz # None
    BY <1>5, FileParts DEF LengthInv
  <2>3. ASSUME Going PROVE Pieces(file, source, Len(source))
    <3>1. /\ source # <<>> /\ Pieces(file, source, Used) /\ content_length # None
      BY <1>1, <1>5, <2>2, <2>3 DEF Going, LengthGoes, CloseGoes, ChunkGoes, InChunk
    <3>2. /\ source[1].k = "length" /\ content_length = source[1].n
          /\ content_length # 0 => content_remainder = content_length - offset
          /\ Used = 2 + offset
      BY <1>1, <2>3, <3>1 DEF Going, LengthGoes, CloseGoes, ChunkGoes
    <3>3. source[1].n \in Nat /\ Len(source) = 2 + source[1].n
      BY <3>1, <3>2, AfterHeader
    <3>4. offset \in Nat /\ offset >= content_length
      BY <1>1, <1>5, <2>2, <3>2, <3>3, FileParts
    <3>5. Used = Len(source)
      BY <2>1, <3>2, <3>3, <3>4
    <3>. QED BY <3>1, <3>5
  <2>. QED BY <1>1, <1>2, <1>3, <2>1, <2>3 DEF SongInv, BodyInv, InBody, OverInv
<1>. QED BY <1>4, <1>5

\* A part of a chunk is asked for.
LEMMA ReadChunkSong ==
  ASSUME FInv, ReadChunk, Followed'
  PROVE  SongInv'
<1>1. /\ at = "loop" /\ at' = "chunk" /\ socket /\ chunk_sz # 0 /\ chunk_sz # None
      /\ Recv(ChunkLength) /\ Reads
      /\ UNCHANGED <<sessionVars, file, garbled>>
  BY DEF ReadChunk, Reads, Goto
<1>2. /\ UNCHANGED trouble /\ Followed /\ state \in {"CONNECT", "CLOSED"}
      /\ chunk_offset < chunk_sz /\ pc = "idle"
  BY <1>1, FileParts DEF Recv, Followed, SessionInv, LengthInv, sessionVars
<1>3. ChunkLength \in Nat \ {0} /\ ChunkLength <= chunk_sz - chunk_offset
  <2>1. Length \in Nat \ {0}
    BY <1>1, LengthAsks, FileParts
  <2>. QED BY <1>1, <1>2, <2>1, FileParts DEF ChunkLength, Smaller
<1>4. /\ RetInv' /\ Used' = Len(taken) /\ UNCHANGED source
      /\ pc' # "idle" => want' = ChunkLength
      /\ pc' = "idle" /\ ret'.kind = "data" => Len(ret'.data) <= ChunkLength
      /\ Ended => Ended' /\ ~Fetched'
  BY <1>1, <1>2, <1>3, ReadBegins DEF Reading
<1>5. Used = Len(taken)
  BY <1>1 DEF Used, Fetched, Reading
<1>6. (garbled => trouble # "none") /\ (~garbled => Drained \/ Going)
  BY <1>1, <1>2, PartSoFar DEF InBody
<1>7. AskInv'
  <2>1. ASSUME pc' = "idle", ret'.kind = "data" PROVE Len(ret'.data) <= chunk_sz - chunk_offset
    <3>1. Len(ret'.data) \in Nat
      <4>1. SInv'
        BY <1>1, <1>2, <1>3, FileParts, Asks
      <4>2. ret'.data \in Seq(Units)
        BY <2>1, <4>1, Parts DEF SInv, SocketTypes, Results
      <4>. QED BY <4>2
    <3>2. chunk_sz \in Nat /\ chunk_offset \in Nat
      BY <1>1, FileParts
    <3>. DEFINE m == Len(ret'.data)
                n == ChunkLength
    <3>3. m \in Nat /\ m <= n /\ n \in Nat /\ n <= chunk_sz - chunk_offset
      BY <1>3, <1>4, <2>1, <3>1
    <3>. HIDE DEF m, n
    <3>4. m <= chunk_sz - chunk_offset
      BY <3>2, <3>3
    <3>. QED BY <3>4 DEF m
  <2>. QED BY <1>1, <1>2, <1>3, <1>4, <2>1, FileParts DEF AskInv, AsksFor, sessionVars
<1>8. ASSUME Going PROVE Going'
  BY <1>1, <1>4, <1>5, <1>8
  DEF Going, LengthGoes, CloseGoes, ChunkGoes, InChunk, sessionVars
<1>9. ASSUME Drained PROVE Drained'
  BY <1>1, <1>2, <1>4, <1>9 DEF Drained
<1>. QED BY <1>1, <1>2, <1>4, <1>6, <1>7, <1>8, <1>9
     DEF SongInv, HeaderInv, BodyInv, InBody, OverInv

\* Data of a chunk.
LEMMA ChunkDataSong ==
  ASSUME FInv, ChunkData, Followed'
  PROVE  SongInv'
<1>. DEFINE d == ret.data
            m == Len(ret.data)
            p == Used - chunk_offset
<1>1. /\ at = "chunk" /\ pc = "idle" /\ Fetched
      /\ chunk_offset' = chunk_offset + m /\ offset' = offset + m
      /\ UNCHANGED <<socket, content_length, content_remainder, chunk_sz, status, rc,
                     garbled>>
      /\ file' = IF UpTo("cut") THEN file \o d ELSE <<>>
      /\ \/ chunk_offset' >= chunk_sz /\ Recv(1) /\ at' = "nextchunk"
         \/ ~(chunk_offset' >= chunk_sz) /\ UNCHANGED atVars /\ at' = "loop"
  BY DEF ChunkData, Write, Goto, Fetched, Reading
<1>2. /\ UNCHANGED trouble /\ Followed /\ state \in {"CONNECT", "CLOSED"} /\ socket
      /\ chunk_offset < chunk_sz /\ m <= chunk_sz - chunk_offset
  <2>1. UNCHANGED trouble /\ Followed
    <3>1. rc' = rc /\ (Recv(1) \/ UNCHANGED atVars)
      BY <1>1
    <3>2. UNCHANGED trouble
      BY <3>1 DEF Recv, atVars
    <3>. QED BY <3>1, <3>2 DEF Followed
  <2>. QED BY <1>1, <2>1, FileParts
       DEF SessionInv, Reading, SongInv, AskInv, AsksFor, Fetched
<1>3. /\ m \in Nat \ {0} /\ d \in Seq(Units) /\ Used + m = Len(taken)
      /\ Used + m <= Len(source) /\ \A i \in 1..m : d[i] = source[Used + i]
      /\ source # <<>> /\ Used \in Nat /\ Len(source) \in Nat
  BY <1>1, <1>2, FetchedIs
<1>4. file' = file \o d /\ UNCHANGED source
  BY <1>1, <1>2, FileParts, Parts DEF Followed, Recv, netVars, atVars
<1>5. RetInv' /\ AskInv' /\ HeaderInv' /\ Used' = Len(taken)
  <2>1. CASE Recv(1) /\ at' = "nextchunk"
    <3>1. /\ RetInv' /\ Used' = Len(taken)
          /\ pc' # "idle" => want' = 1
          /\ pc' = "idle" /\ ret'.kind = "data" => Len(ret'.data) <= 1
      BY <1>2, <2>1, ReadBegins DEF Reading
    <3>. QED BY <2>1, <3>1 DEF AskInv, AsksFor, HeaderInv
  <2>2. CASE UNCHANGED atVars /\ at' = "loop"
    <3>1. UNCHANGED taken
      BY <2>2 DEF atVars
    <3>. QED BY <2>2, <3>1, Elsewhere DEF Reading
  <2>. QED BY <1>1, <2>1, <2>2
<1>6. CASE garbled
  <2>1. garbled' /\ trouble' # "none" /\ (at' = "loop" => socket')
    BY <1>1, <1>2, <1>6, FileParts DEF SongInv
  <2>. QED BY <1>1, <1>5, <2>1 DEF SongInv, BodyInv, OverInv
<1>7. CASE ~garbled
  <2>1. Going
    BY <1>1, <1>2, <1>7, PartSoFar DEF InBody, Drained
  <2>2. /\ Pieces(file, source, Used) /\ source[1].k = "chunked" /\ content_length = None
        /\ InChunk(p) /\ Used >= 2
    BY <1>1, <2>1 DEF Going, LengthGoes, CloseGoes, ChunkGoes
  <2>3. /\ p \in 3..Len(source) /\ source[p].k = "size" /\ source[p].n = chunk_sz
        /\ chunk_sz # 0 /\ Chunk(source, p)
    BY <1>3, <2>2, AfterHeader DEF InChunk
  <2>4. /\ chunk_sz \in Nat /\ chunk_offset \in Nat
        /\ \A i \in (p + 1)..(p + chunk_sz) : Piece(source[i])
    <3>1. \A i \in (p + 1)..(p + chunk_sz) : Piece(source[i])
      BY <2>3 DEF Chunk
    <3>2. chunk_sz \in Nat
      BY <2>3, <1>3, SourceIs
    <3>. QED BY <3>1, <3>2, FileParts
  <2>5. \A i \in 1..m : Used + i \in (p + 1)..(p + chunk_sz)
    <3>1. p + chunk_offset = Used
      BY <1>3, <2>4
    <3>. HIDE DEF p, m
    <3>2. p \in Nat
      BY <1>3, <2>3
    <3>3. /\ m \in Nat /\ chunk_sz \in Nat /\ chunk_offset \in Nat
          /\ m <= chunk_sz - chunk_offset
      BY <1>2, <1>3, <2>4
    <3>4. \A i \in 1..m :
            (p + chunk_offset) + i \in (p + 1)..(p + chunk_sz)
      BY <3>2, <3>3
    <3>. QED BY <3>1, <3>4
  <2>6. Pieces(file', source', Used')
    <3>1. \A i \in 1..m : d[i] = source[Used + i] /\ Piece(source[Used + i])
      BY <1>3, <2>4, <2>5
    <3>2. Pieces(file \o d, source, Used + m)
      BY <1>3, <2>2, <3>1, FileParts, MorePieces
    <3>3. Used' = Used + m
      BY <1>3, <1>5
    <3>. HIDE DEF m, d
    <3>. QED BY <1>4, <3>2, <3>3
  <2>7. Used' - chunk_offset' = p
    <3>. HIDE DEF m
    <3>. QED BY <1>1, <1>3, <1>5, <2>4
  <2>8. InChunk(p)'
    BY <1>1, <1>4, <2>2, <2>7 DEF InChunk
  <2>9. ASSUME chunk_offset' >= chunk_sz PROVE chunk_offset' = chunk_sz
    <3>. HIDE DEF m
    <3>. QED BY <1>1, <1>2, <1>3, <2>4, <2>9
  <2>10. ChunkGoes'
    BY <1>1, <1>4, <2>2, <2>8, <2>9 DEF ChunkGoes
  <2>11. Going'
    <3>1. Used' >= 2
      <4>. HIDE DEF m
      <4>. QED BY <1>3, <1>5, <2>2
    <3>. QED BY <1>1, <1>3, <1>4, <2>6, <2>10, <3>1 DEF Going
  <2>. QED BY <1>1, <1>2, <1>5, <1>7, <2>11 DEF SongInv, BodyInv, InBody, OverInv
<1>. QED BY <1>6, <1>7

\* A read of the body returns nothing.
LEMMA ReadFailsSong ==
  ASSUME FInv, ReadFails, Followed'
  PROVE  SongInv'
<1>1. /\ at \in {"chunk", "plain"} /\ pc = "idle" /\ ret.kind # "data" /\ at' = "finish"
      /\ UNCHANGED <<rc, file, garbled, trouble, source>>
  BY DEF ReadFails, CloseAndEnd, Close, Goto, atVars
<1>2. Followed
  BY <1>1 DEF Followed
<1>3. RetInv' /\ AskInv' /\ HeaderInv'
  BY <1>1, Elsewhere DEF Reading
<1>4. /\ ~garbled => \E n \in 0..Len(source) : Pieces(file, source, n)
      /\ garbled => trouble # "none"
      /\ trouble = "none" => Going
  BY <1>1, <1>2, PartSoFar DEF InBody
<1>5. trouble = "none" => Pieces(file, source, Len(source))
  BY <1>1, <1>2, <1>4, NothingFetched DEF Going, Reading
<1>. QED BY <1>1, <1>3, <1>4, <1>5 DEF SongInv, BodyInv, InBody, OverInv

\* The line after a chunk.
LEMMA NextChunkSong ==
  ASSUME FInv, NextChunk, Followed'
  PROVE  SongInv'
<1>1. /\ at \in {"nextchunk", "nextsize"} /\ pc = "idle"
      /\ UNCHANGED <<content_length, content_remainder, status, rc, offset, total, file,
                     garbled, trouble, source>>
  BY DEF NextChunk, Recv, Close, atVars, netVars, readVars
<1>2. /\ Followed /\ state \in {"CONNECT", "CLOSED"} /\ socket
  BY <1>1, FileParts DEF Followed, SessionInv, Reading
<1>3. /\ ~garbled => \E n \in 0..Len(source) : Pieces(file, source, n)
      /\ garbled => trouble # "none"
      /\ ~garbled => Drained \/ Going
      /\ trouble = "none" => ~garbled /\ Going
      /\ Used \in Nat /\ Len(source) \in Nat
  BY <1>1, <1>2, PartSoFar DEF InBody
<1>. DEFINE p == Used - (IF at = "nextchunk" THEN chunk_sz ELSE chunk_sz + 1)
            q == Used + 1
<1>4. ASSUME Going
      PROVE  /\ Pieces(file, source, Used) /\ source # <<>> /\ source[1].k = "chunked"
             /\ content_length = None /\ InChunk(p) /\ Used >= 2
             /\ chunk_sz \in Nat /\ chunk_sz # 0 /\ p \in 3..Len(source)
             /\ p + chunk_sz + 2 <= Len(source)
             /\ source[p + chunk_sz + 1].k = "blank"
             /\ source[p + chunk_sz + 2].k = "size"
  <2>1. /\ Pieces(file, source, Used) /\ source # <<>> /\ source[1].k = "chunked"
        /\ content_length = None /\ Used >= 2
        /\ \/ at = "nextchunk" /\ InChunk(Used - chunk_sz)
           \/ at = "nextsize" /\ InChunk(Used - chunk_sz - 1)
    BY <1>1, <1>4 DEF Going, LengthGoes, CloseGoes, ChunkGoes
  <2>2. chunk_sz \in Nat
    <3>1. chunk_sz # None
      BY <1>1, FileParts DEF LengthInv
    <3>. QED BY <3>1, FileParts
  <2>3. InChunk(p)
    <3>1. Used - chunk_sz - 1 = Used - (chunk_sz + 1)
      BY <1>3, <2>2
    <3>. QED BY <2>1, <3>1
  <2>4. /\ p \in 3..Len(source) /\ source[p].k = "size" /\ source[p].n = chunk_sz
        /\ chunk_sz # 0 /\ Chunk(source, p)
    BY <2>1, <2>3, AfterHeader DEF InChunk
  <2>. QED BY <2>1, <2>2, <2>3, <2>4 DEF Chunk
<1>5. ASSUME Fetched, Going
      PROVE  /\ ret.data[1] = source[q] /\ q = Len(taken) /\ q <= Len(source)
             /\ at = "nextchunk" => source[q].k = "blank" /\ p = q - chunk_sz - 1
             /\ at = "nextsize" => source[q].k = "size" /\ q \in 3..Len(source)
             /\ Pieces(file, source, q)
  <2>1. ret.data[1] = source[q] /\ q = Len(taken) /\ q <= Len(source)
    BY <1>1, <1>2, <1>5, OneUnit
  <2>2. at = "nextchunk" => source[q].k = "blank" /\ p = q - chunk_sz - 1
    <3>1. at = "nextchunk" => p + chunk_sz + 1 = q /\ p = q - chunk_sz - 1
      BY <1>3, <1>4, <1>5
    <3>. QED BY <1>4, <1>5, <3>1
  <2>3. at = "nextsize" => source[q].k = "size" /\ q \in 3..Len(source)
    <3>1. at = "nextsize" => p + chunk_sz + 2 = q
      BY <1>3, <1>4, <1>5
    <3>2. q \in Nat /\ q >= 3
      BY <1>3, <1>4, <1>5
    <3>. QED BY <1>3, <1>4, <1>5, <2>1, <3>1, <3>2
  <2>4. \A k \in (Used + 1)..q : ~Piece(source[k])
    <3>1. ~Piece(source[q])
      BY <1>1, <2>2, <2>3 DEF Piece
    <3>. QED BY <1>3, <3>1
  <2>5. Pieces(file, source, q)
    BY <1>3, <1>4, <1>5, <2>4, PiecesBehind
  <2>. QED BY <2>1, <2>2, <2>3, <2>5
<1>6. CASE /\ ret.kind = "data" /\ at = "nextchunk" /\ ret.data[1].k = "blank"
           /\ Recv(1) /\ at' = "nextsize"
           /\ UNCHANGED <<socket, chunk_sz, chunk_offset>>
  <2>1. /\ RetInv' /\ Used' = Len(taken)
        /\ pc' # "idle" => want' = 1
        /\ pc' = "idle" /\ ret'.kind = "data" => Len(ret'.data) <= 1
    BY <1>2, <1>6, ReadBegins DEF Reading
  <2>2. AskInv' /\ HeaderInv'
    BY <1>6, <2>1 DEF AskInv, AsksFor, HeaderInv
  <2>3. Fetched
    BY <1>1, <1>6 DEF Fetched, Reading
  <2>4. ASSUME Going PROVE Going'
    <3>1. /\ InChunk(p) /\ p = q - chunk_sz - 1 /\ q = Len(taken) /\ Pieces(file, source, q)
          /\ q >= 2 /\ source # <<>> /\ source[1].k = "chunked" /\ content_length = None
      BY <1>3, <1>4, <1>5, <1>6, <2>3, <2>4
    <3>. HIDE DEF p, q
    <3>2. InChunk(Used - chunk_sz - 1)'
      BY <1>1, <1>6, <2>1, <3>1 DEF InChunk
    <3>. QED BY <1>1, <1>6, <2>1, <3>1, <3>2 DEF Going, ChunkGoes
  <2>. QED BY <1>1, <1>3, <1>6, <2>1, <2>2, <2>3, <2>4
       DEF SongInv, BodyInv, InBody, OverInv, Drained
<1>7. CASE /\ ret.kind = "data" /\ ~(at = "nextchunk" /\ ret.data[1].k = "blank")
           /\ chunk_offset' = 0 /\ Number(ret.data[1]) # 0
           /\ chunk_sz' = Number(ret.data[1]) /\ UNCHANGED <<socket, atVars>>
           /\ at' = "loop"
  <2>1. RetInv' /\ AskInv' /\ HeaderInv' /\ Used' = Len(taken)
    <3>1. UNCHANGED taken
      BY <1>7 DEF atVars
    <3>. QED BY <1>7, <3>1, Elsewhere DEF Reading
  <2>2. Fetched
    BY <1>1, <1>7 DEF Fetched, Reading
  <2>3. ASSUME Going PROVE Going'
    <3>1. /\ source[q].k = "size" /\ ret.data[1] = source[q] /\ q \in 3..Len(source)
          /\ q = Len(taken) /\ Pieces(file, source, q) /\ source # <<>>
          /\ source[1].k = "chunked" /\ content_length = None
      BY <1>1, <1>4, <1>5, <1>7, <2>2, <2>3
    <3>2. chunk_sz' = source[q].n /\ chunk_sz' # 0
      BY <1>7, <3>1 DEF Number
    <3>3. Used' = q /\ Used' - chunk_offset' = q /\ q >= 2
      BY <1>3, <1>7, <2>1, <3>1
    <3>. HIDE DEF q
    <3>4. InChunk(Used - chunk_offset)'
      BY <1>1, <3>1, <3>2, <3>3 DEF InChunk
    <3>. QED BY <1>1, <1>7, <3>1, <3>3, <3>4 DEF Going, ChunkGoes
  <2>. QED BY <1>1, <1>2, <1>3, <1>7, <2>1, <2>2, <2>3
       DEF SongInv, BodyInv, InBody, OverInv, Drained
<1>8. CASE Close /\ socket' = FALSE /\ at' = "loop"
           /\ (\/ ret.kind # "data"
               \/ /\ ret.kind = "data" /\ Number(ret.data[1]) = 0
                  /\ ~(at = "nextchunk" /\ ret.data[1].k = "blank"))
  <2>1. RetInv' /\ AskInv' /\ HeaderInv'
    BY <1>8, Elsewhere DEF Reading
  <2>2. ASSUME Going, trouble = "none" PROVE Pieces(file, source, Len(source))
    <3>1. CASE ret.kind # "data"
      BY <1>1, <1>2, <1>4, <2>2, <3>1, NothingFetched DEF Reading
    <3>2. CASE ret.kind = "data"
      <4>1. Fetched
        BY <1>1, <3>2 DEF Fetched, Reading
      <4>2. /\ source[q].k = "size" /\ ret.data[1] = source[q] /\ q \in 3..Len(source)
            /\ Pieces(file, source, q) /\ source # <<>> /\ source[1].k = "chunked"
        BY <1>1, <1>4, <1>5, <1>8, <2>2, <3>2, <4>1
      <4>3. source[q].n = 0
        BY <1>8, <3>2, <4>2 DEF Number
      <4>4. \A k \in (q + 1)..Len(source) : ~Piece(source[k])
        BY <4>2, <4>3, AfterHeader DEF Chunk
      <4>. QED BY <1>3, <4>2, <4>4, PiecesBehind
    <3>. QED BY <3>1, <3>2
  <2>. QED BY <1>1, <1>3, <1>8, <2>1, <2>2 DEF SongInv, BodyInv, InBody, OverInv
<1>. QED BY <1>6, <1>7, <1>8 DEF NextChunk, Goto

\* What is left of the body is asked for.
LEMMA ReadPlainSong ==
  ASSUME FInv, ReadPlain, Followed'
  PROVE  SongInv'
<1>1. /\ at = "loop" /\ at' = "plain" /\ socket /\ chunk_sz = 0 /\ total' = 0
      /\ UNCHANGED <<sessionVars, offset, file, garbled>>
      /\ Recv(left') /\ left' \in Nat \ {0}
  BY PlainAsks, FileParts DEF ReadPlain, Reads, Goto
<1>2. /\ UNCHANGED trouble /\ Followed /\ state \in {"CONNECT", "CLOSED"}
  BY <1>1, FileParts DEF Recv, Followed, SessionInv, sessionVars
<1>3. /\ RetInv' /\ Used' = Len(taken) /\ UNCHANGED source
      /\ Ended => Ended' /\ ~Fetched'
  BY <1>1, <1>2, ReadBegins DEF Reading
<1>4. AskInv' /\ HeaderInv'
  BY <1>1 DEF AskInv, HeaderInv
<1>5. Used = Len(taken)
  BY <1>1 DEF Used, Fetched, Reading
<1>6. (garbled => trouble # "none") /\ (~garbled => Drained \/ Going)
  BY <1>1, <1>2, PartSoFar DEF InBody
<1>7. ASSUME Going PROVE Going'
  <2>1. source # <<>> /\ Used >= 2 /\ Pieces(file, source, Used)
    BY <1>7 DEF Going
  <2>2. ~ChunkGoes
    BY <1>1 DEF ChunkGoes, InChunk
  <2>3. ASSUME LengthGoes PROVE LengthGoes'
    <3>1. 2 + offset + total' = 2 + offset
      BY <1>1, FileParts
    <3>. QED BY <1>1, <1>3, <1>5, <2>3, <3>1 DEF LengthGoes, sessionVars
  <2>4. ASSUME CloseGoes PROVE CloseGoes'
    BY <1>1, <1>3, <2>4 DEF CloseGoes, sessionVars
  <2>. QED BY <1>1, <1>3, <1>5, <1>7, <2>1, <2>2, <2>3, <2>4 DEF Going
<1>8. ASSUME Drained PROVE Drained'
  BY <1>1, <1>2, <1>3, <1>8 DEF Drained
<1>. QED BY <1>1, <1>2, <1>3, <1>4, <1>6, <1>7, <1>8
     DEF SongInv, BodyInv, InBody, OverInv, sessionVars

\* With a length or to the end of the connection, all that follows is song.
LEMMA PlainGoing ==
  ASSUME FInv, Going, at = "plain"
  PROVE  /\ \A i \in 3..Len(source) : Piece(source[i])
         /\ LengthGoes \/ CloseGoes
         /\ source # <<>> /\ Used >= 2 /\ Pieces(file, source, Used)
<1>1. source # <<>> /\ Used >= 2 /\ Pieces(file, source, Used) /\ (LengthGoes \/ CloseGoes)
  BY DEF Going, ChunkGoes
<1>2. source[1].k \in {"length", "close"}
  BY <1>1 DEF LengthGoes, CloseGoes
<1>. QED BY <1>1, <1>2, AfterHeader

\* Data of the body.
LEMMA PlainDataSong ==
  ASSUME FInv, PlainData, Followed'
  PROVE  SongInv'
<1>. DEFINE d == ret.data
            m == Len(ret.data)
<1>1. /\ at = "plain" /\ pc = "idle" /\ Fetched
      /\ total' = total + m
      /\ UNCHANGED <<socket, content_length, chunk_sz, status, rc, garbled>>
      /\ file' = IF UpTo("cut") THEN file \o d ELSE <<>>
      /\ \/ /\ UNCHANGED atVars /\ at' = "loop" /\ offset' = offset + total'
            /\ content_remainder' = IF content_length = None THEN content_remainder
                                    ELSE content_remainder - total'
         \/ Recv(left') /\ left' # 0 /\ UNCHANGED <<at, offset, content_remainder>>
      /\ left' = left - m
  BY DEF PlainData, Returns, Write, Goto, Fetched, Reading
<1>2. /\ UNCHANGED <<trouble, source>> /\ Followed /\ state \in {"CONNECT", "CLOSED"}
      /\ socket /\ content_length # 0 /\ m <= left
  <2>1. rc' = rc /\ ((\E n \in {left'} : Recv(n)) \/ UNCHANGED atVars)
    BY <1>1
  <2>2. UNCHANGED <<trouble, source>>
    BY <2>1 DEF Recv, atVars, netVars
  <2>3. Followed
    BY <2>1, <2>2 DEF Followed
  <2>. QED BY <1>1, <2>2, <2>3, FileParts DEF SessionInv, Reading, LengthInv, Fetched
<1>3. /\ m \in Nat \ {0} /\ d \in Seq(Units) /\ Used + m = Len(taken)
      /\ Used + m <= Len(source) /\ \A i \in 1..m : d[i] = source[Used + i]
      /\ source # <<>> /\ Used \in Nat /\ Len(source) \in Nat
  BY <1>1, <1>2, FetchedIs
<1>4. file' = file \o d
  BY <1>1, <1>2, FileParts, Parts DEF Followed
<1>5. RetInv' /\ AskInv' /\ HeaderInv' /\ Used' = Len(taken)
  <2>1. CASE Recv(left') /\ left' # 0 /\ UNCHANGED at
    <3>1. left' \in Nat \ {0}
      <4>. HIDE DEF m
      <4>. QED BY <1>1, <1>2, <1>3, <2>1, FileParts
    <3>2. RetInv' /\ Used' = Len(taken)
      BY <1>1, <1>2, <2>1, <3>1, ReadBegins DEF Reading
    <3>. QED BY <1>1, <2>1, <3>2 DEF AskInv, HeaderInv
  <2>2. CASE UNCHANGED atVars /\ at' = "loop"
    <3>1. UNCHANGED taken
      BY <2>2 DEF atVars
    <3>. QED BY <2>2, <3>1, Elsewhere DEF Reading
  <2>. QED BY <1>1, <2>1, <2>2
<1>6. CASE garbled
  <2>1. garbled' /\ trouble' # "none" /\ (at' = "loop" => socket') /\ at' \in {"plain", "loop"}
    BY <1>1, <1>2, <1>6, FileParts DEF SongInv
  <2>. QED BY <1>5, <2>1 DEF SongInv, BodyInv, OverInv
<1>7. CASE ~garbled
  <2>1. Going
    BY <1>1, <1>2, <1>7, PartSoFar DEF InBody, Drained
  <2>2. /\ \A i \in 3..Len(source) : Piece(source[i])
        /\ LengthGoes \/ CloseGoes
        /\ Used >= 2 /\ Pieces(file, source, Used)
    BY <1>1, <2>1, PlainGoing
  <2>3. Pieces(file', source', Used')
    <3>1. \A i \in 1..m : Used + i \in 3..Len(source)
      <4>. HIDE DEF m
      <4>. QED BY <1>3, <2>2
    <3>2. \A i \in 1..m : d[i] = source[Used + i] /\ Piece(source[Used + i])
      BY <1>3, <2>2, <3>1
    <3>3. Pieces(file \o d, source, Used + m)
      BY <1>3, <2>2, <3>2, FileParts, MorePieces
    <3>4. Used' = Used + m /\ file' = file \o d /\ source' = source
      BY <1>2, <1>3, <1>4, <1>5
    <3>. HIDE DEF m, d
    <3>. QED BY <3>3, <3>4
  <2>4. Used' = Used + m /\ Used' >= 2
    <3>. HIDE DEF m
    <3>. QED BY <1>3, <1>5, <2>2
  <2>5. ASSUME LengthGoes PROVE LengthGoes'
    <3>. HIDE DEF m
    <3>1. /\ source[1].k = "length" /\ chunk_sz = 0 /\ content_length = source[1].n
          /\ content_remainder = content_length - offset
          /\ Used = 2 + offset + total
      BY <1>1, <1>2, <2>5 DEF LengthGoes
    <3>2. source[1].n \in Nat /\ offset \in Nat /\ total \in Nat /\ content_length \in Nat
      BY <1>3, <3>1, AfterHeader, FileParts
    <3>3. CASE /\ at' = "loop" /\ offset' = offset + total'
               /\ content_remainder' = IF content_length = None THEN content_remainder
                                       ELSE content_remainder - total'
      <4>1. content_remainder' = content_length - offset'
        BY <1>1, <1>3, <3>1, <3>2, <3>3 DEF None
      <4>2. Used' = 2 + offset'
        <5>1. offset' = offset + (total + m) /\ Used' = 2 + offset + total + m /\ m \in Nat
          BY <1>1, <1>3, <2>4, <3>1, <3>3
        <5>. QED BY <3>2, <5>1
      <4>. QED BY <1>1, <1>2, <3>1, <3>3, <4>1, <4>2 DEF LengthGoes
    <3>4. CASE UNCHANGED <<at, offset, content_remainder>>
      <4>1. Used' = 2 + offset' + total'
        <5>1. /\ offset' = offset /\ total' = total + m /\ m \in Nat
              /\ Used' = 2 + offset + total + m
          BY <1>1, <1>3, <2>4, <3>1, <3>4
        <5>. QED BY <3>2, <5>1
      <4>. QED BY <1>1, <1>2, <3>1, <3>4, <4>1 DEF LengthGoes
    <3>. QED BY <1>1, <3>3, <3>4
  <2>6. ASSUME CloseGoes PROVE CloseGoes'
    BY <1>1, <1>2, <2>6 DEF CloseGoes
  <2>7. Going'
    <3>1. at' \in {"plain", "loop"} /\ source' # <<>>
      BY <1>1, <1>2, <1>3
    <3>. QED BY <2>2, <2>3, <2>4, <2>5, <2>6, <3>1 DEF Going
  <2>. QED BY <1>1, <1>2, <1>5, <1>7, <2>7 DEF SongInv, BodyInv, InBody, OverInv
<1>. QED BY <1>6, <1>7

\* A part of the body is returned.
LEMMA PlainPartSong ==
  ASSUME FInv, PlainPart, Followed'
  PROVE  SongInv'
<1>1. /\ at = "plain" /\ at' = "loop" /\ pc = "idle" /\ ret.kind # "data"
      /\ offset' = offset + total
      /\ content_remainder' = IF content_length = None THEN content_remainder
                              ELSE content_remainder - total
      /\ UNCHANGED <<socket, content_length, chunk_sz, status, rc, file, garbled,
                     trouble, source, taken, state, recvpkt_list>>
  BY DEF PlainPart, Returns, Goto, atVars
<1>2. Followed /\ socket /\ content_length # 0
  BY <1>1, FileParts DEF Followed, SessionInv, Reading, LengthInv
<1>3. RetInv' /\ AskInv' /\ HeaderInv' /\ ~Fetched' /\ Used' = Len(taken)
  BY <1>1, Elsewhere DEF Reading
<1>4. Used = Len(taken)
  BY <1>1 DEF Used, Fetched
<1>5. /\ garbled => trouble # "none"
      /\ ~garbled => Drained \/ Going
      /\ Used \in Nat
  BY <1>1, <1>2, PartSoFar DEF InBody
<1>6. ASSUME Going PROVE Going'
  <2>1. source # <<>> /\ Used >= 2 /\ Pieces(file, source, Used) /\ (LengthGoes \/ CloseGoes)
    BY <1>1, <1>6, PlainGoing
  <2>2. ASSUME LengthGoes PROVE LengthGoes'
    <3>1. /\ source[1].k = "length" /\ chunk_sz = 0 /\ content_length = source[1].n
          /\ content_remainder = content_length - offset
          /\ Used = 2 + offset + total
      BY <1>1, <1>2, <2>2 DEF LengthGoes
    <3>2. source[1].n \in Nat /\ offset \in Nat /\ total \in Nat /\ content_length \in Nat
      BY <2>1, <3>1, AfterHeader, FileParts
    <3>3. content_remainder' = content_length - offset' /\ Used' = 2 + offset'
      BY <1>1, <1>3, <1>4, <3>1, <3>2 DEF None
    <3>. QED BY <1>1, <3>1, <3>3 DEF LengthGoes
  <2>3. ASSUME CloseGoes PROVE CloseGoes'
    BY <1>1, <2>3 DEF CloseGoes
  <2>. QED BY <1>1, <1>3, <1>4, <2>1, <2>2, <2>3 DEF Going
<1>7. ASSUME Drained PROVE Drained'
  BY <1>1, <1>3, <1>7 DEF Drained, Ended
<1>. QED BY <1>1, <1>2, <1>3, <1>5, <1>6, <1>7 DEF SongInv, BodyInv, InBody, OverInv

\* The download is over, and remains so.
LEMMA FinishSong ==
  ASSUME FInv, Finish \/ Done, Followed'
  PROVE  SongInv'
<1>1. /\ at \in {"finish", "closed"} /\ at' \in {"closed", "idle"}
      /\ UNCHANGED <<rc, file, garbled, trouble, source>>
  BY DEF Finish, Done, Close, Goto, atVars, sessionVars
<1>2. Followed /\ OverInv /\ (garbled => trouble # "none")
  BY <1>1, FileParts DEF Followed, SongInv
<1>3. RetInv' /\ AskInv' /\ HeaderInv'
  BY <1>1, Elsewhere DEF Reading
<1>. QED BY <1>1, <1>2, <1>3 DEF SongInv, BodyInv, InBody, OverInv

-----------------------------------------------------------------------------
(* What a step does with the socket, and with the file.                    *)

\* A step of the download leaves the socket alone or begins one call.
LEMMA OneCall ==
  ASSUME IInv, Get \/ GetFileStep
  PROVE  \/ UNCHANGED atVars
         \/ Socket /\ trouble # "late"
         \/ Connect \/ Send \/ Close
         \/ \E n \in Nat \ {0} : Recv(n)
<1>1. 1 \in Nat \ {0}
  OBVIOUS
<1>2. CASE Get
  BY <1>2, WebParts, Parts DEF Get
<1>3. CASE ConnectTo \/ Connected \/ Requested \/ HeaderLine \/ HeaderEnd \/ FirstChunk
  BY <1>1, <1>3 DEF ConnectTo, Connected, Requested, HeaderLine, HeaderEnd, FirstChunk
<1>4. CASE OpenFile \/ LoopEnds \/ ReadFails \/ NextChunk \/ PlainPart \/ Finish \/ Done
  BY <1>1, <1>4 DEF OpenFile, LoopEnds, ReadFails, CloseAndEnd, NextChunk, PlainPart,
    Finish, Done
<1>5. CASE ReadChunk
  <2>1. Reads /\ Recv(ChunkLength)
    BY <1>5 DEF ReadChunk
  <2>2. Length \in Nat \ {0}
    BY <2>1, LengthAsks
  <2>3. chunk_sz \in Nat /\ chunk_offset \in Nat /\ chunk_offset < chunk_sz
    BY <1>5, WebParts DEF ReadChunk, Reads, LengthInv
  <2>4. ChunkLength \in Nat \ {0}
    BY <2>2, <2>3 DEF ChunkLength, Smaller
  <2>. QED BY <2>1, <2>4
<1>6. CASE ChunkData
  BY <1>1, <1>6 DEF ChunkData
<1>7. CASE ReadPlain
  BY <1>7, PlainAsks
<1>8. CASE PlainData
  <2>1. /\ at = "plain" /\ pc = "idle" /\ ret.kind = "data" /\ left' = left - Len(ret.data)
        /\ UNCHANGED atVars \/ (left' # 0 /\ Recv(left'))
    BY <1>8 DEF PlainData
  <2>. DEFINE m == Len(ret.data)
  <2>2. m \in Nat /\ m <= left /\ left \in Nat
    BY <2>1, WebParts, FirstUnit DEF LengthInv
  <2>. HIDE DEF m
  <2>3. left - m \in Nat
    BY <2>2
  <2>4. left' \in Nat
    BY <2>1, <2>3 DEF m
  <2>. QED BY <2>1, <2>4
<1>. QED BY <1>2, <1>3, <1>4, <1>5, <1>6, <1>7, <1>8 DEF GetFileStep

\* What a file gets is what recv has returned.
LEMMA FileOfUnits ==
  ASSUME FInv, [Next]_vars
  PROVE  file' \in Seq(Units)
<1>0. <<>> \in Seq(Units)
  OBVIOUS
<1>1. CASE ChunkData \/ PlainData
  <2>1. ret.kind = "data" /\ (file' = file \o ret.data \/ file' = <<>>)
    BY <1>1 DEF ChunkData, PlainData, Write
  <2>2. ret.data \in Seq(Units) /\ file \in Seq(Units)
    BY <2>1, FileParts, Parts DEF SocketTypes, Results
  <2>3. file \o ret.data \in Seq(Units)
    BY <2>2
  <2>. QED BY <1>0, <2>1, <2>3
<1>2. CASE ~(ChunkData \/ PlainData)
  <2>1. file' = file \/ file' = <<>>
    BY <1>2 DEF Next, Get, Thread, GetFileStep, ConnectTo, Connected, Requested,
      HeaderLine, HeaderEnd, FirstChunk, OpenFile, LoopEnds, ReadChunk, ReadFails,
      NextChunk, ReadPlain, PlainPart, Finish, Done, Environment, webVars, vars
  <2>. QED BY <1>0, <2>1, FileParts
<1>. QED BY <1>1, <1>2

\* Before it is requested nothing is read.
LEMMA FreshKept ==
  ASSUME FInv, [Next]_vars
  PROVE  FreshInv'
<1>1. CASE Get
  BY <1>1, GetSong
<1>2. CASE ConnectTo
  BY <1>2, ConnectToSong
<1>3. CASE Connected
  BY <1>3, ConnectedSong
<1>4. CASE GetFileStep /\ ~ConnectTo /\ ~Connected
  <2>1. at' \notin {"connect", "connected", "requested"}
    BY <1>4 DEF GetFileStep, Requested, HeaderLine, HeaderEnd, FirstChunk, OpenFile,
      LoopEnds, ReadChunk, ChunkData, ReadFails, CloseAndEnd, NextChunk, ReadPlain,
      PlainData, PlainPart, Returns, Finish, Done, Goto
  <2>. QED BY <2>1 DEF FreshInv
<1>5. CASE CallStep /\ UNCHANGED webVars
  <2>1. at \in {"connect", "connected", "requested"} => pc \notin {"recvstate", "recvwait"}
    BY FileParts DEF SessionInv
  <2>2. pc \notin {"recvstate", "recvwait"} => UNCHANGED taken
    BY <1>5 DEF CallStep, Started, Reclosed, Prompted, SendSeen, SendResult, RecvState,
      RecvTakes, RecvTimeout, Closed
  <2>. QED BY <1>5, <2>1, <2>2, FileParts DEF FreshInv, webVars, sessionVars
<1>6. CASE Environment
  <2>1. UNCHANGED taken
    BY <1>6 DEF Environment, Parser, ReadAnswer, ReadSend, ReadData, ReadDataLost,
      ReadClosed, Network, ExecuteStart, ExecuteClose, ExecuteSend, Transmit,
      ServerSends, ServerCloses
  <2>. QED BY <1>6, <2>1, FileParts DEF FreshInv, Environment, webVars, sessionVars
<1>7. CASE UNCHANGED vars
  BY <1>7, FileParts DEF FreshInv, vars, atVars
<1>. QED BY <1>1, <1>2, <1>3, <1>4, <1>5, <1>6, <1>7 DEF Next, Thread

\* The song goes on as long as it is followed.
LEMMA SongKept ==
  ASSUME FInv, [Next]_vars, Followed'
  PROVE  SongInv'
<1>1. CASE Get
  BY <1>1, GetSong
<1>2. CASE GetFileStep
  BY <1>2, ConnectToSong, ConnectedSong, RequestedSong, HeaderLineSong, HeaderEndSong,
     FirstChunkSong, OpenFileSong, LoopEndsSong, ReadChunkSong, ChunkDataSong,
     ReadFailsSong, NextChunkSong, ReadPlainSong, PlainDataSong, PlainPartSong,
     FinishSong
  DEF GetFileStep
<1>3. CASE CallStep /\ UNCHANGED webVars
  BY <1>3, CallsSong
<1>4. CASE Environment
  BY <1>4, OthersSong
<1>5. CASE UNCHANGED vars
  <2>1. /\ UNCHANGED webVars /\ UNCHANGED <<source, trouble, taken, pc, ret, want, state,
                                            recvpkt_list>>
    BY <1>5 DEF vars, atVars, webVars, sessionVars, readVars
  <2>2. Followed /\ SongInv
    BY <2>1, FileParts DEF Followed, webVars, sessionVars
  <2>3. Used' = Used /\ Fetched' = Fetched /\ Ended' = Ended
    BY <2>1 DEF Used, Fetched, Ended, webVars
  <2>4. HeaderInv' /\ BodyInv' /\ OverInv' /\ (garbled' => trouble' # "none")
    BY <2>1, <2>2, <2>3, InPlace
  <2>5. RetInv' /\ AskInv'
    BY <2>1, <2>2, <2>3 DEF SongInv, RetInv, AskInv, AsksFor, webVars, sessionVars
  <2>. QED BY <2>4, <2>5 DEF SongInv
<1>. QED BY <1>1, <1>2, <1>3, <1>4, <1>5 DEF Next, Thread

\* Before the first download.
LEMMA InitFInv == Init => FInv
<1>. SUFFICES ASSUME Init PROVE FInv
  OBVIOUS
<1>1. /\ at = "idle" /\ rc = "ERROR" /\ file = <<>> /\ source = <<>> /\ stream = <<>>
  BY DEF Init, InitSocket
<1>2. IInv
  BY InitIInv
<1>3. EndInv /\ SourceInv /\ FreshInv /\ ~Followed
  BY <1>1 DEF EndInv, SourceInv, FreshInv, Followed
<1>4. <<>> \in Seq(Units)
  OBVIOUS
<1>. QED BY <1>1, <1>2, <1>3, <1>4 DEF FInv

\* The invariant is inductive.
LEMMA NextFInv == FInv /\ [Next]_vars => FInv'
<1>. SUFFICES ASSUME FInv, [Next]_vars PROVE FInv'
  OBVIOUS
<1>1. /\ IInv /\ SInv /\ EndInv /\ SourceInv
  BY FileParts
<1>2. IInv' /\ SInv'
  BY <1>1, NextIInv DEF IInv
<1>3. EndInv' /\ SourceInv'
  <2>1. CASE Get \/ GetFileStep
    <3>1. CASE UNCHANGED atVars
      BY <1>1, <3>1 DEF EndInv, SourceInv, atVars
    <3>2. CASE \/ Socket /\ trouble # "late"
               \/ Connect \/ Send \/ Close
               \/ \E n \in Nat \ {0} : Recv(n)
      BY <1>1, <1>2, <3>2, EndUsed, SourceKept
    <3>. QED BY <1>1, <2>1, <3>1, <3>2, OneCall
  <2>2. CASE CallStep \/ Parser \/ Network
    BY <1>1, <2>2, EndKept, SourceKept
  <2>3. CASE UNCHANGED vars
    BY <1>1, <2>3 DEF EndInv, SourceInv, vars, atVars
  <2>. QED BY <2>1, <2>2, <2>3 DEF Next, Thread, Environment
<1>4. FreshInv' /\ file' \in Seq(Units) /\ (Followed' => SongInv')
  BY FreshKept, FileOfUnits, SongKept
<1>. QED BY <1>2, <1>3, <1>4 DEF FInv

-----------------------------------------------------------------------------
(* The theorems of the file.                                               *)

\* How far a download has come in the stream, what it has written and what comes
\* next fit at every step, whatever the server sends that is an answer, however
\* its packets fall on the reads and wherever it breaks off
\* (webclient_file.c:77-111, webclient.c:1083-1260).
THEOREM FileInvariance == Spec => []FInv
BY InitFInv, NextFInv, PTL DEF Spec

\* A download that reports success has the song, whole; or a part from its
\* beginning, if the server broke off or was silent (webclient_file.c:77-111,
\* webclient.c:1083-1260).
THEOREM DownloadIsTheSong == Spec => []FileIsTheSong
<1>1. FInv => FileIsTheSong
  <2>. SUFFICES ASSUME FInv, at = "idle", rc = "OK"
                PROVE  /\ trouble = "none" => Pieces(file, source, Len(source))
                       /\ (UpTo("cut") /\ ~garbled)
                            => \E n \in 0..Len(source) : Pieces(file, source, n)
    BY DEF FileIsTheSong
  <2>1. UpTo("cut") => Followed
    BY FileParts, Parts DEF Followed
  <2>2. Followed => OverInv
    BY FileParts DEF SongInv
  <2>3. trouble = "none" => Followed
    BY DEF Followed
  <2>. QED BY <2>1, <2>2, <2>3 DEF OverInv
<1>. QED BY <1>1, FileInvariance, PTL

-----------------------------------------------------------------------------
(* The download is one of the programs that the socket is made for.        *)

\* The call that a step begins is one the socket expects: nothing is sent and
\* nothing read on a socket that was never connected, and none asked for twice.
LEMMA CallsInOrder ==
  ASSUME IInv, Get \/ GetFileStep
  PROVE  UNCHANGED atVars \/ Uses
<1>1. SessionInv
  BY WebParts
<1>2. CASE state \in {"CONNECT", "CLOSED"}
  BY <1>2, OneCall DEF Uses
<1>3. CASE Get
  <2>1. Socket /\ UpTo("gap")
    BY <1>3 DEF Get
  <2>2. trouble # "late"
    BY <2>1, WebParts, Parts
  <2>. QED BY <2>1, <2>2 DEF Uses
<1>4. CASE ConnectTo
  <2>1. at = "connect" /\ Connect
    BY <1>4 DEF ConnectTo
  <2>2. state # "NONE"
    BY <1>1, <2>1 DEF SessionInv
  <2>. QED BY <2>1, <2>2 DEF Uses
<1>5. ASSUME Connected, state \notin {"CONNECT", "CLOSED"} PROVE Uses
  <2>1. at = "connected" /\ (ret.kind = "ok" => Send) /\ (ret.kind # "ok" => Close)
    BY <1>5 DEF Connected
  <2>2. ASSUME ret.kind = "ok", Send PROVE FALSE
    <3>1. pc = "idle"
      BY <2>2 DEF Send
    <3>. QED BY <1>1, <1>5, <2>1, <2>2, <3>1 DEF SessionInv
  <2>. QED BY <2>1, <2>2 DEF Uses
<1>6. ASSUME Requested \/ HeaderLine \/ HeaderEnd \/ FirstChunk \/ OpenFile
             \/ ChunkData \/ ReadFails \/ NextChunk \/ PlainData \/ PlainPart
      PROVE  state \in {"CONNECT", "CLOSED"}
  <2>1. at \in Reading \cup {"requested", "responded"}
    BY <1>6 DEF Requested, HeaderLine, HeaderEnd, FirstChunk, OpenFile, ChunkData,
      ReadFails, NextChunk, PlainData, PlainPart, Reading
  <2>. QED BY <1>1, <2>1 DEF SessionInv
<1>7. ASSUME ReadChunk \/ ReadPlain PROVE state \in {"CONNECT", "CLOSED"}
  <2>1. at = "loop" /\ socket
    BY <1>7 DEF ReadChunk, ReadPlain, Reads
  <2>. QED BY <1>1, <2>1 DEF SessionInv
<1>8. CASE LoopEnds \/ Finish \/ Done
  BY <1>8 DEF LoopEnds, Finish, Done, Uses
<1>. QED BY <1>2, <1>3, <1>4, <1>5, <1>6, <1>7, <1>8 DEF GetFileStep

\* The download, to the socket, is a program that calls it in order: what holds
\* of the socket for any such program holds of it here (webclient.c:560-640,
\* 1083-1260, 1343-1395).
THEOREM DownloadUsesSocket == Spec => SocketSpec
<1>1. Init => InitSocket
  BY DEF Init
<1>2. IInv /\ [Next]_vars => [SocketNext]_atVars
  <2>. SUFFICES ASSUME IInv, [Next]_vars PROVE [SocketNext]_atVars
    OBVIOUS
  <2>1. CASE Get \/ GetFileStep
    BY <2>1, CallsInOrder DEF SocketNext
  <2>2. CASE CallStep \/ Parser \/ Network
    BY <2>2 DEF SocketNext
  <2>3. CASE UNCHANGED vars
    BY <2>3 DEF vars
  <2>. QED BY <2>1, <2>2, <2>3 DEF Next, Thread, Environment
<1>. QED BY <1>1, <1>2, Invariance, PTL DEF Spec, SocketSpec

\* To the download the thread at_clnt, the module and the serial line are a
\* stream of bytes: recv returns what the server sends, in order, and its end
\* (webclient.c:1083-1260, at_socket.c:747-860).
THEOREM DownloadReadsAByteStream == Spec => StreamServed
BY DownloadUsesSocket, SocketIsAByteStream
=============================================================================
