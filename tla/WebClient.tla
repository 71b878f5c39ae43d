------------------------------ MODULE WebClient ------------------------------
(***************************************************************************)
(* webclient_get_file of packages/webclient-v2.1.0 (src/webclient_file.c,  *)
(* src/webclient.c) on a socket of AtSocket: the thread lcd_thr downloads  *)
(* a song from a server that answers with a length, in chunks, until it    *)
(* closes, or with an error, and may stop anywhere.                        *)
(*                                                                         *)
(* What a server sends is a sequence of units: a status line with its      *)
(* fields, an empty line, the size of a chunk or a piece of the song.      *)
(* A redirection (301, 302) is not modelled: webclient_get then frees the  *)
(* session its caller goes on with.                                        *)
(***************************************************************************)
EXTENDS AtSocket, Integers

CONSTANTS
  RESPONSE_BUFSZ  \* WEBCLIENT_RESPONSE_BUFSZ, in units

ASSUME BufszAssumption == RESPONSE_BUFSZ \in Nat \ {0}

\* A unit of an answer: [k, n] with the length or the size in n.
StatusLines == {"length", "chunked", "close", "notfound"}
Piece(u) == u.k = "piece"

\* The chunk whose size is unit p of s: its pieces, the end of the line and the
\* size of the next one, or no piece any more.
Chunk(s, p) ==
  IF s[p].n = 0 THEN \A i \in (p + 1)..Len(s) : ~Piece(s[i])
  ELSE /\ p + s[p].n + 2 <= Len(s)
       /\ \A i \in (p + 1)..(p + s[p].n) : Piece(s[i])
       /\ s[p + s[p].n + 1].k = "blank" /\ s[p + s[p].n + 2].k = "size"

\* An answer of HTTP: a status line with its fields, an empty line and the song,
\* which is not empty if it comes in chunks: a first size of 0 reads as an
\* answer without chunks (webclient.c:793, 1163).
Answer(s) ==
  /\ Len(s) >= 2 /\ s[1].k \in StatusLines /\ s[2].k = "blank"
  /\ s[1].k \in {"length", "close"} => \A i \in 3..Len(s) : Piece(s[i])
  /\ s[1].k = "length" => Len(s) = 2 + s[1].n
  /\ s[1].k = "chunked" =>
       /\ Len(s) >= 3 /\ s[3].k = "size" /\ s[3].n # 0
       /\ \A p \in 3..Len(s) : s[p].k = "size" => Chunk(s, p)

ASSUME UnitsAssumption == \A u \in Units : u.n \in Nat
ASSUME AnswerAssumption == \A s \in Streams : Answer(s)

VARIABLES
  at,              \* where webclient_get_file is
  \* struct webclient_session
  socket,          \* FALSE is -1
  content_length, content_remainder,  \* -1 is None
  chunk_sz, chunk_offset,
  status, rc,
  offset, total, left,  \* of the loops that read
  file,
  garbled          \* history: chunk_sz was taken from a line that never came

sessionVars == <<socket, content_length, content_remainder, chunk_sz, chunk_offset,
                 status, rc>>
readVars == <<offset, total, left>>
vars == <<at, socket, content_length, content_remainder, chunk_sz, chunk_offset,
          status, rc, offset, total, left, file, garbled, atVars>>

\* No Content-Length, and the size of the chunk after the last.
None == -1

Goto(l) == at' = l

Init ==
  /\ InitSocket
  /\ at = "idle" /\ socket = FALSE
  /\ content_length = None /\ content_remainder = 0
  /\ chunk_sz = 0 /\ chunk_offset = 0 /\ status = 0 /\ rc = "ERROR"
  /\ offset = 0 /\ total = 0 /\ left = 0
  /\ file = <<>> /\ garbled = FALSE

-----------------------------------------------------------------------------
(* webclient_get: connect, send the request, read the header.              *)

\* webclient_session_create, webclient_connect up to socket().  Bounded: no
\* download is begun once a command to the module has timed out.
Get ==
  /\ at = "idle"
  /\ UpTo("gap")
  /\ Socket /\ Goto("connect")
  /\ socket' = FALSE /\ content_length' = None /\ content_remainder' = 0
  /\ chunk_sz' = 0 /\ chunk_offset' = 0 /\ status' = 0 /\ rc' = "OK"
  /\ file' = <<>> /\ garbled' = FALSE
  /\ offset' = 0 /\ total' = 0 /\ left' = 0

ConnectTo ==
  /\ at = "connect"
  /\ Connect /\ Goto("connected")
  /\ UNCHANGED <<sessionVars, readVars, file, garbled>>

\* A socket that does not connect is closed at once; session->socket stays -1.
\* Else the request goes out (webclient_send_header, webclient_write).
Connected ==
  /\ at = "connected"
  /\ IF ret.kind = "ok"
     THEN /\ Send /\ socket' = TRUE
          /\ Goto("requested") /\ UNCHANGED rc
     ELSE /\ Close /\ rc' = "ERROR"
          /\ Goto("finish") /\ UNCHANGED socket
  /\ UNCHANGED <<content_length, content_remainder, chunk_sz, chunk_offset, status,
                 readVars, file, garbled>>

\* Nobody looks at what webclient_write returns: when it could not send, it has
\* closed the socket, and the first recv of the header fails on socket -1.
Requested ==
  /\ at = "requested"
  /\ IF ret.kind = "ok"
     THEN Recv(1) /\ Goto("header") /\ UNCHANGED <<socket, rc>>
     ELSE Close /\ socket' = FALSE /\ rc' = "ERROR" /\ Goto("finish")
  /\ UNCHANGED <<content_length, content_remainder, chunk_sz, chunk_offset, status,
                 readVars, file, garbled>>

\* webclient_handle_response, 723-754: lines up to the empty one; the end of the
\* stream ends the header too, and counts as success (rc = 0).
HeaderLine ==
  /\ at = "header" /\ pc = "idle"
  /\ ret.kind = "data" /\ ret.data[1].k # "blank"
  /\ LET u == ret.data[1]
     IN /\ status' = CASE u.k = "notfound" -> 404
                       [] u.k \in StatusLines \ {"notfound"} -> 200
                       [] OTHER -> status
        /\ content_length' = IF u.k = "length" THEN u.n ELSE content_length
        /\ chunk_sz' = IF u.k = "chunked" THEN 1 ELSE chunk_sz  \* till firstchunk
  /\ Recv(1)
  /\ UNCHANGED <<at, socket, content_remainder, chunk_offset, rc, readVars, file,
                 garbled>>

\* 756-796; the first line of a chunked answer is its first size.
HeaderEnd ==
  /\ at = "header" /\ pc = "idle"
  /\ ret.kind = "data" => ret.data[1].k = "blank"
  /\ rc' = IF ret.kind = "timeout" THEN "ERROR" ELSE rc
  /\ content_remainder' = IF content_length = 0 THEN None ELSE content_length
  /\ IF chunk_sz # 0
     THEN Recv(1) /\ Goto("firstchunk")
     ELSE UNCHANGED atVars /\ Goto("responded")
  /\ UNCHANGED <<socket, content_length, chunk_sz, chunk_offset, status, readVars,
                 file, garbled>>

\* strtol of a line.
Number(u) == IF u.k = "size" THEN u.n ELSE 0

\* 793-794: without the line, strtol reads an uninitialised buffer.
FirstChunk ==
  /\ at = "firstchunk" /\ pc = "idle"
  /\ \/ /\ ret.kind = "data"
        /\ chunk_sz' = Number(ret.data[1]) /\ UNCHANGED garbled
     \/ /\ ret.kind # "data"
        /\ chunk_sz' \in {0, 1} /\ garbled' = TRUE
  /\ chunk_offset' = 0
  /\ Goto("responded")
  /\ UNCHANGED <<socket, content_length, content_remainder, status, rc, readVars,
                 file, atVars>>

-----------------------------------------------------------------------------
(* webclient_get_file after webclient_get.                                 *)

StatusOK == rc = "OK" /\ status = 200

\* The file is created empty, or cannot be, or there is no memory to fill it.
OpenFile ==
  /\ at = "responded"
  /\ file' = <<>> /\ offset' = 0
  /\ \/ StatusOK /\ Goto("loop") /\ UNCHANGED rc
     \/ rc' = "ERROR" /\ Goto("finish")
  /\ UNCHANGED <<socket, content_length, content_remainder, chunk_sz, chunk_offset,
                 status, total, left, garbled, atVars>>

\* What the loop asks webclient_read for.
Length == IF content_length = None THEN RESPONSE_BUFSZ
          ELSE Smaller(RESPONSE_BUFSZ, content_length - offset)

\* The loop is over, or webclient_read returns before it reads (1147-1160).
LoopEnds ==
  /\ at = "loop"
  /\ \/ content_length # None /\ offset >= content_length
     \/ chunk_sz = None
     \/ ~socket
     \/ chunk_sz = 0 /\ content_length \notin {None, 0} /\ content_remainder = 0
  /\ Goto("finish")
  /\ UNCHANGED <<sessionVars, readVars, file, garbled, atVars>>

Reads ==
  /\ at = "loop" /\ socket /\ chunk_sz # None
  /\ content_length # None => offset < content_length

\* Mutant: a read may run over the end of the chunk.
ChunkLengthWhole == Length

ChunkLength == Smaller(Length, chunk_sz - chunk_offset)

\* webclient_read in a chunk, 1163-1168
ReadChunk ==
  /\ Reads /\ chunk_sz # 0
  /\ Recv(ChunkLength) /\ Goto("chunk")
  /\ UNCHANGED <<sessionVars, readVars, file, garbled>>

\* What is written is followed up to a gap.
Write(d) == file' = IF UpTo("cut") THEN file \o d ELSE <<>>

\* Data of a chunk, and at its end webclient_next_chunk.
ChunkData ==
  /\ at = "chunk" /\ pc = "idle" /\ ret.kind = "data"
  /\ Write(ret.data)
  /\ offset' = offset + Len(ret.data)
  /\ chunk_offset' = chunk_offset + Len(ret.data)
  /\ IF chunk_offset' >= chunk_sz THEN Recv(1) /\ Goto("nextchunk")
     ELSE UNCHANGED atVars /\ Goto("loop")
  /\ UNCHANGED <<socket, content_length, content_remainder, chunk_sz, status, rc,
                 total, left, garbled>>

\* recv returned 0: the socket is closed, webclient_read returns 0.
CloseAndEnd ==
  /\ Close /\ socket' = FALSE
  /\ Goto("finish")

\* 1171-1183 and 1231-1246: a timeout leaves the socket to webclient_close.
ReadFails ==
  /\ \/ at = "chunk" /\ pc = "idle"
     \/ at = "plain" /\ pc = "idle" /\ total = 0
  /\ ret.kind # "data"
  /\ IF ret.kind = "timeout" THEN Goto("finish") /\ UNCHANGED <<socket, atVars>>
     ELSE CloseAndEnd
  /\ UNCHANGED <<content_length, content_remainder, chunk_sz, chunk_offset, status,
                 rc, readVars, file, garbled>>

\* webclient_next_chunk, 1091-1124: the line that ends the chunk is skipped.  A
\* line that does not come closes the socket and leaves chunk_sz alone.
NextChunk ==
  /\ at \in {"nextchunk", "nextsize"} /\ pc = "idle"
  /\ \/ /\ ret.kind = "data"
        /\ IF at = "nextchunk" /\ ret.data[1].k = "blank"
           THEN /\ Recv(1) /\ Goto("nextsize")
                /\ UNCHANGED <<socket, chunk_sz, chunk_offset>>
           ELSE /\ chunk_offset' = 0
                /\ IF Number(ret.data[1]) = 0
                   THEN Close /\ socket' = FALSE /\ chunk_sz' = None
                   ELSE /\ chunk_sz' = Number(ret.data[1])
                        /\ UNCHANGED <<socket, atVars>>
                /\ Goto("loop")
     \/ /\ ret.kind # "data"
        /\ Close /\ socket' = FALSE /\ Goto("loop")
        /\ UNCHANGED <<chunk_sz, chunk_offset>>
  /\ UNCHANGED <<content_length, content_remainder, status, rc, readVars, file,
                 garbled>>

\* webclient_read without chunks, 1195-1215
ReadPlain ==
  /\ Reads /\ chunk_sz = 0
  /\ content_length \notin {None, 0} => content_remainder > 0
  /\ LET n == IF content_length = None THEN Length
              ELSE Smaller(Length, content_remainder)
     IN Recv(n) /\ left' = n /\ total' = 0
  /\ Goto("plain")
  /\ UNCHANGED <<sessionVars, offset, file, garbled>>

\* webclient_read returns the total_read units it has.
Returns(n) ==
  /\ offset' = offset + n
  /\ content_remainder' = IF content_length = None THEN content_remainder
                          ELSE content_remainder - n
  /\ Goto("loop")

\* It reads until the buffer is full.
PlainData ==
  /\ at = "plain" /\ pc = "idle" /\ ret.kind = "data"
  /\ Write(ret.data)
  /\ left' = left - Len(ret.data)
  /\ total' = total + Len(ret.data)
  /\ IF left' = 0 THEN Returns(total') /\ UNCHANGED atVars
     ELSE Recv(left') /\ UNCHANGED <<at, offset, content_remainder>>
  /\ UNCHANGED <<socket, content_length, chunk_sz, chunk_offset, status, rc,
                 garbled>>

\* 1228-1231: what was read before the failure is returned; the next call of
\* webclient_read meets the failure again.
PlainPart ==
  /\ at = "plain" /\ pc = "idle" /\ ret.kind # "data" /\ total > 0
  /\ Returns(total)
  /\ UNCHANGED <<socket, content_length, chunk_sz, chunk_offset, status, rc, total,
                 left, file, garbled, atVars>>

\* Mutant: only a download that went well closes its session.
ClosesSessionOK == socket /\ rc = "OK"

\* webclient_close
ClosesSession == socket

Finish ==
  /\ at = "finish" /\ pc = "idle"
  /\ IF ClosesSession THEN Close /\ socket' = FALSE
     ELSE UNCHANGED <<socket, atVars>>
  /\ Goto("closed")
  /\ UNCHANGED <<content_length, content_remainder, chunk_sz, chunk_offset, status,
                 rc, readVars, file, garbled>>

Done ==
  /\ at = "closed" /\ pc = "idle"
  /\ Goto("idle")
  /\ UNCHANGED <<sessionVars, readVars, file, garbled, atVars>>

-----------------------------------------------------------------------------
GetFileStep ==
  \/ ConnectTo \/ Connected \/ Requested \/ HeaderLine \/ HeaderEnd \/ FirstChunk
  \/ OpenFile \/ LoopEnds \/ ReadChunk \/ ChunkData \/ ReadFails \/ NextChunk
  \/ ReadPlain \/ PlainData \/ PlainPart \/ Finish \/ Done

webVars == <<at, sessionVars, readVars, file, garbled>>

Thread == GetFileStep \/ (CallStep /\ UNCHANGED webVars)

Environment == (Parser \/ Network) /\ UNCHANGED webVars

Next == Get \/ Thread \/ Environment

Spec == Init /\ [][Next]_vars

\* The thread runs when it can; nothing is assumed of the module and the server.
FairSpec == Spec /\ WF_vars(Thread)

-----------------------------------------------------------------------------
(* Properties.                                                             *)

\* None of them runs below 0: size_t for some, and -1 means none for others.
Lengths == Nat \cup {None}

\* The types of the session and of the loops.
TypeOK ==
  /\ SocketTypeOK
  /\ at \in {"idle", "connect", "connected", "requested", "header", "firstchunk",
             "responded", "loop", "chunk", "nextchunk", "nextsize", "plain",
             "finish", "closed"}
  /\ socket \in BOOLEAN /\ garbled \in BOOLEAN /\ rc \in {"OK", "ERROR"}
  /\ {content_length, content_remainder, chunk_sz} \subseteq Lengths
  /\ {chunk_offset, offset, total, left} \subseteq Nat

\* f is what the first n units of src have of the song, piece by piece.
Pieces(f, src, n) ==
  \E pos \in [1..Len(f) -> 1..n] :
    /\ \A i \in 1..Len(f) : Piece(src[pos[i]]) /\ f[i] = src[pos[i]]
    /\ \A i, j \in 1..Len(f) : i < j => pos[i] < pos[j]
    /\ \A k \in 1..n : Piece(src[k]) => \E i \in 1..Len(f) : pos[i] = k

\* A download that reports success has the song, whole: unless the server broke
\* off or said nothing for six seconds, a command to the module timed out, data
\* were dropped for want of memory, or recv said 0 too early.  In the first two
\* cases the file is a part from its beginning, with nothing else in it, unless
\* even the first size of a chunked answer did not come (webclient_file.c:77-111,
\* webclient.c:1083-1260).
FileIsTheSong ==
  (at = "idle" /\ rc = "OK")
    => /\ trouble = "none" => Pieces(file, source, Len(source))
       /\ (UpTo("cut") /\ ~garbled)
            => \E n \in 0..Len(source) : Pieces(file, source, n)

\* However a download ends, its socket is closed and free, and the link is closed
\* in the module too unless a command timed out: the next one starts from nothing
\* (webclient.c:1343-1395, at_socket.c:490-520).
NothingLeftOpen ==
  at = "idle" =>
    /\ state = "NONE" /\ pc = "idle" /\ ~socket
    /\ UpTo("gap") => ~link /\ module = Null

\* A download comes to an end whatever the module and the server do or leave
\* undone (webclient_file.c:39-140).
GetReturns == at # "idle" ~> at = "idle"
=============================================================================
