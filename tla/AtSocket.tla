------------------------------ MODULE AtSocket ------------------------------
(***************************************************************************)
(* A TCP socket of the AT socket layer, rt-thread/components/net/at/       *)
(* at_socket/at_socket.c, on the ESP8266 driver packages/at_device-v2.0.0/ *)
(* class/esp8266/at_socket_esp8266.c: the calls of the one thread that     *)
(* uses sockets (lcd_thr), and what the thread at_clnt does with the       *)
(* notices of the module (URC), which arrive between any two of its steps. *)
(*                                                                         *)
(* The thread has one socket at a time, so it is always number 0 (see      *)
(* NothingLeftOpen in WebClient).  at_obj_exec_cmd is a request and an     *)
(* answer here; AtClient has its details.                                  *)
(***************************************************************************)
EXTENDS Naturals, Sequences

CONSTANTS
  Streams,    \* what a server may send on a connection: sequences of units
  MaxPacket,  \* units of one "+IPD"
  MaxWire,    \* what the serial line holds that at_clnt has not read
  Null

\* What a server sends is made of units, be they bytes or larger.
Units == UNION {{s[i] : i \in DOMAIN s} : s \in Streams}

ASSUME StreamsAssumption == Streams \subseteq Seq(Units)
ASSUME NullAssumption ==
  Null \notin {"OK", "ERROR", "START", "CLOSE", "SEND", "DATA", "SENT"}
ASSUME MaxPacketAssumption == MaxPacket \in Nat \ {0}
ASSUME MaxWireAssumption == MaxWire \in Nat \ {0}

VARIABLES
  \* struct at_socket; state "NONE" is a free one (magic 0)
  state, recvpkt_list, recv_notice,
  at_evt_cb_set,   \* the callbacks of URC are registered
  socket_event,    \* the bits of device->socket_event
  \* the call in progress
  pc, want, retryed,
  ret,             \* what the last call returned
  answer,          \* the answer to the AT command, or Null
  \* the module: what it works on, and whether the link is open
  module, link,
  wire,            \* what it sent that at_clnt has not read
  \* the server: what it sends on this connection, what is left of it, and
  \* whether it has the request
  source, stream, asked,
  \* history: the worst that happened since at_socket, and what the calls have
  \* returned, up to a gap
  trouble, taken

sockVars == <<state, recvpkt_list, recv_notice, at_evt_cb_set, socket_event>>
callVars == <<pc, want, retryed, ret, answer>>
netVars == <<module, link, wire, source, stream, asked>>
atVars == <<state, recvpkt_list, recv_notice, at_evt_cb_set, socket_event,
            pc, want, retryed, ret, answer, module, link, wire,
            source, stream, asked, taken, trouble>>

Is(k) == [kind |-> k, data |-> <<>>]
IPD(d) == [kind |-> "IPD", data |-> d]

\* The worst that happened on a connection: "cut", the server closed before the
\* end, or recv gave up; "gap", data were dropped for want of memory, or recv
\* returned 0 with data left; "late", a command or the data of a send timed out,
\* and may still be carried out or answered at any time.
Troubles == <<"none", "cut", "gap", "late">>
Degree(t) == CHOOSE i \in DOMAIN Troubles : Troubles[i] = t
UpTo(t) == Degree(trouble) <= Degree(t)
Happened(t) == trouble' = IF Degree(trouble) < Degree(t) THEN t ELSE trouble

InitSocket ==
  /\ state = "NONE" /\ recvpkt_list = <<>> /\ recv_notice = 0
  /\ at_evt_cb_set = FALSE /\ socket_event = {}
  /\ pc = "idle" /\ want = 0 /\ retryed = FALSE
  /\ ret = Is("ok") /\ answer = Null
  /\ module = Null /\ link = FALSE /\ wire = <<>>
  /\ source = <<>> /\ stream = <<>> /\ asked = FALSE
  /\ taken = <<>> /\ trouble = "none"

-----------------------------------------------------------------------------
(* AT commands.                                                            *)

\* A busy module drops a command; one that waits for the data of a CIPSEND
\* takes it for them.
Issue(cmd) ==
  /\ module' = CASE module = Null -> cmd
                 [] module = "DATA" -> "SENT"
                 [] OTHER -> module
  /\ answer' = Null

\* at_obj_exec_cmd returns.
Outcome(r) ==
  \/ answer # Null /\ r = answer /\ UNCHANGED trouble
  \/ answer = Null /\ r = "ERROR" /\ Happened("late")

Return(r) == pc' = "idle" /\ ret' = r

-----------------------------------------------------------------------------
(* The calls.                                                              *)

\* at_socket, alloc_socket_by_device
Socket ==
  /\ pc = "idle" /\ state = "NONE"
  /\ state' = "OPEN" /\ recvpkt_list' = <<>> /\ recv_notice' = 0
  /\ Return(Is("ok"))
  /\ want' = 0 /\ retryed' = FALSE /\ answer' = Null
  /\ taken' = <<>> /\ trouble' = (IF UpTo("gap") THEN "none" ELSE trouble)
  /\ source' = (IF link THEN source ELSE <<>>)
  /\ stream' = (IF link THEN stream ELSE <<>>)
  /\ UNCHANGED <<at_evt_cb_set, socket_event, module, link, wire, asked>>

\* at_connect, esp8266_socket_connect
Connect ==
  /\ pc = "idle"
  /\ IF state # "OPEN"
     THEN Return(Is("fail")) /\ UNCHANGED <<module, answer, retryed>>
     ELSE /\ Issue("START")
          /\ retryed' = FALSE
          /\ pc' = "start" /\ UNCHANGED ret
  /\ UNCHANGED <<sockVars, want, link, wire, source, stream, asked, taken, trouble>>

\* Mutant: the callbacks are registered by at_recvfrom alone.
CallbacksAfterNone == at_evt_cb_set

\* 706-708
CallbacksAfter == TRUE

\* The answer to AT+CIPSTART.
Started ==
  /\ pc = "start"
  /\ \E r \in {"OK", "ERROR"} :
       /\ Outcome(r)
       /\ \/ /\ r = "OK"
             /\ state' = "CONNECT" /\ at_evt_cb_set' = CallbacksAfter
             /\ Return(Is("ok")) /\ UNCHANGED <<module, answer>>
          \/ /\ r # "OK" /\ ~retryed
             /\ Issue("CLOSE") /\ pc' = "reclose"
             /\ UNCHANGED <<state, at_evt_cb_set, ret>>
          \/ /\ r # "OK" /\ retryed
             /\ Return(Is("fail"))
             /\ UNCHANGED <<state, at_evt_cb_set, module, answer>>
  /\ UNCHANGED <<recvpkt_list, recv_notice, socket_event, want, retryed,
                 link, wire, source, stream, asked, taken>>

\* The close before the second try; if it fails there is none.
Reclosed ==
  /\ pc = "reclose"
  /\ \E r \in {"OK", "ERROR"} :
       /\ Outcome(r)
       /\ IF r = "OK"
          THEN Issue("START") /\ retryed' = TRUE /\ pc' = "start" /\ UNCHANGED ret
          ELSE Return(Is("fail")) /\ UNCHANGED <<module, answer, retryed>>
  /\ UNCHANGED <<sockVars, want, link, wire, source, stream, asked, taken>>

\* at_sendto, esp8266_socket_send: one packet, a request is below 2048 bytes.
Send ==
  /\ pc = "idle"
  /\ IF state = "CLOSED"
     THEN Return(Is("closed")) /\ UNCHANGED <<module, answer>>
     ELSE Issue("SEND") /\ pc' = "cipsend" /\ UNCHANGED ret
  /\ UNCHANGED <<sockVars, want, retryed, link, wire, source, stream, asked,
                 taken, trouble>>

\* The answer to AT+CIPSEND; the data follow.
Prompted ==
  /\ pc = "cipsend"
  /\ \E r \in {"OK", "ERROR"} :
       /\ Outcome(r)
       /\ IF r = "OK"
          THEN /\ module' = IF module = "DATA" THEN "SENT" ELSE module
               /\ pc' = "sendwait" /\ UNCHANGED ret
          ELSE Return(Is("fail")) /\ UNCHANGED module
  /\ UNCHANGED <<sockVars, want, retryed, answer, link, wire, source, stream,
                 asked, taken>>

\* First the bit of the socket, then OK or FAIL, each with a timeout.
SendSeen ==
  /\ pc = "sendwait"
  /\ IF "socket" \in socket_event
     THEN /\ socket_event' = socket_event \ {"socket"}
          /\ pc' = "sendresult" /\ UNCHANGED <<ret, trouble>>
     ELSE /\ Return(Is("fail")) /\ UNCHANGED socket_event
          /\ Happened("late")
  /\ UNCHANGED <<state, recvpkt_list, recv_notice, at_evt_cb_set, want, retryed,
                 answer, netVars, taken>>

SendResult ==
  /\ pc = "sendresult"
  /\ Return(Is(IF "OK" \in socket_event /\ "FAIL" \notin socket_event
               THEN "ok" ELSE "fail"))
  /\ IF {"OK", "FAIL"} \cap socket_event # {} THEN UNCHANGED trouble
     ELSE Happened("late")
  /\ socket_event' = socket_event \ {"OK", "FAIL"}
  /\ UNCHANGED <<state, recvpkt_list, recv_notice, at_evt_cb_set, want, retryed,
                 answer, netVars, taken>>

Smaller(a, b) == IF a < b THEN a ELSE b

\* Mutant: what is read stays in the list.
RestKept(n) == recvpkt_list

\* What at_recvpkt_get leaves of the list.
Rest(n) == SubSeq(recvpkt_list, n + 1, Len(recvpkt_list))

\* at_recvpkt_get copies up to n units, over the bounds of packets.
Take(n) ==
  LET m == Smaller(n, Len(recvpkt_list))
      d == SubSeq(recvpkt_list, 1, m)
  IN /\ recvpkt_list' = Rest(m)
     /\ taken' = IF UpTo("cut") THEN taken \o d ELSE <<>>
     /\ Return([kind |-> "data", data |-> d])

\* recv returns 0.
ReturnClosed ==
  /\ Return(Is("closed"))
  /\ IF recvpkt_list = <<>> THEN UNCHANGED trouble ELSE Happened("gap")

\* at_recvfrom: first what the list holds (768-775).
Recv(n) ==
  /\ pc = "idle"
  /\ IF recvpkt_list # <<>>
     THEN Take(n) /\ UNCHANGED want
     ELSE /\ want' = n /\ pc' = "recvstate"
          /\ UNCHANGED <<recvpkt_list, ret, taken>>
  /\ UNCHANGED <<state, recv_notice, at_evt_cb_set, socket_event, retryed, answer,
                 netVars, trouble>>

\* 777-788: at_clnt may have stored data since.
RecvState ==
  /\ pc = "recvstate"
  /\ IF state = "CLOSED" THEN ReturnClosed
     ELSE pc' = "recvwait" /\ UNCHANGED <<ret, trouble>>
  /\ UNCHANGED <<sockVars, want, retryed, answer, netVars, taken>>

\* 806-835: a socket that is closed by now is not read any more, whatever the
\* list holds.
RecvTakes ==
  /\ pc = "recvwait" /\ recv_notice > 0
  /\ recv_notice' = recv_notice - 1
  /\ \/ /\ state = "CONNECT" /\ recvpkt_list # <<>>
        /\ Take(want) /\ UNCHANGED trouble
     \/ /\ state = "CONNECT" /\ recvpkt_list = <<>>
        /\ UNCHANGED <<recvpkt_list, pc, ret, taken, trouble>>
     \/ /\ state # "CONNECT"
        /\ ReturnClosed /\ UNCHANGED <<recvpkt_list, taken>>
  /\ UNCHANGED <<state, at_evt_cb_set, socket_event, want, retryed, answer, netVars>>

\* Mutant: recv waits for ever.
RecvEndsNever == FALSE

RecvEnds == recv_notice = 0

\* 809-815
RecvTimeout ==
  /\ pc = "recvwait" /\ RecvEnds
  /\ Return(Is("timeout"))
  /\ Happened("cut")
  /\ UNCHANGED <<sockVars, want, retryed, answer, netVars, taken>>

\* free_socket
Free == state' = "NONE" /\ recvpkt_list' = <<>> /\ recv_notice' = 0

\* at_closesocket: nothing is sent for a socket the server has closed.
Close ==
  /\ pc = "idle" /\ state # "NONE"
  /\ IF state = "CLOSED"
     THEN /\ Free /\ Return(Is("ok"))
          /\ UNCHANGED <<module, answer>>
     ELSE /\ state' = "CLOSED"
          /\ Issue("CLOSE") /\ pc' = "closing"
          /\ UNCHANGED <<recvpkt_list, recv_notice, ret>>
  /\ UNCHANGED <<at_evt_cb_set, socket_event, want, retryed, link, wire, source,
                 stream, asked, taken, trouble>>

\* Whatever the module answered, the socket is freed (509-519).
Closed ==
  /\ pc = "closing"
  /\ \E r \in {"OK", "ERROR"} :
       /\ Outcome(r)
       /\ Free /\ Return(Is(IF r = "OK" THEN "ok" ELSE "fail"))
  /\ UNCHANGED <<at_evt_cb_set, socket_event, want, retryed, answer, netVars, taken>>

CallStep == \/ Started \/ Reclosed \/ Prompted \/ SendSeen \/ SendResult
            \/ RecvState \/ RecvTakes \/ RecvTimeout \/ Closed

-----------------------------------------------------------------------------
(* The thread at_clnt: one line of the module.                             *)

Read(k) == wire # <<>> /\ Head(wire).kind \in k /\ wire' = Tail(wire)

ReadAnswer ==
  /\ Read({"OK", "ERROR"})
  /\ answer' = IF pc \in {"start", "reclose", "cipsend", "closing"} /\ answer = Null
               THEN Head(wire).kind ELSE answer
  /\ UNCHANGED <<sockVars, pc, want, retryed, ret, module, link, source, stream,
                 asked, taken, trouble>>

\* urc_send_func
ReadSend ==
  /\ Read({"SEND OK", "SEND FAIL"})
  /\ socket_event' = socket_event \cup
       {"socket", IF Head(wire).kind = "SEND OK" THEN "OK" ELSE "FAIL"}
  /\ UNCHANGED <<state, recvpkt_list, recv_notice, at_evt_cb_set, callVars, module,
                 link, source, stream, asked, taken, trouble>>

\* A callback is registered and the socket is in use.
Heard == at_evt_cb_set /\ state # "NONE"

\* Mutant: the data are stored and nobody is told.
NoticeAfterDataNone == recv_notice

NoticeAfterData == recv_notice + 1

\* urc_recv_func, at_recv_notice_cb
ReadData ==
  /\ Read({"IPD"})
  /\ IF Heard
     THEN /\ recvpkt_list' = recvpkt_list \o Head(wire).data
          /\ recv_notice' = NoticeAfterData
     ELSE UNCHANGED <<recvpkt_list, recv_notice>>
  /\ UNCHANGED <<state, at_evt_cb_set, socket_event, callVars, module, link,
                 source, stream, asked, taken, trouble>>

\* No memory for the data, or they do not come in time (490-514); or no memory
\* for the entry of the list, where the waiting thread is woken all the same
\* (at_socket.c:81-86).  Bounded to one loss on a connection.
ReadDataLost ==
  /\ Read({"IPD"}) /\ Heard /\ UpTo("cut")
  /\ recv_notice' \in {recv_notice, recv_notice + 1}
  /\ Happened("gap")
  /\ UNCHANGED <<state, recvpkt_list, at_evt_cb_set, socket_event, callVars, module,
                 link, source, stream, asked, taken>>

\* urc_close_func, at_closed_notice_cb
ReadClosed ==
  /\ Read({"CLOSED"})
  /\ IF Heard
     THEN state' = "CLOSED" /\ recv_notice' = recv_notice + 1
     ELSE UNCHANGED <<state, recv_notice>>
  /\ UNCHANGED <<recvpkt_list, at_evt_cb_set, socket_event, callVars, module, link,
                 source, stream, asked, taken, trouble>>

Parser == ReadAnswer \/ ReadSend \/ ReadData \/ ReadDataLost \/ ReadClosed

-----------------------------------------------------------------------------
(* The module and the server behind it.                                    *)

Says(lines) == Len(wire) < MaxWire /\ wire' = wire \o lines

\* AT+CIPSTART: the link opens, or not; never twice.
ExecuteStart ==
  /\ module = "START" /\ module' = Null
  /\ \/ /\ ~link /\ Says(<<Is("OK")>>)
        /\ link' = TRUE /\ asked' = FALSE
        /\ source' \in Streams /\ stream' = source'
     \/ /\ Says(<<Is("ERROR")>>) /\ UNCHANGED <<link, asked, source, stream>>
  /\ UNCHANGED <<sockVars, callVars, taken, trouble>>

\* AT+CIPCLOSE
ExecuteClose ==
  /\ module = "CLOSE" /\ module' = Null
  /\ Says(IF link THEN <<Is("CLOSED"), Is("OK")>> ELSE <<Is("ERROR")>>)
  /\ link' = FALSE
  /\ UNCHANGED <<sockVars, callVars, source, stream, asked, taken, trouble>>

\* AT+CIPSEND is accepted with the prompt; then come the data.
ExecuteSend ==
  /\ module = "SEND"
  /\ module' = IF link THEN "DATA" ELSE Null
  /\ Says(<<Is(IF link THEN "OK" ELSE "ERROR")>>)
  /\ UNCHANGED <<sockVars, callVars, link, source, stream, asked, taken, trouble>>

Transmit ==
  /\ module = "SENT" /\ module' = Null
  /\ \/ link /\ asked' = TRUE /\ Says(<<Is("SEND OK")>>)
     \/ Says(<<Is("SEND FAIL")>>) /\ UNCHANGED asked
  /\ UNCHANGED <<sockVars, callVars, link, source, stream, taken, trouble>>

ServerSends ==
  /\ link /\ asked
  /\ \E n \in 1..Smaller(MaxPacket, Len(stream)) :
       /\ Says(<<IPD(SubSeq(stream, 1, n))>>)
       /\ stream' = SubSeq(stream, n + 1, Len(stream))
  /\ UNCHANGED <<sockVars, callVars, module, link, source, asked, taken, trouble>>

\* The server closes the connection, at its end or before.
ServerCloses ==
  /\ link /\ link' = FALSE
  /\ Says(<<Is("CLOSED")>>)
  /\ IF stream = <<>> THEN UNCHANGED trouble ELSE Happened("cut")
  /\ UNCHANGED <<sockVars, callVars, module, source, stream, asked, taken>>

Network == \/ ExecuteStart \/ ExecuteClose \/ ExecuteSend \/ Transmit
           \/ ServerSends \/ ServerCloses

-----------------------------------------------------------------------------
(* Properties.                                                             *)

States == {"NONE", "OPEN", "CONNECT", "CLOSED"}
Calls == {"idle", "start", "reclose", "cipsend", "sendwait", "sendresult",
          "recvstate", "recvwait", "closing"}

\* The types of struct at_socket and of the call; the callbacks, once
\* registered, stay, so a connected socket has them.
SocketTypeOK ==
  /\ state \in States /\ recv_notice \in Nat
  /\ state = "CONNECT" => at_evt_cb_set
  /\ socket_event \subseteq {"socket", "OK", "FAIL"}
  /\ pc \in Calls /\ answer \in {Null, "OK", "ERROR"}
  /\ module \in {Null, "START", "CLOSE", "SEND", "DATA", "SENT"}
  /\ link \in BOOLEAN /\ asked \in BOOLEAN
  /\ trouble \in {"none", "cut", "gap", "late"}

\* The first n units of src are those of got and then those of the lines: the
\* data of line i are the units from cut[i - 1] to cut[i].
Split(src, n, got, lines) ==
  \E cut \in [0..Len(lines) -> Len(got)..n] :
    /\ got = SubSeq(src, 1, cut[0])
    /\ \A i \in 1..Len(lines) : lines[i].data = SubSeq(src, cut[i - 1] + 1, cut[i])
    /\ \A i, j \in 0..Len(lines) : i <= j => cut[i] <= cut[j]
    /\ cut[Len(lines)] = n

\* What recv has returned on a connection, what is in the list and what is on
\* the serial line is, in this order, what the server has sent: nothing is
\* lost, doubled, reordered or of another connection, however the packets fell
\* on the calls (at_socket.c:156-200, 634-653), unless a command timed out or
\* the memory was exhausted.
StreamIntact ==
  (/\ state \in {"CONNECT", "CLOSED"} /\ pc # "closing"
   /\ UpTo("cut"))
    => Split(source, Len(source) - Len(stream), taken \o recvpkt_list, wire)

\* A thread never sleeps in recv with data in the list or the connection closed
\* and no notice to wake it (at_socket.c:806-815, 650, 669).
WaiterNotified ==
  (pc = "recvwait" /\ (recvpkt_list # <<>> \/ state = "CLOSED"))
    => recv_notice > 0

\* The last call said that the connection is closed, and nothing is left of it.
Over == pc = "idle" /\ ret.kind = "closed" /\ state = "CLOSED" /\ recvpkt_list = <<>>

Stream == INSTANCE ByteStream WITH over <- Over

\* The calls, the thread at_clnt and the module together are a stream of bytes:
\* recv returns what the server sends, in order and without a gap, however the
\* packets, the notices and the calls interleave, and the end it reports with
\* no trouble is the end of it (at_socket.c:747-860, at_socket_esp8266.c:337-420).
StreamServed == Stream!Spec

\* recv returns 0 for the end of the stream only when the list is read out, as
\* its first step (768) says of "last transmission of remaining data".
ZeroMeansDrained ==
  [][(pc \in {"recvstate", "recvwait"} /\ pc' = "idle" /\ ret' = Is("closed"))
       => recvpkt_list = <<>>]_atVars
=============================================================================
