--------------------------- MODULE AtSocketProofs ---------------------------
(***************************************************************************)
(* What holds of a socket of AtSocket at all times, for every stream of a  *)
(* server, packet and wire length, as an invariant SInv that every step    *)
(* of a call, of at_clnt, of the module and of the server preserves, and   *)
(* every call that a program begins on a socket it has.                    *)
(*                                                                         *)
(* AtSocket has no Next of its own: a program that uses sockets adds its   *)
(* steps (WebClientProofs).                                                *)
(*                                                                         *)
(* Until a command times out ("late"), a command or a request is in one    *)
(* place: with the module, as a line on the wire, or as an answer or an    *)
(* event with the call.  AnswerInv, SendInv, StartInv and CloseInv say so  *)
(* for each kind of call, and LinkInv what of a link the line may hold in  *)
(* each state of the socket.  From them a line that is read always finds   *)
(* the socket it is for, which is what StreamInv needs.                    *)
(*                                                                         *)
(* The last part is about what a program reads: a beginning of what the    *)
(* server sends (TakenPrefix), all of it at the end of a stream that       *)
(* nothing happened to (EndInv, AllTaken), and what each step of a read    *)
(* may return (RecvReads, CallReads, OthersRead).                          *)
(***************************************************************************)
EXTENDS AtSocket, TLAPS, SequenceTheorems, Integers


\* The lines of the module, and the groups of them that the thread waits for.
Kinds == {"OK", "ERROR", "SEND OK", "SEND FAIL", "IPD", "CLOSED"}
Lines == {l \in [kind : Kinds, data : Seq(Units)] : l.kind # "IPD" => l.data = <<>>}
Answers == {"OK", "ERROR"}
Sends == {"SEND OK", "SEND FAIL"}
Notices == {"IPD", "CLOSED"}

\* What a call returns.
Results == {r \in [kind : {"ok", "fail", "closed", "timeout", "data"},
                   data : Seq(Units)] :
              r.kind = "data" => r.data # <<>>}

\* No line of w, and one line of w, is of a kind in K.
NoLine(w, K) == \A i \in 1..Len(w) : w[i].kind \notin K
OneLine(w, K) ==
  \E i \in 1..Len(w) :
    w[i].kind \in K /\ \A j \in 1..Len(w) : w[j].kind \in K => j = i

\* The last line of w is of a kind in K.
LastLine(w, K) == w # <<>> /\ w[Len(w)].kind \in K

\* The link is closed once.
ClosedLast(w) ==
  \A i, j \in 1..Len(w) : w[i].kind = "CLOSED" /\ i < j => w[j].kind \notin Notices

SocketTypes ==
  /\ SocketTypeOK
  /\ recvpkt_list \in Seq(Units) /\ taken \in Seq(Units)
  /\ source \in Seq(Units) /\ stream \in Seq(Units)
  /\ wire \in Seq(Lines) /\ ret \in Results
  /\ want \in Nat /\ (pc \in {"recvstate", "recvwait"} => want > 0)

\* The socket that a call works on.
CallInv ==
  /\ state = "NONE" => pc = "idle"
  /\ pc = "closing" => state = "CLOSED"
  /\ pc \in {"start", "reclose"} => state \in {"OPEN", "CLOSED"}
  /\ pc \in {"cipsend", "sendwait", "sendresult", "recvstate", "recvwait"}
       => state \in {"CONNECT", "CLOSED"}

\* A notice for what a sleeping thread does not know.
WaitInv ==
  /\ pc \in {"recvstate", "recvwait"} /\ recvpkt_list # <<>> => recv_notice > 0
  /\ pc = "recvwait" /\ state = "CLOSED" => recv_notice > 0

\* The command of the call is with the module, or carried out.
Commands == {"start", "reclose", "cipsend", "closing"}
Issued == \/ pc = "start" /\ module = "START"
          \/ pc \in {"reclose", "closing"} /\ module = "CLOSE"
          \/ pc = "cipsend" /\ module = "SEND"
Executed == \/ pc \in Commands /\ module = Null
            \/ pc = "cipsend" /\ module = "DATA"

\* A command has one answer, and there is none without a command.
AnswerInv ==
  /\ pc \in Commands =>
       \/ Issued /\ answer = Null /\ NoLine(wire, Answers)
       \/ Executed /\ answer = Null /\ OneLine(wire, Answers)
       \/ Executed /\ answer # Null /\ NoLine(wire, Answers)
  /\ pc \notin Commands => NoLine(wire, Answers)
  /\ pc \in {"idle", "recvstate", "recvwait", "sendresult"} => module = Null

\* The data of a CIPSEND have one result.
SendInv ==
  /\ pc = "cipsend" =>
       \/ module = "SEND"
       \/ module = "DATA" /\ answer # "ERROR" /\ NoLine(wire, {"ERROR"})
       \/ module = Null /\ answer # "OK" /\ NoLine(wire, {"OK"})
  /\ pc # "sendwait" => NoLine(wire, Sends)
  /\ pc \notin {"sendwait", "sendresult"} => socket_event = {}
  /\ pc = "sendwait" =>
       \/ module = "SENT" /\ NoLine(wire, Sends) /\ socket_event = {}
       \/ module = Null /\ OneLine(wire, Sends) /\ socket_event = {}
       \/ module = Null /\ NoLine(wire, Sends) /\ socket_event \cap {"OK", "FAIL"} # {}
  /\ pc = "sendresult" => "socket" \notin socket_event

\* The link, and what the line holds of it, in each state of the socket.
LinkInv ==
  /\ state = "NONE" => ~link /\ wire = <<>>
  /\ state = "OPEN" =>
       /\ pc \in {"idle", "start", "reclose"}
       /\ recvpkt_list = <<>> /\ taken = <<>>
       /\ pc = "idle" => ~link /\ wire = <<>>
  /\ state = "CLOSED" /\ pc # "closing" => ~link /\ NoLine(wire, Notices)
  /\ link => NoLine(wire, {"CLOSED"})
  /\ ClosedLast(wire)

\* A connection that is being opened: the command is with the module, was
\* refused, or accepted.
StartInv ==
  pc = "start" =>
    /\ recvpkt_list = <<>> /\ taken = <<>> /\ NoLine(wire, {"IPD"})
    /\ link => ~asked
    /\ \/ module = "START" /\ state = "OPEN" /\ ~link /\ wire = <<>>
       \/ /\ module = Null /\ state = "OPEN" /\ ~link /\ answer # "OK"
          /\ NoLine(wire, Kinds \ {"ERROR"})
       \/ module = Null /\ answer # "ERROR" /\ NoLine(wire, {"ERROR"})

\* One that is being closed.
CloseInv ==
  /\ pc = "reclose" =>
       /\ state = "OPEN" /\ ~link /\ answer # "OK"
       /\ NoLine(wire, Kinds \ {"ERROR"})
  /\ pc = "closing" /\ module # "CLOSE" =>
       ~link /\ (IF answer = Null THEN LastLine(wire, Answers) ELSE wire = <<>>)

\* What the server has sent is on its way or arrived.
StreamInv ==
  /\ Len(stream) <= Len(source)
  /\ stream = SubSeq(source, Len(source) - Len(stream) + 1, Len(source))
  /\ Split(source, Len(source) - Len(stream), taken \o recvpkt_list, wire)

\* The inductive invariant of a socket.
SInv ==
  /\ SocketTypes /\ CallInv /\ WaitInv
  /\ trouble # "late" => AnswerInv /\ SendInv /\ LinkInv /\ StartInv /\ CloseInv
  /\ trouble \in {"none", "cut"} /\ state # "NONE" /\ pc # "closing" => StreamInv

-----------------------------------------------------------------------------
(* Troubles, and sequences of lines.                                       *)

\* The order of the troubles.
LEMMA Degrees ==
  Degree("none") = 1 /\ Degree("cut") = 2 /\ Degree("gap") = 3 /\ Degree("late") = 4
<1>1. /\ DOMAIN Troubles = 1..4 /\ Troubles[1] = "none" /\ Troubles[2] = "cut"
      /\ Troubles[3] = "gap" /\ Troubles[4] = "late"
  BY DEF Troubles
<1>2. \A i \in 1..4 : i = 1 \/ i = 2 \/ i = 3 \/ i = 4
  OBVIOUS
<1>. QED BY <1>1, <1>2 DEF Degree

\* What the history still follows.
LEMMA UpToTrouble ==
  ASSUME SocketTypeOK
  PROVE  /\ UpTo("cut") <=> trouble \in {"none", "cut"}
         /\ UpTo("gap") <=> trouble # "late"
BY Degrees DEF SocketTypeOK, UpTo

\* The worst is kept.
LEMMA WorstKept ==
  ASSUME SocketTypeOK
  PROVE  /\ Happened("cut") =>
              trouble' = IF trouble = "none" THEN "cut" ELSE trouble
         /\ Happened("gap") =>
              trouble' = IF trouble = "late" THEN "late" ELSE "gap"
         /\ Happened("late") => trouble' = "late"
BY Degrees DEF SocketTypeOK, Happened

\* at_obj_exec_cmd returns the answer, or gives up.
LEMMA OutcomeIs ==
  ASSUME SocketTypeOK, NEW r, Outcome(r)
  PROVE  \/ answer # Null /\ r = answer /\ trouble' = trouble
         \/ answer = Null /\ r = "ERROR" /\ trouble' = "late"
BY WorstKept DEF Outcome

\* A line is added to what the module has sent.
LEMMA SaidLine ==
  ASSUME NEW w \in Seq(Lines), NEW l \in Lines
  PROVE  /\ w \o <<l>> \in Seq(Lines) /\ w \o <<l>> # <<>>
         /\ Len(w \o <<l>>) = Len(w) + 1
         /\ \A i \in 1..Len(w) : (w \o <<l>>)[i] = w[i]
         /\ (w \o <<l>>)[Len(w) + 1] = l
<1>1. <<l>> \in Seq(Lines) /\ Len(<<l>>) = 1 /\ <<l>>[1] = l /\ Len(w) \in Nat
  OBVIOUS
<1>2. /\ w \o <<l>> \in Seq(Lines) /\ Len(w \o <<l>>) = Len(w) + 1
      /\ \A i \in 1..(Len(w) + 1) : (w \o <<l>>)[i] =
           IF i <= Len(w) THEN w[i] ELSE <<l>>[i - Len(w)]
  BY <1>1, ConcatProperties
<1>3. (w \o <<l>>)[Len(w) + 1] = l
  BY <1>1, <1>2
<1>4. w \o <<l>> # <<>>
  BY <1>1, <1>2
<1>. QED BY <1>1, <1>2, <1>3, <1>4

\* It is of a group, or leaves the group without lines.
LEMMA SaidNoLine ==
  ASSUME NEW w \in Seq(Lines), NEW l \in Lines, NEW K
  PROVE  NoLine(w \o <<l>>, K) <=> NoLine(w, K) /\ l.kind \notin K
<1>1. Len(w) \in Nat /\ \A i \in 1..(Len(w) + 1) : i \in 1..Len(w) \/ i = Len(w) + 1
  OBVIOUS
<1>. QED BY <1>1, SaidLine DEF NoLine

\* One line of a group stays one, or becomes one.
LEMMA SaidOneLine ==
  ASSUME NEW w \in Seq(Lines), NEW l \in Lines, NEW K
  PROVE  /\ OneLine(w, K) /\ l.kind \notin K => OneLine(w \o <<l>>, K)
         /\ NoLine(w, K) /\ l.kind \in K => OneLine(w \o <<l>>, K)
<1>1. Len(w) \in Nat /\ \A i \in 1..(Len(w) + 1) : i \in 1..Len(w) \/ i = Len(w) + 1
  OBVIOUS
<1>2. ASSUME NEW i \in 1..Len(w), w[i].kind \in K, l.kind \notin K,
             \A j \in 1..Len(w) : w[j].kind \in K => j = i
      PROVE  OneLine(w \o <<l>>, K)
  BY <1>1, <1>2, SaidLine DEF OneLine
<1>3. ASSUME NoLine(w, K), l.kind \in K
      PROVE  OneLine(w \o <<l>>, K)
  BY <1>1, <1>3, SaidLine DEF OneLine, NoLine
<1>. QED BY <1>2, <1>3 DEF OneLine

\* The line that is added is the last.
LEMMA SaidLast ==
  ASSUME NEW w \in Seq(Lines), NEW l \in Lines, NEW K, l.kind \in K
  PROVE  LastLine(w \o <<l>>, K)
BY SaidLine DEF LastLine

\* A line after the notice of the end is none of the link.
LEMMA SaidClosedLast ==
  ASSUME NEW w \in Seq(Lines), NEW l \in Lines, ClosedLast(w),
         NoLine(w, {"CLOSED"}) \/ l.kind \notin Notices
  PROVE  ClosedLast(w \o <<l>>)
<1>1. Len(w) \in Nat /\ \A i \in 1..(Len(w) + 1) : i \in 1..Len(w) \/ i = Len(w) + 1
  OBVIOUS
<1>2. SUFFICES ASSUME NEW i \in 1..(Len(w) + 1), NEW j \in 1..(Len(w) + 1),
                      (w \o <<l>>)[i].kind = "CLOSED", i < j
               PROVE  (w \o <<l>>)[j].kind \notin Notices
  BY SaidLine DEF ClosedLast
<1>3. i \in 1..Len(w) /\ w[i].kind = "CLOSED"
  BY <1>1, <1>2, SaidLine
<1>4. CASE j \in 1..Len(w)
  BY <1>2, <1>3, <1>4, SaidLine DEF ClosedLast
<1>5. CASE j = Len(w) + 1
  BY <1>3, <1>5, SaidLine DEF NoLine
<1>. QED BY <1>1, <1>4, <1>5

\* A line is taken off.
LEMMA ReadLine ==
  ASSUME NEW w \in Seq(Lines), w # <<>>
  PROVE  /\ Len(w) \in Nat \ {0} /\ Head(w) = w[1] /\ Head(w) \in Lines
         /\ Tail(w) \in Seq(Lines) /\ Len(Tail(w)) = Len(w) - 1
         /\ \A i \in 1..Len(Tail(w)) : Tail(w)[i] = w[i + 1] /\ i + 1 \in 1..Len(w)
<1>1. /\ Head(w) \in Lines /\ Tail(w) \in Seq(Lines) /\ Len(Tail(w)) = Len(w) - 1
      /\ \A i \in 1..Len(Tail(w)) : Tail(w)[i] = w[i + 1]
  BY HeadTailProperties
<1>2. Len(w) \in Nat \ {0} /\ Head(w) = w[1]
  OBVIOUS
<1>3. \A i \in 1..(Len(w) - 1) : i + 1 \in 1..Len(w)
  BY <1>2
<1>. QED BY <1>1, <1>2, <1>3

\* A group without lines stays without.
LEMMA ReadNoLine ==
  ASSUME NEW w \in Seq(Lines), w # <<>>, NEW K, NoLine(w, K)
  PROVE  NoLine(Tail(w), K) /\ Head(w).kind \notin K
<1>1. 1 \in 1..Len(w)
  BY ReadLine
<1>. QED BY <1>1, ReadLine DEF NoLine

\* The one line of a group is read, or still to come.
LEMMA ReadOneLine ==
  ASSUME NEW w \in Seq(Lines), w # <<>>, NEW K, OneLine(w, K)
  PROVE  IF Head(w).kind \in K THEN NoLine(Tail(w), K) ELSE OneLine(Tail(w), K)
<1>1. PICK i \in 1..Len(w) : /\ w[i].kind \in K
                             /\ \A j \in 1..Len(w) : w[j].kind \in K => j = i
  BY DEF OneLine
<1>2. 1 \in 1..Len(w) /\ Len(w) \in Nat
  BY ReadLine
<1>3. CASE Head(w).kind \in K
  <2>1. i = 1
    BY <1>1, <1>2, <1>3, ReadLine
  <2>2. ASSUME NEW j \in 1..Len(Tail(w))
        PROVE  Tail(w)[j].kind \notin K
    <3>1. Tail(w)[j] = w[j + 1] /\ j + 1 \in 1..Len(w) /\ j + 1 # 1
      BY ReadLine
    <3>. QED BY <1>1, <2>1, <3>1
  <2>. QED BY <1>3, <2>2 DEF NoLine
<1>4. CASE Head(w).kind \notin K
  <2>1. i # 1
    BY <1>1, <1>4, ReadLine
  <2>2. i - 1 \in 1..Len(Tail(w)) /\ Tail(w)[i - 1] = w[i]
    <3>1. i - 1 \in 1..(Len(w) - 1) /\ i - 1 + 1 = i
      BY <1>2, <2>1
    <3>. QED BY <3>1, ReadLine
  <2>3. ASSUME NEW j \in 1..Len(Tail(w)), Tail(w)[j].kind \in K
        PROVE  j = i - 1
    <3>1. Tail(w)[j] = w[j + 1] /\ j + 1 \in 1..Len(w)
      BY ReadLine
    <3>2. j + 1 = i
      BY <1>1, <2>3, <3>1
    <3>. QED BY <3>2
  <2>. QED BY <1>1, <1>4, <2>2, <2>3 DEF OneLine
<1>. QED BY <1>3, <1>4

\* The last line stays the last, until it is read.
LEMMA ReadLast ==
  ASSUME NEW w \in Seq(Lines), NEW K, LastLine(w, K)
  PROVE  /\ w # <<>>
         /\ OneLine(w, K) /\ Head(w).kind \in K => Tail(w) = <<>>
         /\ Head(w).kind \notin K => LastLine(Tail(w), K)
<1>1. w # <<>> /\ w[Len(w)].kind \in K
  BY DEF LastLine
<1>2. Len(w) \in Nat \ {0} /\ 1 \in 1..Len(w) /\ Len(w) \in 1..Len(w)
  BY <1>1, ReadLine
<1>3. ASSUME OneLine(w, K), Head(w).kind \in K
      PROVE  Tail(w) = <<>>
  <2>1. Len(w) = 1
    BY <1>1, <1>2, <1>3, ReadLine DEF OneLine
  <2>2. Tail(w) \in Seq(Lines) /\ Len(Tail(w)) = 0
    BY <1>1, <2>1, ReadLine
  <2>. QED BY <2>2, EmptySeq
<1>4. ASSUME Head(w).kind \notin K
      PROVE  LastLine(Tail(w), K)
  <2>1. Len(w) # 1
    BY <1>1, <1>4, ReadLine
  <2>2. Len(w) - 1 \in 1..(Len(w) - 1) /\ Len(w) - 1 + 1 = Len(w)
    <3>. DEFINE n == Len(w)
    <3>1. n \in Nat \ {0, 1}
      BY <1>2, <2>1
    <3>. HIDE DEF n
    <3>2. n - 1 \in 1..(n - 1) /\ n - 1 + 1 = n
      BY <3>1
    <3>. QED BY <3>2 DEF n
  <2>3. /\ Tail(w)[Len(Tail(w))] = w[Len(w)] /\ Len(Tail(w)) # 0
        /\ Tail(w) \in Seq(Lines)
    BY <1>1, <2>2, ReadLine
  <2>4. Tail(w) # <<>>
    BY <2>3, EmptySeq
  <2>. QED BY <1>1, <2>3, <2>4 DEF LastLine
<1>. QED BY <1>1, <1>3, <1>4

\* Nothing of the link comes after the notice of its end.
LEMMA ReadClosedLast ==
  ASSUME NEW w \in Seq(Lines), w # <<>>, ClosedLast(w)
  PROVE  /\ ClosedLast(Tail(w))
         /\ Head(w).kind = "CLOSED" => NoLine(Tail(w), Notices)
<1>1. \A i, j \in 1..Len(Tail(w)) : i < j => i + 1 < j + 1
  BY ReadLine
<1>2. ClosedLast(Tail(w))
  BY <1>1, ReadLine DEF ClosedLast
<1>3. 1 \in 1..Len(w) /\ \A i \in 1..Len(Tail(w)) : 1 < i + 1
  BY ReadLine
<1>4. Head(w).kind = "CLOSED" => NoLine(Tail(w), Notices)
  BY <1>3, ReadLine DEF ClosedLast, NoLine
<1>. QED BY <1>2, <1>4

\* A line of no kind is no line.
LEMMA NoKindNoLine ==
  ASSUME NEW w \in Seq(Lines), NEW K, NEW L, NoLine(w, K), NoLine(w, L),
         Kinds \subseteq K \cup L
  PROVE  w = <<>>
<1>1. ASSUME w # <<>> PROVE FALSE
  <2>1. 1 \in 1..Len(w) /\ w[1] \in Lines
    BY <1>1, ReadLine
  <2>2. w[1].kind \in Kinds
    BY <2>1 DEF Lines
  <2>. QED BY <2>1, <2>2 DEF NoLine
<1>. QED BY <1>1

\* A line is of fewer kinds.
LEMMA FewerKinds ==
  ASSUME NEW w, NEW K, NEW L, NoLine(w, K), L \subseteq K
  PROVE  NoLine(w, L)
BY DEF NoLine

\* An empty line holds nothing of any kind.
LEMMA EmptyLine ==
  ASSUME NEW K
  PROVE  NoLine(<<>>, K) /\ ClosedLast(<<>>)
BY DEF NoLine, ClosedLast

-----------------------------------------------------------------------------
(* The split of a stream.                                                  *)

\* The beginning of a stream goes on where it ends.
LEMMA Adjacent ==
  ASSUME NEW src \in Seq(Units), NEW a \in Nat, NEW b \in Nat, a <= b, b <= Len(src)
  PROVE  SubSeq(src, 1, a) \o SubSeq(src, a + 1, b) = SubSeq(src, 1, b)
<1>1. Len(src) \in Nat
  OBVIOUS
<1>2. 1 \in 1..(Len(src) + 1) /\ a \in (1 - 1)..Len(src) /\ b \in a..Len(src)
  BY <1>1
<1>. QED BY <1>2, ConcatAdjacentSubSeq

\* What recv copies out of the list moves no border.
LEMMA TakeSplit ==
  ASSUME NEW m \in Nat, NEW list \in Seq(Units), NEW got \in Seq(Units), m <= Len(list)
  PROVE  (got \o SubSeq(list, 1, m)) \o SubSeq(list, m + 1, Len(list)) = got \o list
<1>1. Len(list) \in Nat /\ \A i \in 1..Len(list) : list[i] \in Units
  OBVIOUS
<1>2. SubSeq(list, 1, m) \in Seq(Units) /\ SubSeq(list, m + 1, Len(list)) \in Seq(Units)
  BY <1>1, SubSeqProperties
<1>3. SubSeq(list, 1, m) \o SubSeq(list, m + 1, Len(list)) = SubSeq(list, 1, Len(list))
  <2>1. Len(list) <= Len(list)
    BY <1>1
  <2>. QED BY <1>1, <2>1, Adjacent
<1>4. SubSeq(list, 1, Len(list)) = list
  BY SubSeqFull
<1>. DEFINE a == SubSeq(list, 1, m)
            b == SubSeq(list, m + 1, Len(list))
<1>5. a \in Seq(Units) /\ b \in Seq(Units)
  BY <1>2
<1>6. a \o b = list
  BY <1>3, <1>4
<1>. HIDE DEF a, b
<1>7. (got \o a) \o b = got \o (a \o b)
  BY <1>5, ConcatAssociative
<1>8. (got \o a) \o b = got \o list
  BY <1>6, <1>7
<1>. QED BY <1>8 DEF a, b

\* The first line of the split follows what was got.
LEMMA ReadSplit ==
  ASSUME NEW src \in Seq(Units), NEW n \in 0..Len(src), NEW got \in Seq(Units),
         NEW w \in Seq(Lines), w # <<>>, Split(src, n, got, w)
  PROVE  Split(src, n, got \o Head(w).data, Tail(w))
<1>. DEFINE L == Len(w)
<1>1. /\ L \in Nat \ {0} /\ Head(w) = w[1] /\ Len(Tail(w)) = L - 1
      /\ \A i \in 1..(L - 1) : Tail(w)[i] = w[i + 1] /\ i + 1 \in 1..L
  BY ReadLine
<1>2. PICK cut \in [0..L -> Len(got)..n] :
        /\ got = SubSeq(src, 1, cut[0])
        /\ \A i \in 1..L : w[i].data = SubSeq(src, cut[i - 1] + 1, cut[i])
        /\ \A i, j \in 0..L : i <= j => cut[i] <= cut[j]
        /\ cut[L] = n
  BY DEF Split
<1>. HIDE DEF L
<1>3. /\ cut[0] \in Nat /\ cut[1] \in Nat /\ cut[0] <= cut[1] /\ cut[1] <= n
      /\ Len(got) \in Nat /\ n \in Nat /\ Len(src) \in Nat /\ n <= Len(src)
      /\ \A i \in 0..L : cut[i] \in Nat /\ cut[i] <= n
  <2>1. Len(got) \in Nat /\ n \in Nat /\ Len(src) \in Nat /\ n <= Len(src)
    OBVIOUS
  <2>2. 0 \in 0..L /\ 1 \in 0..L /\ 0 <= 1
    BY <1>1
  <2>3. \A i \in 0..L : cut[i] \in Len(got)..n
    BY <1>2
  <2>4. \A i \in 0..L : cut[i] \in Nat /\ cut[i] <= n
    BY <2>1, <2>3
  <2>5. cut[0] <= cut[1]
    BY <1>2, <2>2
  <2>. QED BY <2>1, <2>2, <2>4, <2>5
<1>4. /\ got \o Head(w).data = SubSeq(src, 1, cut[1])
      /\ Len(got \o Head(w).data) = cut[1]
  <2>1. w[1].data = SubSeq(src, cut[0] + 1, cut[1])
    <3>1. 1 \in 1..L
      BY <1>1
    <3>2. w[1].data = SubSeq(src, cut[1 - 1] + 1, cut[1])
      BY <1>2, <3>1
    <3>. QED BY <3>2
  <2>2. SubSeq(src, 1, cut[0]) \o SubSeq(src, cut[0] + 1, cut[1]) = SubSeq(src, 1, cut[1])
    <3>1. cut[1] <= Len(src)
      BY <1>3
    <3>. QED BY <1>3, <3>1, Adjacent
  <2>3. Len(SubSeq(src, 1, cut[1])) = cut[1]
    <3>1. \A i \in 1..cut[1] : src[i] \in Units
      BY <1>3
    <3>2. Len(SubSeq(src, 1, cut[1])) = IF 1 <= cut[1] THEN cut[1] - 1 + 1 ELSE 0
      BY <1>3, <3>1, SubSeqProperties
    <3>. QED BY <1>3, <3>2
  <2>. QED BY <1>1, <1>2, <2>1, <2>2, <2>3
<1>. DEFINE new == [i \in 0..(L - 1) |-> cut[i + 1]]
<1>5. \A i \in 0..(L - 1) : i + 1 \in 0..L /\ 1 <= i + 1
  BY <1>1
<1>6. \A i \in 0..(L - 1) : cut[1] <= cut[i + 1]
  <2>1. 1 \in 0..L
    BY <1>1
  <2>. QED BY <1>2, <1>5, <2>1
<1>7. new \in [0..(L - 1) -> cut[1]..n]
  BY <1>3, <1>5, <1>6
<1>8. new[0] = cut[1] /\ new[L - 1] = n
  <2>1. 0 \in 0..(L - 1) /\ L - 1 \in 0..(L - 1) /\ L - 1 + 1 = L /\ 0 + 1 = 1
    BY <1>1
  <2>. QED BY <1>2, <2>1
<1>9. \A i \in 1..(L - 1) : Tail(w)[i].data = SubSeq(src, new[i - 1] + 1, new[i])
  <2>1. SUFFICES ASSUME NEW i \in 1..(L - 1)
                 PROVE  Tail(w)[i].data = SubSeq(src, new[i - 1] + 1, new[i])
    OBVIOUS
  <2>2. /\ i \in 0..(L - 1) /\ i - 1 \in 0..(L - 1) /\ i - 1 + 1 = i /\ i + 1 - 1 = i
        /\ i + 1 \in 1..L
    BY <1>1
  <2>3. new[i] = cut[i + 1] /\ new[i - 1] = cut[i]
    BY <2>2
  <2>4. w[i + 1].data = SubSeq(src, cut[i] + 1, cut[i + 1])
    BY <1>2, <2>2
  <2>. QED BY <1>1, <2>3, <2>4
<1>10. \A i, j \in 0..(L - 1) : i <= j => new[i] <= new[j]
  <2>1. \A i, j \in 0..(L - 1) : i <= j => i + 1 <= j + 1
    BY <1>1
  <2>. QED BY <1>2, <1>5, <2>1
<1>. HIDE DEF new
<1>. QED BY <1>1, <1>4, <1>7, <1>8, <1>9, <1>10 DEF Split

\* A line is added whose data follow.
LEMMA SaidSplit ==
  ASSUME NEW src \in Seq(Units), NEW n \in 0..Len(src), NEW m \in n..Len(src),
         NEW got \in Seq(Units), NEW w \in Seq(Lines), NEW l \in Lines,
         Split(src, n, got, w), l.data = SubSeq(src, n + 1, m)
  PROVE  Split(src, m, got, w \o <<l>>)
<1>. DEFINE L == Len(w)
            v == w \o <<l>>
<1>1. /\ L \in Nat /\ Len(v) = L + 1 /\ v[L + 1] = l
      /\ \A i \in 1..L : v[i] = w[i]
  BY SaidLine
<1>2. PICK cut \in [0..L -> Len(got)..n] :
        /\ got = SubSeq(src, 1, cut[0])
        /\ \A i \in 1..L : w[i].data = SubSeq(src, cut[i - 1] + 1, cut[i])
        /\ \A i, j \in 0..L : i <= j => cut[i] <= cut[j]
        /\ cut[L] = n
  BY DEF Split
<1>. HIDE DEF L, v
<1>3. /\ Len(got) \in Nat /\ n \in Nat /\ m \in Nat /\ n <= m
      /\ L \in 0..L /\ Len(got) <= n
      /\ \A i \in 0..L : cut[i] \in Len(got)..n
  <2>1. Len(got) \in Nat /\ n \in Nat /\ m \in Nat /\ n <= m
    OBVIOUS
  <2>2. L \in 0..L
    BY <1>1
  <2>3. \A i \in 0..L : cut[i] \in Len(got)..n
    BY <1>2
  <2>4. Len(got) <= n
    BY <1>2, <2>1, <2>2, <2>3
  <2>. QED BY <2>1, <2>2, <2>3, <2>4
<1>. DEFINE new == [i \in 0..(L + 1) |-> IF i <= L THEN cut[i] ELSE m]
<1>4. /\ \A i \in 0..L : i \in 0..(L + 1) /\ i <= L
      /\ \A i \in 0..(L + 1) : i \in 0..L \/ i = L + 1
      /\ L + 1 \in 0..(L + 1) /\ ~(L + 1 <= L)
  BY <1>1
<1>5. (\A i \in 0..L : new[i] = cut[i]) /\ new[L + 1] = m
  BY <1>4
<1>6. new \in [0..(L + 1) -> Len(got)..m]
  BY <1>3, <1>4
<1>. HIDE DEF new
<1>7. \A i \in 1..(L + 1) : v[i].data = SubSeq(src, new[i - 1] + 1, new[i])
  <2>1. ASSUME NEW i \in 1..L
        PROVE  v[i].data = SubSeq(src, new[i - 1] + 1, new[i])
    <3>1. i \in 0..L /\ i - 1 \in 0..L
      BY <1>1
    <3>2. new[i] = cut[i] /\ new[i - 1] = cut[i - 1]
      BY <1>5, <3>1
    <3>. QED BY <1>1, <1>2, <3>2
  <2>3. SUFFICES ASSUME NEW i \in 1..(L + 1)
                 PROVE  v[i].data = SubSeq(src, new[i - 1] + 1, new[i])
    OBVIOUS
  <2>4. CASE i \in 1..L
    BY <2>1, <2>4
  <2>5. CASE i = L + 1
    <3>1. i - 1 = L /\ i - 1 \in 0..L
      BY <1>1, <2>5
    <3>2. new[i - 1] = n
      BY <1>2, <1>5, <3>1
    <3>. QED BY <1>1, <1>5, <2>5, <3>2
  <2>. QED BY <1>1, <2>4, <2>5
<1>8. \A i, j \in 0..(L + 1) : i <= j => new[i] <= new[j]
  <2>1. SUFFICES ASSUME NEW i \in 0..(L + 1), NEW j \in 0..(L + 1), i <= j
                 PROVE  new[i] <= new[j]
    OBVIOUS
  <2>2. CASE j \in 0..L
    <3>1. i \in 0..L
      BY <1>1, <2>1, <2>2
    <3>. QED BY <1>2, <1>5, <2>1, <2>2, <3>1
  <2>3. CASE j = L + 1
    <3>1. CASE i \in 0..L
      <4>1. cut[i] \in Int /\ cut[i] <= n
        BY <1>3, <3>1
      <4>. QED BY <1>3, <1>5, <2>3, <3>1, <4>1
    <3>2. CASE i = L + 1
      BY <1>3, <1>5, <2>3, <3>2
    <3>. QED BY <1>4, <3>1, <3>2
  <2>. QED BY <1>4, <2>2, <2>3
<1>9. new[0] = cut[0]
  <2>1. 0 \in 0..L
    BY <1>1
  <2>. QED BY <1>5, <2>1
<1>. QED BY <1>1, <1>2, <1>5, <1>6, <1>7, <1>8, <1>9 DEF Split, v

\* Nothing on the line: all there was is got.
LEMMA EmptySplit ==
  ASSUME NEW src \in Seq(Units)
  PROVE  Split(src, 0, <<>>, <<>>)
<1>. DEFINE cut == [i \in 0..0 |-> 0]
<1>1. Len(<<>>) = 0 /\ cut \in [0..0 -> 0..0] /\ cut[0] = 0
  OBVIOUS
<1>2. SubSeq(src, 1, 0) = <<>>
  BY SubSeqEmpty
<1>3. \A i, j \in 0..0 : i <= j => cut[i] <= cut[j]
  OBVIOUS
<1>4. \A i \in 1..0 : FALSE
  OBVIOUS
<1>. HIDE DEF cut
<1>. QED BY <1>1, <1>2, <1>3, <1>4 DEF Split

-----------------------------------------------------------------------------
(* Each step of a call preserves the invariant.                            *)

\* What a call returns besides data, and the lines without data.
LEMMA PlainRecords ==
  /\ \A k \in {"ok", "fail", "closed", "timeout"} : Is(k) \in Results
  /\ \A k \in Kinds : Is(k) \in Lines /\ Is(k).kind = k /\ Is(k).data = <<>>
  /\ \A d \in Seq(Units) : IPD(d) \in Lines /\ IPD(d).kind = "IPD" /\ IPD(d).data = d
<1>1. <<>> \in Seq(Units)
  BY EmptySeq
<1>. QED BY <1>1 DEF Is, IPD, Results, Lines, Kinds

\* The stream is where it was.
LEMMA StreamKept ==
  ASSUME StreamInv, UNCHANGED <<source, stream, wire>>,
         taken' \o recvpkt_list' = taken \o recvpkt_list
  PROVE  StreamInv'
BY DEF StreamInv

\* The parts of the invariant, as a step finds them.
LEMMA Parts ==
  ASSUME SInv
  PROVE  /\ SocketTypes /\ SocketTypeOK /\ CallInv /\ WaitInv
         /\ trouble # "late" => AnswerInv /\ SendInv /\ LinkInv /\ StartInv /\ CloseInv
         /\ UpTo("gap") <=> trouble # "late"
         /\ UpTo("cut") <=> trouble \in {"none", "cut"}
BY UpToTrouble DEF SInv, SocketTypes

\* A connection is there, refused, or given up.
LEMMA StartedStep ==
  ASSUME SInv, Started
  PROVE  SInv'
<1>. USE DEF Started
<1>1. PICK r \in {"OK", "ERROR"} :
        /\ Outcome(r)
        /\ \/ /\ r = "OK"
              /\ state' = "CONNECT" /\ at_evt_cb_set' = CallbacksAfter
              /\ Return(Is("ok")) /\ UNCHANGED <<module, answer>>
           \/ /\ r # "OK" /\ ~retryed
              /\ Issue("CLOSE") /\ pc' = "reclose"
              /\ UNCHANGED <<state, at_evt_cb_set, ret>>
           \/ /\ r # "OK" /\ retryed
              /\ Return(Is("fail"))
              /\ UNCHANGED <<state, at_evt_cb_set, module, answer>>
  OBVIOUS
<1>2. \/ answer # Null /\ r = answer /\ trouble' = trouble
      \/ answer = Null /\ r = "ERROR" /\ trouble' = "late"
  BY <1>1, OutcomeIs, Parts
<1>3. /\ pc = "start" /\ state \in {"OPEN", "CLOSED"}
      /\ UNCHANGED <<recvpkt_list, recv_notice, socket_event, want, link, wire,
                     source, stream, asked, taken>>
  BY Parts DEF CallInv
<1>. HIDE DEF Started
<1>4. SocketTypes'
  BY <1>1, <1>2, <1>3, Parts, PlainRecords
  DEF SocketTypes, SocketTypeOK, States, Calls, Return, Issue, CallbacksAfter
<1>5. CallInv' /\ WaitInv'
  BY <1>1, <1>3 DEF CallInv, WaitInv, Return
<1>6. ASSUME trouble' # "late"
      PROVE  AnswerInv' /\ SendInv' /\ LinkInv' /\ StartInv' /\ CloseInv'
  <2>1. /\ r = answer /\ answer # Null /\ AnswerInv /\ SendInv /\ LinkInv /\ StartInv
        /\ NoLine(wire, Answers) /\ module = Null /\ wire \in Seq(Lines)
        /\ NoLine(wire, Sends) /\ socket_event = {}
    BY <1>2, <1>3, <1>6, Parts
    DEF AnswerInv, SendInv, Issued, Executed, Commands, SocketTypes
  <2>2. CASE r = "OK"
    BY <1>1, <1>3, <2>1, <2>2
    DEF AnswerInv, SendInv, LinkInv, StartInv, CloseInv, Return, Commands
  <2>3. CASE r = "ERROR"
    <3>1. state = "OPEN" /\ ~link /\ NoLine(wire, Kinds \ {"ERROR"})
      BY <1>3, <2>1, <2>3, NullAssumption DEF StartInv
    <3>2. wire = <<>>
      BY <2>1, <3>1, NoKindNoLine DEF Kinds, Answers
    <3>3. CASE pc' = "reclose"
      BY <1>1, <1>3, <2>1, <2>3, <3>1, <3>2, <3>3, NullAssumption
      DEF AnswerInv, SendInv, LinkInv, StartInv, CloseInv, Return, Issue, Commands,
          Issued
    <3>4. CASE pc' = "idle"
      BY <1>1, <1>3, <2>1, <2>3, <3>1, <3>2, <3>4, NullAssumption
      DEF AnswerInv, SendInv, LinkInv, StartInv, CloseInv, Return, Issue, Commands
    <3>. QED BY <1>1, <2>3, <3>3, <3>4 DEF Return
  <2>. QED BY <1>1, <2>2, <2>3
<1>7. ASSUME trouble' \in {"none", "cut"} PROVE StreamInv'
  BY <1>2, <1>3, <1>7, StreamKept DEF SInv
<1>. QED BY <1>4, <1>5, <1>6, <1>7 DEF SInv

\* There was nothing to close: there is no second try.
LEMMA ReclosedStep ==
  ASSUME SInv, Reclosed
  PROVE  SInv'
<1>1. PICK r \in {"OK", "ERROR"} :
        /\ Outcome(r)
        /\ IF r = "OK"
           THEN Issue("START") /\ retryed' = TRUE /\ pc' = "start" /\ UNCHANGED ret
           ELSE Return(Is("fail")) /\ UNCHANGED <<module, answer, retryed>>
  BY DEF Reclosed
<1>2. \/ answer # Null /\ r = answer /\ trouble' = trouble
      \/ answer = Null /\ r = "ERROR" /\ trouble' = "late"
  BY <1>1, OutcomeIs, Parts
<1>3. /\ pc = "reclose" /\ state \in {"OPEN", "CLOSED"}
      /\ UNCHANGED <<sockVars, want, link, wire, source, stream, asked, taken>>
  BY Parts DEF CallInv, Reclosed
<1>. USE DEF sockVars
<1>4. SocketTypes'
  BY <1>1, <1>2, <1>3, Parts, PlainRecords
  DEF SocketTypes, SocketTypeOK, Calls, Return, Issue
<1>5. CallInv' /\ WaitInv'
  BY <1>1, <1>3 DEF CallInv, WaitInv, Return
<1>6. ASSUME trouble' # "late"
      PROVE  AnswerInv' /\ SendInv' /\ LinkInv' /\ StartInv' /\ CloseInv'
  <2>1. /\ r = answer /\ answer # Null /\ AnswerInv /\ SendInv /\ LinkInv /\ CloseInv
        /\ NoLine(wire, Answers) /\ module = Null /\ wire \in Seq(Lines)
        /\ NoLine(wire, Sends) /\ socket_event = {}
    BY <1>2, <1>3, <1>6, Parts
    DEF AnswerInv, SendInv, Issued, Executed, Commands, SocketTypes
  <2>2. /\ r = "ERROR" /\ pc' = "idle" /\ UNCHANGED <<module, answer>>
        /\ state = "OPEN" /\ ~link /\ NoLine(wire, Kinds \ {"ERROR"})
    BY <1>1, <1>3, <2>1 DEF CloseInv, Return
  <2>3. wire = <<>>
    BY <2>1, <2>2, NoKindNoLine DEF Kinds, Answers
  <2>. QED BY <1>3, <2>1, <2>2, <2>3
       DEF AnswerInv, SendInv, LinkInv, StartInv, CloseInv, Commands
<1>7. ASSUME trouble' \in {"none", "cut"} PROVE StreamInv'
  BY <1>2, <1>3, <1>7, StreamKept DEF SInv
<1>. QED BY <1>4, <1>5, <1>6, <1>7 DEF SInv

\* The module waits for the data, or has none of it.
LEMMA PromptedStep ==
  ASSUME SInv, Prompted
  PROVE  SInv'
<1>1. PICK r \in {"OK", "ERROR"} :
        /\ Outcome(r)
        /\ IF r = "OK"
           THEN /\ module' = IF module = "DATA" THEN "SENT" ELSE module
                /\ pc' = "sendwait" /\ UNCHANGED ret
           ELSE Return(Is("fail")) /\ UNCHANGED module
  BY DEF Prompted
<1>2. \/ answer # Null /\ r = answer /\ trouble' = trouble
      \/ answer = Null /\ r = "ERROR" /\ trouble' = "late"
  BY <1>1, OutcomeIs, Parts
<1>3. /\ pc = "cipsend" /\ state \in {"CONNECT", "CLOSED"}
      /\ UNCHANGED <<sockVars, want, answer, link, wire, source, stream, asked, taken>>
  BY Parts DEF CallInv, Prompted
<1>. USE DEF sockVars
<1>4. SocketTypes'
  BY <1>1, <1>2, <1>3, Parts, PlainRecords
  DEF SocketTypes, SocketTypeOK, Calls, Return
<1>5. CallInv' /\ WaitInv'
  BY <1>1, <1>3 DEF CallInv, WaitInv, Return
<1>6. ASSUME trouble' # "late"
      PROVE  AnswerInv' /\ SendInv' /\ LinkInv' /\ StartInv' /\ CloseInv'
  <2>1. /\ r = answer /\ answer # Null /\ AnswerInv /\ SendInv /\ LinkInv
        /\ NoLine(wire, Answers) /\ Executed
        /\ NoLine(wire, Sends) /\ socket_event = {}
    BY <1>2, <1>3, <1>6, Parts DEF AnswerInv, SendInv, Commands
  <2>2. r = "OK" => module = "DATA"
    BY <1>3, <2>1, NullAssumption DEF SendInv, Executed
  <2>3. r = "ERROR" => module = Null
    BY <1>3, <2>1, NullAssumption DEF SendInv, Executed
  <2>. QED BY <1>1, <1>3, <2>1, <2>2, <2>3
       DEF AnswerInv, SendInv, LinkInv, StartInv, CloseInv, Commands, Return
<1>7. ASSUME trouble' \in {"none", "cut"} PROVE StreamInv'
  BY <1>2, <1>3, <1>7, StreamKept DEF SInv
<1>. QED BY <1>4, <1>5, <1>6, <1>7 DEF SInv

\* The first of the two events of a send.
LEMMA SendSeenStep ==
  ASSUME SInv, SendSeen
  PROVE  SInv'
<1>1. /\ pc = "sendwait" /\ state \in {"CONNECT", "CLOSED"}
      /\ UNCHANGED <<state, recvpkt_list, recv_notice, at_evt_cb_set, want, answer,
                     module, link, wire, source, stream, asked, taken>>
      /\ \/ /\ "socket" \in socket_event
            /\ socket_event' = socket_event \ {"socket"}
            /\ pc' = "sendresult" /\ UNCHANGED <<ret, trouble>>
         \/ /\ Return(Is("fail")) /\ UNCHANGED socket_event
            /\ trouble' = "late"
  BY Parts, WorstKept DEF CallInv, SendSeen, netVars
<1>2. SocketTypes'
  BY <1>1, Parts, PlainRecords DEF SocketTypes, SocketTypeOK, Calls, Return
<1>3. CallInv' /\ WaitInv'
  BY <1>1 DEF CallInv, WaitInv, Return
<1>4. ASSUME trouble' # "late"
      PROVE  AnswerInv' /\ SendInv' /\ LinkInv' /\ StartInv' /\ CloseInv'
  <2>1. /\ AnswerInv /\ SendInv /\ LinkInv
        /\ pc' = "sendresult" /\ trouble' = trouble
        /\ "socket" \in socket_event /\ socket_event' = socket_event \ {"socket"}
    BY <1>1, <1>4, Parts
  <2>2. module = Null /\ NoLine(wire, Sends)
    BY <1>1, <2>1 DEF SendInv
  <2>. QED BY <1>1, <2>1, <2>2
       DEF AnswerInv, SendInv, LinkInv, StartInv, CloseInv, Commands
<1>5. ASSUME trouble' \in {"none", "cut"} PROVE StreamInv'
  BY <1>1, <1>5, StreamKept DEF SInv
<1>. QED BY <1>2, <1>3, <1>4, <1>5 DEF SInv

\* The second; both are used up.
LEMMA SendResultStep ==
  ASSUME SInv, SendResult
  PROVE  SInv'
<1>1. /\ pc = "sendresult" /\ state \in {"CONNECT", "CLOSED"}
      /\ UNCHANGED <<state, recvpkt_list, recv_notice, at_evt_cb_set, want, answer,
                     module, link, wire, source, stream, asked, taken>>
      /\ pc' = "idle" /\ ret' \in {Is("ok"), Is("fail")}
      /\ trouble' \in {trouble, "late"}
      /\ socket_event' = socket_event \ {"OK", "FAIL"}
  BY Parts, WorstKept DEF CallInv, SendResult, netVars, Return
<1>2. SocketTypes'
  BY <1>1, Parts, PlainRecords DEF SocketTypes, SocketTypeOK, Calls
<1>3. CallInv' /\ WaitInv'
  BY <1>1 DEF CallInv, WaitInv
<1>4. ASSUME trouble' # "late"
      PROVE  AnswerInv' /\ SendInv' /\ LinkInv' /\ StartInv' /\ CloseInv'
  <2>1. AnswerInv /\ SendInv /\ LinkInv /\ socket_event \subseteq {"socket", "OK", "FAIL"}
    BY <1>1, <1>4, Parts DEF SocketTypeOK
  <2>2. socket_event' = {}
    BY <1>1, <2>1 DEF SendInv
  <2>. QED BY <1>1, <2>1, <2>2
       DEF AnswerInv, SendInv, LinkInv, StartInv, CloseInv, Commands
<1>5. ASSUME trouble' \in {"none", "cut"} PROVE StreamInv'
  BY <1>1, <1>5, StreamKept DEF SInv
<1>. QED BY <1>2, <1>3, <1>4, <1>5 DEF SInv

\* What stays as it is while recv looks at the list.
RecvKeeps ==
  UNCHANGED <<state, at_evt_cb_set, socket_event, want, answer, module, link, wire,
              source, stream, asked>>

\* In recv there is no command and no request in hand.
LEMMA RecvQuiet ==
  ASSUME SInv, RecvKeeps, pc' \in {"idle", "recvstate", "recvwait"},
         \/ pc \in {"recvstate", "recvwait"}
         \/ pc = "idle" /\ state \in {"CONNECT", "CLOSED"},
         trouble' # "late", trouble # "late"
  PROVE  AnswerInv' /\ SendInv' /\ LinkInv' /\ StartInv' /\ CloseInv'
<1>1. AnswerInv /\ SendInv /\ LinkInv /\ state \in {"CONNECT", "CLOSED"}
  BY Parts DEF CallInv
<1>. QED BY <1>1 DEF RecvKeeps, AnswerInv, SendInv, LinkInv, StartInv, CloseInv, Commands

\* recv returns what it took out of the list.
LEMMA TakenFrom ==
  ASSUME SocketTypes, NEW n \in Nat \ {0}, recvpkt_list # <<>>, Take(n)
  PROVE  /\ recvpkt_list' \in Seq(Units) /\ taken' \in Seq(Units)
         /\ pc' = "idle" /\ ret' \in Results /\ ret'.kind = "data"
         /\ Len(ret'.data) \in 1..n
         /\ UpTo("cut") => /\ taken' \o recvpkt_list' = taken \o recvpkt_list
                           /\ taken' = taken \o ret'.data
<1>. DEFINE m == Smaller(n, Len(recvpkt_list))
            d == SubSeq(recvpkt_list, 1, m)
<1>1. /\ recvpkt_list \in Seq(Units) /\ taken \in Seq(Units)
      /\ Len(recvpkt_list) \in Nat \ {0}
  BY EmptySeq DEF SocketTypes
<1>2. m \in 1..n /\ m \in Nat /\ m <= Len(recvpkt_list)
  BY <1>1 DEF Smaller
<1>3. /\ recvpkt_list' = SubSeq(recvpkt_list, m + 1, Len(recvpkt_list))
      /\ taken' = (IF UpTo("cut") THEN taken \o d ELSE <<>>)
      /\ pc' = "idle" /\ ret' = [kind |-> "data", data |-> d]
  BY DEF Take, Rest, Return
<1>. HIDE DEF m
<1>4. d \in Seq(Units) /\ Len(d) = m
  <2>1. \A i \in 1..m : recvpkt_list[i] \in Units
    BY <1>1, <1>2
  <2>2. d \in Seq(Units) /\ Len(d) = IF 1 <= m THEN m - 1 + 1 ELSE 0
    BY <1>2, <2>1, SubSeqProperties
  <2>. QED BY <1>2, <2>2
<1>5. recvpkt_list' \in Seq(Units)
  <2>1. \A i \in (m + 1)..Len(recvpkt_list) : recvpkt_list[i] \in Units
    BY <1>1, <1>2
  <2>. QED BY <1>1, <1>2, <1>3, <2>1, SubSeqProperties
<1>6. (taken \o d) \o SubSeq(recvpkt_list, m + 1, Len(recvpkt_list)) = taken \o recvpkt_list
  BY <1>1, <1>2, TakeSplit
<1>. HIDE DEF d
<1>7. taken' \in Seq(Units)
  BY <1>1, <1>3, <1>4, EmptySeq, ConcatProperties
<1>8. d # <<>>
  BY <1>2, <1>4, EmptySeq
<1>9. ret' \in Results /\ ret'.kind = "data" /\ ret'.data = d
  BY <1>3, <1>4, <1>8 DEF Results
<1>. QED BY <1>2, <1>3, <1>4, <1>5, <1>6, <1>7, <1>9

\* The state is looked at after the list.
LEMMA RecvStateStep ==
  ASSUME SInv, RecvState
  PROVE  SInv'
<1>1. /\ pc = "recvstate" /\ state \in {"CONNECT", "CLOSED"} /\ RecvKeeps
      /\ UNCHANGED <<recvpkt_list, recv_notice, taken>>
      /\ \/ state = "CLOSED" /\ pc' = "idle" /\ ret' = Is("closed")
         \/ state # "CLOSED" /\ pc' = "recvwait" /\ UNCHANGED ret
  BY Parts DEF CallInv, RecvState, RecvKeeps, ReturnClosed, Return, sockVars, netVars
<1>2. \/ trouble' = trouble
      \/ trouble' = IF trouble = "late" THEN "late" ELSE "gap"
  BY Parts, WorstKept DEF RecvState, ReturnClosed
<1>3. SocketTypes'
  BY <1>1, <1>2, Parts, PlainRecords DEF SocketTypes, SocketTypeOK, Calls, RecvKeeps
<1>4. CallInv' /\ WaitInv'
  BY <1>1, Parts DEF CallInv, WaitInv, RecvKeeps
<1>5. ASSUME trouble' # "late"
      PROVE  AnswerInv' /\ SendInv' /\ LinkInv' /\ StartInv' /\ CloseInv'
  BY <1>1, <1>2, <1>5, RecvQuiet
<1>6. ASSUME trouble' \in {"none", "cut"} PROVE StreamInv'
  BY <1>1, <1>2, <1>6, StreamKept DEF SInv, RecvKeeps
<1>. QED BY <1>3, <1>4, <1>5, <1>6 DEF SInv

\* A notice is used up: by data, by the end, or by data that are gone.
LEMMA RecvTakesStep ==
  ASSUME SInv, RecvTakes
  PROVE  SInv'
<1>1. /\ pc = "recvwait" /\ state \in {"CONNECT", "CLOSED"} /\ RecvKeeps
      /\ recv_notice > 0 /\ recv_notice' = recv_notice - 1
  BY Parts DEF CallInv, RecvTakes, RecvKeeps, netVars
<1>2. SocketTypes /\ want \in Nat \ {0} /\ recv_notice' \in Nat
  BY <1>1, Parts DEF SocketTypes, SocketTypeOK
<1>3. ASSUME state = "CONNECT", recvpkt_list # <<>>, Take(want), UNCHANGED trouble
      PROVE  SInv'
  <2>1. /\ recvpkt_list' \in Seq(Units) /\ taken' \in Seq(Units)
        /\ pc' = "idle" /\ ret' \in Results
        /\ UpTo("cut") => taken' \o recvpkt_list' = taken \o recvpkt_list
    BY <1>2, <1>3, TakenFrom
  <2>2. SocketTypes'
    BY <1>1, <1>2, <1>3, <2>1 DEF SocketTypes, SocketTypeOK, Calls, RecvKeeps
  <2>3. CallInv' /\ WaitInv'
    BY <1>1, <1>3, <2>1 DEF CallInv, WaitInv, RecvKeeps
  <2>4. ASSUME trouble' # "late"
        PROVE  AnswerInv' /\ SendInv' /\ LinkInv' /\ StartInv' /\ CloseInv'
    BY <1>1, <1>3, <2>1, <2>4, RecvQuiet
  <2>5. ASSUME trouble' \in {"none", "cut"} PROVE StreamInv'
    BY <1>1, <1>3, <2>1, <2>5, Parts, StreamKept DEF SInv, RecvKeeps
  <2>. QED BY <2>2, <2>3, <2>4, <2>5 DEF SInv
<1>4. ASSUME state = "CONNECT", recvpkt_list = <<>>,
             UNCHANGED <<recvpkt_list, pc, ret, taken, trouble>>
      PROVE  SInv'
  <2>1. SocketTypes'
    BY <1>1, <1>2, <1>4 DEF SocketTypes, SocketTypeOK, Calls, RecvKeeps
  <2>2. CallInv' /\ WaitInv'
    BY <1>1, <1>4 DEF CallInv, WaitInv, RecvKeeps
  <2>3. ASSUME trouble' # "late"
        PROVE  AnswerInv' /\ SendInv' /\ LinkInv' /\ StartInv' /\ CloseInv'
    BY <1>1, <1>4, <2>3, RecvQuiet
  <2>4. ASSUME trouble' \in {"none", "cut"} PROVE StreamInv'
    BY <1>1, <1>4, <2>4, StreamKept DEF SInv, RecvKeeps
  <2>. QED BY <2>1, <2>2, <2>3, <2>4 DEF SInv
<1>5. ASSUME state # "CONNECT", ReturnClosed, UNCHANGED <<recvpkt_list, taken>>
      PROVE  SInv'
  <2>1. /\ pc' = "idle" /\ ret' = Is("closed")
        /\ \/ trouble' = trouble
           \/ trouble' = IF trouble = "late" THEN "late" ELSE "gap"
    BY <1>5, Parts, WorstKept DEF ReturnClosed, Return
  <2>2. SocketTypes'
    BY <1>1, <1>2, <1>5, <2>1, PlainRecords
    DEF SocketTypes, SocketTypeOK, Calls, RecvKeeps
  <2>3. CallInv' /\ WaitInv'
    BY <1>1, <2>1 DEF CallInv, WaitInv, RecvKeeps
  <2>4. ASSUME trouble' # "late"
        PROVE  AnswerInv' /\ SendInv' /\ LinkInv' /\ StartInv' /\ CloseInv'
    BY <1>1, <2>1, <2>4, RecvQuiet
  <2>5. ASSUME trouble' \in {"none", "cut"} PROVE StreamInv'
    BY <1>1, <1>5, <2>1, <2>5, StreamKept DEF SInv, RecvKeeps
  <2>. QED BY <2>2, <2>3, <2>4, <2>5 DEF SInv
<1>. QED BY <1>3, <1>4, <1>5 DEF RecvTakes

\* recv gives up.
LEMMA RecvTimeoutStep ==
  ASSUME SInv, RecvTimeout
  PROVE  SInv'
<1>1. /\ pc = "recvwait" /\ state \in {"CONNECT", "CLOSED"} /\ RecvKeeps
      /\ UNCHANGED <<recvpkt_list, recv_notice, taken>>
      /\ pc' = "idle" /\ ret' = Is("timeout")
  BY Parts DEF CallInv, RecvTimeout, RecvKeeps, Return, sockVars, netVars
<1>2. trouble' = IF trouble = "none" THEN "cut" ELSE trouble
  BY Parts, WorstKept DEF RecvTimeout
<1>3. SocketTypes'
  BY <1>1, <1>2, Parts, PlainRecords DEF SocketTypes, SocketTypeOK, Calls, RecvKeeps
<1>4. CallInv' /\ WaitInv'
  BY <1>1 DEF CallInv, WaitInv, RecvKeeps
<1>5. ASSUME trouble' # "late"
      PROVE  AnswerInv' /\ SendInv' /\ LinkInv' /\ StartInv' /\ CloseInv'
  BY <1>1, <1>2, <1>5, RecvQuiet
<1>6. ASSUME trouble' \in {"none", "cut"} PROVE StreamInv'
  BY <1>1, <1>2, <1>6, StreamKept DEF SInv, RecvKeeps
<1>. QED BY <1>3, <1>4, <1>5, <1>6 DEF SInv

\* The socket is free.
LEMMA ClosedStep ==
  ASSUME SInv, Closed
  PROVE  SInv'
<1>1. PICK r \in {"OK", "ERROR"} :
        /\ Outcome(r)
        /\ Free /\ Return(Is(IF r = "OK" THEN "ok" ELSE "fail"))
  BY DEF Closed
<1>2. \/ answer # Null /\ r = answer /\ trouble' = trouble
      \/ answer = Null /\ r = "ERROR" /\ trouble' = "late"
  BY <1>1, OutcomeIs, Parts
<1>3. /\ pc = "closing" /\ pc' = "idle" /\ state = "CLOSED" /\ state' = "NONE"
      /\ recvpkt_list' = <<>> /\ recv_notice' = 0
      /\ ret' \in {Is("ok"), Is("fail")}
      /\ UNCHANGED <<at_evt_cb_set, socket_event, want, answer, module, link, wire,
                     source, stream, asked, taken>>
  BY <1>1, Parts DEF CallInv, Closed, Free, Return, netVars
<1>4. SocketTypes'
  BY <1>2, <1>3, Parts, PlainRecords, EmptySeq
  DEF SocketTypes, SocketTypeOK, States, Calls
<1>5. CallInv' /\ WaitInv'
  BY <1>3 DEF CallInv, WaitInv
<1>6. ASSUME trouble' # "late"
      PROVE  AnswerInv' /\ SendInv' /\ LinkInv' /\ StartInv' /\ CloseInv'
  <2>1. /\ answer # Null /\ AnswerInv /\ SendInv /\ LinkInv /\ CloseInv
        /\ NoLine(wire, Answers) /\ module = Null
    BY <1>2, <1>3, <1>6, Parts, NullAssumption DEF AnswerInv, Executed, Issued, Commands
  <2>2. ~link /\ wire = <<>>
    BY <1>3, <2>1, NullAssumption DEF CloseInv
  <2>. QED BY <1>3, <2>1, <2>2, EmptyLine
       DEF AnswerInv, SendInv, LinkInv, StartInv, CloseInv, Commands
<1>. QED BY <1>3, <1>4, <1>5, <1>6 DEF SInv

-----------------------------------------------------------------------------
(* Each call that begins preserves the invariant.                          *)

\* Between two calls nothing is in hand.
LEMMA IdleQuiet ==
  ASSUME SInv, pc = "idle", trouble # "late"
  PROVE  /\ AnswerInv /\ SendInv /\ LinkInv
         /\ module = Null /\ socket_event = {}
         /\ NoLine(wire, Answers) /\ NoLine(wire, Sends)
         /\ state = "NONE" \/ state = "OPEN" => ~link /\ wire = <<>>
         /\ state = "CLOSED" => ~link /\ wire = <<>>
<1>1. AnswerInv /\ SendInv /\ LinkInv /\ wire \in Seq(Lines)
  BY Parts DEF SocketTypes
<1>2. NoLine(wire, Answers) /\ NoLine(wire, Sends) /\ module = Null /\ socket_event = {}
  BY <1>1 DEF AnswerInv, SendInv, Commands
<1>3. ASSUME state = "CLOSED" PROVE ~link /\ wire = <<>>
  <2>1. ~link /\ NoLine(wire, Notices)
    BY <1>1, <1>3 DEF LinkInv
  <2>2. NoLine(wire, Answers \cup Sends)
    BY <1>2 DEF NoLine
  <2>. QED BY <1>1, <2>1, <2>2, NoKindNoLine DEF Kinds, Answers, Sends, Notices
<1>. QED BY <1>1, <1>2, <1>3 DEF LinkInv

\* A command goes to a module that waits for one.
LEMMA IssueIs ==
  ASSUME NEW cmd, Issue(cmd)
  PROVE  /\ answer' = Null
         /\ module = Null => module' = cmd
         /\ module' \in {module, cmd, "SENT"}
BY NullAssumption DEF Issue

\* A socket begins with no connection behind it.
LEMMA SocketStep ==
  ASSUME SInv, Socket, trouble # "late"
  PROVE  SInv'
<1>1. /\ pc = "idle" /\ pc' = "idle" /\ state = "NONE" /\ state' = "OPEN"
      /\ recvpkt_list' = <<>> /\ recv_notice' = 0 /\ ret' = Is("ok") /\ want' = 0
      /\ answer' = Null /\ taken' = <<>>
      /\ UNCHANGED <<at_evt_cb_set, socket_event, module, link, wire, asked>>
  BY DEF Socket, Return
<1>2. ~link /\ wire = <<>> /\ trouble' = "none" /\ source' = <<>> /\ stream' = <<>>
  BY <1>1, IdleQuiet, Parts DEF Socket
<1>3. SocketTypes'
  BY <1>1, <1>2, Parts, PlainRecords, EmptySeq
  DEF SocketTypes, SocketTypeOK, States, Calls
<1>4. CallInv' /\ WaitInv'
  BY <1>1 DEF CallInv, WaitInv
<1>5. AnswerInv' /\ SendInv' /\ LinkInv' /\ StartInv' /\ CloseInv'
  BY <1>1, <1>2, IdleQuiet, EmptyLine
  DEF AnswerInv, SendInv, LinkInv, StartInv, CloseInv, Commands
<1>6. StreamInv'
  <2>1. /\ source' = <<>> /\ source' \in Seq(Units) /\ stream' = <<>>
        /\ taken' = <<>> /\ recvpkt_list' = <<>> /\ wire' = <<>>
    BY <1>1, <1>2, EmptySeq
  <2>2. Len(source') = 0 /\ Len(stream') = 0 /\ Len(source') - Len(stream') = 0
    BY <2>1
  <2>3. taken' \o recvpkt_list' = <<>>
    BY <2>1
  <2>4. stream' = SubSeq(source', 0 + 1, 0)
    BY <2>1
  <2>5. Split(source', 0, <<>>, <<>>)
    BY <2>1, EmptySplit
  <2>6. Split(source', Len(source') - Len(stream'), taken' \o recvpkt_list', wire')
    BY <2>1, <2>2, <2>3, <2>5
  <2>. QED BY <2>2, <2>4, <2>6 DEF StreamInv
<1>. QED BY <1>3, <1>4, <1>5, <1>6 DEF SInv

\* A command to connect goes out, when the socket is open.
LEMMA ConnectStep ==
  ASSUME SInv, Connect, state # "NONE"
  PROVE  SInv'
<1>1. /\ pc = "idle"
      /\ UNCHANGED <<state, recvpkt_list, recv_notice, at_evt_cb_set, socket_event,
                     want, link, wire, source, stream, asked, taken, trouble>>
      /\ \/ /\ state # "OPEN" /\ pc' = "idle" /\ ret' = Is("fail")
            /\ UNCHANGED <<module, answer>>
         \/ /\ state = "OPEN" /\ Issue("START") /\ pc' = "start" /\ UNCHANGED ret
  BY DEF Connect, Return, sockVars
<1>2. SocketTypes'
  BY <1>1, Parts, PlainRecords, IssueIs DEF SocketTypes, SocketTypeOK, Calls
<1>3. CallInv' /\ WaitInv'
  BY <1>1 DEF CallInv, WaitInv
<1>4. ASSUME trouble' # "late"
      PROVE  AnswerInv' /\ SendInv' /\ LinkInv' /\ StartInv' /\ CloseInv'
  <2>1. CASE state # "OPEN"
    BY <1>1, <1>4, <2>1, IdleQuiet
    DEF AnswerInv, SendInv, LinkInv, StartInv, CloseInv, Commands
  <2>2. CASE state = "OPEN"
    <3>1. recvpkt_list = <<>> /\ taken = <<>> /\ ~link /\ wire = <<>> /\ module = Null
      BY <1>1, <1>4, <2>2, IdleQuiet DEF LinkInv
    <3>2. pc' = "start" /\ module' = "START" /\ answer' = Null
      BY <1>1, <2>2, <3>1, IssueIs
    <3>. QED BY <1>1, <1>4, <2>2, <3>1, <3>2, IdleQuiet, EmptyLine
         DEF AnswerInv, SendInv, LinkInv, StartInv, CloseInv, Commands, Issued
  <2>. QED BY <2>1, <2>2
<1>5. ASSUME trouble' \in {"none", "cut"} PROVE StreamInv'
  BY <1>1, <1>5, StreamKept DEF SInv
<1>. QED BY <1>2, <1>3, <1>4, <1>5 DEF SInv

\* A request is announced, unless the server has closed.
LEMMA SendStep ==
  ASSUME SInv, Send, state \in {"CONNECT", "CLOSED"}
  PROVE  SInv'
<1>1. /\ pc = "idle"
      /\ UNCHANGED <<state, recvpkt_list, recv_notice, at_evt_cb_set, socket_event,
                     want, link, wire, source, stream, asked, taken, trouble>>
      /\ \/ /\ state = "CLOSED" /\ pc' = "idle" /\ ret' = Is("closed")
            /\ UNCHANGED <<module, answer>>
         \/ /\ state = "CONNECT" /\ Issue("SEND") /\ pc' = "cipsend" /\ UNCHANGED ret
  BY DEF Send, Return, sockVars
<1>2. SocketTypes'
  BY <1>1, Parts, PlainRecords, IssueIs DEF SocketTypes, SocketTypeOK, Calls
<1>3. CallInv' /\ WaitInv'
  BY <1>1 DEF CallInv, WaitInv
<1>4. ASSUME trouble' # "late"
      PROVE  AnswerInv' /\ SendInv' /\ LinkInv' /\ StartInv' /\ CloseInv'
  <2>1. CASE state = "CLOSED"
    BY <1>1, <1>4, <2>1, IdleQuiet
    DEF AnswerInv, SendInv, LinkInv, StartInv, CloseInv, Commands
  <2>2. CASE state = "CONNECT"
    <3>1. pc' = "cipsend" /\ module' = "SEND" /\ answer' = Null
      BY <1>1, <1>4, <2>2, IdleQuiet, IssueIs
    <3>. QED BY <1>1, <1>4, <2>2, <3>1, IdleQuiet
         DEF AnswerInv, SendInv, LinkInv, StartInv, CloseInv, Commands, Issued
  <2>. QED BY <1>1, <2>1, <2>2
<1>5. ASSUME trouble' \in {"none", "cut"} PROVE StreamInv'
  BY <1>1, <1>5, StreamKept DEF SInv
<1>. QED BY <1>2, <1>3, <1>4, <1>5 DEF SInv

\* recv takes what the list has, or goes on to look at the state.
LEMMA RecvStep ==
  ASSUME SInv, NEW n \in Nat \ {0}, Recv(n), state \in {"CONNECT", "CLOSED"}
  PROVE  SInv'
<1>1. /\ pc = "idle"
      /\ UNCHANGED <<state, recv_notice, at_evt_cb_set, socket_event, answer, module,
                     link, wire, source, stream, asked, trouble>>
      /\ \/ /\ recvpkt_list # <<>> /\ Take(n) /\ UNCHANGED want
         \/ /\ recvpkt_list = <<>> /\ want' = n /\ pc' = "recvstate"
            /\ UNCHANGED <<recvpkt_list, ret, taken>>
  BY DEF Recv, netVars
<1>2. recvpkt_list # <<>> =>
        /\ recvpkt_list' \in Seq(Units) /\ taken' \in Seq(Units)
        /\ pc' = "idle" /\ ret' \in Results
        /\ UpTo("cut") => taken' \o recvpkt_list' = taken \o recvpkt_list
  BY <1>1, Parts, TakenFrom
<1>3. SocketTypes'
  BY <1>1, <1>2, Parts DEF SocketTypes, SocketTypeOK, Calls
<1>4. CallInv' /\ WaitInv'
  BY <1>1, <1>2 DEF CallInv, WaitInv
<1>5. ASSUME trouble' # "late"
      PROVE  AnswerInv' /\ SendInv' /\ LinkInv' /\ StartInv' /\ CloseInv'
  <2>1. pc' \in {"idle", "recvstate"}
    BY <1>1, <1>2
  <2>2. AnswerInv /\ SendInv /\ LinkInv
    BY <1>1, <1>5, IdleQuiet
  <2>. QED BY <1>1, <2>1, <2>2
       DEF AnswerInv, SendInv, LinkInv, StartInv, CloseInv, Commands
<1>6. ASSUME trouble' \in {"none", "cut"} PROVE StreamInv'
  BY <1>1, <1>2, <1>6, Parts, StreamKept DEF SInv
<1>. QED BY <1>3, <1>4, <1>5, <1>6 DEF SInv

\* A socket that the server has closed is free at once.
LEMMA CloseStep ==
  ASSUME SInv, Close
  PROVE  SInv'
<1>1. /\ pc = "idle" /\ state # "NONE"
      /\ UNCHANGED <<at_evt_cb_set, socket_event, want, link, wire, source, stream,
                     asked, taken, trouble>>
      /\ \/ /\ state = "CLOSED" /\ state' = "NONE" /\ recvpkt_list' = <<>>
            /\ recv_notice' = 0 /\ pc' = "idle" /\ ret' = Is("ok")
            /\ UNCHANGED <<module, answer>>
         \/ /\ state # "CLOSED" /\ state' = "CLOSED" /\ Issue("CLOSE")
            /\ pc' = "closing" /\ UNCHANGED <<recvpkt_list, recv_notice, ret>>
  BY DEF Close, Return, Free
<1>2. SocketTypes'
  <2>1. \/ UNCHANGED <<module, answer>>
        \/ answer' = Null /\ module' \in {module, "CLOSE", "SENT"}
    BY <1>1, IssueIs
  <2>2. ret' \in Results /\ recvpkt_list' \in Seq(Units)
    BY <1>1, Parts, PlainRecords, EmptySeq DEF SocketTypes
  <2>3. recv_notice' \in Nat /\ state' \in {"NONE", "CLOSED"} /\ pc' \in {"idle", "closing"}
    BY <1>1, Parts DEF SocketTypes, SocketTypeOK
  <2>. QED BY <1>1, <2>1, <2>2, <2>3, Parts
       DEF SocketTypes, SocketTypeOK, States, Calls
<1>3. CallInv' /\ WaitInv'
  BY <1>1 DEF CallInv, WaitInv
<1>4. ASSUME trouble' # "late"
      PROVE  AnswerInv' /\ SendInv' /\ LinkInv' /\ StartInv' /\ CloseInv'
  <2>1. CASE state = "CLOSED"
    BY <1>1, <1>4, <2>1, IdleQuiet, EmptyLine
    DEF AnswerInv, SendInv, LinkInv, StartInv, CloseInv, Commands
  <2>2. CASE state # "CLOSED"
    <3>1. pc' = "closing" /\ module' = "CLOSE" /\ answer' = Null
      BY <1>1, <1>4, <2>2, IdleQuiet, IssueIs
    <3>. QED BY <1>1, <1>4, <2>2, <3>1, IdleQuiet
         DEF AnswerInv, SendInv, LinkInv, StartInv, CloseInv, Commands, Issued
  <2>. QED BY <2>1, <2>2
<1>. QED BY <1>1, <1>2, <1>3, <1>4 DEF SInv

-----------------------------------------------------------------------------
(* Each line that at_clnt reads preserves the invariant.                   *)

\* A line is taken off the wire.
LEMMA LineRead ==
  ASSUME SocketTypes, NEW K, Read(K)
  PROVE  /\ wire # <<>> /\ wire' = Tail(wire) /\ wire' \in Seq(Lines)
         /\ Head(wire) \in Lines /\ Head(wire).kind \in K /\ Head(wire).kind \in Kinds
         /\ Head(wire).data \in Seq(Units)
         /\ Head(wire).kind # "IPD" => Head(wire).data = <<>>
<1>1. wire \in Seq(Lines) /\ wire # <<>> /\ Head(wire).kind \in K /\ wire' = Tail(wire)
  BY DEF Read, SocketTypes
<1>. QED BY <1>1, ReadLine DEF Lines

\* Data that are stored follow those of the list.
LEMMA Appended ==
  ASSUME NEW a \in Seq(Units), NEW b \in Seq(Units), NEW d \in Seq(Units)
  PROVE  b \o d \in Seq(Units) /\ (a \o b) \o d = a \o (b \o d)
<1>1. b \o d \in Seq(Units)
  BY ConcatProperties
<1>2. (a \o b) \o d = a \o (b \o d)
  BY ConcatAssociative
<1>. QED BY <1>1, <1>2

\* What is read and stored stays in order.
LEMMA StreamRead ==
  ASSUME SocketTypes, StreamInv, wire # <<>>, wire' = Tail(wire),
         UNCHANGED <<source, stream>>,
         taken' \o recvpkt_list' = (taken \o recvpkt_list) \o Head(wire).data
  PROVE  StreamInv'
<1>1. /\ source \in Seq(Units) /\ taken \o recvpkt_list \in Seq(Units)
      /\ wire \in Seq(Lines) /\ Len(source) \in Nat /\ Len(stream) \in Nat
  BY ConcatProperties DEF SocketTypes
<1>2. Len(source) - Len(stream) \in 0..Len(source)
  BY <1>1 DEF StreamInv
<1>3. Split(source, Len(source) - Len(stream), taken \o recvpkt_list, wire)
  BY DEF StreamInv
<1>4. Split(source, Len(source) - Len(stream),
            (taken \o recvpkt_list) \o Head(wire).data, Tail(wire))
  BY <1>1, <1>2, <1>3, ReadSplit
<1>. QED BY <1>4 DEF StreamInv

\* A line without data changes nothing of it.
LEMMA PlainRead ==
  ASSUME SocketTypes, StreamInv, wire # <<>>, wire' = Tail(wire),
         UNCHANGED <<source, stream, taken, recvpkt_list>>, Head(wire).data = <<>>
  PROVE  StreamInv'
<1>1. taken \o recvpkt_list \in Seq(Units)
  BY ConcatProperties DEF SocketTypes
<1>2. (taken \o recvpkt_list) \o <<>> = taken \o recvpkt_list
  BY <1>1, ConcatEmptySeq
<1>. QED BY <1>2, StreamRead

\* The answer is that of the one command that was carried out.
LEMMA ReadAnswerStep ==
  ASSUME SInv, ReadAnswer
  PROVE  SInv'
<1>1. /\ Read(Answers)
      /\ UNCHANGED <<state, recvpkt_list, recv_notice, at_evt_cb_set, socket_event, pc,
                     want, ret, module, link, source, stream, asked, taken, trouble>>
      /\ answer' = IF pc \in Commands /\ answer = Null THEN Head(wire).kind ELSE answer
  BY DEF ReadAnswer, sockVars, Answers, Commands
<1>2. /\ wire # <<>> /\ wire' = Tail(wire) /\ wire' \in Seq(Lines) /\ wire \in Seq(Lines)
      /\ Head(wire).kind \in Answers /\ Head(wire).data = <<>>
  <2>1. SocketTypes
    BY Parts
  <2>2. /\ wire # <<>> /\ wire' = Tail(wire) /\ wire' \in Seq(Lines)
        /\ Head(wire).kind \in Answers
        /\ Head(wire).kind # "IPD" => Head(wire).data = <<>>
    BY <1>1, <2>1, LineRead
  <2>3. wire \in Seq(Lines)
    BY <2>1 DEF SocketTypes
  <2>. QED BY <2>2, <2>3 DEF Answers
<1>3. SocketTypes'
  BY <1>1, <1>2, Parts DEF SocketTypes, SocketTypeOK, Answers
<1>4. CallInv' /\ WaitInv'
  BY <1>1, Parts DEF CallInv, WaitInv
<1>5. ASSUME trouble' # "late"
      PROVE  AnswerInv' /\ SendInv' /\ LinkInv' /\ StartInv' /\ CloseInv'
  <2>1. AnswerInv /\ SendInv /\ LinkInv /\ StartInv /\ CloseInv
    BY <1>1, <1>5, Parts
  <2>2. /\ pc \in Commands /\ Executed /\ answer = Null /\ OneLine(wire, Answers)
        /\ answer' = Head(wire).kind /\ answer' \in Answers
    BY <1>1, <1>2, <2>1, ReadNoLine DEF AnswerInv
  <2>3. NoLine(wire', Answers)
    BY <1>2, <2>2, ReadOneLine
  <2>4. \A K : NoLine(wire, K) => NoLine(wire', K) /\ answer' \notin K
    BY <1>2, <2>2, ReadNoLine
  <2>5. AnswerInv'
    BY <1>1, <2>1, <2>2, <2>3, NullAssumption DEF AnswerInv, Executed, Commands, Answers
  <2>6. SendInv'
    BY <1>1, <2>1, <2>2, <2>4 DEF SendInv, Executed, Commands, Answers
  <2>7. LinkInv'
    BY <1>1, <1>2, <2>1, <2>4, ReadClosedLast DEF LinkInv
  <2>8. StartInv'
    BY <1>1, <1>2, <2>1, <2>2, <2>4, NullAssumption
    DEF StartInv, Executed, Commands, Answers, Kinds
  <2>9. CloseInv'
    <3>1. pc = "reclose" => answer' # "OK" /\ NoLine(wire', Kinds \ {"ERROR"})
      BY <2>1, <2>2, <2>4 DEF CloseInv, Kinds, Answers
    <3>2. pc = "closing" => ~link /\ wire' = <<>>
      <4>1. ASSUME pc = "closing" PROVE ~link /\ LastLine(wire, Answers)
        BY <2>1, <2>2, <4>1, NullAssumption DEF CloseInv, Executed
      <4>. QED BY <1>2, <2>2, <4>1, ReadLast
    <3>. QED BY <1>1, <2>1, <2>2, <3>1, <3>2, NullAssumption DEF CloseInv, Answers
  <2>. QED BY <2>5, <2>6, <2>7, <2>8, <2>9
<1>6. ASSUME trouble' \in {"none", "cut"}, state' # "NONE", pc' # "closing"
      PROVE  StreamInv'
  BY <1>1, <1>2, <1>6, Parts, PlainRead DEF SInv
<1>. QED BY <1>3, <1>4, <1>5, <1>6 DEF SInv

\* The result of the data comes while the call waits for it.
LEMMA ReadSendStep ==
  ASSUME SInv, ReadSend
  PROVE  SInv'
<1>1. /\ Read(Sends)
      /\ UNCHANGED <<state, recvpkt_list, recv_notice, at_evt_cb_set, pc, want, ret,
                     answer, module, link, source, stream, asked, taken, trouble>>
      /\ \E e \in {"OK", "FAIL"} : socket_event' = socket_event \cup {"socket", e}
  BY DEF ReadSend, callVars, Sends
<1>2. /\ wire # <<>> /\ wire' = Tail(wire) /\ wire' \in Seq(Lines) /\ wire \in Seq(Lines)
      /\ Head(wire).kind \in Sends /\ Head(wire).data = <<>>
  <2>1. SocketTypes /\ \A k \in Sends : k # "IPD"
    BY Parts DEF Sends
  <2>. QED BY <1>1, <2>1, LineRead DEF SocketTypes
<1>3. SocketTypes'
  BY <1>1, <1>2, Parts DEF SocketTypes, SocketTypeOK
<1>4. CallInv' /\ WaitInv'
  BY <1>1, Parts DEF CallInv, WaitInv
<1>5. ASSUME trouble' # "late"
      PROVE  AnswerInv' /\ SendInv' /\ LinkInv' /\ StartInv' /\ CloseInv'
  <2>1. AnswerInv /\ SendInv /\ LinkInv
    BY <1>1, <1>5, Parts
  <2>2. pc = "sendwait" /\ ~NoLine(wire, Sends)
    BY <1>2, <2>1, ReadNoLine DEF SendInv
  <2>3. module = Null /\ OneLine(wire, Sends)
    BY <2>1, <2>2 DEF SendInv
  <2>4. NoLine(wire', Sends) /\ \A K : NoLine(wire, K) => NoLine(wire', K)
    BY <1>2, <2>3, ReadOneLine, ReadNoLine
  <2>5. socket_event' \cap {"OK", "FAIL"} # {}
    BY <1>1
  <2>6. ClosedLast(wire')
    BY <1>2, <2>1, ReadClosedLast DEF LinkInv
  <2>7. AnswerInv' /\ SendInv'
    BY <1>1, <2>1, <2>2, <2>3, <2>4, <2>5 DEF AnswerInv, SendInv, Commands
  <2>8. LinkInv' /\ StartInv' /\ CloseInv'
    BY <1>1, <1>2, <2>1, <2>2, <2>4, <2>6 DEF LinkInv, StartInv, CloseInv
  <2>. QED BY <2>7, <2>8
<1>6. ASSUME trouble' \in {"none", "cut"}, state' # "NONE", pc' # "closing"
      PROVE  StreamInv'
  BY <1>1, <1>2, <1>6, Parts, PlainRead DEF SInv
<1>. QED BY <1>3, <1>4, <1>5, <1>6 DEF SInv

\* What the notices of the link leave alone.
NoticeKeeps ==
  UNCHANGED <<at_evt_cb_set, socket_event, pc, want, ret, answer, module, link,
              source, stream, asked, taken>>

\* A notice is read while the socket is connected, being opened or being closed.
LEMMA NoticeRead ==
  ASSUME SInv, NoticeKeeps, trouble # "late",
         wire # <<>>, wire' = Tail(wire), Head(wire).kind \in Notices
  PROVE  /\ AnswerInv' /\ SendInv' /\ CloseInv' /\ StartInv /\ LinkInv
         /\ pc # "reclose" /\ state # "NONE"
         /\ state = "OPEN" => pc = "start"
         /\ state = "CLOSED" => pc = "closing"
         /\ pc = "start" =>
              module = Null /\ answer # "ERROR" /\ Head(wire).kind = "CLOSED"
         /\ ClosedLast(wire')
         /\ \A K : NoLine(wire, K) => NoLine(wire', K) /\ Head(wire).kind \notin K
<1>1. /\ AnswerInv /\ SendInv /\ LinkInv /\ StartInv /\ CloseInv
      /\ wire \in Seq(Lines)
  BY Parts DEF SocketTypes
<1>2. \A K : NoLine(wire, K) => NoLine(wire', K) /\ Head(wire).kind \notin K
  BY <1>1, ReadNoLine
<1>3. /\ OneLine(wire, Answers) => OneLine(wire', Answers)
      /\ OneLine(wire, Sends) => OneLine(wire', Sends)
      /\ LastLine(wire, Answers) => LastLine(wire', Answers)
  BY <1>1, ReadOneLine, ReadLast DEF Notices, Answers, Sends
<1>4. AnswerInv'
  BY <1>1, <1>2, <1>3 DEF AnswerInv, Issued, Executed, NoticeKeeps
<1>5. SendInv'
  BY <1>1, <1>2, <1>3 DEF SendInv, NoticeKeeps
<1>6. pc # "reclose"
  BY <1>1, <1>2 DEF CloseInv, Kinds, Notices
<1>7. CloseInv'
  BY <1>1, <1>3, <1>6 DEF CloseInv, NoticeKeeps
<1>8. state # "NONE" /\ (state = "OPEN" => pc = "start")
  BY <1>1, <1>6 DEF LinkInv
<1>9. state = "CLOSED" => pc = "closing"
  BY <1>1, <1>2 DEF LinkInv
<1>10. pc = "start" => module = Null /\ answer # "ERROR" /\ Head(wire).kind = "CLOSED"
  BY <1>1, <1>2 DEF StartInv, Notices, Kinds
<1>11. ClosedLast(wire')
  BY <1>1, ReadClosedLast DEF LinkInv
<1>. QED BY <1>1, <1>2, <1>4, <1>5, <1>6, <1>7, <1>8, <1>9, <1>10, <1>11

\* Data are stored, and their reader is told.
LEMMA ReadDataStep ==
  ASSUME SInv, ReadData
  PROVE  SInv'
<1>1. /\ Read({"IPD"}) /\ NoticeKeeps /\ UNCHANGED <<state, trouble>>
      /\ \/ /\ Heard /\ recvpkt_list' = recvpkt_list \o Head(wire).data
            /\ recv_notice' = recv_notice + 1
         \/ ~Heard /\ UNCHANGED <<recvpkt_list, recv_notice>>
  BY DEF ReadData, callVars, NoticeKeeps, NoticeAfterData
<1>2. /\ wire # <<>> /\ wire' = Tail(wire) /\ wire' \in Seq(Lines) /\ wire \in Seq(Lines)
      /\ Head(wire).kind = "IPD" /\ Head(wire).data \in Seq(Units)
      /\ taken \in Seq(Units) /\ recvpkt_list \in Seq(Units) /\ recv_notice \in Nat
  BY <1>1, Parts, LineRead DEF SocketTypes, SocketTypeOK
<1>3. /\ recvpkt_list' \in Seq(Units) /\ recv_notice' \in Nat
      /\ (taken \o recvpkt_list) \o Head(wire).data
           = taken \o (recvpkt_list \o Head(wire).data)
  <2>1. /\ taken \in Seq(Units) /\ recvpkt_list \in Seq(Units)
        /\ Head(wire).data \in Seq(Units)
    BY <1>2
  <2>2. /\ recvpkt_list \o Head(wire).data \in Seq(Units)
        /\ (taken \o recvpkt_list) \o Head(wire).data
             = taken \o (recvpkt_list \o Head(wire).data)
    BY <2>1, Appended, Zenon
  <2>3. recvpkt_list' \in Seq(Units)
    BY <1>1, <2>1, <2>2, Zenon
  <2>4. recv_notice' \in Nat
    BY <1>1, <1>2
  <2>. QED BY <2>2, <2>3, <2>4, Zenon
<1>4. SocketTypes'
  BY <1>1, <1>2, <1>3, Parts DEF SocketTypes, SocketTypeOK, NoticeKeeps
<1>5. CallInv' /\ WaitInv'
  BY <1>1, <1>2, Parts DEF CallInv, WaitInv, NoticeKeeps
<1>6. ASSUME trouble # "late"
      PROVE  /\ AnswerInv' /\ SendInv' /\ LinkInv' /\ StartInv' /\ CloseInv'
             /\ pc # "closing" => state = "CONNECT"
  <2>1. /\ AnswerInv' /\ SendInv' /\ CloseInv' /\ LinkInv
        /\ pc # "start" /\ state # "NONE" /\ state # "OPEN"
        /\ state = "CLOSED" => pc = "closing"
        /\ ClosedLast(wire') /\ \A K : NoLine(wire, K) => NoLine(wire', K)
    BY <1>1, <1>2, <1>6, NoticeRead DEF Notices
  <2>2. LinkInv' /\ StartInv'
    BY <1>1, <2>1 DEF LinkInv, StartInv, NoticeKeeps
  <2>3. pc # "closing" => state = "CONNECT"
    BY <2>1, Parts DEF SocketTypeOK, States
  <2>. QED BY <2>1, <2>2, <2>3
<1>7. ASSUME trouble' \in {"none", "cut"}, state' # "NONE", pc' # "closing"
      PROVE  StreamInv'
  <2>1. state = "CONNECT" /\ Heard
    BY <1>1, <1>6, <1>7, Parts DEF Heard, SocketTypeOK, NoticeKeeps
  <2>2. taken' \o recvpkt_list' = (taken \o recvpkt_list) \o Head(wire).data
    BY <1>1, <1>3, <2>1 DEF NoticeKeeps
  <2>. QED BY <1>1, <1>2, <1>7, <2>1, <2>2, Parts, StreamRead DEF SInv, NoticeKeeps
<1>. QED BY <1>1, <1>4, <1>5, <1>6, <1>7 DEF SInv

\* Data are dropped.
LEMMA ReadDataLostStep ==
  ASSUME SInv, ReadDataLost
  PROVE  SInv'
<1>1. /\ Read({"IPD"}) /\ NoticeKeeps /\ UNCHANGED <<state, recvpkt_list>>
      /\ recv_notice' \in {recv_notice, recv_notice + 1}
      /\ trouble # "late" /\ trouble' = "gap"
  BY Parts, WorstKept DEF ReadDataLost, callVars, NoticeKeeps
<1>2. /\ wire # <<>> /\ wire' = Tail(wire) /\ wire' \in Seq(Lines)
      /\ Head(wire).kind = "IPD" /\ recv_notice \in Nat
  BY <1>1, Parts, LineRead DEF SocketTypes, SocketTypeOK
<1>3. SocketTypes'
  BY <1>1, <1>2, Parts DEF SocketTypes, SocketTypeOK, NoticeKeeps
<1>4. CallInv' /\ WaitInv'
  BY <1>1, <1>2, Parts DEF CallInv, WaitInv, NoticeKeeps
<1>5. /\ AnswerInv' /\ SendInv' /\ CloseInv' /\ LinkInv
      /\ pc # "start" /\ state # "NONE" /\ state # "OPEN"
      /\ state = "CLOSED" => pc = "closing"
      /\ ClosedLast(wire') /\ \A K : NoLine(wire, K) => NoLine(wire', K)
  BY <1>1, <1>2, NoticeRead DEF Notices
<1>6. LinkInv' /\ StartInv'
  BY <1>1, <1>5 DEF LinkInv, StartInv, NoticeKeeps
<1>. QED BY <1>1, <1>3, <1>4, <1>5, <1>6 DEF SInv

\* The server has closed.
LEMMA ReadClosedStep ==
  ASSUME SInv, ReadClosed
  PROVE  SInv'
<1>1. /\ Read({"CLOSED"}) /\ NoticeKeeps /\ UNCHANGED <<recvpkt_list, trouble>>
      /\ \/ Heard /\ state' = "CLOSED" /\ recv_notice' = recv_notice + 1
         \/ ~Heard /\ UNCHANGED <<state, recv_notice>>
  BY DEF ReadClosed, callVars, NoticeKeeps
<1>2. /\ wire # <<>> /\ wire' = Tail(wire) /\ wire' \in Seq(Lines) /\ wire \in Seq(Lines)
      /\ Head(wire).kind = "CLOSED" /\ Head(wire).data = <<>> /\ recv_notice \in Nat
  BY <1>1, Parts, LineRead DEF SocketTypes, SocketTypeOK
<1>3. SocketTypes'
  BY <1>1, <1>2, Parts DEF SocketTypes, SocketTypeOK, States, NoticeKeeps
<1>4. CallInv' /\ WaitInv'
  <2>1. Heard => state # "NONE"
    BY DEF Heard
  <2>. QED BY <1>1, <1>2, <2>1, Parts DEF CallInv, WaitInv, NoticeKeeps
<1>5. ASSUME trouble' # "late"
      PROVE  AnswerInv' /\ SendInv' /\ LinkInv' /\ StartInv' /\ CloseInv'
  <2>1. /\ AnswerInv' /\ SendInv' /\ CloseInv' /\ LinkInv /\ StartInv
        /\ state # "NONE" /\ (state = "OPEN" => pc = "start")
        /\ state = "CLOSED" => pc = "closing"
        /\ pc = "start" => module = Null /\ answer # "ERROR"
        /\ ClosedLast(wire')
        /\ \A K : NoLine(wire, K) => NoLine(wire', K) /\ "CLOSED" \notin K
    BY <1>1, <1>2, <1>5, NoticeRead DEF Notices
  <2>2. NoLine(wire', Notices) /\ ~link
    BY <1>2, <2>1, ReadClosedLast DEF LinkInv
  <2>3. LinkInv'
    BY <1>1, <2>1, <2>2 DEF LinkInv, NoticeKeeps
  <2>4. ASSUME pc = "start" PROVE NoLine(wire', {"ERROR"}) /\ NoLine(wire', {"IPD"})
    BY <1>2, <2>1, <2>4, NullAssumption DEF StartInv, Kinds
  <2>5. StartInv'
    BY <1>1, <2>1, <2>4 DEF StartInv, NoticeKeeps
  <2>. QED BY <2>1, <2>3, <2>5
<1>6. ASSUME trouble' \in {"none", "cut"}, state' # "NONE", pc' # "closing"
      PROVE  StreamInv'
  <2>1. state # "NONE" /\ StreamInv
    BY <1>1, <1>6 DEF SInv, Heard, NoticeKeeps
  <2>. QED BY <1>1, <1>2, <2>1, Parts, PlainRead DEF NoticeKeeps
<1>. QED BY <1>3, <1>4, <1>5, <1>6 DEF SInv

-----------------------------------------------------------------------------
(* Each step of the module and of the server preserves the invariant.      *)

\* What is left of a stream, when n units more are sent of it.
LEMMA StreamSent ==
  ASSUME NEW src \in Seq(Units), NEW k \in 0..Len(src), NEW n \in 1..(Len(src) - k),
         NEW rest, rest = SubSeq(src, k + 1, Len(src))
  PROVE  /\ rest \in Seq(Units) /\ Len(rest) = Len(src) - k
         /\ SubSeq(rest, 1, n) = SubSeq(src, k + 1, k + n)
         /\ SubSeq(rest, 1, n) \in Seq(Units)
         /\ SubSeq(rest, n + 1, Len(rest)) = SubSeq(src, k + n + 1, Len(src))
         /\ SubSeq(rest, n + 1, Len(rest)) \in Seq(Units)
         /\ Len(SubSeq(rest, n + 1, Len(rest))) = Len(src) - (k + n)
<1>. DEFINE L == Len(src)
<1>1. L \in Nat /\ k \in Nat /\ n \in Nat /\ 1 <= n /\ k + n <= L
  OBVIOUS
<1>2. \A i \in (k + 1)..L : src[i] \in Units
  OBVIOUS
<1>. HIDE DEF L
<1>3. rest = SubSeq(src, k + 1, L)
  BY DEF L
<1>4. rest \in Seq(Units) /\ Len(rest) = L - k
  <2>1. /\ rest \in Seq(Units)
        /\ Len(rest) = IF k + 1 <= L THEN L - (k + 1) + 1 ELSE 0
    BY <1>1, <1>2, <1>3, SubSeqProperties
  <2>. QED BY <1>1, <2>1
<1>5. SubSeq(rest, 1, n) = SubSeq(src, k + 1, k + n)
  <2>1. /\ k + 1 \in 1..L /\ L \in 1..L /\ 1 \in 1..(L - (k + 1) + 1)
        /\ n \in 1..(L - (k + 1) + 1) /\ k + 1 + 1 - 1 = k + 1 /\ k + 1 + n - 1 = k + n
    BY <1>1
  <2>2. SubSeq(SubSeq(src, k + 1, L), 1, n) = SubSeq(src, k + 1 + 1 - 1, k + 1 + n - 1)
    BY <2>1, SubSeqOfSubSeq DEF L
  <2>. QED BY <1>3, <2>1, <2>2
<1>6. SubSeq(rest, n + 1, L - k) = SubSeq(src, k + n + 1, L)
  <2>1. CASE n = L - k
    <3>1. SubSeq(rest, n + 1, L - k) = <<>>
      BY <1>1, <2>1, SubSeqEmpty
    <3>2. SubSeq(src, k + n + 1, L) = <<>>
      BY <1>1, <2>1, SubSeqEmpty
    <3>. QED BY <3>1, <3>2
  <2>2. CASE n # L - k
    <3>1. /\ k + 1 \in 1..L /\ L \in 1..L /\ n + 1 \in 1..(L - (k + 1) + 1)
          /\ L - k \in 1..(L - (k + 1) + 1)
          /\ k + 1 + (n + 1) - 1 = k + n + 1 /\ k + 1 + (L - k) - 1 = L
      BY <1>1, <2>2
    <3>2. SubSeq(SubSeq(src, k + 1, L), n + 1, L - k)
            = SubSeq(src, k + 1 + (n + 1) - 1, k + 1 + (L - k) - 1)
      BY <3>1, SubSeqOfSubSeq DEF L
    <3>. QED BY <1>3, <3>1, <3>2
  <2>. QED BY <2>1, <2>2
<1>7. SubSeq(src, k + 1, k + n) \in Seq(Units)
  <2>1. \A i \in (k + 1)..(k + n) : src[i] \in Units
    BY <1>1, <1>2
  <2>. QED BY <1>1, <2>1, SubSeqProperties
<1>8. /\ SubSeq(src, k + n + 1, L) \in Seq(Units)
      /\ Len(SubSeq(src, k + n + 1, L)) = L - (k + n)
  <2>1. \A i \in (k + n + 1)..L : src[i] \in Units
    BY <1>1, <1>2
  <2>2. /\ SubSeq(src, k + n + 1, L) \in Seq(Units)
        /\ Len(SubSeq(src, k + n + 1, L))
             = IF k + n + 1 <= L THEN L - (k + n + 1) + 1 ELSE 0
    BY <1>1, <2>1, SubSeqProperties
  <2>. QED BY <1>1, <2>2
<1>. QED BY <1>4, <1>5, <1>6, <1>7, <1>8 DEF L

\* A line without data changes nothing of the stream.
LEMMA PlainSaid ==
  ASSUME SocketTypes, StreamInv, NEW l \in Lines, l.data = <<>>,
         wire' = wire \o <<l>>, UNCHANGED <<source, stream, taken, recvpkt_list>>
  PROVE  StreamInv'
<1>. DEFINE n == Len(source) - Len(stream)
<1>1. /\ source \in Seq(Units) /\ taken \o recvpkt_list \in Seq(Units)
      /\ wire \in Seq(Lines) /\ Len(source) \in Nat /\ Len(stream) \in Nat
  BY ConcatProperties DEF SocketTypes
<1>2. n \in 0..Len(source) /\ n \in n..Len(source) /\ n \in Int /\ n + 1 \in Int
  BY <1>1 DEF StreamInv
<1>3. Split(source, n, taken \o recvpkt_list, wire)
  BY DEF StreamInv
<1>. HIDE DEF n
<1>4. l.data = SubSeq(source, n + 1, n)
  BY <1>2, SubSeqEmpty
<1>5. Split(source, n, taken \o recvpkt_list, wire \o <<l>>)
  BY <1>1, <1>2, <1>3, <1>4, SaidSplit
<1>. QED BY <1>5 DEF StreamInv, n

\* What the module and the server leave alone.
ModuleKeeps ==
  UNCHANGED <<state, recvpkt_list, recv_notice, at_evt_cb_set, socket_event, pc, want,
              ret, answer, taken>>

\* What a line does to the groups of lines.
LEMMA Said ==
  ASSUME SocketTypes, NEW l \in Lines, wire' = wire \o <<l>>
  PROVE  /\ wire' \in Seq(Lines) /\ wire' # <<>>
         /\ \A K : NoLine(wire', K) <=> NoLine(wire, K) /\ l.kind \notin K
         /\ \A K : OneLine(wire, K) /\ l.kind \notin K => OneLine(wire', K)
         /\ \A K : NoLine(wire, K) /\ l.kind \in K => OneLine(wire', K)
         /\ \A K : l.kind \in K => LastLine(wire', K)
         /\ ClosedLast(wire) /\ (NoLine(wire, {"CLOSED"}) \/ l.kind \notin Notices)
              => ClosedLast(wire')
<1>1. wire \in Seq(Lines)
  BY DEF SocketTypes
<1>. QED BY <1>1, SaidLine, SaidNoLine, SaidOneLine, SaidLast, SaidClosedLast

\* A connection is opened or refused.
LEMMA ExecuteStartStep ==
  ASSUME SInv, ExecuteStart
  PROVE  SInv'
<1>1. /\ module = "START" /\ module' = Null /\ ModuleKeeps /\ UNCHANGED trouble
      /\ \/ /\ ~link /\ wire' = wire \o <<Is("OK")>> /\ link' = TRUE /\ asked' = FALSE
            /\ source' \in Streams /\ stream' = source'
         \/ wire' = wire \o <<Is("ERROR")>> /\ UNCHANGED <<link, asked, source, stream>>
  BY DEF ExecuteStart, Says, ModuleKeeps, sockVars, callVars
<1>2. /\ Is("OK") \in Lines /\ Is("OK").kind = "OK" /\ Is("OK").data = <<>>
      /\ Is("ERROR") \in Lines /\ Is("ERROR").kind = "ERROR" /\ Is("ERROR").data = <<>>
  BY PlainRecords DEF Kinds
<1>3. PICK l \in Lines :
        /\ wire' = wire \o <<l>> /\ l.kind \in Answers /\ l.data = <<>>
        /\ \/ l.kind = "OK" /\ link' = TRUE /\ asked' = FALSE
           \/ l.kind = "ERROR" /\ link' = link
  BY <1>1, <1>2 DEF Answers
<1>4. SocketTypes'
  <2>1. wire' \in Seq(Lines)
    BY <1>3, Parts, Said
  <2>2. source' \in Seq(Units) /\ stream' \in Seq(Units)
    BY <1>1, Parts, StreamsAssumption DEF SocketTypes
  <2>3. link' \in BOOLEAN /\ asked' \in BOOLEAN
    BY <1>1, Parts DEF SocketTypeOK
  <2>. QED BY <1>1, <2>1, <2>2, <2>3, Parts DEF SocketTypes, SocketTypeOK, ModuleKeeps
<1>5. CallInv' /\ WaitInv'
  BY <1>1, Parts DEF CallInv, WaitInv, ModuleKeeps
<1>6. ASSUME trouble # "late"
      PROVE  /\ AnswerInv /\ SendInv /\ LinkInv
             /\ pc = "start" /\ answer = Null /\ state = "OPEN" /\ ~link /\ wire = <<>>
             /\ recvpkt_list = <<>> /\ taken = <<>>
  <2>1. AnswerInv /\ SendInv /\ LinkInv /\ StartInv /\ pc \in Calls
    BY <1>6, Parts DEF SocketTypeOK
  <2>2. pc = "start" /\ answer = Null
    BY <1>1, <2>1, NullAssumption
    DEF AnswerInv, SendInv, Commands, Issued, Executed, Calls
  <2>. QED BY <1>1, <2>1, <2>2, NullAssumption DEF StartInv
<1>7. ASSUME trouble' # "late"
      PROVE  AnswerInv' /\ SendInv' /\ LinkInv' /\ StartInv' /\ CloseInv'
  <2>1. /\ AnswerInv /\ SendInv /\ LinkInv
        /\ pc = "start" /\ answer = Null /\ state = "OPEN" /\ ~link /\ wire = <<>>
        /\ recvpkt_list = <<>> /\ taken = <<>>
    BY <1>1, <1>6, <1>7
  <2>2. ASSUME NEW K PROVE NoLine(wire', K) <=> l.kind \notin K
    BY <1>3, <2>1, Parts, Said, EmptyLine
  <2>3. OneLine(wire', Answers) /\ ClosedLast(wire')
    BY <1>3, <2>1, Parts, Said, EmptyLine
  <2>4. AnswerInv'
    BY <1>1, <2>1, <2>3 DEF AnswerInv, Commands, Executed, ModuleKeeps
  <2>5. SendInv'
    BY <1>1, <1>3, <2>1, <2>2 DEF SendInv, ModuleKeeps, Answers, Sends
  <2>6. LinkInv' /\ CloseInv'
    BY <1>1, <1>3, <2>1, <2>2, <2>3 DEF LinkInv, CloseInv, ModuleKeeps, Answers
  <2>7. StartInv'
    <3>1. CASE l.kind = "OK"
      BY <1>1, <1>3, <2>1, <2>2, <3>1, NullAssumption DEF StartInv, ModuleKeeps
    <3>2. CASE l.kind = "ERROR"
      BY <1>1, <1>3, <2>1, <2>2, <3>2, NullAssumption DEF StartInv, ModuleKeeps, Kinds
    <3>. QED BY <1>3, <3>1, <3>2
  <2>. QED BY <2>4, <2>5, <2>6, <2>7
<1>8. ASSUME trouble' \in {"none", "cut"}, state' # "NONE", pc' # "closing"
      PROVE  StreamInv'
  <2>1. CASE link' = link
    <3>1. StreamInv /\ UNCHANGED <<source, stream, taken, recvpkt_list>>
      BY <1>1, <1>8, <2>1 DEF SInv, ModuleKeeps
    <3>. QED BY <1>3, <3>1, Parts, PlainSaid
  <2>2. CASE link' # link
    <3>1. /\ source' \in Seq(Units) /\ stream' = source' /\ wire = <<>>
          /\ recvpkt_list' = <<>> /\ taken' = <<>>
      BY <1>1, <1>6, <1>8, <2>2, StreamsAssumption DEF ModuleKeeps
    <3>2. /\ Len(source') \in Nat /\ Len(source') - Len(stream') = 0
          /\ Len(stream') <= Len(source') /\ taken' \o recvpkt_list' = <<>>
      BY <3>1
    <3>3. Split(source', 0, <<>>, wire')
      <4>1. Split(source', 0, <<>>, wire)
        BY <3>1, EmptySplit
      <4>2. l.data = SubSeq(source', 0 + 1, 0)
        BY <1>3, SubSeqEmpty
      <4>3. 0 \in 0..Len(source') /\ <<>> \in Seq(Units) /\ wire \in Seq(Lines)
        BY <3>1, <3>2, EmptySeq
      <4>4. Split(source', 0, <<>>, wire \o <<l>>)
        BY <3>1, <4>1, <4>2, <4>3, SaidSplit
      <4>. QED BY <1>3, <4>4
    <3>4. stream' = SubSeq(source', 0 + 1, Len(source'))
      BY <3>1, SubSeqFull
    <3>. QED BY <3>2, <3>3, <3>4 DEF StreamInv
  <2>. QED BY <2>1, <2>2
<1>. QED BY <1>4, <1>5, <1>7, <1>8 DEF SInv

\* Two lines are said as one after the other.
LEMMA SaidTwice ==
  ASSUME NEW w \in Seq(Lines), NEW a \in Lines, NEW b \in Lines
  PROVE  w \o <<a, b>> = (w \o <<a>>) \o <<b>>
<1>1. <<a>> \in Seq(Lines) /\ <<b>> \in Seq(Lines)
  OBVIOUS
<1>2. <<a>> \o <<b>> = <<a, b>>
  <2>1. /\ <<a, b>> \in Seq(Lines) /\ Len(<<a, b>>) = 2
        /\ <<a, b>>[1] = a /\ <<a, b>>[2] = b
    OBVIOUS
  <2>2. /\ Len(<<a>>) = 1 /\ <<a>>[1] = a /\ Len(<<b>>) = 1 /\ <<b>>[1] = b
    OBVIOUS
  <2>3. /\ <<a>> \o <<b>> \in Seq(Lines) /\ Len(<<a>> \o <<b>>) = 2
        /\ (<<a>> \o <<b>>)[1] = a /\ (<<a>> \o <<b>>)[2] = b
    <3>. DEFINE x == <<a>>
                y == <<b>>
    <3>1. x \in Seq(Lines) /\ y \in Seq(Lines) /\ Len(x) = 1 /\ Len(y) = 1
      BY <1>1, <2>2
    <3>2. x[1] = a /\ y[1] = b
      BY <2>2
    <3>. HIDE DEF x, y
    <3>3. /\ x \o y \in Seq(Lines) /\ Len(x \o y) = Len(x) + Len(y)
          /\ \A i \in 1..(Len(x) + Len(y)) :
               (x \o y)[i] = IF i <= Len(x) THEN x[i] ELSE y[i - Len(x)]
      BY <3>1, ConcatProperties
    <3>. QED BY <3>1, <3>2, <3>3 DEF x, y
  <2>4. \A i \in 1..2 : i = 1 \/ i = 2
    OBVIOUS
  <2>. QED BY <2>1, <2>3, <2>4, SeqEqual
<1>3. (w \o <<a>>) \o <<b>> = w \o (<<a>> \o <<b>>)
  BY <1>1, ConcatAssociative
<1>. QED BY <1>2, <1>3

\* The link is closed: a notice of it goes before the answer.
LEMMA ExecuteCloseStep ==
  ASSUME SInv, ExecuteClose
  PROVE  SInv'
<1>1. /\ module = "CLOSE" /\ module' = Null /\ link' = FALSE /\ ModuleKeeps
      /\ UNCHANGED <<source, stream, asked, trouble>>
      /\ IF link THEN wire' = wire \o <<Is("CLOSED"), Is("OK")>>
         ELSE wire' = wire \o <<Is("ERROR")>>
  BY DEF ExecuteClose, Says, ModuleKeeps, sockVars, callVars
<1>2. \A k \in Kinds : Is(k) \in Lines /\ Is(k).kind = k /\ Is(k).data = <<>>
  BY PlainRecords
<1>3. wire \in Seq(Lines)
  BY Parts DEF SocketTypes
<1>. DEFINE c == Is("CLOSED")
            o == Is("OK")
            e == Is("ERROR")
<1>4. /\ c \in Lines /\ c.kind = "CLOSED" /\ o \in Lines /\ o.kind = "OK"
      /\ e \in Lines /\ e.kind = "ERROR" /\ e.data = <<>>
  BY <1>2 DEF Kinds
<1>5. IF link THEN wire' = wire \o <<c, o>> ELSE wire' = wire \o <<e>>
  BY <1>1
<1>. HIDE DEF c, o, e
<1>6. wire \o <<c, o>> = (wire \o <<c>>) \o <<o>>
  BY <1>3, <1>4, SaidTwice
<1>7. /\ wire' \in Seq(Lines) /\ LastLine(wire', Answers)
      /\ NoLine(wire, Answers) => OneLine(wire', Answers)
      /\ NoLine(wire, Sends) => NoLine(wire', Sends)
      /\ ClosedLast(wire) /\ (link => NoLine(wire, {"CLOSED"})) => ClosedLast(wire')
      /\ \A K : ~link /\ "ERROR" \notin K => (NoLine(wire, K) => NoLine(wire', K))
  <2>1. CASE link
    <3>. DEFINE w == wire \o <<c>>
    <3>1. /\ w \in Seq(Lines)
          /\ NoLine(wire, Answers) => NoLine(w, Answers)
          /\ NoLine(wire, Sends) => NoLine(w, Sends)
          /\ ClosedLast(wire) /\ NoLine(wire, {"CLOSED"}) => ClosedLast(w)
      BY <1>3, <1>4, SaidLine, SaidNoLine, SaidClosedLast DEF Answers, Sends
    <3>2. wire' = w \o <<o>>
      BY <1>5, <1>6, <2>1
    <3>. HIDE DEF w
    <3>3. /\ w \o <<o>> \in Seq(Lines) /\ LastLine(w \o <<o>>, Answers)
          /\ NoLine(w, Answers) => OneLine(w \o <<o>>, Answers)
          /\ NoLine(w, Sends) => NoLine(w \o <<o>>, Sends)
          /\ ClosedLast(w) => ClosedLast(w \o <<o>>)
      BY <1>4, <3>1, SaidLine, SaidNoLine, SaidOneLine, SaidLast, SaidClosedLast
      DEF Answers, Sends, Notices
    <3>. QED BY <2>1, <3>1, <3>2, <3>3
  <2>2. CASE ~link
    <3>1. wire' = wire \o <<e>>
      BY <1>5, <2>2
    <3>2. /\ e.kind \in Answers /\ e.kind \notin Sends /\ e.kind \notin Notices
      BY <1>4 DEF Answers, Sends, Notices
    <3>. QED BY <1>4, <2>2, <3>1, <3>2, Parts, Said
  <2>. QED BY <2>1, <2>2
<1>8. SocketTypes'
  BY <1>1, <1>7, Parts DEF SocketTypes, SocketTypeOK, ModuleKeeps
<1>9. CallInv' /\ WaitInv'
  BY <1>1, Parts DEF CallInv, WaitInv, ModuleKeeps
<1>10. ASSUME trouble # "late"
       PROVE  /\ AnswerInv /\ SendInv /\ LinkInv /\ CloseInv
              /\ pc \in {"reclose", "closing"} /\ answer = Null /\ NoLine(wire, Answers)
  <2>1. AnswerInv /\ SendInv /\ LinkInv /\ StartInv /\ CloseInv /\ pc \in Calls
    BY <1>10, Parts DEF SocketTypeOK
  <2>. QED BY <1>1, <2>1, NullAssumption
       DEF AnswerInv, SendInv, Commands, Issued, Executed, Calls
<1>11. ASSUME trouble' # "late"
       PROVE  AnswerInv' /\ SendInv' /\ LinkInv' /\ StartInv' /\ CloseInv'
  <2>1. /\ AnswerInv /\ SendInv /\ LinkInv /\ CloseInv
        /\ pc \in {"reclose", "closing"} /\ answer = Null /\ NoLine(wire, Answers)
    BY <1>1, <1>10, <1>11
  <2>2. NoLine(wire, Sends) /\ ClosedLast(wire) /\ (link => NoLine(wire, {"CLOSED"}))
    BY <2>1 DEF SendInv, LinkInv
  <2>3. OneLine(wire', Answers) /\ NoLine(wire', Sends) /\ ClosedLast(wire')
    BY <1>7, <2>1, <2>2
  <2>4. AnswerInv' /\ SendInv'
    BY <1>1, <2>1, <2>3 DEF AnswerInv, SendInv, Commands, Executed, ModuleKeeps
  <2>5. LinkInv' /\ StartInv'
    <3>1. state # "NONE"
      BY <2>1, Parts DEF CallInv
    <3>2. pc = "reclose" => state = "OPEN"
      BY <2>1 DEF CloseInv
    <3>. QED BY <1>1, <2>1, <2>3, <3>1, <3>2 DEF LinkInv, StartInv, ModuleKeeps
  <2>6. CloseInv'
    <3>1. pc = "reclose" => ~link /\ NoLine(wire', Kinds \ {"ERROR"})
      BY <1>7, <2>1 DEF CloseInv
    <3>. QED BY <1>1, <1>7, <2>1, <3>1 DEF CloseInv, ModuleKeeps
  <2>. QED BY <2>4, <2>5, <2>6
<1>12. ASSUME trouble' \in {"none", "cut"}, state' # "NONE", pc' # "closing"
       PROVE  StreamInv'
  <2>1. pc = "reclose" /\ ~link /\ StreamInv
    BY <1>1, <1>10, <1>12 DEF SInv, CloseInv, ModuleKeeps
  <2>2. wire' = wire \o <<e>>
    BY <1>5, <2>1
  <2>. QED BY <1>1, <1>4, <2>1, <2>2, Parts, PlainSaid DEF ModuleKeeps
<1>. QED BY <1>8, <1>9, <1>11, <1>12 DEF SInv

\* The prompt for the data, or none without a link.
LEMMA ExecuteSendStep ==
  ASSUME SInv, ExecuteSend
  PROVE  SInv'
<1>1. /\ module = "SEND" /\ ModuleKeeps
      /\ UNCHANGED <<link, source, stream, asked, trouble>>
      /\ \/ link /\ module' = "DATA" /\ wire' = wire \o <<Is("OK")>>
         \/ ~link /\ module' = Null /\ wire' = wire \o <<Is("ERROR")>>
  BY DEF ExecuteSend, Says, ModuleKeeps, sockVars, callVars
<1>2. /\ Is("OK") \in Lines /\ Is("OK").kind = "OK" /\ Is("OK").data = <<>>
      /\ Is("ERROR") \in Lines /\ Is("ERROR").kind = "ERROR" /\ Is("ERROR").data = <<>>
  BY PlainRecords DEF Kinds
<1>3. PICK l \in Lines :
        /\ wire' = wire \o <<l>> /\ l.kind \in Answers /\ l.data = <<>>
        /\ \/ link /\ module' = "DATA" /\ l.kind = "OK"
           \/ ~link /\ module' = Null /\ l.kind = "ERROR"
  BY <1>1, <1>2 DEF Answers
<1>4. /\ l.kind \notin Sends /\ l.kind \notin Notices /\ l.kind # "CLOSED"
  BY <1>3 DEF Answers, Sends, Notices
<1>5. /\ wire' \in Seq(Lines)
      /\ \A K : NoLine(wire', K) <=> NoLine(wire, K) /\ l.kind \notin K
      /\ NoLine(wire, Answers) => OneLine(wire', Answers)
      /\ ClosedLast(wire) => ClosedLast(wire')
  BY <1>3, <1>4, Parts, Said
<1>6. SocketTypes'
  BY <1>1, <1>5, Parts DEF SocketTypes, SocketTypeOK, ModuleKeeps
<1>7. CallInv' /\ WaitInv'
  BY <1>1, Parts DEF CallInv, WaitInv, ModuleKeeps
<1>8. ASSUME trouble' # "late"
      PROVE  AnswerInv' /\ SendInv' /\ LinkInv' /\ StartInv' /\ CloseInv'
  <2>1. AnswerInv /\ SendInv /\ LinkInv /\ pc \in Calls
    BY <1>1, <1>8, Parts DEF SocketTypeOK
  <2>2. pc = "cipsend" /\ answer = Null /\ NoLine(wire, Answers)
    BY <1>1, <2>1, NullAssumption
    DEF AnswerInv, SendInv, Commands, Issued, Executed, Calls
  <2>3. NoLine(wire, {"OK"}) /\ NoLine(wire, {"ERROR"})
    BY <2>2 DEF NoLine, Answers
  <2>4. AnswerInv'
    BY <1>1, <1>5, <2>1, <2>2 DEF AnswerInv, Commands, Executed, ModuleKeeps
  <2>5. SendInv'
    BY <1>1, <1>3, <1>4, <1>5, <2>1, <2>2, <2>3, NullAssumption DEF SendInv, ModuleKeeps
  <2>6. LinkInv'
    <3>1. state \in {"CONNECT", "CLOSED"}
      BY <2>2, Parts DEF CallInv
    <3>. QED BY <1>1, <1>4, <1>5, <2>1, <3>1 DEF LinkInv, ModuleKeeps
  <2>7. StartInv' /\ CloseInv'
    BY <1>1, <2>2 DEF StartInv, CloseInv, ModuleKeeps
  <2>. QED BY <2>4, <2>5, <2>6, <2>7
<1>9. ASSUME trouble' \in {"none", "cut"}, state' # "NONE", pc' # "closing"
      PROVE  StreamInv'
  BY <1>1, <1>3, <1>9, Parts, PlainSaid DEF SInv, ModuleKeeps
<1>. QED BY <1>6, <1>7, <1>8, <1>9 DEF SInv

\* The server has the request, or the data were lost.
LEMMA TransmitStep ==
  ASSUME SInv, Transmit
  PROVE  SInv'
<1>1. /\ module = "SENT" /\ module' = Null /\ ModuleKeeps
      /\ UNCHANGED <<link, source, stream, trouble>>
      /\ asked' \in {asked, TRUE}
      /\ wire' \in {wire \o <<Is("SEND OK")>>, wire \o <<Is("SEND FAIL")>>}
  BY DEF Transmit, Says, ModuleKeeps, sockVars, callVars
<1>2. \A k \in Sends : Is(k) \in Lines /\ Is(k).kind \in Sends /\ Is(k).data = <<>>
  BY PlainRecords DEF Kinds, Sends
<1>3. PICK l \in Lines : wire' = wire \o <<l>> /\ l.kind \in Sends /\ l.data = <<>>
  BY <1>1, <1>2 DEF Sends
<1>4. l.kind \notin Answers /\ l.kind \notin Notices /\ l.kind # "CLOSED"
  BY <1>3 DEF Answers, Sends, Notices
<1>5. /\ wire' \in Seq(Lines)
      /\ \A K : NoLine(wire', K) <=> NoLine(wire, K) /\ l.kind \notin K
      /\ NoLine(wire, Sends) => OneLine(wire', Sends)
      /\ ClosedLast(wire) => ClosedLast(wire')
  BY <1>3, <1>4, Parts, Said
<1>6. SocketTypes'
  BY <1>1, <1>5, Parts DEF SocketTypes, SocketTypeOK, ModuleKeeps
<1>7. CallInv' /\ WaitInv'
  BY <1>1, Parts DEF CallInv, WaitInv, ModuleKeeps
<1>8. ASSUME trouble' # "late"
      PROVE  AnswerInv' /\ SendInv' /\ LinkInv' /\ StartInv' /\ CloseInv'
  <2>1. AnswerInv /\ SendInv /\ LinkInv /\ pc \in Calls
    BY <1>1, <1>8, Parts DEF SocketTypeOK
  <2>2. pc = "sendwait"
    BY <1>1, <2>1, NullAssumption DEF AnswerInv, Commands, Issued, Executed, Calls
  <2>3. NoLine(wire, Sends) /\ socket_event = {} /\ NoLine(wire, Answers)
    BY <1>1, <2>1, <2>2, NullAssumption DEF SendInv, AnswerInv, Commands
  <2>4. AnswerInv' /\ SendInv'
    BY <1>1, <1>4, <1>5, <2>1, <2>2, <2>3 DEF AnswerInv, SendInv, Commands, ModuleKeeps
  <2>5. LinkInv'
    <3>1. state \in {"CONNECT", "CLOSED"}
      BY <2>2, Parts DEF CallInv
    <3>. QED BY <1>1, <1>4, <1>5, <2>1, <3>1 DEF LinkInv, ModuleKeeps
  <2>6. StartInv' /\ CloseInv'
    BY <1>1, <2>2 DEF StartInv, CloseInv, ModuleKeeps
  <2>. QED BY <2>4, <2>5, <2>6
<1>9. ASSUME trouble' \in {"none", "cut"}, state' # "NONE", pc' # "closing"
      PROVE  StreamInv'
  BY <1>1, <1>3, <1>9, Parts, PlainSaid DEF SInv, ModuleKeeps
<1>. QED BY <1>6, <1>7, <1>8, <1>9 DEF SInv

\* A packet of the answer.
LEMMA ServerSendsStep ==
  ASSUME SInv, ServerSends
  PROVE  SInv'
<1>1. /\ link /\ asked /\ ModuleKeeps /\ UNCHANGED <<module, link, source, asked, trouble>>
  BY DEF ServerSends, ModuleKeeps, sockVars, callVars
<1>2. PICK n \in 1..Smaller(MaxPacket, Len(stream)) :
        /\ wire' = wire \o <<IPD(SubSeq(stream, 1, n))>>
        /\ stream' = SubSeq(stream, n + 1, Len(stream))
  BY DEF ServerSends, Says
<1>3. /\ source \in Seq(Units) /\ stream \in Seq(Units) /\ wire \in Seq(Lines)
      /\ taken \in Seq(Units) /\ recvpkt_list \in Seq(Units)
      /\ Len(source) \in Nat /\ Len(stream) \in Nat
  BY Parts DEF SocketTypes
<1>4. n \in 1..Len(stream) /\ n \in Nat
  BY <1>2, <1>3, MaxPacketAssumption DEF Smaller
<1>5. SubSeq(stream, 1, n) \in Seq(Units) /\ stream' \in Seq(Units)
  <2>1. \A i \in 1..Len(stream) : stream[i] \in Units
    BY <1>3
  <2>2. /\ \A i \in 1..n : stream[i] \in Units
        /\ \A i \in (n + 1)..Len(stream) : stream[i] \in Units
    BY <1>3, <1>4, <2>1
  <2>3. SubSeq(stream, 1, n) \in Seq(Units)
    BY <1>4, <2>2, SubSeqProperties
  <2>4. SubSeq(stream, n + 1, Len(stream)) \in Seq(Units)
    BY <1>3, <1>4, <2>2, SubSeqProperties
  <2>. QED BY <1>2, <2>3, <2>4
<1>6. PICK l \in Lines : /\ wire' = wire \o <<l>> /\ l.kind = "IPD"
                         /\ l.data = SubSeq(stream, 1, n)
  <2>. DEFINE d == SubSeq(stream, 1, n)
  <2>1. d \in Seq(Units) /\ wire' = wire \o <<IPD(d)>>
    BY <1>2, <1>5
  <2>. HIDE DEF d
  <2>2. IPD(d) \in Lines /\ IPD(d).kind = "IPD" /\ IPD(d).data = d
    BY <2>1, PlainRecords
  <2>3. \E x \in Lines : wire' = wire \o <<x>> /\ x.kind = "IPD" /\ x.data = d
    BY <2>1, <2>2
  <2>. QED BY <2>3 DEF d
<1>7. l.kind \notin Answers /\ l.kind \notin Sends /\ l.kind # "CLOSED"
  BY <1>6 DEF Answers, Sends
<1>8. /\ wire' \in Seq(Lines)
      /\ \A K : NoLine(wire', K) <=> NoLine(wire, K) /\ l.kind \notin K
      /\ \A K : OneLine(wire, K) /\ l.kind \notin K => OneLine(wire', K)
      /\ ClosedLast(wire) /\ NoLine(wire, {"CLOSED"}) => ClosedLast(wire')
  BY <1>6, Parts, Said
<1>9. SocketTypes'
  BY <1>1, <1>5, <1>8, Parts DEF SocketTypes, SocketTypeOK, ModuleKeeps
<1>10. CallInv' /\ WaitInv'
  BY <1>1, Parts DEF CallInv, WaitInv, ModuleKeeps
<1>11. ASSUME trouble' # "late"
       PROVE  AnswerInv' /\ SendInv' /\ LinkInv' /\ StartInv' /\ CloseInv'
  <2>1. AnswerInv /\ SendInv /\ LinkInv /\ StartInv /\ CloseInv
    BY <1>1, <1>11, Parts
  <2>2. /\ pc # "start" /\ pc # "reclose" /\ (pc = "closing" => module = "CLOSE")
        /\ state # "NONE" /\ state # "OPEN" /\ (state = "CLOSED" => pc = "closing")
    BY <1>1, <2>1 DEF LinkInv, StartInv, CloseInv
  <2>3. AnswerInv'
    BY <1>1, <1>7, <1>8, <2>1 DEF AnswerInv, Issued, Executed, ModuleKeeps
  <2>4. SendInv'
    BY <1>1, <1>6, <1>7, <1>8, <2>1 DEF SendInv, ModuleKeeps
  <2>5. LinkInv' /\ StartInv' /\ CloseInv'
    BY <1>1, <1>7, <1>8, <2>1, <2>2 DEF LinkInv, StartInv, CloseInv, ModuleKeeps
  <2>. QED BY <2>3, <2>4, <2>5
<1>12. ASSUME trouble' \in {"none", "cut"}, state' # "NONE", pc' # "closing"
       PROVE  StreamInv'
  <2>. DEFINE k == Len(source) - Len(stream)
              got == taken \o recvpkt_list
  <2>1. /\ Len(stream) <= Len(source) /\ stream = SubSeq(source, k + 1, Len(source))
        /\ Split(source, k, got, wire)
    BY <1>1, <1>12 DEF SInv, StreamInv, ModuleKeeps
  <2>2. k \in 0..Len(source) /\ n \in 1..(Len(source) - k) /\ k + n \in k..Len(source)
    BY <1>3, <1>4, <2>1
  <2>3. got \in Seq(Units)
    BY <1>3, ConcatProperties
  <2>. HIDE DEF k, got
  <2>4. /\ l.data = SubSeq(source, k + 1, k + n)
        /\ stream' = SubSeq(source, k + n + 1, Len(source))
        /\ Len(stream') = Len(source) - (k + n)
    <3>1. /\ SubSeq(stream, 1, n) = SubSeq(source, k + 1, k + n)
          /\ SubSeq(stream, n + 1, Len(stream)) = SubSeq(source, k + n + 1, Len(source))
          /\ Len(SubSeq(stream, n + 1, Len(stream))) = Len(source) - (k + n)
      <4>1. source \in Seq(Units) /\ stream = SubSeq(source, k + 1, Len(source))
        BY <1>3, <2>1
      <4>. QED BY <2>2, <4>1, StreamSent
    <3>2. l.data = SubSeq(stream, 1, n) /\ stream' = SubSeq(stream, n + 1, Len(stream))
      BY <1>2, <1>6
    <3>. QED BY <3>1, <3>2
  <2>5. Split(source, k + n, got, wire')
    BY <1>3, <1>6, <2>1, <2>2, <2>3, <2>4, SaidSplit
  <2>6. Len(source) - Len(stream') = k + n /\ Len(stream') <= Len(source)
    <3>. DEFINE m == Len(stream')
    <3>1. m = Len(source) - (k + n) /\ k \in Nat /\ n \in Nat
      BY <1>3, <1>4, <2>2, <2>4
    <3>. HIDE DEF m
    <3>2. Len(source) - m = k + n /\ m <= Len(source)
      BY <1>3, <3>1
    <3>. QED BY <3>2 DEF m
  <2>7. got = taken' \o recvpkt_list' /\ source' = source
    BY <1>1 DEF ModuleKeeps, got
  <2>. QED BY <2>4, <2>5, <2>6, <2>7 DEF StreamInv
<1>. QED BY <1>9, <1>10, <1>11, <1>12 DEF SInv

\* The server closes its end.
LEMMA ServerClosesStep ==
  ASSUME SInv, ServerCloses
  PROVE  SInv'
<1>1. /\ link /\ link' = FALSE /\ ModuleKeeps
      /\ wire' = wire \o <<Is("CLOSED")>>
      /\ UNCHANGED <<module, source, stream, asked>>
  BY DEF ServerCloses, Says, ModuleKeeps, sockVars, callVars
<1>2. trouble' \in {trouble, IF trouble = "none" THEN "cut" ELSE trouble}
  BY Parts, WorstKept DEF ServerCloses
<1>3. PICK l \in Lines : wire' = wire \o <<l>> /\ l.kind = "CLOSED" /\ l.data = <<>>
  <2>1. Is("CLOSED") \in Lines /\ Is("CLOSED").kind = "CLOSED" /\ Is("CLOSED").data = <<>>
    BY PlainRecords DEF Kinds
  <2>. QED BY <1>1, <2>1
<1>4. l.kind \notin Answers /\ l.kind \notin Sends
  BY <1>3 DEF Answers, Sends
<1>5. /\ wire' \in Seq(Lines)
      /\ \A K : NoLine(wire', K) <=> NoLine(wire, K) /\ l.kind \notin K
      /\ \A K : OneLine(wire, K) /\ l.kind \notin K => OneLine(wire', K)
      /\ ClosedLast(wire) /\ NoLine(wire, {"CLOSED"}) => ClosedLast(wire')
  BY <1>3, Parts, Said
<1>6. SocketTypes'
  <2>1. SocketTypes /\ SocketTypeOK
    BY Parts
  <2>2. trouble' \in {"none", "cut", "gap", "late"} /\ link' \in BOOLEAN
    BY <1>1, <1>2, <2>1 DEF SocketTypeOK
  <2>3. SocketTypeOK'
    BY <1>1, <2>1, <2>2 DEF SocketTypeOK, ModuleKeeps
  <2>4. want' = want
    BY DEF ServerCloses, callVars
  <2>. QED BY <1>1, <1>5, <2>1, <2>3, <2>4 DEF SocketTypes, ModuleKeeps
<1>7. CallInv' /\ WaitInv'
  BY <1>1, Parts DEF CallInv, WaitInv, ModuleKeeps
<1>8. ASSUME trouble' # "late"
      PROVE  AnswerInv' /\ SendInv' /\ LinkInv' /\ StartInv' /\ CloseInv'
  <2>1. AnswerInv /\ SendInv /\ LinkInv /\ StartInv /\ CloseInv
    BY <1>2, <1>8, Parts
  <2>2. /\ pc # "reclose" /\ (pc = "closing" => module = "CLOSE")
        /\ state # "NONE" /\ (state = "OPEN" => pc = "start")
        /\ (state = "CLOSED" => pc = "closing")
    BY <1>1, <2>1 DEF LinkInv, CloseInv
  <2>3. AnswerInv'
    BY <1>1, <1>4, <1>5, <2>1 DEF AnswerInv, Issued, Executed, ModuleKeeps
  <2>4. SendInv'
    BY <1>1, <1>3, <1>4, <1>5, <2>1 DEF SendInv, ModuleKeeps
  <2>5. LinkInv' /\ StartInv' /\ CloseInv'
    BY <1>1, <1>3, <1>5, <2>1, <2>2 DEF LinkInv, StartInv, CloseInv, ModuleKeeps
  <2>. QED BY <2>3, <2>4, <2>5
<1>9. ASSUME trouble' \in {"none", "cut"}, state' # "NONE", pc' # "closing"
      PROVE  StreamInv'
  BY <1>1, <1>2, <1>3, <1>9, Parts, PlainSaid DEF SInv, ModuleKeeps
<1>. QED BY <1>6, <1>7, <1>8, <1>9 DEF SInv

-----------------------------------------------------------------------------
(* The invariant of a socket, for the programs that use one.               *)

\* No socket, and nothing said on the serial line: the invariant holds.
LEMMA InitSInv == InitSocket => SInv
<1>. SUFFICES ASSUME InitSocket PROVE SInv
  OBVIOUS
<1>. USE DEF InitSocket
<1>1. SocketTypes
  BY PlainRecords, EmptySeq DEF SocketTypes, SocketTypeOK, States, Calls
<1>2. CallInv /\ WaitInv
  BY DEF CallInv, WaitInv
<1>3. AnswerInv /\ SendInv /\ LinkInv /\ StartInv /\ CloseInv
  BY EmptyLine DEF AnswerInv, SendInv, LinkInv, StartInv, CloseInv, Commands
<1>. QED BY <1>1, <1>2, <1>3 DEF SInv

\* A step of the program alone leaves the socket as it is.
LEMMA Untouched ==
  ASSUME SInv, UNCHANGED atVars
  PROVE  SInv'
<1>1. /\ SocketTypes' /\ CallInv' /\ WaitInv'
  BY DEF SInv, atVars, SocketTypes, SocketTypeOK, CallInv, WaitInv
<1>2. ASSUME trouble' # "late"
      PROVE  AnswerInv' /\ SendInv' /\ LinkInv' /\ StartInv' /\ CloseInv'
  BY <1>2 DEF SInv, atVars, AnswerInv, Issued, Executed, SendInv, LinkInv, StartInv,
              CloseInv
<1>3. ASSUME trouble' \in {"none", "cut"}, state' # "NONE", pc' # "closing"
      PROVE  StreamInv'
  BY <1>3 DEF SInv, atVars, StreamInv
<1>. QED BY <1>1, <1>2, <1>3 DEF SInv

\* Whatever a call, the thread at_clnt, the module or the server does next, the
\* invariant of the socket holds after it.
THEOREM SocketKept ==
  ASSUME SInv, CallStep \/ Parser \/ Network
  PROVE  SInv'
<1>1. ASSUME CallStep PROVE SInv'
  BY <1>1, StartedStep, ReclosedStep, PromptedStep, SendSeenStep, SendResultStep,
     RecvStateStep, RecvTakesStep, RecvTimeoutStep, ClosedStep DEF CallStep
<1>2. ASSUME Parser PROVE SInv'
  BY <1>2, ReadAnswerStep, ReadSendStep, ReadDataStep, ReadDataLostStep, ReadClosedStep
  DEF Parser
<1>3. ASSUME Network PROVE SInv'
  BY <1>3, ExecuteStartStep, ExecuteCloseStep, ExecuteSendStep, TransmitStep,
     ServerSendsStep, ServerClosesStep DEF Network
<1>. QED BY <1>1, <1>2, <1>3

\* Whatever call a program begins on the socket it has, the invariant of the
\* socket holds after it: a program that connects an open socket, sends and
\* receives on one that was connected, and asks for a socket while it has none.
THEOREM SocketUsed ==
  ASSUME SInv,
         \/ Socket /\ trouble # "late"
         \/ Connect /\ state # "NONE"
         \/ Send /\ state \in {"CONNECT", "CLOSED"}
         \/ state \in {"CONNECT", "CLOSED"} /\ \E n \in Nat \ {0} : Recv(n)
         \/ Close
  PROVE  SInv'
BY SocketStep, ConnectStep, SendStep, RecvStep, CloseStep

\* What the invariant is for: the stream of a connection is intact, a thread that
\* sleeps in recv has its notice (at_socket.c:634-653, 806-815), and a free
\* socket has no link behind it.
THEOREM SocketPromises ==
  ASSUME SInv
  PROVE  /\ SocketTypeOK /\ StreamIntact /\ WaiterNotified
         /\ state = "NONE" /\ UpTo("gap") => ~link /\ module = Null
<1>1. SocketTypeOK /\ WaiterNotified
  BY Parts DEF WaitInv, WaiterNotified
<1>2. StreamIntact
  BY Parts DEF StreamIntact, SInv, StreamInv
<1>3. state = "NONE" /\ UpTo("gap") => ~link /\ module = Null
  BY Parts, IdleQuiet DEF CallInv
<1>. QED BY <1>1, <1>2, <1>3

-----------------------------------------------------------------------------
(* What a program sees of the steps.                                       *)

\* A call goes on to its end.
LEMMA CallGoesOn ==
  ASSUME SInv, CallStep
  PROVE  /\ pc # "idle"
         /\ pc \in {"start", "reclose"} =>
              /\ pc' \in {"idle", "start", "reclose"} /\ state' \in {state, "CONNECT"}
              /\ pc' = "idle" /\ ret'.kind = "ok" => state' = "CONNECT"
         /\ pc \in {"cipsend", "sendwait", "sendresult"} =>
              pc' \in {"idle", "sendwait", "sendresult"} /\ state' = state
         /\ pc \in {"recvstate", "recvwait"} =>
              /\ pc' \in {"idle", "recvwait"} /\ state' = state /\ want' = want
              /\ pc' = "idle" /\ ret'.kind = "data" => Len(ret'.data) <= want
         /\ pc = "closing" => pc' = "idle" /\ state' = "NONE"
<1>1. \A k : Is(k).kind = k
  BY DEF Is
<1>2. ASSUME Started \/ Reclosed
      PROVE  /\ pc \in {"start", "reclose"} /\ pc' \in {"idle", "start", "reclose"}
             /\ state' \in {state, "CONNECT"}
             /\ pc' = "idle" /\ ret'.kind = "ok" => state' = "CONNECT"
  BY <1>1, <1>2 DEF Started, Reclosed, Return, sockVars
<1>3. ASSUME Prompted \/ SendSeen \/ SendResult
      PROVE  /\ pc \in {"cipsend", "sendwait", "sendresult"}
             /\ pc' \in {"idle", "sendwait", "sendresult"} /\ state' = state
  BY <1>3 DEF Prompted, SendSeen, SendResult, Return, sockVars
<1>4. ASSUME RecvState \/ RecvTimeout
      PROVE  /\ pc \in {"recvstate", "recvwait"} /\ pc' \in {"idle", "recvwait"}
             /\ state' = state /\ want' = want
             /\ pc' = "idle" => ret'.kind # "data"
  BY <1>1, <1>4 DEF RecvState, RecvTimeout, ReturnClosed, Return, sockVars
<1>5. ASSUME RecvTakes
      PROVE  /\ pc \in {"recvstate", "recvwait"} /\ pc' \in {"idle", "recvwait"}
             /\ state' = state /\ want' = want
             /\ pc' = "idle" /\ ret'.kind = "data" => Len(ret'.data) <= want
  <2>1. pc = "recvwait" /\ state' = state /\ want' = want
    BY <1>5 DEF RecvTakes
  <2>2. SocketTypes /\ want \in Nat \ {0}
    BY <2>1, Parts DEF SocketTypes
  <2>3. CASE recvpkt_list # <<>> /\ Take(want)
    <3>1. pc' = "idle" /\ Len(ret'.data) \in 1..want
      BY <2>2, <2>3, TakenFrom
    <3>. QED BY <2>1, <2>2, <3>1
  <2>4. CASE UNCHANGED pc
    BY <2>1, <2>4
  <2>5. CASE ReturnClosed
    BY <1>1, <2>1, <2>5 DEF ReturnClosed, Return
  <2>. QED BY <1>5, <2>3, <2>4, <2>5 DEF RecvTakes
<1>6. ASSUME Closed
      PROVE  pc = "closing" /\ pc' = "idle" /\ state' = "NONE"
  BY <1>6 DEF Closed, Return, Free
<1>. QED BY <1>2, <1>3, <1>4, <1>5, <1>6 DEF CallStep

\* The other threads do not touch the call; they may close the socket.
LEMMA OthersGoOn ==
  ASSUME Parser \/ Network
  PROVE  /\ UNCHANGED <<pc, want, ret>>
         /\ state' \in {state, "CLOSED"} /\ (state = "NONE" => state' = "NONE")
BY DEF Parser, ReadAnswer, ReadSend, ReadData, ReadDataLost, ReadClosed, Heard,
       Network, ExecuteStart, ExecuteClose, ExecuteSend, Transmit, ServerSends,
       ServerCloses, sockVars, callVars

\* What a call is after its first step.
LEMMA CallBegins ==
  ASSUME SInv
  PROVE  /\ Socket => pc' = "idle" /\ state' = "OPEN"
         /\ Connect => /\ pc' \in {"idle", "start"} /\ state' = state
                       /\ pc' = "idle" => ret'.kind = "fail"
         /\ Send => pc' \in {"idle", "cipsend"} /\ state' = state
         /\ Close => pc' = "closing" \/ (pc' = "idle" /\ state' = "NONE")
         /\ \A n \in Nat \ {0} : Recv(n) =>
              /\ state' = state
              /\ \/ pc' = "idle" /\ ret'.kind = "data" /\ Len(ret'.data) \in 1..n
                 \/ pc' = "recvstate" /\ want' = n
<1>1. \A k : Is(k).kind = k
  BY DEF Is
<1>2. ASSUME NEW n \in Nat \ {0}, Recv(n)
      PROVE  /\ state' = state
             /\ \/ pc' = "idle" /\ ret'.kind = "data" /\ Len(ret'.data) \in 1..n
                \/ pc' = "recvstate" /\ want' = n
  BY <1>2, Parts, TakenFrom DEF Recv
<1>. QED BY <1>1, <1>2 DEF Socket, Connect, Send, Close, Return, Free, sockVars

-----------------------------------------------------------------------------
(* The end of a stream, and what a program reads of it.                    *)

\* The socket is closed and its list read out.
Ended == state = "CLOSED" /\ recvpkt_list = <<>>

\* When the server closes, its stream is over, or something happened.
EndInv ==
  trouble = "none" /\ pc # "closing" /\ (state = "CLOSED" \/ ~NoLine(wire, {"CLOSED"}))
    => stream = <<>>

\* Streams begin with a connection.
SourceInv == source \in Streams \cup {<<>>}

\* What has been read is the beginning of what the server sent.
LEMMA TakenPrefix ==
  ASSUME SInv, trouble \in {"none", "cut"}, state # "NONE", pc # "closing"
  PROVE  /\ Len(taken) \in Nat /\ Len(source) \in Nat /\ Len(taken) <= Len(source)
         /\ \A i \in 1..Len(taken) : taken[i] = source[i]
<1>. DEFINE n == Len(source) - Len(stream)
            got == taken \o recvpkt_list
<1>1. StreamInv /\ taken \in Seq(Units) /\ recvpkt_list \in Seq(Units)
      /\ source \in Seq(Units) /\ stream \in Seq(Units) /\ wire \in Seq(Lines)
  BY Parts DEF SInv, SocketTypes
<1>2. n \in 0..Len(source) /\ Len(wire) \in Nat
  BY <1>1 DEF StreamInv
<1>3. /\ Len(got) = Len(taken) + Len(recvpkt_list)
      /\ \A i \in 1..Len(taken) : got[i] = taken[i]
  BY <1>1, ConcatProperties
<1>. HIDE DEF n, got
<1>4. PICK cut \in [0..Len(wire) -> Len(got)..n] : got = SubSeq(source, 1, cut[0])
  BY <1>1 DEF StreamInv, Split, n, got
<1>5. cut[0] \in Len(got)..n
  BY <1>2, <1>4
<1>6. Len(got) <= Len(source) /\ Len(got) \in Nat /\ cut[0] <= Len(source)
  BY <1>1, <1>2, <1>3, <1>5
<1>7. \A i \in 1..cut[0] : got[i] = source[i]
  BY <1>1, <1>2, <1>4, <1>5
<1>8. Len(taken) \in Nat /\ Len(recvpkt_list) \in Nat /\ Len(source) \in Nat
  BY <1>1
<1>9. Len(taken) <= Len(got) /\ Len(got) <= cut[0] /\ cut[0] \in Nat
  <2>. DEFINE t == Len(taken) r == Len(recvpkt_list) g == Len(got) c == cut[0]
  <2>1. t \in Nat /\ r \in Nat /\ g = t + r /\ n \in Nat /\ c \in g..n
    BY <1>2, <1>3, <1>5, <1>8
  <2>. HIDE DEF t, r, g, c
  <2>2. t <= g /\ g <= c /\ c \in Nat
    BY <2>1
  <2>. QED BY <2>2 DEF t, g, c
<1>10. Len(taken) <= Len(source) /\ \A i \in 1..Len(taken) : i \in 1..cut[0]
  <2>. DEFINE t == Len(taken) g == Len(got) c == cut[0] s == Len(source)
  <2>1. t \in Nat /\ g \in Nat /\ c \in Nat /\ s \in Nat /\ t <= g /\ g <= c /\ g <= s
    BY <1>6, <1>8, <1>9
  <2>. HIDE DEF t, g, c, s
  <2>2. t <= s /\ \A i \in 1..t : i \in 1..c
    BY <2>1
  <2>. QED BY <2>2 DEF t, c, s
<1>. QED BY <1>3, <1>7, <1>8, <1>10

\* At the end of an undisturbed stream all of it has been read.
LEMMA AllTaken ==
  ASSUME SInv, EndInv, Ended, trouble = "none", pc = "idle"
  PROVE  Len(taken) = Len(source)
<1>1. /\ SocketTypes /\ StreamInv
      /\ NoLine(wire, Notices) /\ NoLine(wire, Answers) /\ NoLine(wire, Sends)
  BY Parts DEF SInv, LinkInv, AnswerInv, SendInv, Commands, Ended
<1>2. /\ taken \in Seq(Units) /\ recvpkt_list = <<>> /\ source \in Seq(Units)
      /\ wire \in Seq(Lines) /\ Len(stream) = 0
  BY <1>1 DEF SocketTypes, Ended, EndInv
<1>3. Len(wire) = 0
  <2>1. \A i \in 1..Len(wire) : wire[i].kind \in Kinds
    BY <1>2 DEF Lines
  <2>2. \A k \in Kinds : k \in Notices \/ k \in Answers \/ k \in Sends
    BY DEF Kinds, Notices, Answers, Sends
  <2>3. ASSUME Len(wire) # 0 PROVE FALSE
    <3>1. 1 \in 1..Len(wire)
      BY <1>2, <2>3
    <3>. QED BY <1>1, <2>1, <2>2, <3>1 DEF NoLine
  <2>. QED BY <2>3
<1>4. taken \o recvpkt_list = taken
  BY <1>2, ConcatEmptySeq
<1>5. Split(source, Len(source), taken, wire)
  BY <1>1, <1>2, <1>4 DEF StreamInv
<1>6. PICK cut \in [0..0 -> Len(taken)..Len(source)] :
        taken = SubSeq(source, 1, cut[0]) /\ cut[0] = Len(source)
  BY <1>3, <1>5 DEF Split
<1>. QED BY <1>2, <1>6, SubSeqFull

\* A trouble is never forgotten in a connection.
LEMMA TroubleGrows ==
  ASSUME SInv, CallStep \/ Parser \/ Network
  PROVE  /\ trouble' = "none" => trouble = "none"
         /\ trouble' \in {"none", "cut"} => trouble \in {"none", "cut"}
<1>1. trouble \in {"none", "cut", "gap", "late"} /\ SocketTypeOK
  BY Parts DEF SocketTypeOK
<1>2. \/ UNCHANGED trouble
      \/ Happened("cut") \/ Happened("gap") \/ Happened("late")
  <2>1. ASSUME CallStep PROVE UNCHANGED trouble \/ Happened("cut") \/ Happened("gap") \/ Happened("late")
    BY <2>1 DEF CallStep, Started, Reclosed, Prompted, SendSeen, SendResult, RecvState,
      RecvTakes, RecvTimeout, Closed, Outcome, ReturnClosed
  <2>2. ASSUME Parser \/ Network
        PROVE  UNCHANGED trouble \/ Happened("cut") \/ Happened("gap")
    BY <2>2 DEF Parser, ReadAnswer, ReadSend, ReadData, ReadDataLost, ReadClosed,
      Network, ExecuteStart, ExecuteClose, ExecuteSend, Transmit, ServerSends,
      ServerCloses
  <2>. QED BY <2>1, <2>2
<1>. QED BY <1>1, <1>2, WorstKept

\* No step of a call and of the other threads breaks the end of the stream.
LEMMA EndKept ==
  ASSUME SInv, EndInv, CallStep \/ Parser \/ Network
  PROVE  EndInv'
<1>. SUFFICES ASSUME trouble' = "none", pc' # "closing",
                     state' = "CLOSED" \/ ~NoLine(wire', {"CLOSED"})
              PROVE  stream' = <<>>
  BY DEF EndInv
<1>1. /\ trouble = "none" /\ SInv' /\ SocketTypes /\ wire \in Seq(Lines)
      /\ LinkInv /\ CloseInv /\ LinkInv' /\ StartInv /\ AnswerInv /\ SendInv
      /\ pc \in Calls
  BY TroubleGrows, SocketKept, Parts DEF SInv, SocketTypes, SocketTypeOK
<1>2. NoLine(<<>>, {"CLOSED"})
  BY EmptyLine
<1>3. ASSUME CallStep PROVE stream' = <<>>
  <2>1. CASE Closed
    <3>1. state' = "NONE"
      BY <2>1 DEF Closed, Free
    <3>. QED BY <1>1, <1>2, <3>1 DEF LinkInv
  <2>2. CASE ~Closed
    <3>1. /\ pc # "closing" /\ state' \in {state, "CONNECT"}
          /\ UNCHANGED <<wire, stream>>
      BY <1>3, <2>2 DEF CallStep, Started, Reclosed, Prompted, SendSeen, SendResult,
        RecvState, RecvTakes, RecvTimeout, sockVars, netVars
    <3>. QED BY <1>1, <3>1 DEF EndInv
  <2>. QED BY <2>1, <2>2
<1>4. ASSUME Parser PROVE stream' = <<>>
  <2>1. wire # <<>> /\ wire' = Tail(wire) /\ UNCHANGED <<pc, stream>>
    BY <1>4 DEF Parser, ReadAnswer, ReadSend, ReadData, ReadDataLost, ReadClosed, Read,
      callVars
  <2>2. NoLine(wire, {"CLOSED"}) => NoLine(wire', {"CLOSED"}) /\ Head(wire).kind # "CLOSED"
    BY <1>1, <2>1, ReadNoLine
  <2>3. state' = state \/ Head(wire).kind = "CLOSED"
    BY <1>4 DEF Parser, ReadAnswer, ReadSend, ReadData, ReadDataLost, ReadClosed, Read,
      sockVars
  <2>. QED BY <1>1, <2>1, <2>2, <2>3 DEF EndInv
<1>5. ASSUME Network PROVE stream' = <<>>
  <2>1. UNCHANGED <<pc, state>>
    BY <1>5 DEF Network, ExecuteStart, ExecuteClose, ExecuteSend, Transmit, ServerSends,
      ServerCloses, sockVars, callVars
  <2>2. CASE ServerCloses
    <3>1. stream = <<>> \/ Happened("cut")
      BY <2>2 DEF ServerCloses
    <3>. QED BY <1>1, <2>2, <3>1, Parts, WorstKept DEF ServerCloses
  <2>3. CASE ExecuteClose
    <3>1. pc \in {"closing", "reclose"}
      BY <1>1, <2>3, NullAssumption
      DEF ExecuteClose, AnswerInv, SendInv, Issued, Executed, Commands, Calls
    <3>2. ~link
      BY <1>1, <2>1, <3>1 DEF CloseInv
    <3>3. wire' = wire \o <<Is("ERROR")>> /\ UNCHANGED stream
      BY <2>3, <3>2 DEF ExecuteClose, Says
    <3>4. NoLine(wire, {"CLOSED"}) => NoLine(wire', {"CLOSED"})
      BY <1>1, <3>3, PlainRecords, SaidNoLine DEF Kinds
    <3>. QED BY <1>1, <2>1, <3>3, <3>4 DEF EndInv
  <2>4. CASE ExecuteStart
    <3>1. pc = "start" /\ state = "OPEN" /\ wire = <<>>
      BY <1>1, <2>4, NullAssumption
      DEF ExecuteStart, AnswerInv, SendInv, Issued, Executed, StartInv, Commands, Calls
    <3>2. PICK k \in {"OK", "ERROR"} : wire' = wire \o <<Is(k)>>
      BY <2>4 DEF ExecuteStart, Says
    <3>3. NoLine(wire', {"CLOSED"})
      BY <1>1, <1>2, <3>1, <3>2, PlainRecords, SaidNoLine DEF Kinds
    <3>. QED BY <2>1, <3>1, <3>3
  <2>5. CASE ExecuteSend \/ Transmit
    <3>1. UNCHANGED stream
      BY <2>5 DEF ExecuteSend, Transmit
    <3>2. PICK k \in Kinds \ {"CLOSED"} : wire' = wire \o <<Is(k)>>
      BY <2>5 DEF ExecuteSend, Transmit, Says, Kinds
    <3>3. NoLine(wire, {"CLOSED"}) => NoLine(wire', {"CLOSED"})
      BY <1>1, <3>2, PlainRecords, SaidNoLine
    <3>. QED BY <1>1, <2>1, <3>1, <3>3 DEF EndInv
  <2>6. CASE ServerSends
    <3>1. PICK n \in 1..Smaller(MaxPacket, Len(stream)) :
            /\ wire' = wire \o <<IPD(SubSeq(stream, 1, n))>>
            /\ stream' = SubSeq(stream, n + 1, Len(stream))
      BY <2>6 DEF ServerSends, Says
    <3>2. n \in Nat \ {0} /\ n <= Len(stream) /\ stream \in Seq(Units)
      BY <1>1, <3>1, MaxPacketAssumption DEF Smaller, SocketTypes
    <3>3. stream # <<>>
      BY <3>2
    <3>4. (state # "CLOSED" /\ NoLine(wire, {"CLOSED"})) \/ pc = "closing"
      BY <1>1, <3>3 DEF EndInv
    <3>5. SubSeq(stream, 1, n) \in Seq(Units)
      BY <3>2
    <3>6. NoLine(wire', {"CLOSED"})
      <4>. DEFINE l == IPD(SubSeq(stream, 1, n))
      <4>1. l \in Lines /\ l.kind \notin {"CLOSED"} /\ wire' = wire \o <<l>>
        BY <3>1, <3>5, PlainRecords
      <4>2. NoLine(wire, {"CLOSED"}) /\ wire \in Seq(Lines)
        BY <1>1, <2>1, <3>4
      <4>. HIDE DEF l
      <4>. QED BY <4>1, <4>2, SaidNoLine
    <3>. QED BY <2>1, <3>4, <3>6
  <2>. QED BY <1>5, <2>2, <2>3, <2>4, <2>5, <2>6 DEF Network
<1>. QED BY <1>3, <1>4, <1>5

\* Nor does any call that a program begins.
LEMMA EndUsed ==
  ASSUME SInv, SInv', EndInv,
         \/ Socket /\ trouble # "late"
         \/ Connect
         \/ Send
         \/ \E n \in Nat \ {0} : Recv(n)
         \/ Close
  PROVE  EndInv'
<1>. SUFFICES ASSUME trouble' = "none", pc' # "closing",
                     state' = "CLOSED" \/ ~NoLine(wire', {"CLOSED"})
              PROVE  stream' = <<>>
  BY DEF EndInv
<1>1. LinkInv'
  BY Parts DEF SInv
<1>2. CASE Socket /\ trouble # "late"
  <2>1. pc = "idle" /\ state = "NONE"
    BY <1>2 DEF Socket
  <2>2. ~link
    BY <1>2, <2>1, Parts DEF LinkInv
  <2>. QED BY <1>2, <2>2 DEF Socket
<1>3. CASE Connect \/ Send \/ \E n \in Nat \ {0} : Recv(n)
  <2>1. pc = "idle" /\ UNCHANGED <<state, wire, stream, trouble>>
    BY <1>3 DEF Connect, Send, Recv, sockVars, netVars
  <2>. QED BY <2>1 DEF EndInv
<1>4. CASE Close
  <2>1. /\ pc = "idle" /\ UNCHANGED <<wire, stream, trouble>>
        /\ state' = "NONE" \/ pc' = "closing"
    BY <1>4 DEF Close, Free
  <2>. QED BY <1>1, <2>1, EmptyLine DEF LinkInv
<1>. QED BY <1>2, <1>3, <1>4

\* A source is a stream, once there was a connection.
LEMMA SourceKept ==
  ASSUME SourceInv,
         \/ CallStep \/ Parser \/ Network \/ Socket \/ Connect \/ Send \/ Close
         \/ \E n \in Nat \ {0} : Recv(n)
  PROVE  SourceInv'
<1>1. UNCHANGED source \/ source' \in Streams \/ source' = <<>>
  <2>1. CASE CallStep
    BY <2>1 DEF CallStep, Started, Reclosed, Prompted, SendSeen, SendResult, RecvState,
      RecvTakes, RecvTimeout, Closed, netVars
  <2>2. CASE Parser \/ Network
    BY <2>2 DEF Parser, ReadAnswer, ReadSend, ReadData, ReadDataLost, ReadClosed,
      Network, ExecuteStart, ExecuteClose, ExecuteSend, Transmit, ServerSends,
      ServerCloses
  <2>3. CASE Socket \/ Connect \/ Send \/ Close \/ \E n \in Nat \ {0} : Recv(n)
    BY <2>3 DEF Socket, Connect, Send, Close, Recv, netVars
  <2>. QED BY <2>1, <2>2, <2>3
<1>. QED BY <1>1 DEF SourceInv

\* A program that asks for n units gets them from the list, or waits.
LEMMA RecvReads ==
  ASSUME SInv, NEW n \in Nat \ {0}, Recv(n), trouble \in {"none", "cut"}
  PROVE  /\ UNCHANGED <<source, state, trouble>>
         /\ \/ /\ recvpkt_list # <<>> /\ pc' = "idle" /\ ret'.kind = "data"
               /\ ret'.data \in Seq(Units) /\ Len(ret'.data) \in 1..n
               /\ taken' = taken \o ret'.data
            \/ /\ recvpkt_list = <<>> /\ pc' = "recvstate" /\ want' = n
               /\ UNCHANGED <<taken, recvpkt_list>>
<1>1. SocketTypes /\ UpTo("cut")
  BY Parts
<1>2. UNCHANGED <<source, state, trouble>>
  BY DEF Recv, netVars
<1>3. CASE recvpkt_list # <<>>
  <2>1. Take(n)
    BY <1>3 DEF Recv
  <2>2. /\ pc' = "idle" /\ ret' \in Results /\ ret'.kind = "data"
        /\ Len(ret'.data) \in 1..n /\ taken' = taken \o ret'.data
    BY <1>1, <1>3, <2>1, TakenFrom
  <2>. QED BY <1>2, <1>3, <2>2 DEF Results
<1>4. CASE recvpkt_list = <<>>
  BY <1>2, <1>4 DEF Recv
<1>. QED BY <1>3, <1>4

\* It goes on waiting, gets them, meets the end of the stream, or gives up.
LEMMA CallReads ==
  ASSUME SInv, CallStep, pc \in {"recvstate", "recvwait"}, trouble' \in {"none", "cut"}
  PROVE  /\ trouble \in {"none", "cut"} /\ UNCHANGED <<source, state, want>>
         /\ \/ pc' = "recvwait" /\ UNCHANGED <<taken, trouble, recvpkt_list>>
            \/ /\ pc' = "idle" /\ ret'.kind = "data" /\ recvpkt_list # <<>>
               /\ ret'.data \in Seq(Units) /\ Len(ret'.data) \in 1..want
               /\ taken' = taken \o ret'.data /\ UNCHANGED trouble
            \/ /\ pc' = "idle" /\ ret'.kind = "closed" /\ Ended'
               /\ UNCHANGED <<taken, trouble, recvpkt_list>>
            \/ /\ pc' = "idle" /\ ret'.kind = "timeout" /\ trouble' = "cut"
               /\ UNCHANGED <<taken, recvpkt_list>>
<1>1. /\ SocketTypes /\ SocketTypeOK /\ trouble \in {"none", "cut"} /\ UpTo("cut")
      /\ state \in {"CONNECT", "CLOSED"} /\ want \in Nat \ {0}
  BY TroubleGrows, Parts DEF CallInv, SocketTypes
<1>2. /\ RecvState \/ RecvTakes \/ RecvTimeout
      /\ UNCHANGED <<source, state, want>>
  BY DEF CallStep, Started, Reclosed, Prompted, SendSeen, SendResult, RecvState,
    RecvTakes, RecvTimeout, Closed, sockVars, netVars
<1>3. ASSUME state = "CLOSED", ReturnClosed, UNCHANGED <<recvpkt_list, taken>>
      PROVE  /\ pc' = "idle" /\ ret'.kind = "closed" /\ Ended'
             /\ UNCHANGED <<taken, trouble, recvpkt_list>>
  <2>1. pc' = "idle" /\ ret'.kind = "closed"
    BY <1>3, PlainRecords DEF ReturnClosed, Return, Is
  <2>2. recvpkt_list = <<>> /\ UNCHANGED trouble
    BY <1>1, <1>3, WorstKept DEF ReturnClosed
  <2>. QED BY <1>2, <1>3, <2>1, <2>2 DEF Ended
<1>4. CASE RecvState
  BY <1>1, <1>2, <1>3, <1>4 DEF RecvState, sockVars
<1>5. CASE RecvTimeout
  <2>1. /\ pc' = "idle" /\ ret'.kind = "timeout" /\ Happened("cut")
        /\ UNCHANGED <<taken, recvpkt_list>>
    BY <1>5 DEF RecvTimeout, Return, Is, sockVars
  <2>. QED BY <1>1, <1>2, <2>1, WorstKept
<1>6. CASE RecvTakes
  <2>1. CASE state = "CONNECT" /\ recvpkt_list # <<>> /\ Take(want) /\ UNCHANGED trouble
    <3>1. /\ pc' = "idle" /\ ret' \in Results /\ ret'.kind = "data"
          /\ Len(ret'.data) \in 1..want /\ taken' = taken \o ret'.data
      BY <1>1, <2>1, TakenFrom
    <3>. QED BY <1>1, <1>2, <2>1, <3>1 DEF Results
  <2>2. CASE UNCHANGED <<recvpkt_list, pc, ret, taken, trouble>>
    BY <1>1, <1>2, <1>6, <2>2 DEF RecvTakes
  <2>3. CASE state # "CONNECT" /\ ReturnClosed /\ UNCHANGED <<recvpkt_list, taken>>
    BY <1>1, <1>2, <1>3, <2>3
  <2>. QED BY <1>6, <2>1, <2>2, <2>3 DEF RecvTakes
<1>. QED BY <1>2, <1>4, <1>5, <1>6

\* The other threads leave what a program has read alone, and an end is the end.
LEMMA OthersRead ==
  ASSUME SInv, Parser \/ Network, trouble' \in {"none", "cut"},
         pc \in {"idle", "recvstate", "recvwait", "closing"}
  PROVE  /\ trouble \in {"none", "cut"} /\ UNCHANGED <<source, taken, pc, ret, want>>
         /\ trouble = "cut" => trouble' = "cut"
         /\ Ended /\ pc # "closing" => Ended'
<1>1. /\ trouble \in {"none", "cut"} /\ (trouble = "cut" => trouble' = "cut")
      /\ LinkInv /\ AnswerInv
  BY TroubleGrows, Parts
<1>2. UNCHANGED <<taken, pc, ret, want>> /\ state' \in {state, "CLOSED"}
  BY DEF Parser, ReadAnswer, ReadSend, ReadData, ReadDataLost, ReadClosed, callVars,
    Network, ExecuteStart, ExecuteClose, ExecuteSend, Transmit, ServerSends,
    ServerCloses, sockVars
<1>3. ~ExecuteStart
  BY <1>1, NullAssumption DEF ExecuteStart, AnswerInv, Issued, Executed, Commands
<1>4. UNCHANGED source
  BY <1>3 DEF Parser, ReadAnswer, ReadSend, ReadData, ReadDataLost, ReadClosed,
    Network, ExecuteClose, ExecuteSend, Transmit, ServerSends, ServerCloses
<1>5. ASSUME Ended, pc # "closing"
      PROVE  recvpkt_list' = recvpkt_list
  <2>1. wire # <<>> => Head(wire).kind # "IPD"
    <3>1. NoLine(wire, Notices) /\ wire \in Seq(Lines)
      BY <1>1, <1>5, Parts DEF Ended, LinkInv, SocketTypes
    <3>2. wire # <<>> => 1 \in 1..Len(wire) /\ Head(wire) = wire[1]
      BY <3>1
    <3>. QED BY <3>1, <3>2 DEF NoLine, Notices
  <2>. QED BY <2>1 DEF Parser, ReadAnswer, ReadSend, ReadData, ReadDataLost, ReadClosed,
    Read, Network, ExecuteStart, ExecuteClose, ExecuteSend, Transmit, ServerSends,
    ServerCloses, sockVars
<1>. QED BY <1>1, <1>2, <1>4, <1>5 DEF Ended

-----------------------------------------------------------------------------
(* The socket as a component, for any program that uses it in order.       *)

\* The calls a program may begin: socket() while it has none, then connect; send
\* and recv on a socket that was connected, recv for at least one unit; close at
\* any time.  As in WebClient no socket is asked for once a command timed out.
Uses ==
  \/ Socket /\ trouble # "late"
  \/ Connect /\ state # "NONE"
  \/ Send /\ state \in {"CONNECT", "CLOSED"}
  \/ state \in {"CONNECT", "CLOSED"} /\ \E n \in Nat \ {0} : Recv(n)
  \/ Close

SocketNext == CallStep \/ Parser \/ Network \/ Uses

SocketSpec == InitSocket /\ [][SocketNext]_atVars

\* The inductive invariant of the component.
SocketInv == SInv /\ EndInv /\ SourceInv

\* A step of the component keeps it.
LEMMA SocketStepKeeps == SocketInv /\ [SocketNext]_atVars => SocketInv'
<1>. SUFFICES ASSUME SocketInv, [SocketNext]_atVars PROVE SocketInv'
  OBVIOUS
<1>1. SInv /\ EndInv /\ SourceInv
  BY DEF SocketInv
<1>2. CASE CallStep \/ Parser \/ Network
  <2>1. SInv'
    BY <1>1, <1>2, SocketKept
  <2>2. EndInv'
    BY <1>1, <1>2, EndKept
  <2>3. SourceInv'
    BY <1>1, <1>2, SourceKept
  <2>. QED BY <2>1, <2>2, <2>3 DEF SocketInv
<1>3. CASE Uses
  <2>1. SInv'
    BY <1>1, <1>3, SocketUsed DEF Uses
  <2>2. EndInv'
    BY <1>1, <1>3, <2>1, EndUsed DEF Uses
  <2>3. SourceInv'
    BY <1>1, <1>3, SourceKept DEF Uses
  <2>. QED BY <2>1, <2>2, <2>3 DEF SocketInv
<1>4. CASE UNCHANGED atVars
  <2>1. SInv'
    BY <1>1, <1>4, Untouched
  <2>2. EndInv' /\ SourceInv'
    BY <1>1, <1>4 DEF EndInv, SourceInv, atVars
  <2>. QED BY <2>1, <2>2 DEF SocketInv
<1>. QED BY <1>2, <1>3, <1>4 DEF SocketNext

\* For any program that calls it in order, any module and any server, the socket
\* keeps its invariant (at_socket.c, at_socket_esp8266.c).
THEOREM SocketInvariance == SocketSpec => []SocketInv
<1>1. InitSocket => SocketInv
  <2>. SUFFICES ASSUME InitSocket PROVE SocketInv
    OBVIOUS
  <2>1. SInv
    BY InitSInv
  <2>2. EndInv /\ SourceInv
    BY EmptyLine DEF InitSocket, EndInv, SourceInv
  <2>. QED BY <2>1, <2>2 DEF SocketInv
<1>. QED BY <1>1, SocketStepKeeps, PTL DEF SocketSpec

\* And its promises: what was sent is in place, in order, wherever it is; a
\* thread asleep in recv has its notice; and a free socket has no link behind it.
THEOREM SocketKeepsPromises ==
  SocketSpec => [](/\ StreamIntact /\ WaiterNotified
                   /\ state = "NONE" /\ UpTo("gap") => ~link /\ module = Null)
<1>1. SocketInv => /\ StreamIntact /\ WaiterNotified
                   /\ state = "NONE" /\ UpTo("gap") => ~link /\ module = Null
  BY SocketPromises DEF SocketInv
<1>. QED BY <1>1, SocketInvariance, PTL

-----------------------------------------------------------------------------
(* The socket implements a stream of bytes.                                *)

\* An end that is reported without a trouble is the end of what was sent.
LEMMA OverIsTheEnd ==
  ASSUME SocketInv, Over, trouble = "none"
  PROVE  taken = source
<1>1. SInv /\ EndInv /\ pc = "idle" /\ Ended /\ state # "NONE"
  BY DEF SocketInv, Over, Ended
<1>2. Len(taken) = Len(source)
  BY <1>1, AllTaken
<1>3. \A i \in 1..Len(taken) : taken[i] = source[i]
  BY <1>1, TakenPrefix
<1>4. taken \in Seq(Units) /\ source \in Seq(Units)
  BY <1>1, Parts DEF SocketTypes
<1>. QED BY <1>2, <1>3, <1>4, SeqEqual

\* The same of the state that a step leads to.
LEMMA OverNow ==
  SocketInv' /\ Over' /\ trouble' = "none" => taken' = source'
<1>1. SocketInv /\ Over /\ trouble = "none" => taken = source
  BY OverIsTheEnd
<1>2. (SocketInv /\ Over /\ trouble = "none" => taken = source)'
  BY <1>1, PTL
<1>. QED BY <1>2

\* And what it has read.
LEMMA ReadSoFar ==
  SInv' /\ trouble' \in {"none", "cut"} /\ state' # "NONE" /\ pc' # "closing"
    => /\ Len(taken') \in Nat /\ Len(source') \in Nat /\ Len(taken') <= Len(source')
       /\ \A i \in 1..Len(taken') : taken'[i] = source'[i]
<1>1. SInv /\ trouble \in {"none", "cut"} /\ state # "NONE" /\ pc # "closing"
        => /\ Len(taken) \in Nat /\ Len(source) \in Nat /\ Len(taken) <= Len(source)
           /\ \A i \in 1..Len(taken) : taken[i] = source[i]
  BY TakenPrefix
<1>2. (SInv /\ trouble \in {"none", "cut"} /\ state # "NONE" /\ pc # "closing"
         => /\ Len(taken) \in Nat /\ Len(source) \in Nat /\ Len(taken) <= Len(source)
            /\ \A i \in 1..Len(taken) : taken[i] = source[i])'
  BY <1>1, PTL
<1>. QED BY <1>2

\* A step that reads nothing and keeps the connection.
LEMMA NothingRead ==
  ASSUME SocketInv, SocketInv', UNCHANGED <<source, taken>>,
         \/ UNCHANGED trouble
         \/ Happened("cut") \/ Happened("gap") \/ Happened("late")
  PROVE  Stream!Next
<1>1. SocketTypeOK /\ Over' \in BOOLEAN
  BY Parts DEF SocketInv, Over
<1>2. CASE UNCHANGED trouble
  <2>1. CASE Over'
    <3>1. trouble' = "none" => taken' = source'
      BY <2>1, OverNow
    <3>. QED BY <1>2, <2>1, <3>1 DEF Stream!Next, Stream!End
  <2>2. CASE ~Over'
    BY <1>1, <1>2, <2>2 DEF Stream!Next, Stream!Call
  <2>. QED BY <2>1, <2>2
<1>3. CASE trouble' # trouble
  <2>1. trouble \in {"none", "cut", "gap", "late"}
    BY <1>1 DEF SocketTypeOK
  <2>2. \/ trouble = "none" /\ trouble' \in {"cut", "gap", "late"}
        \/ trouble = "cut" /\ trouble' \in {"gap", "late"}
        \/ trouble = "gap" /\ trouble' = "late"
    BY <1>1, <1>3, <2>1, WorstKept
  <2>. QED BY <1>1, <2>2 DEF Stream!Next, Stream!Worsen
<1>. QED BY <1>2, <1>3

\* A sequence that agrees with the beginning of another is that beginning.
LEMMA PrefixIs ==
  ASSUME NEW s \in Seq(Units), NEW t \in Seq(Units), Len(t) <= Len(s),
         \A i \in 1..Len(t) : t[i] = s[i]
  PROVE  t = SubSeq(s, 1, Len(t))
<1>. DEFINE n == Len(t)
            p == SubSeq(s, 1, n)
<1>1. n \in Nat /\ n <= Len(s) /\ Len(s) \in Nat
  OBVIOUS
<1>2. p \in Seq(Units) /\ Len(p) = n
  BY <1>1
<1>3. \A i \in 1..n : p[i] = s[i]
  BY <1>1
<1>4. \A i \in 1..Len(t) : t[i] = p[i]
  BY <1>3
<1>. HIDE DEF p
<1>5. t = p
  BY <1>2, <1>4, SeqEqual
<1>. QED BY <1>5 DEF p

\* A step in which recv returns data.
LEMMA SomethingRead ==
  ASSUME SocketInv, SocketInv', NEW n \in Nat \ {0}, recvpkt_list # <<>>, Take(n),
         state \in {"CONNECT", "CLOSED"}, UNCHANGED <<state, source, trouble>>
  PROVE  Stream!Next
<1>1. /\ SInv /\ SInv' /\ SocketTypes /\ SocketTypeOK
      /\ taken \in Seq(Units) /\ source \in Seq(Units)
  BY Parts DEF SocketInv, SocketTypes
<1>2. /\ pc' = "idle" /\ ret'.kind = "data" /\ Len(ret'.data) \in 1..n
      /\ ret'.data \in Seq(Units)
      /\ UpTo("cut") => taken' = taken \o ret'.data
  BY <1>1, TakenFrom DEF Results
<1>3. ~Over'
  BY <1>2 DEF Over
<1>4. CASE trouble \in {"none", "cut"}
  <2>. DEFINE k == Len(ret'.data)
  <2>1. UpTo("cut") /\ taken' = taken \o ret'.data
    BY <1>1, <1>2, <1>4, Parts
  <2>2. Len(taken') = Len(taken) + k /\ k \in Nat \ {0} /\ Len(taken) \in Nat
    BY <1>1, <1>2, <2>1, ConcatProperties
  <2>3. /\ Len(taken') <= Len(source) /\ Len(source) \in Nat
        /\ \A i \in 1..Len(taken') : taken'[i] = source[i]
    <3>1. /\ Len(taken') <= Len(source') /\ Len(source') \in Nat
          /\ \A i \in 1..Len(taken') : taken'[i] = source'[i]
      BY <1>1, <1>2, <1>4, ReadSoFar
    <3>. QED BY <3>1
  <2>. HIDE DEF k
  <2>4. taken' = SubSeq(source, 1, Len(taken) + k)
    <3>1. taken' \in Seq(Units)
      BY <1>1, TakenFrom
    <3>. QED BY <1>1, <2>2, <2>3, <3>1, PrefixIs
  <2>5. k \in 1..(Len(source) - Len(taken))
    <3>. DEFINE s == Len(source) t == Len(taken)
    <3>1. t \in Nat /\ s \in Nat /\ k \in Nat \ {0} /\ t + k <= s
      BY <2>2, <2>3
    <3>. HIDE DEF s, t
    <3>2. k \in 1..(s - t)
      BY <3>1
    <3>. QED BY <3>2 DEF s, t
  <2>. QED BY <1>3, <1>4, <2>4, <2>5 DEF Stream!Next, Stream!Read, Stream!InOrder
<1>5. CASE trouble \notin {"none", "cut"}
  <2>1. taken' = <<>>
    BY <1>1, <1>5, Parts DEF Take
  <2>2. Over' \in BOOLEAN
    BY DEF Over
  <2>. QED BY <1>5, <2>1, <2>2 DEF Stream!Next, Stream!Broken, Stream!InOrder
<1>. QED BY <1>4, <1>5

\* Every step of a call, of at_clnt and of the module is one of the stream.
LEMMA KeptIsStream ==
  ASSUME SocketInv, SocketInv', CallStep \/ Parser \/ Network
  PROVE  Stream!Next
<1>1. SInv /\ SocketTypeOK
  BY Parts DEF SocketInv
<1>2. ASSUME CallStep PROVE Stream!Next
  <2>1. /\ UNCHANGED source
        /\ \/ UNCHANGED trouble
           \/ Happened("cut") \/ Happened("gap") \/ Happened("late")
    BY <1>2 DEF CallStep, Started, Reclosed, Prompted, SendSeen, SendResult, RecvState,
      RecvTakes, RecvTimeout, Closed, Outcome, ReturnClosed, netVars
  <2>2. \/ UNCHANGED taken
        \/ /\ pc = "recvwait" /\ state = "CONNECT" /\ recvpkt_list # <<>> /\ Take(want)
           /\ UNCHANGED <<state, source, trouble>>
    BY <1>2 DEF CallStep, Started, Reclosed, Prompted, SendSeen, SendResult, RecvState,
      RecvTakes, RecvTimeout, Closed, netVars
  <2>3. pc = "recvwait" => want \in Nat \ {0}
    BY <1>1, Parts DEF SocketTypes
  <2>. QED BY <2>1, <2>2, <2>3, NothingRead, SomethingRead
<1>3. ASSUME Parser PROVE Stream!Next
  <2>1. /\ UNCHANGED <<source, taken>>
        /\ UNCHANGED trouble \/ Happened("gap")
    BY <1>3 DEF Parser, ReadAnswer, ReadSend, ReadData, ReadDataLost, ReadClosed
  <2>. QED BY <2>1, NothingRead
<1>4. ASSUME Network PROVE Stream!Next
  <2>1. /\ UNCHANGED <<taken, pc, ret, state, recvpkt_list>>
        /\ UNCHANGED trouble \/ Happened("cut")
    BY <1>4 DEF Network, ExecuteStart, ExecuteClose, ExecuteSend, Transmit, ServerSends,
      ServerCloses, sockVars, callVars
  <2>2. UNCHANGED source \/ (ExecuteStart /\ source' \in Streams)
    BY <1>4 DEF Network, ExecuteStart, ExecuteClose, ExecuteSend, Transmit, ServerSends,
      ServerCloses
  <2>3. ASSUME ExecuteStart, source' \in Streams
        PROVE  Stream!Next
    <3>1. UNCHANGED trouble /\ module = "START" /\ Over' = Over /\ Over' \in BOOLEAN
      BY <2>1, <2>3 DEF ExecuteStart, Over
    <3>2. CASE trouble # "late"
      <4>1. AnswerInv /\ SendInv /\ StartInv
        BY <1>1, <3>2, Parts
      <4>2. pc = "start"
        BY <1>1, <3>1, <4>1, NullAssumption DEF AnswerInv, SendInv, Issued, Executed,
          Commands, SocketTypeOK, Calls
      <4>3. taken = <<>>
        BY <4>1, <4>2 DEF StartInv
      <4>. QED BY <2>1, <2>3, <3>1, <4>3 DEF Stream!Next, Stream!Accept
    <3>3. CASE trouble = "late"
      BY <2>1, <2>3, <3>1, <3>3 DEF Stream!Next, Stream!Broken, Stream!InOrder
    <3>. QED BY <3>2, <3>3
  <2>. QED BY <2>1, <2>2, <2>3, NothingRead
<1>. QED BY <1>2, <1>3, <1>4

\* So is every call a program begins.
LEMMA UseIsStream ==
  ASSUME SocketInv, SocketInv', Uses
  PROVE  Stream!Next
<1>1. SInv /\ SocketTypeOK /\ trouble \in {"none", "cut", "gap", "late"}
  BY Parts DEF SocketInv, SocketTypeOK
<1>2. CASE Socket
  <2>1. ~Over' /\ taken' = <<>> /\ source' \in {source, <<>>}
    BY <1>2 DEF Socket, Over, Return, Is
  <2>2. trouble' = IF trouble = "late" THEN "late" ELSE "none"
    BY <1>1, <1>2, Parts DEF Socket
  <2>3. Over' = FALSE
    BY <2>1 DEF Over
  <2>. QED BY <2>1, <2>2, <2>3 DEF Stream!Next, Stream!Begin
<1>3. CASE Connect \/ Send \/ Close
  <2>1. UNCHANGED <<source, taken, trouble>>
    BY <1>3 DEF Connect, Send, Close
  <2>. QED BY <2>1, NothingRead
<1>4. ASSUME state \in {"CONNECT", "CLOSED"}, NEW n \in Nat \ {0}, Recv(n)
      PROVE  Stream!Next
  <2>1. UNCHANGED <<state, source, trouble>>
    BY <1>4 DEF Recv, netVars
  <2>2. CASE recvpkt_list # <<>>
    <3>1. Take(n)
      BY <1>4, <2>2 DEF Recv
    <3>. QED BY <1>4, <2>1, <2>2, <3>1, SomethingRead
  <2>3. CASE recvpkt_list = <<>>
    <3>1. UNCHANGED taken
      BY <1>4, <2>3 DEF Recv
    <3>. QED BY <2>1, <3>1, NothingRead
  <2>. QED BY <2>2, <2>3
<1>. QED BY <1>2, <1>3, <1>4 DEF Uses

\* Packets, notices, the list, the thread at_clnt and the module behind the
\* serial line are, to a program that uses the socket in order, a stream of
\* bytes (at_socket.c:747-860, at_socket_esp8266.c:337-420).
THEOREM SocketIsAByteStream == SocketSpec => StreamServed
<1>1. InitSocket => Stream!Init
  BY DEF InitSocket, Stream!Init, Over, Is
<1>2. SocketInv /\ SocketInv' /\ [SocketNext]_atVars
        => [Stream!Next]_<<source, taken, trouble, Over>>
  <2>. SUFFICES ASSUME SocketInv, SocketInv', [SocketNext]_atVars
                PROVE  [Stream!Next]_<<source, taken, trouble, Over>>
    OBVIOUS
  <2>1. CASE SocketNext
    BY <2>1, KeptIsStream, UseIsStream DEF SocketNext
  <2>2. CASE UNCHANGED atVars
    BY <2>2 DEF atVars, Over
  <2>. QED BY <2>1, <2>2
<1>. QED BY <1>1, <1>2, SocketInvariance, PTL
  DEF SocketSpec, StreamServed, Stream!Spec, Stream!streamVars
=============================================================================
