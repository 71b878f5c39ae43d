--------------------------- MODULE AtClientProofs ---------------------------
(***************************************************************************)
(* The safety properties of AtClient, for any set of threads and any       *)
(* number of probes.                                                       *)
(*                                                                         *)
(* None of them is inductive: they speak of the response and the           *)
(* semaphore, which nothing but the mutex protects.  IInv adds who owns    *)
(* the mutex and how often (LockInv), which operations reach a position    *)
(* (OpInv), that a registered response is the owner's and stands for one   *)
(* notice that may still come (NoticeInv), that a command has its response *)
(* registered before it sends (SendInv), and what is under way while an    *)
(* undisturbed command waits (CleanInv).                                   *)
(***************************************************************************)
EXTENDS AtClient, TLAPS

Inside   == {"send", "take", "timedout", "check", "exit", "delete", "clear"}
Between  == {"packet", "outerunlock"}

Owns(t) == \/ pc[t] \in Inside \cup Between \cup {"register", "unlock"}
           \/ pc[t] = "lock" /\ op[t] = "prompt"

\* The sending of data holds the mutex twice inside of at_obj_exec_cmd.
Hold(t) == IF op[t] = "prompt" /\ pc[t] \notin Between \cup {"lock"} THEN 2 ELSE 1

LockInv ==
  /\ \A t \in Threads : lockOwner = t <=> Owns(t)
  /\ \A t \in Threads : lockOwner = t => lockHold = Hold(t)
  /\ lockOwner = Null => lockHold = 0

OpInv ==
  \A t \in Threads :
    /\ pc[t] \in Between \cup {"outer"} => op[t] = "prompt"
    /\ pc[t] \in {"delete", "clear"} => op[t] = "probe"
    /\ pc[t] \in {"timedout", "check"} => op[t] # "probe"
    /\ pc[t] \in {"take", "timedout", "check"} => op[t] # "blind"

\* A registered response is that of the owner, inside of its command.
RespInv == resp # Null => resp = lockOwner /\ pc[resp] \in Inside

\* The owner is to take a notice.
ToTake == /\ lockOwner # Null
          /\ pc[lockOwner] \in {"send", "take"} /\ op[lockOwner] # "blind"

Expected == IF resp = Null THEN 0 ELSE 1

\* The notices there are and the one that may still come, against those that
\* will be taken: at most one is left over.
NoticeInv == Len(notice) + Expected <= IF ToTake THEN 2 ELSE 1

\* What is under way answers the command sent last.
Ours == /\ module # Null => module = [op |-> "exec", cur |-> TRUE]
        /\ \A i \in 1..Len(wire) : wire[i].cur \/ wire[i].kind = "text"

\* A command sent in silence waits for its own answer, has it, or took it.
Awaited  == resp # Null /\ notice = <<>> /\ Ours
Answered == \E k \in {"OK", "ERROR"} :
              resp = Null /\ notice = <<Text(k, TRUE)>> /\ resp_status = k
Taken    == \E k \in {"OK", "ERROR"} :
              resp = Null /\ got = Text(k, TRUE) /\ resp_status = k

\* Before the send its response is registered, or an old answer completed it.
SendInv == \A t \in Threads : op[t] = "exec" /\ pc[t] = "send" =>
             resp # Null \/ notice # <<>>

CleanInv ==
  \A t \in Threads : op[t] = "exec" /\ clean =>
    /\ pc[t] = "take"  => Awaited \/ Answered
    /\ pc[t] = "check" => Taken
    /\ pc[t] = "exit" /\ result # "TIMEOUT" => got = Text(result, TRUE)

IInv == TypeOK /\ LockInv /\ OpInv /\ RespInv /\ NoticeInv /\ SendInv /\ CleanInv
-----------------------------------------------------------------------------
(* Sequences of lines.                                                     *)

LEMMA TextIsLine ==
  ASSUME NEW k \in Kinds, NEW c \in BOOLEAN
  PROVE  Text(k, c) \in Line /\ Text(k, c).kind = k /\ Text(k, c).cur = c
BY DEF Text, Line

\* A new command makes every line an old one, and none more or less.
LEMMA OldLines ==
  ASSUME NEW lines \in Seq(Line)
  PROVE  /\ Old(lines) \in Seq(Line)
         /\ Len(Old(lines)) = Len(lines)
         /\ lines = <<>> => Old(lines) = <<>>
<1>1. \A i \in 1..Len(lines) : [lines[i] EXCEPT !.cur = FALSE] \in Line
  <2>1. \A l \in Line : [l EXCEPT !.cur = FALSE] \in Line
    BY DEF Line
  <2>. QED
    BY <2>1
<1>2. Old(lines) \in Seq(Line)
  BY <1>1 DEF Old
<1>3. Len(Old(lines)) = Len(lines)
  BY <1>1, <1>2 DEF Old
<1>. QED
  BY <1>2, <1>3

\* The answers of the module are lines, and those to a command without a line
\* count say which command they answer.
LEMMA AnswersAreLines ==
  ASSUME NEW o \in Ops, NEW c \in BOOLEAN, NEW lines \in Answers(o, c)
  PROVE  /\ lines \in Seq(Line)
         /\ o = "exec" /\ c => \A i \in 1..Len(lines) : lines[i].cur
<1>1. \A k \in Kinds : Text(k, c) \in Line /\ Text(k, c).cur = c
  BY TextIsLine
<1>2. \A x, y \in Line : /\ <<x>> \in Seq(Line) /\ <<x, y>> \in Seq(Line)
                        /\ Len(<<x>>) = 1 /\ Len(<<x, y>>) = 2
  OBVIOUS
<1>3. \A x, y, z \in Line : <<x, y, z>> \in Seq(Line)
  OBVIOUS
<1>4. CASE o = "prompt"
  BY <1>1, <1>2, <1>3, <1>4 DEF Answers, Kinds
<1>5. CASE o # "prompt"
  <2>1. PICK k \in Kinds : \/ lines = <<Text(k, c)>>
                          \/ lines = <<Text(k, c), Text("OK", c)>>
    BY <1>5 DEF Answers, Kinds
  <2>2. Text(k, c) \in Line /\ Text("OK", c) \in Line
        /\ Text(k, c).cur = c /\ Text("OK", c).cur = c
    BY <1>1 DEF Kinds
  <2>3. lines \in Seq(Line)
    BY <1>2, <2>1, <2>2
  <2>4. \A i \in 1..Len(lines) : lines[i] \in {Text(k, c), Text("OK", c)}
    <3>1. \A x : Len(<<x>>) = 1 /\ <<x>>[1] = x
      OBVIOUS
    <3>2. \A x, y : Len(<<x, y>>) = 2 /\ <<x, y>>[1] = x /\ <<x, y>>[2] = y
      OBVIOUS
    <3>. QED
      BY <2>1, <3>1, <3>2
  <2>. QED
    BY <2>2, <2>3, <2>4
<1>. QED
  BY <1>4, <1>5
-----------------------------------------------------------------------------
(* The actions.                                                            *)

\* A thread that waits for the mutex is in nobody's way.
LEMMA CallKeeps ==
  ASSUME IInv, NEW t \in Threads, Call(t)
  PROVE  IInv'
<1>. USE NullNoThread, TriesAssumption DEF IInv, Call, Positions, Ops, Goto,
         clientVars, threadVars, moduleVars
<1>1. TypeOK'
  BY DEF TypeOK
<1>2. LockInv'
  BY DEF TypeOK, LockInv, Owns, Hold, Inside, Between
<1>3. OpInv'
  BY DEF TypeOK, OpInv, Between
<1>4. RespInv'
  BY DEF TypeOK, LockInv, RespInv, Owns, Inside
<1>5. NoticeInv'
  BY DEF TypeOK, LockInv, NoticeInv, ToTake, Expected, Owns
<1>6. SendInv'
  BY DEF TypeOK, SendInv
<1>7. CleanInv'
  <2>1. /\ Awaited' <=> Awaited
        /\ Answered' <=> Answered
        /\ Taken' <=> Taken
    BY DEF Awaited, Answered, Taken, Ours
  <2>2. \A u \in Threads : pc'[u] \in {"take", "check", "exit"} =>
          pc[u] = pc'[u] /\ op[u] = op'[u]
    BY DEF TypeOK
  <2>. QED
    BY <2>1, <2>2 DEF CleanInv
<1>. QED
  BY <1>1, <1>2, <1>3, <1>4, <1>5, <1>6, <1>7

\* The mutex goes to a thread that waits, or is taken again by its owner.
LEMMA TakeLockKeeps ==
  ASSUME IInv, NEW t \in Threads, TakeLock(t)
  PROVE  IInv'
<1>. USE NullNoThread, TriesAssumption DEF IInv, TakeLock, LockFree,
         Positions, Ops, Goto, clientVars, threadVars, moduleVars
<1>1. TypeOK'
  BY DEF TypeOK, LockInv, OpInv, Owns, Hold, Inside, Between
<1>2. LockInv'
  BY DEF TypeOK, LockInv, OpInv, Owns, Hold, Inside, Between
<1>3. OpInv'
  BY DEF TypeOK, OpInv, Between
<1>4. RespInv'
  BY DEF TypeOK, LockInv, RespInv, Owns, Inside
<1>5. NoticeInv'
  BY DEF TypeOK, LockInv, NoticeInv, ToTake, Expected, Owns
<1>6. SendInv'
  BY DEF TypeOK, SendInv
<1>7. CleanInv'
  <2>1. /\ Awaited' <=> Awaited
        /\ Answered' <=> Answered
        /\ Taken' <=> Taken
    BY DEF Awaited, Answered, Taken, Ours
  <2>2. \A u \in Threads : pc'[u] \in {"take", "check", "exit"} =>
          pc[u] = pc'[u] /\ op[u] = op'[u]
    BY DEF TypeOK
  <2>. QED
    BY <2>1, <2>2 DEF CleanInv
<1>. QED
  BY <1>1, <1>2, <1>3, <1>4, <1>5, <1>6, <1>7

\* The one notice that may be left and the new response make two.
LEMMA RegisterKeeps ==
  ASSUME IInv, NEW t \in Threads, Register(t)
  PROVE  IInv'
<1>. USE NullNoThread, TriesAssumption DEF IInv, Register, Positions, Ops,
         Goto, clientVars, threadVars, moduleVars
<1>1. TypeOK'
  BY DEF TypeOK
<1>2. LockInv'
  BY DEF TypeOK, LockInv, Owns, Hold, Inside, Between
<1>3. OpInv'
  BY DEF TypeOK, OpInv, Between
<1>4. RespInv'
  BY DEF TypeOK, LockInv, RespInv, Owns, Inside
<1>5. NoticeInv'
  BY DEF TypeOK, LockInv, NoticeInv, ToTake, Expected, Owns
<1>6. SendInv'
  BY DEF TypeOK, LockInv, OpInv, SendInv, Owns, Inside, Between
<1>7. CleanInv'
  BY DEF TypeOK, LockInv, CleanInv, Awaited, Answered, Taken, Ours, Owns,
     Inside
<1>. QED
  BY <1>1, <1>2, <1>3, <1>4, <1>5, <1>6, <1>7

\* The command turns what is under way into old lines.
LEMMA SendKeeps ==
  ASSUME IInv, NEW t \in Threads, Send(t)
  PROVE  IInv'
<1>. USE NullNoThread, TriesAssumption DEF IInv, Send, Positions, Ops, Goto,
         clientVars, threadVars, moduleVars
<1>. USE OldLines
<1>1. TypeOK'
  <2>1. notice' \in Seq(Line) /\ wire' \in Seq(Line)
    BY DEF TypeOK
  <2>2. module' \in [op : Ops, cur : BOOLEAN] \cup {Null}
    BY DEF TypeOK
  <2>3. clean' \in BOOLEAN
    BY DEF Quiet
  <2>. QED
    BY <2>1, <2>2, <2>3 DEF TypeOK
<1>2. LockInv'
  BY DEF TypeOK, LockInv, Owns, Hold, Inside, Between
<1>3. OpInv'
  BY DEF TypeOK, OpInv, Between
<1>4. RespInv'
  BY DEF TypeOK, LockInv, RespInv, Owns, Inside
<1>5. NoticeInv'
  <2>1. Len(notice') = Len(notice) /\ Len(notice) \in Nat /\ Expected' = Expected
    BY DEF TypeOK, Expected
  <2>2. lockOwner = t /\ lockOwner' = t
    BY DEF LockInv, Owns, Inside
  <2>3. CASE op[t] = "blind"
    BY <2>1, <2>2, <2>3 DEF TypeOK, NoticeInv, ToTake
  <2>4. CASE op[t] # "blind"
    <3>1. ToTake /\ ToTake'
      BY <2>2, <2>4 DEF TypeOK, ToTake
    <3>. QED
      BY <2>1, <3>1 DEF NoticeInv
  <2>. QED
    BY <2>3, <2>4
<1>6. SendInv'
  BY DEF TypeOK, SendInv
<1>7. CleanInv'
  <2>. SUFFICES ASSUME NEW u \in Threads, op'[u] = "exec", clean',
                       pc'[u] \in {"take", "check", "exit"}
                PROVE  pc'[u] = "take" /\ Awaited'
    BY DEF CleanInv
  <2>1. u = t /\ pc'[t] = "take" /\ op[t] = "exec"
    BY DEF TypeOK, LockInv, Owns, Inside
  <2>2. notice = <<>> /\ wire = <<>> /\ module = Null
    BY DEF Quiet, TypeOK
  <2>3. resp # Null
    BY <2>1, <2>2 DEF SendInv
  <2>4. notice' = <<>> /\ wire' = <<>>
    BY <2>2 DEF TypeOK
  <2>5. module' = [op |-> "exec", cur |-> TRUE]
    BY <2>1, <2>2
  <2>. QED
    BY <2>1, <2>3, <2>4, <2>5 DEF Awaited, Ours
<1>. QED
  BY <1>1, <1>2, <1>3, <1>4, <1>5, <1>6, <1>7

\* The notice taken answers a command sent in silence.
LEMMA TakeNoticeKeeps ==
  ASSUME IInv, NEW t \in Threads, TakeNotice(t)
  PROVE  IInv'
<1>. USE NullNoThread, TriesAssumption DEF IInv, TakeNotice, Positions, Ops,
         Goto, clientVars, threadVars, moduleVars
<1>1. TypeOK'
  BY DEF TypeOK
<1>2. LockInv'
  BY DEF TypeOK, LockInv, Owns, Hold, Inside, Between
<1>3. OpInv'
  BY DEF TypeOK, OpInv, Between
<1>4. RespInv'
  BY DEF TypeOK, LockInv, RespInv, Owns, Inside
<1>5. NoticeInv'
  BY DEF TypeOK, LockInv, NoticeInv, ToTake, Expected, Owns
<1>6. SendInv'
  BY DEF TypeOK, LockInv, OpInv, SendInv, Owns, Inside, Between
<1>7. CleanInv'
  <2>. SUFFICES ASSUME NEW u \in Threads, op'[u] = "exec", clean',
                       pc'[u] \in {"take", "check", "exit"}
                PROVE  pc'[u] = "check" /\ Taken'
    BY DEF CleanInv
  <2>1. u = t /\ pc'[t] = "check" /\ op[t] = "exec" /\ clean
    BY DEF TypeOK, LockInv, Owns, Inside
  <2>2. Answered
    BY <2>1 DEF CleanInv, Awaited
  <2>3. PICK k \in {"OK", "ERROR"} :
          resp = Null /\ notice = <<Text(k, TRUE)>> /\ resp_status = k
    BY <2>2 DEF Answered
  <2>4. Head(notice) = Text(k, TRUE)
    BY <2>3
  <2>. QED
    BY <2>1, <2>3, <2>4 DEF Taken
<1>. QED
  BY <1>1, <1>2, <1>3, <1>4, <1>5, <1>6, <1>7

\* At the end of the wait no notice is there.
LEMMA TakeTimeoutKeeps ==
  ASSUME IInv, NEW t \in Threads, TakeTimeout(t)
  PROVE  IInv'
<1>. USE NullNoThread, TriesAssumption DEF IInv, TakeTimeout, TakeEnds,
         Positions, Ops, Goto, clientVars, threadVars, moduleVars
<1>1. TypeOK'
  BY DEF TypeOK
<1>2. LockInv'
  BY DEF TypeOK, LockInv, Owns, Hold, Inside, Between
<1>3. OpInv'
  BY DEF TypeOK, OpInv, Between
<1>4. RespInv'
  BY DEF TypeOK, LockInv, RespInv, Owns, Inside
<1>5. NoticeInv'
  BY DEF TypeOK, LockInv, NoticeInv, ToTake, Expected, Owns
<1>6. SendInv'
  BY DEF TypeOK, SendInv
<1>7. CleanInv'
  <2>1. \A u \in Threads \ {t} : pc[u] \notin {"take", "check", "exit"}
    BY DEF LockInv, Owns, Inside
  <2>2. \A u \in Threads : op'[u] = "exec" =>
          pc'[u] \notin {"take", "check", "exit"}
    BY <2>1 DEF TypeOK
  <2>. QED
    BY <2>2 DEF CleanInv
<1>. QED
  BY <1>1, <1>2, <1>3, <1>4, <1>5, <1>6, <1>7

\* A command that timed out has no verdict to return.
LEMMA TimedOutKeeps ==
  ASSUME IInv, NEW t \in Threads, TimedOut(t)
  PROVE  IInv'
<1>. USE NullNoThread, TriesAssumption DEF IInv, TimedOut, Positions, Ops,
         Goto, clientVars, threadVars, moduleVars
<1>1. TypeOK'
  BY DEF TypeOK
<1>2. LockInv'
  BY DEF TypeOK, LockInv, Owns, Hold, Inside, Between
<1>3. OpInv'
  BY DEF TypeOK, OpInv, Between
<1>4. RespInv'
  BY DEF TypeOK, LockInv, RespInv, Owns, Inside
<1>5. NoticeInv'
  BY DEF TypeOK, LockInv, NoticeInv, ToTake, Expected, Owns
<1>6. SendInv'
  BY DEF TypeOK, SendInv
<1>7. CleanInv'
  BY DEF TypeOK, LockInv, CleanInv, Awaited, Answered, Taken, Ours, Owns,
     Inside
<1>. QED
  BY <1>1, <1>2, <1>3, <1>4, <1>5, <1>6, <1>7

\* The verdict returned is the one the parser stored.
LEMMA CheckStatusKeeps ==
  ASSUME IInv, NEW t \in Threads, CheckStatus(t)
  PROVE  IInv'
<1>. USE NullNoThread, TriesAssumption DEF IInv, CheckStatus, Positions, Ops,
         Goto, clientVars, threadVars, moduleVars
<1>1. TypeOK'
  BY DEF TypeOK
<1>2. LockInv'
  BY DEF TypeOK, LockInv, Owns, Hold, Inside, Between
<1>3. OpInv'
  BY DEF TypeOK, OpInv, Between
<1>4. RespInv'
  BY DEF TypeOK, LockInv, RespInv, Owns, Inside
<1>5. NoticeInv'
  BY DEF TypeOK, LockInv, NoticeInv, ToTake, Expected, Owns
<1>6. SendInv'
  BY DEF TypeOK, SendInv
<1>7. CleanInv'
  BY DEF TypeOK, LockInv, CleanInv, Awaited, Answered, Taken, Ours, Owns,
     Inside
<1>. QED
  BY <1>1, <1>2, <1>3, <1>4, <1>5, <1>6, <1>7

\* The response is taken away before the mutex is released.
LEMMA ExitKeeps ==
  ASSUME IInv, NEW t \in Threads, Exit(t)
  PROVE  IInv'
<1>. USE NullNoThread, TriesAssumption DEF IInv, Exit, RespAtExit, Positions,
         Ops, Goto, clientVars, threadVars, moduleVars
<1>1. TypeOK'
  BY DEF TypeOK
<1>2. LockInv'
  BY DEF TypeOK, LockInv, Owns, Hold, Inside, Between
<1>3. OpInv'
  BY DEF TypeOK, OpInv, Between
<1>4. RespInv'
  BY DEF TypeOK, LockInv, RespInv, Owns, Inside
<1>5. NoticeInv'
  BY DEF TypeOK, LockInv, NoticeInv, ToTake, Expected, Owns
<1>6. SendInv'
  BY DEF TypeOK, LockInv, OpInv, SendInv, Owns, Inside, Between
<1>7. CleanInv'
  BY DEF TypeOK, LockInv, CleanInv, Awaited, Answered, Taken, Ours, Owns,
     Inside
<1>. QED
  BY <1>1, <1>2, <1>3, <1>4, <1>5, <1>6, <1>7

\* The response stays registered while it is freed.
LEMMA DeleteRespKeeps ==
  ASSUME IInv, NEW t \in Threads, DeleteResp(t)
  PROVE  IInv'
<1>. USE NullNoThread, TriesAssumption DEF IInv, DeleteResp, Positions, Ops,
         Goto, clientVars, threadVars, moduleVars
<1>1. TypeOK'
  BY DEF TypeOK
<1>2. LockInv'
  BY DEF TypeOK, LockInv, Owns, Hold, Inside, Between
<1>3. OpInv'
  BY DEF TypeOK, OpInv, Between
<1>4. RespInv'
  BY DEF TypeOK, LockInv, RespInv, Owns, Inside
<1>5. NoticeInv'
  BY DEF TypeOK, LockInv, NoticeInv, ToTake, Expected, Owns
<1>6. SendInv'
  BY DEF TypeOK, SendInv
<1>7. CleanInv'
  BY DEF TypeOK, LockInv, CleanInv, Awaited, Answered, Taken, Ours, Owns,
     Inside
<1>. QED
  BY <1>1, <1>2, <1>3, <1>4, <1>5, <1>6, <1>7

\* Then it is taken away.
LEMMA ClearRespKeeps ==
  ASSUME IInv, NEW t \in Threads, ClearResp(t)
  PROVE  IInv'
<1>. USE NullNoThread, TriesAssumption DEF IInv, ClearResp, Positions, Ops,
         Goto, clientVars, threadVars, moduleVars
<1>1. TypeOK'
  BY DEF TypeOK
<1>2. LockInv'
  BY DEF TypeOK, LockInv, Owns, Hold, Inside, Between
<1>3. OpInv'
  BY DEF TypeOK, OpInv, Between
<1>4. RespInv'
  BY DEF TypeOK, LockInv, RespInv, Owns, Inside
<1>5. NoticeInv'
  BY DEF TypeOK, LockInv, NoticeInv, ToTake, Expected, Owns
<1>6. SendInv'
  BY DEF TypeOK, LockInv, OpInv, SendInv, Owns, Inside, Between
<1>7. CleanInv'
  BY DEF TypeOK, LockInv, CleanInv, Awaited, Answered, Taken, Ours, Owns,
     Inside
<1>. QED
  BY <1>1, <1>2, <1>3, <1>4, <1>5, <1>6, <1>7

\* The mutex is free, or held once by the sending of data.
LEMMA UnlockKeeps ==
  ASSUME IInv, NEW t \in Threads, Unlock(t)
  PROVE  IInv'
<1>. USE NullNoThread, TriesAssumption DEF IInv, Unlock, Positions, Ops, Goto,
         clientVars, threadVars, moduleVars
<1>1. TypeOK'
  <2>1. lockOwner = t /\ lockHold \in {1, 2}
    BY DEF LockInv, Owns, Hold, Between
  <2>2. lockHold' \in 0..2 /\ lockOwner' \in Threads \cup {Null}
    BY <2>1 DEF TypeOK
  <2>3. /\ pc' \in [Threads -> Positions] /\ op' \in [Threads -> Ops]
        /\ result' \in {"OK", "ERROR", "TIMEOUT"}
    BY DEF TypeOK
  <2>4. got' \in Line
    BY TextIsLine DEF NoLine, Kinds
  <2>5. clean' \in BOOLEAN
    BY Zenon
  <2>6. tries' = 0 /\ 0 \in 0..MaxTries
    OBVIOUS
  <2>7. UNCHANGED <<resp, resp_status, notice, line_counts, module, wire>>
    OBVIOUS
  <2>. QED
    BY <2>2, <2>3, <2>4, <2>5, <2>6, <2>7 DEF TypeOK
<1>2. LockInv'
  BY DEF TypeOK, LockInv, Owns, Hold, Inside, Between
<1>3. OpInv'
  BY DEF TypeOK, OpInv, Between
<1>4. RespInv'
  BY DEF TypeOK, LockInv, OpInv, RespInv, Owns, Inside, Between
<1>5. NoticeInv'
  BY <1>2 DEF TypeOK, LockInv, OpInv, RespInv, NoticeInv, ToTake, Expected,
     Owns, Inside, Between
<1>6. SendInv'
  BY DEF TypeOK, SendInv
<1>7. CleanInv'
  BY DEF TypeOK, LockInv, CleanInv, Awaited, Answered, Taken, Ours, Owns,
     Inside
<1>. QED
  BY <1>1, <1>2, <1>3, <1>4, <1>5, <1>6, <1>7

\* The sending of data keeps the mutex between two packets.
LEMMA NextPacketKeeps ==
  ASSUME IInv, NEW t \in Threads, NextPacket(t)
  PROVE  IInv'
<1>. USE NullNoThread, TriesAssumption DEF IInv, NextPacket, Positions, Ops,
         Goto, clientVars, threadVars, moduleVars
<1>1. TypeOK'
  BY DEF TypeOK
<1>2. LockInv'
  BY DEF TypeOK, LockInv, OpInv, Owns, Hold, Inside, Between
<1>3. OpInv'
  BY DEF TypeOK, OpInv, Between
<1>4. RespInv'
  BY DEF TypeOK, LockInv, RespInv, Owns, Inside
<1>5. NoticeInv'
  BY DEF TypeOK, LockInv, NoticeInv, ToTake, Expected, Owns
<1>6. SendInv'
  BY DEF TypeOK, SendInv
<1>7. CleanInv'
  <2>1. /\ \A s \in Threads : pc'[s] = pc[s] \/ pc'[s] \in {"lock", "outerunlock"}
        /\ UNCHANGED <<op, result, clean>>
    BY DEF TypeOK
  <2>2. /\ Awaited => Awaited'
        /\ Answered => Answered'
        /\ Taken => Taken'
        /\ got' = got
    BY DEF Awaited, Answered, Taken, Ours
  <2>3. CleanInv
    OBVIOUS
  <2>. HIDE DEF IInv, NextPacket
  <2>. QED BY <2>1, <2>2, <2>3 DEF CleanInv
<1>. QED
  BY <1>1, <1>2, <1>3, <1>4, <1>5, <1>6, <1>7

\* The lines behind the first one are what they were.
LEMMA TailOfLines ==
  ASSUME NEW lines \in Seq(Line), lines # <<>>
  PROVE  /\ Head(lines) \in Line /\ Head(lines) = lines[1] /\ 1 \in 1..Len(lines)
         /\ Tail(lines) \in Seq(Line)
         /\ \A i \in 1..Len(Tail(lines)) :
              i + 1 \in 1..Len(lines) /\ Tail(lines)[i] = lines[i + 1]
OBVIOUS

\* A line that nobody waits for is dropped.
LEMMA ParseDroppedKeeps ==
  ASSUME IInv, ParseDropped
  PROVE  IInv'
<1>. USE DEF IInv, ParseDropped, clientVars, threadVars
<1>1. TypeOK'
  BY TailOfLines DEF TypeOK
<1>2. LockInv' /\ OpInv' /\ RespInv' /\ NoticeInv' /\ SendInv'
  BY DEF LockInv, OpInv, RespInv, NoticeInv, SendInv, Owns, Hold, ToTake,
     Expected
<1>3. CleanInv'
  <2>1. ~Awaited /\ (Answered' <=> Answered) /\ (Taken' <=> Taken)
    BY DEF Awaited, Answered, Taken
  <2>. QED
    BY <2>1 DEF CleanInv
<1>. QED
  BY <1>1, <1>2, <1>3

\* A line of the answer is stored; if it is the last, the response makes place
\* for the notice it stood for.
LEMMA ParseLineKeeps ==
  ASSUME IInv, ParseLine
  PROVE  IInv'
<1>. USE NullNoThread DEF IInv, ParseLine, RespAfterFinal, threadVars
<1>. DEFINE line == Head(wire)
<1>1. wire \in Seq(Line) /\ line \in Line
  BY TailOfLines DEF TypeOK
<1>2. resp \in Threads /\ resp = lockOwner /\ pc[resp] \in Inside
  BY DEF TypeOK, RespInv
<1>3. \/ /\ notice' = Append(notice, line) /\ resp' = Null
         /\ resp_status' = IF line.kind = "ERROR" THEN "ERROR" ELSE "OK"
         /\ op[resp] = "exec" => line.kind \in {"OK", "ERROR"}
      \/ /\ UNCHANGED <<resp, notice>>
         /\ resp_status' \in {"FULL", resp_status}
  BY DEF Completes, LineNum
<1>4. TypeOK'
  <2>1. wire' \in Seq(Line)
    BY <1>1, TailOfLines
  <2>2. notice' \in Seq(Line) /\ resp' \in Threads \cup {Null}
    <3>1. notice \in Seq(Line) /\ Append(notice, line) \in Seq(Line)
      BY <1>1 DEF TypeOK
    <3>. QED
      BY <1>2, <1>3, <3>1
  <2>3. resp_status' \in {"OK", "ERROR", "FULL", "TIMEOUT"}
    BY <1>3 DEF TypeOK
  <2>4. line_counts' \in Nat
    BY DEF TypeOK
  <2>. QED
    BY <2>1, <2>2, <2>3, <2>4 DEF TypeOK
<1>5. LockInv' /\ OpInv'
  BY DEF LockInv, OpInv, Owns, Hold
<1>6. RespInv'
  BY <1>3 DEF RespInv
<1>7. NoticeInv'
  <2>1. ToTake' <=> ToTake
    BY DEF ToTake
  <2>2. Len(notice') + Expected' = Len(notice) + Expected
    BY <1>1, <1>3 DEF Expected, TypeOK
  <2>. QED
    BY <2>1, <2>2 DEF NoticeInv
<1>8. SendInv'
  BY <1>1, <1>3 DEF SendInv, TypeOK
<1>9. CleanInv'
  <2>. SUFFICES ASSUME NEW u \in Threads, op[u] = "exec", clean,
                       pc[u] \in {"take", "check", "exit"}
                PROVE  /\ pc[u] = "take" => (Awaited \/ Answered)'
                       /\ pc[u] = "check" => Taken'
                       /\ pc[u] = "exit" /\ result # "TIMEOUT" =>
                            got = Text(result, TRUE)
    BY DEF CleanInv
  <2>1. CASE pc[u] = "take"
    <3>1. u = resp
      BY <1>2, <2>1 DEF LockInv, Owns, Inside
    <3>2. Awaited
      BY <2>1 DEF CleanInv, Answered
    <3>3. Ours'
      BY <1>1, <3>2, TailOfLines DEF Awaited, Ours
    <3>4. line.kind \in {"OK", "ERROR"} => line = Text(line.kind, TRUE)
      BY <1>1, <3>2, TailOfLines DEF Awaited, Ours, Text, Line
    <3>5. CASE UNCHANGED <<resp, notice>>
      BY <2>1, <3>2, <3>3, <3>5 DEF Awaited
    <3>6. CASE ~UNCHANGED <<resp, notice>>
      <4>1. /\ notice' = <<line>> /\ resp' = Null
            /\ line.kind \in {"OK", "ERROR"} /\ resp_status' = line.kind
        BY <1>3, <3>1, <3>2, <3>6 DEF Awaited
      <4>. QED
        BY <2>1, <3>4, <4>1 DEF Answered
    <3>. QED
      BY <3>5, <3>6
  <2>2. CASE pc[u] # "take"
    BY <2>2 DEF CleanInv, Taken
  <2>. QED
    BY <2>1, <2>2
<1>. QED
  BY <1>4, <1>5, <1>6, <1>7, <1>8, <1>9

\* What the module sends only matters to a command that waits in silence.
LEMMA ModuleKeeps ==
  ASSUME IInv, Answer \/ StrayLine
  PROVE  IInv'
<1>. USE DEF IInv, Answer, StrayLine, clientVars, threadVars
<1>1. module # Null => module.op \in Ops /\ module.cur \in BOOLEAN
  BY DEF TypeOK
<1>2. TypeOK'
  <2>1. wire' \in Seq(Line)
    <3>1. CASE Answer
      BY <1>1, <3>1, AnswersAreLines
    <3>2. CASE StrayLine
      <4>1. Text("text", FALSE) \in Line
        BY TextIsLine, Zenon DEF Kinds
      <4>2. \A x \in Line : <<x>> \in Seq(Line)
        OBVIOUS
      <4>3. wire' = <<Text("text", FALSE)>>
        BY <3>2
      <4>. QED
        BY <4>1, <4>2, <4>3
    <3>. QED
      BY <3>1, <3>2
  <2>. QED
    BY <2>1 DEF TypeOK
<1>3. LockInv' /\ OpInv' /\ RespInv' /\ NoticeInv' /\ SendInv'
  BY DEF LockInv, OpInv, RespInv, NoticeInv, SendInv, Owns, Hold, ToTake,
     Expected
<1>4. CleanInv'
  <2>1. Ours => Ours'
    <3>1. CASE Answer
      <4>. SUFFICES ASSUME Ours
                    PROVE  Ours'
        OBVIOUS
      <4>1. module.op = "exec" /\ module.cur
        BY <3>1 DEF Ours
      <4>. QED
        BY <1>1, <3>1, <4>1, AnswersAreLines DEF Ours
    <3>2. CASE StrayLine
      <4>1. Len(wire') = 1 /\ wire'[1].kind = "text"
        BY <3>2, TextIsLine DEF Kinds
      <4>2. \A i \in 1..Len(wire') : wire'[i].kind = "text"
        BY <4>1
      <4>3. module' = module
        BY <3>2
      <4>. QED
        BY <4>2, <4>3 DEF Ours
    <3>. QED
      BY <3>1, <3>2
  <2>2. (Awaited => Awaited') /\ (Answered' <=> Answered) /\ (Taken' <=> Taken)
    BY <2>1 DEF Awaited, Answered, Taken
  <2>. QED
    BY <2>2 DEF CleanInv
<1>. QED
  BY <1>2, <1>3, <1>4
-----------------------------------------------------------------------------
(* The theorems.                                                           *)

\* Nothing is registered or under way at the start (at_client.c:797-848).
LEMMA InitEstablishes == Init => IInv
<1>. SUFFICES ASSUME Init
              PROVE  IInv
  OBVIOUS
<1>. USE NullNoThread, TriesAssumption DEF Init
<1>1. TypeOK
  <2>1. got \in Line /\ clean \in BOOLEAN
    BY TextIsLine, Zenon DEF NoLine, Kinds
  <2>2. notice \in Seq(Line) /\ wire \in Seq(Line)
    OBVIOUS
  <2>. QED
    BY <2>1, <2>2 DEF TypeOK, Positions, Ops
<1>2. LockInv /\ OpInv /\ RespInv /\ NoticeInv /\ SendInv /\ CleanInv
  BY DEF LockInv, OpInv, RespInv, NoticeInv, SendInv, CleanInv, Owns, Hold,
         Inside, Between, ToTake, Expected
<1>. QED
  BY <1>1, <1>2 DEF IInv

\* IInv is an invariant of the client, whatever the threads and the module do.
THEOREM Invariance == Spec => []IInv
<1>1. IInv /\ [Next]_vars => IInv'
  <2>. SUFFICES ASSUME IInv, [Next]_vars
                PROVE  IInv'
    OBVIOUS
  <2>1. ASSUME NEW t \in Threads, Call(t) \/ TakeLock(t)
        PROVE  IInv'
    BY <2>1, CallKeeps, TakeLockKeeps
  <2>2. ASSUME NEW t \in Threads, ThreadStep(t)
        PROVE  IInv'
    BY <2>2, RegisterKeeps, SendKeeps, TakeNoticeKeeps, TakeTimeoutKeeps,
       TimedOutKeeps, CheckStatusKeeps, ExitKeeps, DeleteRespKeeps,
       ClearRespKeeps, UnlockKeeps, NextPacketKeeps DEF ThreadStep
  <2>3. CASE Parser
    BY <2>3, ParseDroppedKeeps, ParseLineKeeps DEF Parser
  <2>4. CASE Answer \/ StrayLine
    BY <2>4, ModuleKeeps
  <2>5. CASE UNCHANGED vars
    <3>1. TypeOK' /\ OpInv'
      BY <2>5 DEF vars, IInv, TypeOK, OpInv
    <3>2. LockInv'
      BY <2>5 DEF vars, IInv, LockInv, Owns, Hold
    <3>3. RespInv' /\ NoticeInv' /\ SendInv'
      BY <2>5 DEF vars, IInv, RespInv, NoticeInv, SendInv, ToTake, Expected
    <3>4. CleanInv'
      BY <2>5 DEF vars, IInv, CleanInv, Awaited, Answered, Taken, Ours
    <3>. QED BY <3>1, <3>2, <3>3, <3>4 DEF IInv
  <2>. QED
    BY <2>1, <2>2, <2>3, <2>4, <2>5 DEF Next
<1>. QED
  BY InitEstablishes, <1>1, PTL DEF Spec

\* The state of the client keeps its types; the mutex is held at most twice
\* (at_client.c:291-338, at_socket_esp8266.c:202-296).
THEOREM TypeCorrect == Spec => []TypeOK
<1>1. IInv => TypeOK
  BY DEF IInv
<1>. QED
  BY <1>1, Invariance, PTL

\* The parser never writes into a response whose owner has left its command
\* (at_client.c:334, 397-399, 728-771).
THEOREM ResponseIsTheOwners == Spec => []RespOfOwner
<1>1. IInv => RespOfOwner
  BY DEF IInv, TypeOK, OpInv, RespInv, RespOfOwner, Inside
<1>. QED
  BY <1>1, Invariance, PTL

\* However many answers come late, one notice at most is left for the next
\* command (at_client.c:316-322, 770-771).
THEOREM OneNoticeLeft == Spec => []NoticesBounded
<1>1. IInv => NoticesBounded
  <2>1. IInv => Expected \in {0, 1} /\ Len(notice) \in Nat
    BY DEF IInv, TypeOK, Expected
  <2>. QED
    BY <2>1 DEF IInv, NoticeInv, NoticesBounded, ToTake
<1>. QED
  BY <1>1, Invariance, PTL

\* A command sent in silence returns the module's verdict on it, or times out
\* (at_client.c:316-330).
THEOREM VerdictIsOwn == Spec => []OwnAnswer
<1>1. IInv => OwnAnswer
  BY DEF IInv, CleanInv, OwnAnswer
<1>. QED
  BY <1>1, Invariance, PTL
=============================================================================
