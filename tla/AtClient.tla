------------------------------ MODULE AtClient ------------------------------
(***************************************************************************)
(* The AT client of rt-thread/components/net/at/src/at_client.c: threads   *)
(* send commands to the ESP8266 with at_obj_exec_cmd, one at a time under  *)
(* the recursive mutex client->lock, and wait on the semaphore             *)
(* client->resp_notice with a timeout; the thread at_clnt (client_parser)  *)
(* stores the lines of the answer in the response client->resp points to   *)
(* and releases the semaphore at its last line.                            *)
(*                                                                         *)
(* Neither a line nor a notice says which command it answers.  The model   *)
(* remembers it: cur is TRUE for what answers the command sent last.       *)
(***************************************************************************)
EXTENDS Naturals, Sequences

CONSTANTS
  Threads,    \* the threads that send commands (lcd_thr, sys_work)
  Null,       \* RT_NULL, and "no thread"
  MaxTries    \* probes that fit in ESP8266_WAIT_CONNECT_TIME: 10 s / 300 ms

ASSUME NullNoThread == Null \notin Threads
ASSUME TriesAssumption == MaxTries \in Nat

\* exec: at_obj_exec_cmd with a response that ends with OK or ERROR;
\* blind: without a response (AT+RST of esp8266_reset);
\* prompt: esp8266_socket_send, which holds the lock around AT+CIPSEND
\*   commands whose response ends after two lines;
\* probe: at_client_obj_wait_connect.
Ops == {"exec", "blind", "prompt", "probe"}

\* resp->line_num, the second argument of at_create_resp.
LineNum(o) == IF o = "prompt" THEN 2 ELSE 0

VARIABLES
  \* struct at_client
  lockOwner, lockHold,  \* lock
  resp,         \* the thread whose response client->resp points to, or Null
  resp_status,
  notice,       \* resp_notice: the line behind each release, oldest first
  line_counts,  \* of the response registered last
  \* the threads
  pc, op,
  \* the command of the owner of the lock
  result,       \* what it is about to return
  got,          \* the line behind the notice it took
  clean,        \* nothing of an earlier command was on its way at the send
  tries,        \* probes sent without an answer
  \* the module behind the serial line
  module,       \* the command it works on: [op, cur], or Null
  wire          \* lines it sent that at_clnt has not read

clientVars == <<lockOwner, lockHold, resp, resp_status, notice, line_counts>>
threadVars == <<pc, op, result, got, clean, tries>>
moduleVars == <<module, wire>>
vars == <<lockOwner, lockHold, resp, resp_status, notice, line_counts,
          pc, op, result, got, clean, tries, module, wire>>

Kinds == {"text", "long", "OK", "ERROR"}
Line == [kind : Kinds, cur : BOOLEAN]
Text(k, c) == [kind |-> k, cur |-> c]

NoLine == Text("text", FALSE)

Old(lines) == [i \in 1..Len(lines) |-> [lines[i] EXCEPT !.cur = FALSE]]

Goto(t, l) == pc' = [pc EXCEPT ![t] = l]

Init ==
  /\ lockOwner = Null /\ lockHold = 0
  /\ resp = Null /\ resp_status = "OK" /\ notice = <<>> /\ line_counts = 0
  /\ pc = [t \in Threads |-> "idle"]
  /\ op = [t \in Threads |-> "exec"]
  /\ result = "OK" /\ got = NoLine /\ clean = FALSE /\ tries = 0
  /\ module = Null /\ wire = <<>>

-----------------------------------------------------------------------------
(* The threads that send commands.                                         *)

Call(t) ==
  /\ pc[t] = "idle"
  /\ \E o \in Ops : /\ op' = [op EXCEPT ![t] = o]
                    /\ Goto(t, IF o = "prompt" THEN "outer" ELSE "lock")
  /\ UNCHANGED <<result, got, clean, tries, clientVars, moduleVars>>

\* Mutant: the lock lets everybody in.
LockFreeAlways(t) == TRUE

\* rt_mutex_take lets the owner in again.
LockFree(t) == lockOwner \in {Null, t}

\* rt_mutex_take of at_obj_exec_cmd and of at_client_obj_wait_connect, and of
\* esp8266_socket_send around the first.
TakeLock(t) ==
  /\ pc[t] \in {"outer", "lock"}
  /\ LockFree(t)
  /\ lockOwner' = t
  /\ lockHold' = lockHold + 1
  /\ Goto(t, IF pc[t] = "outer" THEN "lock" ELSE "register")
  /\ UNCHANGED <<resp, resp_status, notice, line_counts,
                 op, result, got, clean, tries, moduleVars>>

\* client->resp = resp; wait_connect leaves the status of the last command.
Register(t) ==
  /\ pc[t] = "register"
  /\ resp' = IF op[t] = "blind" THEN Null ELSE t
  /\ resp_status' = IF op[t] = "probe" THEN resp_status ELSE "OK"
  /\ line_counts' = 0
  /\ Goto(t, "send")
  /\ UNCHANGED <<lockOwner, lockHold, notice, op, result, got, clean, tries,
                 moduleVars>>

Quiet == notice = <<>> /\ wire = <<>> /\ module = Null

\* The command goes out: a module that still works on another one drops it,
\* with a line "busy p..." that the parser ignores.
Send(t) ==
  /\ pc[t] = "send"
  /\ clean' = Quiet
  /\ module' = IF module = Null THEN [op |-> op[t], cur |-> TRUE]
               ELSE [module EXCEPT !.cur = FALSE]
  /\ wire' = Old(wire)
  /\ notice' = Old(notice)
  /\ Goto(t, IF op[t] = "blind" THEN "exit" ELSE "take")
  /\ result' = "OK"
  /\ UNCHANGED <<lockOwner, lockHold, resp, resp_status, line_counts, op, got, tries>>

\* rt_sem_take succeeds.
TakeNotice(t) ==
  /\ pc[t] = "take" /\ notice # <<>>
  /\ got' = Head(notice)
  /\ notice' = Tail(notice)
  /\ Goto(t, IF op[t] = "probe" THEN "delete" ELSE "check")
  /\ UNCHANGED <<lockOwner, lockHold, resp, resp_status, line_counts,
                 op, result, clean, tries, moduleVars>>

\* Mutant: the wait has no end.
TakeEndsNever(t) == FALSE

\* The timeout of resp->timeout ticks.
TakeEnds(t) == notice = <<>>

\* rt_sem_take times out: at_obj_exec_cmd gives up at once, wait_connect sends
\* its probe again until its own time is over.
TakeTimeout(t) ==
  /\ pc[t] = "take" /\ TakeEnds(t)
  /\ \/ /\ op[t] # "probe"
        /\ Goto(t, "timedout")
        /\ UNCHANGED <<tries, result>>
     \/ /\ op[t] = "probe" /\ tries < MaxTries
        /\ tries' = tries + 1
        /\ Goto(t, "send")
        /\ UNCHANGED result
     \/ /\ op[t] = "probe"
        /\ result' = "TIMEOUT"
        /\ Goto(t, "delete")
        /\ UNCHANGED tries
  /\ UNCHANGED <<op, got, clean, clientVars, moduleVars>>

\* 320-322: the parser may have handled the answer by now.
TimedOut(t) ==
  /\ pc[t] = "timedout"
  /\ resp_status' = "TIMEOUT"
  /\ result' = "TIMEOUT"
  /\ Goto(t, "exit")
  /\ UNCHANGED <<lockOwner, lockHold, resp, notice, line_counts,
                 op, got, clean, tries, moduleVars>>

\* 324-330
CheckStatus(t) ==
  /\ pc[t] = "check"
  /\ result' = IF resp_status = "OK" THEN "OK" ELSE "ERROR"
  /\ Goto(t, "exit")
  /\ UNCHANGED <<op, got, clean, tries, clientVars, moduleVars>>

\* Mutant: the response of a command that timed out stays registered.
RespAtExitKept == resp

\* 334
RespAtExit == Null

Exit(t) ==
  /\ pc[t] = "exit"
  /\ resp' = RespAtExit
  /\ Goto(t, "unlock")
  /\ UNCHANGED <<lockOwner, lockHold, resp_status, notice, line_counts,
                 op, result, got, clean, tries, moduleVars>>

\* wait_connect frees its response (397) before it takes the pointer away (399).
DeleteResp(t) ==
  /\ pc[t] = "delete"
  /\ Goto(t, "clear")
  /\ UNCHANGED <<op, result, got, clean, tries, clientVars, moduleVars>>

ClearResp(t) ==
  /\ pc[t] = "clear"
  /\ resp' = Null
  /\ Goto(t, "unlock")
  /\ UNCHANGED <<lockOwner, lockHold, resp_status, notice, line_counts,
                 op, result, got, clean, tries, moduleVars>>

\* rt_mutex_release.
Unlock(t) ==
  /\ pc[t] \in {"unlock", "outerunlock"}
  /\ lockHold' = lockHold - 1
  /\ lockOwner' = IF lockHold = 1 THEN Null ELSE lockOwner
  /\ IF pc[t] = "unlock" /\ op[t] = "prompt"
     THEN Goto(t, "packet") /\ UNCHANGED <<op, result>>
     ELSE Goto(t, "idle") /\ op' = [op EXCEPT ![t] = "exec"] /\ result' = "OK"
  /\ got' = NoLine /\ clean' = FALSE /\ tries' = 0
  /\ UNCHANGED <<resp, resp_status, notice, line_counts, moduleVars>>

\* esp8266_socket_send: the next packet of 2048 bytes, or the end.
NextPacket(t) ==
  /\ pc[t] = "packet"
  /\ \/ result = "OK" /\ Goto(t, "lock")
     \/ Goto(t, "outerunlock")
  /\ UNCHANGED <<op, result, got, clean, tries, clientVars, moduleVars>>

-----------------------------------------------------------------------------
(* The thread at_clnt.  Its priority is above that of every other thread   *)
(* of the program, so a line is handled without an interruption.           *)

\* Mutant: the response is not taken away at the end of the answer.
RespAfterFinalKept == resp

\* 770
RespAfterFinal == Null

\* Mutant: any line ends the answer.
CompletesAtOnce(line, counts) == TRUE

\* 749-768: OK where the response has no line count, ERROR and FAIL always,
\* else the number of lines.
Completes(line, counts) ==
  \/ line.kind = "OK" /\ LineNum(op[resp]) = 0
  \/ line.kind = "ERROR"
  \/ LineNum(op[resp]) # 0 /\ counts = LineNum(op[resp])

\* A line for which no response is registered is dropped.
ParseDropped ==
  /\ wire # <<>> /\ resp = Null
  /\ wire' = Tail(wire)
  /\ UNCHANGED <<module, clientVars, threadVars>>

\* A line is copied, unless it does not fit (743-747), and may end the answer.
\* Lines are counted where the count is looked at.
ParseLine ==
  /\ wire # <<>> /\ resp # Null
  /\ LET line   == Head(wire)
         counts == IF line.kind = "long" \/ LineNum(op[resp]) = 0 THEN line_counts
                   ELSE line_counts + 1
     IN /\ line_counts' = counts
        /\ IF Completes(line, counts)
           THEN /\ resp_status' = IF line.kind = "ERROR" THEN "ERROR" ELSE "OK"
                /\ resp' = RespAfterFinal
                /\ notice' = Append(notice, line)
           ELSE /\ resp_status' = IF line.kind = "long" THEN "FULL" ELSE resp_status
                /\ UNCHANGED <<resp, notice>>
  /\ wire' = Tail(wire)
  /\ UNCHANGED <<lockOwner, lockHold, module, threadVars>>

-----------------------------------------------------------------------------
(* The module and the serial line.                                         *)

\* What it may answer: AT+CIPSEND is accepted with an empty line and OK, and
\* refused with one or two lines before the ERROR.
Answers(o, c) ==
  IF o = "prompt"
  THEN {<<Text("text", c), Text("OK", c)>>, <<Text("text", c), Text("ERROR", c)>>,
        <<Text("text", c), Text("text", c), Text("ERROR", c)>>}
  ELSE {<<Text("OK", c)>>, <<Text("ERROR", c)>>, <<Text("long", c), Text("OK", c)>>}

\* at_clnt preempts all other threads, so what came before has been read.
Answer ==
  /\ module # Null /\ wire = <<>>
  /\ wire' \in Answers(module.op, module.cur)
  /\ module' = Null
  /\ UNCHANGED <<clientVars, threadVars>>

\* An empty line, as the module sends one ahead of "+IPD".
StrayLine ==
  /\ wire = <<>>
  /\ wire' = <<Text("text", FALSE)>>
  /\ UNCHANGED <<module, clientVars, threadVars>>

-----------------------------------------------------------------------------
ThreadStep(t) ==
  \/ Register(t) \/ Send(t) \/ TakeNotice(t) \/ TakeTimeout(t) \/ TimedOut(t)
  \/ CheckStatus(t) \/ Exit(t) \/ DeleteResp(t) \/ ClearResp(t) \/ Unlock(t)
  \/ NextPacket(t)

Parser == ParseDropped \/ ParseLine

Next == \/ \E t \in Threads : Call(t) \/ TakeLock(t) \/ ThreadStep(t)
        \/ Parser \/ Answer \/ StrayLine

Spec == Init /\ [][Next]_vars

\* Ready threads run, and the mutex serves its waiters in turn
\* (RT_IPC_FLAG_FIFO).  A data buffer is finite: esp8266_socket_send comes to
\* its last packet.  Nothing is assumed of the module.
Fairness ==
  \A t \in Threads :
    /\ WF_vars(ThreadStep(t))
    /\ SF_vars(TakeLock(t))
    /\ SF_vars(NextPacket(t) /\ pc'[t] = "outerunlock")

FairSpec == Spec /\ Fairness

-----------------------------------------------------------------------------
(* Properties.                                                             *)

Positions == {"idle", "outer", "lock", "register", "send", "take", "timedout",
              "check", "exit", "delete", "clear", "unlock", "packet",
              "outerunlock"}

\* The types of struct at_client, of the threads and of the serial line.
TypeOK ==
  /\ lockOwner \in Threads \cup {Null} /\ lockHold \in 0..2
  /\ resp \in Threads \cup {Null}
  /\ resp_status \in {"OK", "ERROR", "FULL", "TIMEOUT"}
  /\ notice \in Seq(Line) /\ line_counts \in Nat
  /\ pc \in [Threads -> Positions] /\ op \in [Threads -> Ops]
  /\ result \in {"OK", "ERROR", "TIMEOUT"}
  /\ got \in Line /\ clean \in BOOLEAN /\ tries \in 0..MaxTries
  /\ module \in [op : Ops, cur : BOOLEAN] \cup {Null}
  /\ wire \in Seq(Line)

\* The parser writes through client->resp only into the response of the thread
\* that owns the lock and is inside of its command: it is never left pointing
\* to one the caller deletes.  The exception is the moment between line 397 and
\* line 399 of wait_connect, where the response is freed and still registered.
RespOfOwner ==
  resp # Null =>
    /\ resp = lockOwner
    /\ pc[resp] \in {"send", "take", "timedout", "check", "exit",
                      "delete", "clear"}
    /\ pc[resp] = "clear" => op[resp] = "probe"

\* A late answer leaves a notice behind, for the next command to take for its
\* own; however many commands time out, never more than one is left when the
\* lock is free, nor two while a command runs (316-322, 770-771).
NoticesBounded == Len(notice) <= IF lockOwner = Null THEN 1 ELSE 2

\* A command sent when nothing of an earlier one is under way returns the
\* verdict of the module on that very command, or times out (316-330).
OwnAnswer ==
  \A t \in Threads :
    (pc[t] = "exit" /\ op[t] = "exec" /\ clean /\ result # "TIMEOUT")
      => got = Text(result, TRUE)

\* at_obj_exec_cmd, wait_connect and the sending of data return, whatever the
\* module does (at_client.c:266-277, 341-350).
CommandReturns == \A t \in Threads : pc[t] # "idle" ~> pc[t] = "idle"
=============================================================================
