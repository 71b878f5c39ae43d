------------------------------- MODULE Esp8266 -------------------------------
(***************************************************************************)
(* The bring-up of the ESP8266 and the state of its network interface:     *)
(* packages/at_device-v2.0.0/class/esp8266/at_device_esp8266.c, registered *)
(* by at_device.c, with the flags of netdev.c, the check of sal_socket.c   *)
(* and the queue of workqueue.c.                                           *)
(*                                                                         *)
(* main brings the module up; at_clnt handles its notices; sys_work runs   *)
(* the works, each submitted by the tick interrupt when its second has     *)
(* passed.  The flags of the interface are read, changed and written back  *)
(* without a lock: at_clnt, of priority 9, does that at once and may come  *)
(* between the two steps of main (10) and sys_work (23); sys_work runs     *)
(* while main waits.  The interrupt comes between any two steps.           *)
(*                                                                         *)
(* The module joins an access point and says so; its address comes from    *)
(* DHCP, at any time after that or before, and changes without a notice.   *)
(* An answer is read when every notice before it has been; the module does *)
(* not answer late (AtClient has late answers).                            *)
(***************************************************************************)
EXTENDS Naturals, Sequences

CONSTANTS
  INIT_RETRY,  \* tries of the bring-up
  Addresses,   \* what the access point may hand out
  MaxLine,     \* bound on the notices on the serial line
  MaxWorks     \* bound on the works waiting at which the module joins no more

ASSUME RetryAssumption == INIT_RETRY \in Nat \ {0}
\* 0 is INADDR_ANY: no address.
ASSUME AddressesAssumption == 0 \notin Addresses

VARIABLES
  \* main: esp8266_init_thread_entry, in at_device_register
  mpc, k,      \* its position, and the next command of the try
  retry_num, result,
  mcopy,       \* the flags it has read and is about to write, {} if none
  \* struct at_device, struct netdev
  is_init, flags, ip_addr,
  timers,      \* the delayed works whose second has not passed
  \* the work queue, and the thread sys_work
  work_list, wpc,
  got,         \* the address it was told and is about to store, 0 if none
  wcopy,       \* the flags it has read and is about to write
  \* the module
  wifi,        \* it has joined the access point
  lease,       \* the address it tells when it is asked, 0 for 0.0.0.0
  line,        \* the notices it has sent
  \* history: a joined module must still be asked for its address ("due"), has
  \* told the one it has ("yes"), has another since ("late"), or the last fetch
  \* got no answer, or none was due ("none")
  told

mainVars   == <<mpc, k, retry_num, result, mcopy>>
deviceVars == <<is_init, flags, ip_addr>>
workVars   == <<work_list, wpc, got, wcopy>>
moduleVars == <<wifi, lease, line, told>>
vars == <<mpc, k, retry_num, result, mcopy, is_init, flags, ip_addr, timers,
          work_list, wpc, got, wcopy, wifi, lease, line, told>>

\* The commands of a try, in order (628-647).
Cmds == <<"AT+RST", "ATE0", "AT+CWMODE", "AT+GMR", "AT+CIPMUX", "AT+CWJAP">>

Flags == {"UP", "LINK", "INTERNET", "DHCP"}

\* esp8266_netdev_add leaves flags and addresses clear; the module may have
\* joined an access point it remembers.
Init ==
  /\ mpc = "connect" /\ k = 1 /\ retry_num = INIT_RETRY /\ result = "OK"
  /\ mcopy = {}
  /\ is_init = FALSE /\ flags = {} /\ ip_addr = 0
  /\ timers = <<>> /\ work_list = <<>> /\ wpc = "loop" /\ got = 0 /\ wcopy = {}
  /\ wifi \in BOOLEAN /\ line = <<>> /\ told = "none"
  /\ lease \in (IF wifi THEN Addresses \cup {0} ELSE {0})

-----------------------------------------------------------------------------
(* main.                                                                   *)

MainGoto(l) == mpc' = l

\* The module answers, or five seconds pass: then nothing is tried at all.
WaitConnect ==
  /\ mpc = "connect"
  /\ MainGoto("try") \/ MainGoto("up")
  /\ UNCHANGED <<k, retry_num, result, mcopy,
                 deviceVars, timers, workVars, moduleVars>>

\* Mutant: the tries are not counted.
RetryAfterKept == retry_num

\* while (retry_num--)
RetryAfter == retry_num - 1

BeginTry ==
  /\ mpc = "try"
  /\ \/ /\ retry_num > 0
        /\ retry_num' = RetryAfter
        /\ MainGoto("cmd")
     \/ /\ retry_num = 0
        /\ MainGoto("report")
        /\ UNCHANGED retry_num
  /\ UNCHANGED <<k, result, mcopy, deviceVars, timers, workVars, moduleVars>>

\* Mutant: one command too many.
LastCmdPassed == k > Len(Cmds)

LastCmd == k = Len(Cmds)

\* A command is answered with OK: a reset leaves the access point and forgets
\* the address, and a join is answered when the module has joined.
CommandOK ==
  /\ mpc = "cmd" /\ line = <<>>
  /\ Cmds[k] = "AT+CWJAP" => wifi
  /\ wifi' = (wifi /\ Cmds[k] # "AT+RST")
  /\ lease' = IF Cmds[k] = "AT+RST" THEN 0 ELSE lease
  /\ IF LastCmd THEN MainGoto("exit") /\ k' = 1
                ELSE MainGoto("cmd") /\ k' = k + 1
  /\ UNCHANGED <<retry_num, result, mcopy, deviceVars, timers, workVars,
                 line, told>>

\* AT_SEND_CMD, and 646-653: an error or no answer.
CommandFails ==
  /\ mpc = "cmd"
  /\ result' = "ERROR" /\ k' = 1
  /\ MainGoto("exit")
  /\ UNCHANGED <<retry_num, mcopy, deviceVars, timers, workVars, moduleVars>>

\* __exit: nothing resets result for the next try.
EndTry ==
  /\ mpc = "exit"
  /\ MainGoto(IF result = "OK" THEN "report" ELSE "try")
  /\ UNCHANGED <<k, retry_num, result, mcopy,
                 deviceVars, timers, workVars, moduleVars>>

\* 672-682.  After a failure the flag UP is cleared, which was never set.
Report ==
  /\ mpc = "report"
  /\ \/ /\ result # "OK"
        /\ flags' = flags \ {"UP"}
        /\ MainGoto("up")
        /\ UNCHANGED is_init
     \/ /\ result = "OK"
        /\ is_init' = TRUE
        /\ MainGoto("status")
        /\ UNCHANGED flags
  /\ UNCHANGED <<k, retry_num, result, mcopy,
                 ip_addr, timers, workVars, moduleVars>>

\* netdev_low_level_set_status and _set_link_status: nothing to do when the
\* flag is set already, or the flags are read, changed and written.
ReadFlags(at, flag, write, next) ==
  /\ mpc = at
  /\ MainGoto(IF flag \in flags THEN next ELSE write)
  /\ mcopy' = IF flag \in flags THEN mcopy ELSE flags
  /\ UNCHANGED <<k, retry_num, result,
                 deviceVars, timers, workVars, moduleVars>>

WriteFlags(at, flag, next) ==
  /\ mpc = at
  /\ flags' = mcopy \cup {flag}
  /\ mcopy' = {}
  /\ MainGoto(next)
  /\ UNCHANGED <<k, retry_num, result,
                 is_init, ip_addr, workVars, moduleVars>>

\* netdev.c:796-799: the internet is checked when the link comes up.
LinkUpWorks(fs) == IF "UP" \in fs /\ ip_addr # 0 THEN <<"check">> ELSE <<>>

SetStatus == \/ ReadFlags("status", "UP", "statuswrite", "link")
             \/ /\ WriteFlags("statuswrite", "UP", "link")
                /\ UNCHANGED timers

SetLink == \/ ReadFlags("link", "LINK", "linkwrite", "work")
           \/ /\ WriteFlags("linkwrite", "LINK", "work")
              /\ timers' = timers \o LinkUpWorks(mcopy)

\* esp8266_netdev_start_delay_work, or no memory for the work.
StartWork ==
  /\ mpc = "work"
  /\ timers' \in {timers, Append(timers, "info")}
  /\ MainGoto("up")
  /\ UNCHANGED <<k, retry_num, result, mcopy,
                 deviceVars, workVars, moduleVars>>

\* esp8266_netdev_set_up: the interface is up, whatever came of it.
SetUp == \/ ReadFlags("up", "UP", "upwrite", "register")
         \/ /\ WriteFlags("upwrite", "UP", "register")
            /\ UNCHANGED timers

\* The end of at_device_register: init returned RT_EOK, as it always does.
Register ==
  /\ mpc = "register"
  /\ is_init' = TRUE
  /\ MainGoto("done")
  /\ UNCHANGED <<k, retry_num, result, mcopy,
                 flags, ip_addr, timers, workVars, moduleVars>>

MainStep == \/ WaitConnect \/ BeginTry \/ CommandOK \/ CommandFails \/ EndTry
            \/ Report \/ SetStatus \/ SetLink \/ StartWork \/ SetUp \/ Register

-----------------------------------------------------------------------------
(* at_clnt: urc_func.                                                      *)

\* Mutant: the address is not fetched anew.
JoinWorksNone == <<>>

\* esp8266_netdev_start_delay_work
JoinWorks == <<"info">>

\* Mutant: the interface goes down with its link.
LinkDownAll == flags \ {"UP", "LINK", "INTERNET"}

\* netdev.c:804-807
LinkDown == flags \ {"LINK", "INTERNET"}

\* Before the device is initialised a notice is read and ignored; a join may
\* find no memory for its work.
ReadNotice ==
  /\ line # <<>>
  /\ line' = Tail(line)
  /\ \/ /\ is_init /\ Head(line) = "WIFI CONNECTED"
        /\ flags' = flags \cup {"LINK"}
        /\ LET ts == timers
                 \o (IF "LINK" \in flags THEN <<>> ELSE LinkUpWorks(flags))
           IN \/ timers' = ts \o JoinWorks /\ UNCHANGED told
              \/ timers' = ts /\ told' = "none"
     \/ /\ is_init /\ Head(line) = "WIFI DISCONNECT"
        /\ flags' = IF "LINK" \in flags THEN LinkDown ELSE flags
        /\ UNCHANGED <<timers, told>>
     \/ ~is_init /\ UNCHANGED <<flags, timers, told>>
  /\ UNCHANGED <<mainVars, is_init, ip_addr, workVars, wifi, lease>>

-----------------------------------------------------------------------------
(* sys_work.                                                               *)

WorkGoto(l) == wpc' = l

\* _delayed_work_timeout_handler: the second of the oldest has passed.  The
\* thread is resumed, which has no effect unless it is suspended.
TimeOut ==
  /\ timers # <<>>
  /\ timers' = Tail(timers)
  /\ work_list' = Append(work_list, Head(timers))
  /\ WorkGoto(IF wpc = "suspended" THEN "take" ELSE wpc)
  /\ UNCHANGED <<mainVars, deviceVars, got, wcopy, moduleVars>>

\* _workqueue_thread_entry: the list is found empty, and in a step of its own ...
FindNothing ==
  /\ wpc = "loop" /\ work_list = <<>>
  /\ WorkGoto("suspend")
  /\ UNCHANGED <<mainVars, deviceVars, timers, work_list, got, wcopy, moduleVars>>

\* ... the thread suspends itself.
Suspend ==
  /\ wpc = "suspend"
  /\ WorkGoto("suspended")
  /\ UNCHANGED <<mainVars, deviceVars, timers, work_list, got, wcopy, moduleVars>>

\* The head of the list is taken; the work frees itself first.
TakeWork ==
  /\ (wpc = "loop" /\ work_list # <<>>) \/ wpc = "take"
  /\ work_list' = Tail(work_list)
  /\ \/ Head(work_list) = "info"  /\ WorkGoto("ask")
     \/ Head(work_list) = "check" /\ WorkGoto("check")
  /\ UNCHANGED <<mainVars, deviceVars, timers, got, wcopy, moduleVars>>

\* esp8266_get_netdev_info: AT+CIFSR and AT+CIPSTA? are answered, with whatever
\* address there is yet; or not, and the work is over.
AskAddress ==
  /\ wpc = "ask"
  /\ \/ /\ line = <<>>
        /\ got' = lease
        /\ told' = IF wifi THEN "yes" ELSE "none"
        /\ WorkGoto("store")
     \/ /\ WorkGoto("loop")
        /\ told' = "none"
        /\ UNCHANGED got
  /\ UNCHANGED <<mainVars, deviceVars, timers, work_list, wcopy, wifi, lease,
                 line>>

\* The gateway and the netmask, which may be new, and the address are stored;
\* the internet is checked for each that is, once there is an address.
StoreWorks == {cs \in {<<>>, <<"check">>, <<"check", "check">>} :
                 Len(cs) > 0 => {"UP", "LINK"} \subseteq flags /\ ip_addr # 0}

StoreAddress ==
  /\ wpc = "store"
  /\ ip_addr' = got /\ got' = 0
  /\ \E cs \in StoreWorks :
       timers' = timers \o cs
         \o (IF got # ip_addr /\ {"UP", "LINK"} \subseteq flags
            THEN <<"check">> ELSE <<>>)
  /\ WorkGoto("askdhcp")
  /\ UNCHANGED <<mainVars, is_init, flags, work_list, wcopy, moduleVars>>

\* AT+CIPDNS_CUR? and AT+CWDHCP_CUR?, and the flag if it is to change.
AskDhcp ==
  /\ wpc = "askdhcp"
  /\ \/ WorkGoto("loop") /\ UNCHANGED wcopy
     \/ /\ line = <<>>
        /\ WorkGoto(IF "DHCP" \in flags THEN "dhcpoff" ELSE "dhcpon")
        /\ wcopy' = flags
  /\ UNCHANGED <<mainVars, deviceVars, timers, work_list, got, moduleVars>>

\* check_netdev_internet_up_work asks a server through a socket of its own;
\* its answer, read after the notices sent before it, decides.
CheckInternet ==
  /\ wpc = "check"
  /\ \/ wifi /\ line = <<>> /\ WorkGoto("good")
     \/ WorkGoto("bad")
  /\ UNCHANGED <<mainVars, deviceVars, timers, work_list, got, wcopy, moduleVars>>

\* netdev->flags |= ... and &= ~..., in two steps.
ReadForCheck ==
  /\ wpc \in {"good", "bad"}
  /\ wcopy' = flags
  /\ WorkGoto(IF wpc = "good" THEN "internet" ELSE "nointernet")
  /\ UNCHANGED <<mainVars, deviceVars, timers, work_list, got, moduleVars>>

WorkWrites(at, fs) ==
  /\ wpc = at
  /\ flags' = fs /\ wcopy' = {}
  /\ WorkGoto("loop")
  /\ UNCHANGED <<mainVars, is_init, ip_addr, timers, work_list, got, moduleVars>>

WriteForWork == \/ WorkWrites("dhcpon", wcopy \cup {"DHCP"})
                \/ WorkWrites("dhcpoff", wcopy \ {"DHCP"})
                \/ WorkWrites("internet", wcopy \cup {"INTERNET"})
                \/ WorkWrites("nointernet", wcopy \ {"INTERNET"})

\* main waits for the module, for a delay, or blinks its LED.
MainWaits == mpc \in {"connect", "cmd", "exit", "done"}

WorkStep ==
  /\ MainWaits
  /\ \/ FindNothing \/ Suspend \/ TakeWork \/ AskAddress \/ StoreAddress \/ AskDhcp
     \/ CheckInternet \/ ReadForCheck \/ WriteForWork

-----------------------------------------------------------------------------
(* The module (external).                                                  *)

\* A work is in the list of a thread that sleeps.
Stranded == wpc = "suspended" /\ work_list # <<>>

\* It joins and says so: without an address yet, with the one it had before, or
\* with a new one.  The bound does not keep the module from the join that wakes
\* the thread.
WifiJoins ==
  /\ ~wifi /\ Len(line) < MaxLine
  /\ \/ Len(timers) + Len(work_list) < MaxWorks
     \/ Stranded /\ timers = <<>>
  /\ wifi' = TRUE /\ lease' \in Addresses \cup {0}
  /\ told' = IF is_init THEN "due" ELSE "none"
  /\ line' = Append(line, "WIFI CONNECTED")
  /\ UNCHANGED <<mainVars, deviceVars, timers, workVars>>

\* The access point gives it an address, gives it another or takes it back: in
\* its own time, and urc_table has no notice of it.
AddressChanges ==
  /\ wifi
  /\ lease' \in (Addresses \cup {0}) \ {lease}
  /\ told' = IF told = "yes" THEN "late" ELSE told
  /\ UNCHANGED <<mainVars, deviceVars, timers, workVars, wifi, line>>

\* It drops out and says so; out of the access point it tells no address.
WifiDrops ==
  /\ wifi /\ Len(line) < MaxLine
  /\ wifi' = FALSE /\ lease' = 0 /\ told' = "none"
  /\ line' = Append(line, "WIFI DISCONNECT")
  /\ UNCHANGED <<mainVars, deviceVars, timers, workVars>>

Next == \/ MainStep \/ ReadNotice \/ TimeOut \/ WorkStep
        \/ WifiJoins \/ AddressChanges \/ WifiDrops

Spec == Init /\ [][Next]_vars

\* Every thread runs on; its waits end with a timeout.  The module may do what
\* it likes.
FairSpec == /\ Spec
            /\ WF_vars(MainStep) /\ WF_vars(ReadNotice)
            /\ WF_vars(TimeOut) /\ WF_vars(WorkStep)

-----------------------------------------------------------------------------
(* Properties.                                                             *)

MainPositions == {"connect", "try", "cmd", "exit", "report", "status",
                  "statuswrite", "link", "linkwrite", "work", "up", "upwrite",
                  "register", "done"}
WorkPositions == {"loop", "suspend", "suspended", "take", "ask", "store",
                  "askdhcp", "dhcpon", "dhcpoff", "check", "good", "bad",
                  "internet", "nointernet"}
Works == {"info", "check"}
Notices == {"WIFI CONNECTED", "WIFI DISCONNECT"}

\* The types of struct at_device, struct netdev, the threads and the module.
TypeOK ==
  /\ mpc \in MainPositions /\ k \in 1..Len(Cmds)
  /\ retry_num \in 0..INIT_RETRY /\ result \in {"OK", "ERROR"}
  /\ mcopy \subseteq Flags
  /\ is_init \in BOOLEAN /\ flags \subseteq Flags
  /\ ip_addr \in Addresses \cup {0}
  /\ timers \in Seq(Works) /\ work_list \in Seq(Works) /\ wpc \in WorkPositions
  /\ got \in Addresses \cup {0} /\ wcopy \subseteq Flags
  /\ wifi \in BOOLEAN /\ lease \in Addresses \cup {0}
  /\ line \in Seq(Notices) /\ told \in {"due", "yes", "late", "none"}

\* A fetch of the address is submitted or under way.
Fetching == \/ wpc \in {"ask", "store"}
            \/ \E i \in 1..Len(timers) : timers[i] = "info"
            \/ \E i \in 1..Len(work_list) : work_list[i] = "info"

\* When the module has joined and nothing is under way, the interface has the
\* address of the module: every join is followed by a fetch, and no order of
\* joins, drops, tries and fetches keeps an older answer instead (urc_func
\* 738-743, esp8266_get_netdev_info 86-106).  Excused is an address that came
\* after the fetch, as when DHCP takes longer than the second the fetch waits
\* (told = "late"): the code keeps 0.0.0.0 or the old one for good.  So are a
\* fetch that was not answered or found no memory, and a join before the device
\* was initialised until main fetches, which it does not after a failed
\* bring-up (told = "none").
AddressFresh == (wifi /\ line = <<>> /\ ~Fetching /\ told \in {"due", "yes"})
                  => ip_addr = lease

\* The interface is up once it is registered, and no writer of the flags, with
\* its copy, takes that back: sockets are refused without it (sal_socket.c:75).
StaysUp == mpc = "done" => "UP" \in flags

\* However often the module is silent or fails, main comes to its end, so that
\* the threads of the application are started (625-665).
BringUpEnds == <>(mpc = "done")

\* Once the module stays joined, the interface comes to have its address for
\* good, with the excuses of AddressFresh, and unless a work was submitted just
\* as sys_work fell asleep (esp8266_netdev_start_delay_work 586-597).
AddressSettles ==
  <>[]wifi => <>[](ip_addr = lease \/ told \in {"late", "none"} \/ Stranded)
=============================================================================
