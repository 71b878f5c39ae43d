--------------------------- MODULE Esp8266Proofs ---------------------------
(***************************************************************************)
(* The safety properties of Esp8266, for any addresses, any number of      *)
(* tries and any notices under way.                                        *)
(*                                                                         *)
(* That the interface stays up rests on the order of the bring-up: the     *)
(* flag is written before main waits, so that whoever copies the flags     *)
(* later copies it too (FlagsInv, DeviceInv).  That its address is the one  *)
(* the module told last rests on every join being followed by a fetch: as  *)
(* long as the module is still to be asked, a notice or a work for it is   *)
(* under way; once it has told, the address is stored or about to be, and  *)
(* until the module changes it again the two agree (AddressInv).           *)
(***************************************************************************)
EXTENDS Esp8266, TLAPS

BringingUp == {"connect", "try", "cmd", "exit", "report"}
Succeeded  == {"status", "statuswrite", "link", "linkwrite", "work"}
Idle       == {"loop", "suspend", "suspended"}
Writes     == {"dhcpon", "dhcpoff", "internet", "nointernet"}

\* Before the device is initialised no work is submitted, and the thread of the
\* queue is woken for a work that is there.
DeviceInv ==
  /\ mpc \in BringingUp => ~is_init
  /\ mpc \in Succeeded => is_init
  /\ ~is_init => timers = <<>> /\ work_list = <<>> /\ wpc \in Idle
  /\ ~is_init => told = "none"
  /\ wpc = "take" => work_list # <<>>

\* The flag UP, and the copies that will be written back.
FlagsInv ==
  /\ mpc \in {"link", "linkwrite", "work", "register", "done"} => "UP" \in flags
  /\ mpc = "linkwrite" => "UP" \in mcopy
  /\ wpc \in Writes => "UP" \in wcopy

Has(s, e) == \E i \in 1..Len(s) : s[i] = e

\* A new address will be asked for.
Coming == \/ wpc = "ask"
          \/ Has(line, "WIFI CONNECTED")
          \/ Has(timers, "info")
          \/ Has(work_list, "info")

AddressInv ==
  wifi => \/ Coming
          \/ told \in {"none", "late"}
          \/ told = "yes" /\ lease = IF wpc = "store" THEN got ELSE ip_addr

\* The inductive invariant.
IInv == TypeOK /\ DeviceInv /\ FlagsInv /\ AddressInv

-----------------------------------------------------------------------------
(* What sequences hold.                                                    *)

\* Nothing is lost at the end of a queue.
LEMMA HasAppended ==
  ASSUME NEW S, NEW s \in Seq(S), NEW t \in Seq(S)
  PROVE  /\ s \o t \in Seq(S)
         /\ \A e : Has(s, e) \/ Has(t, e) => Has(s \o t, e)
<1>1. /\ s \o t \in Seq(S) /\ Len(s \o t) = Len(s) + Len(t)
      /\ \A i \in 1..Len(s) : (s \o t)[i] = s[i]
      /\ \A i \in 1..Len(t) : (s \o t)[Len(s) + i] = t[i]
  OBVIOUS
<1>2. ASSUME NEW e, Has(s, e) PROVE Has(s \o t, e)
  <2>1. PICK i \in 1..Len(s) : s[i] = e
    BY <1>2 DEF Has
  <2>2. i \in 1..Len(s \o t) /\ (s \o t)[i] = e
    BY <1>1, <2>1
  <2>. QED BY <2>2 DEF Has
<1>3. ASSUME NEW e, Has(t, e) PROVE Has(s \o t, e)
  <2>1. PICK i \in 1..Len(t) : t[i] = e
    BY <1>3 DEF Has
  <2>2. Len(s) + i \in 1..Len(s \o t) /\ (s \o t)[Len(s) + i] = e
    BY <1>1, <2>1
  <2>. QED BY <2>2 DEF Has
<1>. QED BY <1>1, <1>2, <1>3

\* The same for one element.
LEMMA HasPut ==
  ASSUME NEW S, NEW s \in Seq(S), NEW x \in S
  PROVE  /\ Append(s, x) \in Seq(S)
         /\ Has(Append(s, x), x)
         /\ \A e : Has(s, e) => Has(Append(s, x), e)
<1>1. /\ Append(s, x) \in Seq(S) /\ Len(Append(s, x)) = Len(s) + 1
      /\ \A i \in 1..Len(s) : Append(s, x)[i] = s[i]
      /\ Append(s, x)[Len(s) + 1] = x
  OBVIOUS
<1>2. ASSUME NEW e, Has(s, e) PROVE Has(Append(s, x), e)
  <2>1. PICK i \in 1..Len(s) : s[i] = e
    BY <1>2 DEF Has
  <2>2. i \in 1..Len(Append(s, x)) /\ Append(s, x)[i] = e
    BY <1>1, <2>1
  <2>. QED BY <2>2 DEF Has
<1>3. Has(Append(s, x), x)
  BY <1>1 DEF Has
<1>. QED BY <1>1, <1>2, <1>3

\* Only the head leaves a queue.
LEMMA HasLeft ==
  ASSUME NEW S, NEW s \in Seq(S), s # <<>>
  PROVE  /\ Tail(s) \in Seq(S) /\ Head(s) \in S
         /\ \A e : Has(s, e) => Head(s) = e \/ Has(Tail(s), e)
<1>1. /\ Tail(s) \in Seq(S) /\ Head(s) \in S /\ Head(s) = s[1]
      /\ Len(Tail(s)) = Len(s) - 1 /\ Len(s) \in Nat
      /\ \A i \in 1..(Len(s) - 1) : Tail(s)[i] = s[i + 1]
  OBVIOUS
<1>2. ASSUME NEW e, Has(s, e), Head(s) # e PROVE Has(Tail(s), e)
  <2>1. PICK i \in 1..Len(s) : s[i] = e
    BY <1>2 DEF Has
  <2>2. i # 1
    BY <1>1, <1>2, <2>1
  <2>3. i - 1 \in 1..Len(Tail(s)) /\ Tail(s)[i - 1] = e
    BY <1>1, <2>1, <2>2
  <2>. QED BY <2>3 DEF Has
<1>. QED BY <1>1, <1>2

\* Nothing is in an empty queue.
LEMMA HasNothing == ASSUME NEW e PROVE ~Has(<<>>, e)
BY DEF Has

\* A try has six commands.
LEMMA SixCommands == Len(Cmds) = 6
BY DEF Cmds

\* The works that are submitted are of the two kinds.
LEMMA WorksTyped ==
  /\ \A fs : LinkUpWorks(fs) \in Seq(Works)
  /\ JoinWorks \in Seq(Works) /\ Has(JoinWorks, "info")
<1>1. <<>> \in Seq(Works) /\ <<"check">> \in Seq(Works)
      /\ <<"info">> \in Seq(Works)
  BY DEF Works
<1>2. <<"info">>[1] = "info" /\ 1 \in 1..Len(<<"info">>)
  OBVIOUS
<1>3. Has(<<"info">>, "info")
  BY <1>2 DEF Has
<1>. QED BY <1>1, <1>3 DEF LinkUpWorks, JoinWorks

-----------------------------------------------------------------------------
(* One lemma per actor.                                                    *)

\* The bring-up establishes the invariant.
LEMMA InitIInv == Init => IInv
<1>. SUFFICES ASSUME Init PROVE IInv
  OBVIOUS
<1>1. TypeOK
  <2>1. <<>> \in Seq(Works) /\ <<>> \in Seq(Notices)
    OBVIOUS
  <2>2. k \in 1..Len(Cmds) /\ retry_num \in 0..INIT_RETRY
    BY RetryAssumption, SixCommands DEF Init
  <2>. QED BY <2>1, <2>2 DEF Init, TypeOK, MainPositions, WorkPositions
<1>2. DeviceInv /\ FlagsInv /\ AddressInv
  BY DEF Init, DeviceInv, FlagsInv, AddressInv, BringingUp, Succeeded, Idle,
     Writes
<1>. QED BY <1>1, <1>2 DEF IInv

\* The module answers or is silent.
LEMMA WaitConnectInv ==
  ASSUME IInv, WaitConnect
  PROVE  IInv'
<1>. USE DEF IInv, mainVars, deviceVars, workVars, moduleVars
<1>1. TypeOK'
  BY DEF WaitConnect, MainGoto, TypeOK, MainPositions, WorkPositions
<1>2. DeviceInv'
  BY DEF WaitConnect, MainGoto, DeviceInv, BringingUp, Succeeded, Idle
<1>3. FlagsInv'
  BY DEF WaitConnect, MainGoto, FlagsInv, DeviceInv, BringingUp, Succeeded,
     Idle, Writes
<1>4. AddressInv'
  BY DEF WaitConnect, MainGoto, AddressInv, DeviceInv, BringingUp, Succeeded,
     Idle, Coming
<1>. QED BY <1>1, <1>2, <1>3, <1>4

\* A try begins or none is left.
LEMMA BeginTryInv ==
  ASSUME IInv, BeginTry
  PROVE  IInv'
<1>. USE DEF IInv, mainVars, deviceVars, workVars, moduleVars
<1>1. retry_num' \in 0..INIT_RETRY
  BY RetryAssumption DEF BeginTry, RetryAfter, TypeOK
<1>2. TypeOK'
  BY <1>1 DEF BeginTry, MainGoto, TypeOK, MainPositions, WorkPositions
<1>3. DeviceInv'
  BY DEF BeginTry, MainGoto, DeviceInv, BringingUp, Succeeded, Idle
<1>4. FlagsInv'
  BY DEF BeginTry, MainGoto, FlagsInv, DeviceInv, BringingUp, Succeeded,
     Idle, Writes
<1>5. AddressInv'
  BY DEF BeginTry, MainGoto, AddressInv, DeviceInv, BringingUp, Succeeded,
     Idle, Coming
<1>. QED BY <1>2, <1>3, <1>4, <1>5

\* A command succeeds.
LEMMA CommandOKInv ==
  ASSUME IInv, CommandOK
  PROVE  IInv'
<1>. USE DEF IInv, mainVars, deviceVars, workVars, moduleVars
<1>1. TypeOK'
  BY SixCommands
  DEF CommandOK, LastCmd, MainGoto, TypeOK, MainPositions, WorkPositions
<1>2. DeviceInv'
  BY DEF CommandOK, LastCmd, MainGoto, DeviceInv, BringingUp, Succeeded, Idle
<1>3. FlagsInv'
  BY DEF CommandOK, LastCmd, MainGoto, FlagsInv, DeviceInv, BringingUp,
     Succeeded, Idle, Writes
<1>4. AddressInv'
  BY DEF CommandOK, LastCmd, MainGoto, AddressInv, DeviceInv, BringingUp,
     Succeeded, Idle, Coming
<1>. QED BY <1>1, <1>2, <1>3, <1>4

\* A command fails.
LEMMA CommandFailsInv ==
  ASSUME IInv, CommandFails
  PROVE  IInv'
<1>. USE DEF IInv, mainVars, deviceVars, workVars, moduleVars
<1>1. k' \in 1..Len(Cmds)
  BY SixCommands DEF CommandFails
<1>2. TypeOK'
  BY <1>1 DEF CommandFails, MainGoto, TypeOK, MainPositions, WorkPositions
<1>3. DeviceInv'
  BY DEF CommandFails, MainGoto, DeviceInv, BringingUp, Succeeded, Idle
<1>4. FlagsInv'
  BY DEF CommandFails, MainGoto, FlagsInv, DeviceInv, BringingUp, Succeeded,
     Idle, Writes
<1>5. AddressInv'
  BY DEF CommandFails, MainGoto, AddressInv, DeviceInv, BringingUp,
     Succeeded, Idle, Coming
<1>. QED BY <1>2, <1>3, <1>4, <1>5

\* A try ends.
LEMMA EndTryInv ==
  ASSUME IInv, EndTry
  PROVE  IInv'
<1>. USE DEF IInv, mainVars, deviceVars, workVars, moduleVars
<1>1. TypeOK'
  BY DEF EndTry, MainGoto, TypeOK, MainPositions, WorkPositions
<1>2. DeviceInv'
  BY DEF EndTry, MainGoto, DeviceInv, BringingUp, Succeeded, Idle
<1>3. FlagsInv'
  BY DEF EndTry, MainGoto, FlagsInv, DeviceInv, BringingUp, Succeeded, Idle,
     Writes
<1>4. AddressInv'
  BY DEF EndTry, MainGoto, AddressInv, DeviceInv, BringingUp, Succeeded,
     Idle, Coming
<1>. QED BY <1>1, <1>2, <1>3, <1>4

\* The bring-up has succeeded or failed.
LEMMA ReportInv ==
  ASSUME IInv, Report
  PROVE  IInv'
<1>. USE DEF IInv, mainVars, deviceVars, workVars, moduleVars
<1>1. TypeOK'
  <2>1. /\ mpc' \in MainPositions /\ flags' \subseteq Flags
        /\ is_init' \in BOOLEAN
    BY DEF Report, MainGoto, TypeOK, MainPositions
  <2>. QED BY <2>1 DEF Report, TypeOK
<1>2. DeviceInv'
  BY DEF Report, MainGoto, DeviceInv, BringingUp, Succeeded, Idle
<1>3. FlagsInv'
  BY DEF Report, MainGoto, FlagsInv, DeviceInv, BringingUp, Succeeded, Idle,
     Writes
<1>4. AddressInv'
  BY DEF Report, MainGoto, AddressInv, DeviceInv, BringingUp, Succeeded,
     Idle, Coming
<1>. QED BY <1>1, <1>2, <1>3, <1>4

\* The flag UP is set.
LEMMA SetStatusInv ==
  ASSUME IInv, SetStatus
  PROVE  IInv'
<1>. USE DEF IInv, mainVars, deviceVars, workVars, moduleVars
<1>1. flags' \subseteq Flags /\ mcopy' \subseteq Flags
  BY DEF SetStatus, ReadFlags, WriteFlags, TypeOK, Flags, deviceVars
<1>2. TypeOK'
  BY <1>1
  DEF SetStatus, ReadFlags, WriteFlags, MainGoto, TypeOK, MainPositions,
      WorkPositions
<1>3. DeviceInv'
  BY DEF SetStatus, ReadFlags, WriteFlags, MainGoto, DeviceInv, BringingUp,
     Succeeded, Idle
<1>4. FlagsInv'
  BY DEF SetStatus, ReadFlags, WriteFlags, MainGoto, FlagsInv, DeviceInv,
     BringingUp, Succeeded, Idle, Writes
<1>5. AddressInv'
  BY DEF SetStatus, ReadFlags, WriteFlags, MainGoto, AddressInv, DeviceInv,
     BringingUp, Succeeded, Idle, Coming
<1>. QED BY <1>2, <1>3, <1>4, <1>5

\* The flag LINK is set.
LEMMA SetLinkInv ==
  ASSUME IInv, SetLink
  PROVE  IInv'
<1>. USE DEF IInv, mainVars, deviceVars, workVars, moduleVars
<1>1. timers' \in {timers, timers \o LinkUpWorks(mcopy)}
  BY DEF SetLink, ReadFlags, WriteFlags
<1>2. /\ timers' \in Seq(Works)
      /\ Has(timers, "info") => Has(timers', "info")
  <2>1. timers \in Seq(Works) /\ LinkUpWorks(mcopy) \in Seq(Works)
    BY WorksTyped DEF TypeOK
  <2>2. /\ timers \o LinkUpWorks(mcopy) \in Seq(Works)
        /\ Has(timers, "info") => Has(timers \o LinkUpWorks(mcopy), "info")
    BY <2>1, HasAppended
  <2>. QED BY <1>1, <2>1, <2>2
<1>3. flags' \subseteq Flags /\ mcopy' \subseteq Flags
  BY DEF SetLink, ReadFlags, WriteFlags, TypeOK, Flags, deviceVars
<1>4. TypeOK'
  BY <1>2, <1>3
  DEF SetLink, ReadFlags, WriteFlags, MainGoto, TypeOK, MainPositions,
      WorkPositions
<1>5. DeviceInv'
  BY <1>2
  DEF SetLink, ReadFlags, WriteFlags, MainGoto, DeviceInv, BringingUp,
      Succeeded, Idle
<1>6. FlagsInv'
  BY <1>2
  DEF SetLink, ReadFlags, WriteFlags, MainGoto, FlagsInv, DeviceInv,
      BringingUp, Succeeded, Idle, Writes
<1>7. AddressInv'
  BY <1>2
  DEF SetLink, ReadFlags, WriteFlags, MainGoto, AddressInv, DeviceInv,
      BringingUp, Succeeded, Idle, Coming
<1>. QED BY <1>4, <1>5, <1>6, <1>7

\* The first fetch is submitted, or there is no memory for it.
LEMMA StartWorkInv ==
  ASSUME IInv, StartWork
  PROVE  IInv'
<1>. USE DEF IInv, mainVars, deviceVars, workVars, moduleVars
<1>1. /\ timers' \in Seq(Works)
      /\ Has(timers, "info") => Has(timers', "info")
  <2>1. timers \in Seq(Works) /\ "info" \in Works
    BY DEF TypeOK, Works
  <2>2. /\ Append(timers, "info") \in Seq(Works)
        /\ Has(timers, "info") => Has(Append(timers, "info"), "info")
    BY <2>1, HasPut
  <2>. QED BY <2>1, <2>2 DEF StartWork
<1>2. TypeOK'
  BY <1>1 DEF StartWork, MainGoto, TypeOK, MainPositions, WorkPositions
<1>3. DeviceInv'
  BY <1>1 DEF StartWork, MainGoto, DeviceInv, BringingUp, Succeeded, Idle
<1>4. FlagsInv'
  BY <1>1
  DEF StartWork, MainGoto, FlagsInv, DeviceInv, BringingUp, Succeeded, Idle,
      Writes
<1>5. AddressInv'
  BY <1>1
  DEF StartWork, MainGoto, AddressInv, DeviceInv, BringingUp, Succeeded,
      Idle, Coming
<1>. QED BY <1>2, <1>3, <1>4, <1>5

\* The interface is set up.
LEMMA SetUpInv ==
  ASSUME IInv, SetUp
  PROVE  IInv'
<1>. USE DEF IInv, mainVars, deviceVars, workVars, moduleVars
<1>1. flags' \subseteq Flags /\ mcopy' \subseteq Flags
  BY DEF SetUp, ReadFlags, WriteFlags, TypeOK, Flags, deviceVars
<1>2. TypeOK'
  BY <1>1
  DEF SetUp, ReadFlags, WriteFlags, MainGoto, TypeOK, MainPositions,
      WorkPositions
<1>3. DeviceInv'
  BY DEF SetUp, ReadFlags, WriteFlags, MainGoto, DeviceInv, BringingUp,
     Succeeded, Idle
<1>4. FlagsInv'
  BY DEF SetUp, ReadFlags, WriteFlags, MainGoto, FlagsInv, DeviceInv,
     BringingUp, Succeeded, Idle, Writes
<1>5. AddressInv'
  BY DEF SetUp, ReadFlags, WriteFlags, MainGoto, AddressInv, DeviceInv,
     BringingUp, Succeeded, Idle, Coming
<1>. QED BY <1>2, <1>3, <1>4, <1>5

\* The device is registered.
LEMMA RegisterInv ==
  ASSUME IInv, Register
  PROVE  IInv'
<1>. USE DEF IInv, mainVars, deviceVars, workVars, moduleVars
<1>1. TypeOK'
  BY DEF Register, MainGoto, TypeOK, MainPositions, WorkPositions
<1>2. DeviceInv'
  BY DEF Register, MainGoto, DeviceInv, BringingUp, Succeeded, Idle
<1>3. FlagsInv'
  BY DEF Register, MainGoto, FlagsInv, DeviceInv, BringingUp, Succeeded,
     Idle, Writes
<1>4. AddressInv'
  BY DEF Register, MainGoto, AddressInv, DeviceInv, BringingUp, Succeeded,
     Idle, Coming
<1>. QED BY <1>1, <1>2, <1>3, <1>4

\* A notice is handled; a join that is not ignored submits a fetch, or the
\* module goes unasked.
LEMMA ReadNoticeInv ==
  ASSUME IInv, ReadNotice
  PROVE  IInv'
<1>. USE DEF IInv, mainVars, deviceVars, workVars, moduleVars
<1>1. /\ line' \in Seq(Notices) /\ Head(line) \in Notices
      /\ Has(line, "WIFI CONNECTED")
           => Head(line) = "WIFI CONNECTED" \/ Has(line', "WIFI CONNECTED")
  BY HasLeft DEF ReadNotice, TypeOK
<1>2. ASSUME NEW ws \in {<<>>, LinkUpWorks(flags)}
      PROVE  /\ timers \o ws \o JoinWorks \in Seq(Works)
             /\ Has(timers \o ws \o JoinWorks, "info")
             /\ timers \o ws \in Seq(Works)
             /\ Has(timers, "info") => Has(timers \o ws, "info")
  <2>1. ws \in Seq(Works)
    <3>1. <<>> \in Seq(Works)
      OBVIOUS
    <3>. QED BY <3>1, WorksTyped
  <2>2. /\ timers \o ws \in Seq(Works)
        /\ Has(timers, "info") => Has(timers \o ws, "info")
    BY <2>1, HasAppended DEF TypeOK
  <2>. QED BY <2>2, HasAppended, WorksTyped
<1>3. /\ timers' \in Seq(Works)
      /\ is_init /\ Head(line) = "WIFI CONNECTED"
           => Has(timers', "info") \/ told' = "none"
      /\ Has(timers, "info") => Has(timers', "info")
      /\ ~is_init => timers' = timers
      /\ told' \in {told, "none"}
  BY <1>1, <1>2 DEF ReadNotice, TypeOK, Notices
<1>4. flags' \subseteq Flags
  BY DEF ReadNotice, LinkDown, TypeOK, Flags
<1>5. UNCHANGED <<mainVars, is_init, ip_addr, workVars, wifi, lease>>
  BY DEF ReadNotice
<1>6. TypeOK'
  BY <1>1, <1>3, <1>4, <1>5 DEF TypeOK
<1>7. DeviceInv'
  BY <1>1, <1>3
  DEF ReadNotice, LinkDown, DeviceInv, BringingUp, Succeeded, Idle
<1>8. FlagsInv'
  BY <1>1, <1>3
  DEF ReadNotice, LinkDown, FlagsInv, DeviceInv, BringingUp, Succeeded, Idle,
      Writes
<1>9. AddressInv'
  BY <1>1, <1>3
  DEF ReadNotice, LinkDown, AddressInv, DeviceInv, BringingUp, Succeeded,
      Idle, Coming
<1>. QED BY <1>6, <1>7, <1>8, <1>9

\* A delayed work moves to the list.
LEMMA TimeOutInv ==
  ASSUME IInv, TimeOut
  PROVE  IInv'
<1>. USE DEF IInv, mainVars, deviceVars, workVars, moduleVars
<1>1. /\ work_list' \in Seq(Works)
      /\ Has(timers, "info") => Has(timers', "info") \/ Has(work_list', "info")
      /\ Has(work_list, "info") => Has(work_list', "info")
      /\ timers' \in Seq(Works) /\ work_list' # <<>> /\ timers # <<>>
  <2>1. /\ timers' \in Seq(Works) /\ Head(timers) \in Works
        /\ Has(timers, "info") => Head(timers) = "info" \/ Has(timers', "info")
    BY HasLeft DEF TimeOut, TypeOK
  <2>2. /\ Append(work_list, Head(timers)) \in Seq(Works)
        /\ Has(Append(work_list, Head(timers)), Head(timers))
        /\ Has(work_list, "info")
             => Has(Append(work_list, Head(timers)), "info")
    BY <2>1, HasPut DEF TypeOK
  <2>3. Append(work_list, Head(timers)) # <<>>
    BY <2>2, HasNothing
  <2>. QED BY <2>1, <2>2, <2>3 DEF TimeOut
<1>2. TypeOK'
  BY <1>1 DEF TimeOut, WorkGoto, TypeOK, MainPositions, WorkPositions
<1>3. DeviceInv'
  BY <1>1 DEF TimeOut, WorkGoto, DeviceInv, BringingUp, Succeeded, Idle
<1>4. FlagsInv'
  BY <1>1
  DEF TimeOut, WorkGoto, FlagsInv, DeviceInv, BringingUp, Succeeded, Idle,
      Writes
<1>5. AddressInv'
  BY <1>1
  DEF TimeOut, WorkGoto, AddressInv, DeviceInv, BringingUp, Succeeded, Idle,
      Coming
<1>. QED BY <1>2, <1>3, <1>4, <1>5

\* The list is found empty.
LEMMA FindNothingInv ==
  ASSUME IInv, MainWaits, FindNothing
  PROVE  IInv'
<1>. USE DEF IInv, mainVars, deviceVars, workVars, moduleVars
<1>1. \/ mpc = "done"
      \/ timers = <<>> /\ work_list = <<>> /\ wpc \in Idle
  BY DEF DeviceInv, BringingUp, MainWaits
<1>2. TypeOK'
  BY DEF FindNothing, WorkGoto, TypeOK, MainPositions, WorkPositions
<1>3. DeviceInv'
  BY <1>1 DEF FindNothing, WorkGoto, DeviceInv, BringingUp, Succeeded, Idle
<1>4. FlagsInv'
  BY <1>1
  DEF FindNothing, WorkGoto, FlagsInv, DeviceInv, BringingUp, Succeeded,
      Idle, Writes
<1>5. AddressInv'
  BY <1>1
  DEF FindNothing, WorkGoto, AddressInv, DeviceInv, BringingUp, Succeeded,
      Idle, Coming
<1>. QED BY <1>2, <1>3, <1>4, <1>5

\* The thread of the queue suspends itself.
LEMMA SuspendInv ==
  ASSUME IInv, MainWaits, Suspend
  PROVE  IInv'
<1>. USE DEF IInv, mainVars, deviceVars, workVars, moduleVars
<1>1. \/ mpc = "done"
      \/ timers = <<>> /\ work_list = <<>> /\ wpc \in Idle
  BY DEF DeviceInv, BringingUp, MainWaits
<1>2. TypeOK'
  BY DEF Suspend, WorkGoto, TypeOK, MainPositions, WorkPositions
<1>3. DeviceInv'
  BY <1>1 DEF Suspend, WorkGoto, DeviceInv, BringingUp, Succeeded, Idle
<1>4. FlagsInv'
  BY <1>1
  DEF Suspend, WorkGoto, FlagsInv, DeviceInv, BringingUp, Succeeded, Idle,
      Writes
<1>5. AddressInv'
  BY <1>1
  DEF Suspend, WorkGoto, AddressInv, DeviceInv, BringingUp, Succeeded, Idle,
      Coming
<1>. QED BY <1>2, <1>3, <1>4, <1>5

\* A work is taken from the queue.
LEMMA TakeWorkInv ==
  ASSUME IInv, MainWaits, TakeWork
  PROVE  IInv'
<1>. USE DEF IInv, mainVars, deviceVars, workVars, moduleVars
<1>1. \/ mpc = "done"
      \/ timers = <<>> /\ work_list = <<>> /\ wpc \in Idle
  BY DEF DeviceInv, BringingUp, MainWaits
<1>2. /\ work_list' \in Seq(Works) /\ Head(work_list) \in Works
      /\ Has(work_list, "info")
           => Head(work_list) = "info" \/ Has(work_list', "info")
  <2>1. work_list # <<>>
    BY DEF DeviceInv, TakeWork
  <2>. QED BY <2>1, HasLeft DEF TakeWork, TypeOK
<1>3. TypeOK'
  BY <1>2 DEF TakeWork, WorkGoto, TypeOK, MainPositions, WorkPositions
<1>4. DeviceInv'
  BY <1>1, <1>2 DEF TakeWork, WorkGoto, DeviceInv, BringingUp, Succeeded, Idle
<1>5. FlagsInv'
  BY <1>1, <1>2
  DEF TakeWork, WorkGoto, FlagsInv, DeviceInv, BringingUp, Succeeded, Idle,
      Writes
<1>6. AddressInv'
  BY <1>1, <1>2
  DEF TakeWork, WorkGoto, AddressInv, DeviceInv, BringingUp, Succeeded, Idle,
      Coming
<1>. QED BY <1>3, <1>4, <1>5, <1>6

\* The module tells its address or does not.
LEMMA AskAddressInv ==
  ASSUME IInv, MainWaits, AskAddress
  PROVE  IInv'
<1>. USE DEF IInv, mainVars, deviceVars, workVars, moduleVars
<1>1. \/ mpc = "done"
      \/ timers = <<>> /\ work_list = <<>> /\ wpc \in Idle
  BY DEF DeviceInv, BringingUp, MainWaits
<1>2. TypeOK'
  BY DEF AskAddress, WorkGoto, TypeOK, MainPositions, WorkPositions
<1>3. DeviceInv'
  BY <1>1 DEF AskAddress, WorkGoto, DeviceInv, BringingUp, Succeeded, Idle
<1>4. FlagsInv'
  BY <1>1
  DEF AskAddress, WorkGoto, FlagsInv, DeviceInv, BringingUp, Succeeded, Idle,
      Writes
<1>5. AddressInv'
  BY <1>1
  DEF AskAddress, WorkGoto, AddressInv, DeviceInv, BringingUp, Succeeded,
      Idle, Coming
<1>. QED BY <1>2, <1>3, <1>4, <1>5

\* The address is stored.
LEMMA StoreAddressInv ==
  ASSUME IInv, MainWaits, StoreAddress
  PROVE  IInv'
<1>. USE DEF IInv, mainVars, deviceVars, workVars, moduleVars
<1>1. \/ mpc = "done"
      \/ timers = <<>> /\ work_list = <<>> /\ wpc \in Idle
  BY DEF DeviceInv, BringingUp, MainWaits
<1>2. /\ timers' \in Seq(Works)
      /\ Has(timers, "info") => Has(timers', "info")
  <2> DEFINE last == IF got # ip_addr /\ {"UP", "LINK"} \subseteq flags
                     THEN <<"check">> ELSE <<>>
  <2>1. PICK cs \in StoreWorks : timers' = timers \o cs \o last
    BY DEF StoreAddress
  <2>2. /\ <<>> \in Seq(Works) /\ <<"check">> \in Seq(Works)
        /\ <<"check", "check">> \in Seq(Works)
    BY DEF Works
  <2>3. cs \in Seq(Works) /\ last \in Seq(Works) /\ timers \in Seq(Works)
    BY <2>2 DEF StoreWorks, TypeOK
  <2>. HIDE DEF last
  <2>4. /\ timers \o cs \in Seq(Works)
        /\ Has(timers, "info") => Has(timers \o cs, "info")
    BY <2>3, HasAppended
  <2>5. /\ (timers \o cs) \o last \in Seq(Works)
        /\ Has(timers \o cs, "info") => Has((timers \o cs) \o last, "info")
    BY <2>3, <2>4, HasAppended
  <2>. QED BY <2>1, <2>4, <2>5
<1>3. TypeOK'
  BY <1>2 DEF StoreAddress, WorkGoto, TypeOK, MainPositions, WorkPositions
<1>4. DeviceInv'
  BY <1>1, <1>2
  DEF StoreAddress, WorkGoto, DeviceInv, BringingUp, Succeeded, Idle
<1>5. FlagsInv'
  BY <1>1, <1>2
  DEF StoreAddress, WorkGoto, FlagsInv, DeviceInv, BringingUp, Succeeded,
      Idle, Writes
<1>6. AddressInv'
  BY <1>1, <1>2
  DEF StoreAddress, WorkGoto, AddressInv, DeviceInv, BringingUp, Succeeded,
      Idle, Coming
<1>. QED BY <1>3, <1>4, <1>5, <1>6

\* The other addresses are asked for.
LEMMA AskDhcpInv ==
  ASSUME IInv, MainWaits, AskDhcp
  PROVE  IInv'
<1>. USE DEF IInv, mainVars, deviceVars, workVars, moduleVars
<1>1. \/ mpc = "done"
      \/ timers = <<>> /\ work_list = <<>> /\ wpc \in Idle
  BY DEF DeviceInv, BringingUp, MainWaits
<1>2. TypeOK'
  BY DEF AskDhcp, WorkGoto, TypeOK, MainPositions, WorkPositions
<1>3. DeviceInv'
  BY <1>1 DEF AskDhcp, WorkGoto, DeviceInv, BringingUp, Succeeded, Idle
<1>4. FlagsInv'
  BY <1>1
  DEF AskDhcp, WorkGoto, FlagsInv, DeviceInv, BringingUp, Succeeded, Idle,
      Writes
<1>5. AddressInv'
  BY <1>1
  DEF AskDhcp, WorkGoto, AddressInv, DeviceInv, BringingUp, Succeeded, Idle,
      Coming
<1>. QED BY <1>2, <1>3, <1>4, <1>5

\* The internet is checked.
LEMMA CheckInternetInv ==
  ASSUME IInv, MainWaits, CheckInternet
  PROVE  IInv'
<1>. USE DEF IInv, mainVars, deviceVars, workVars, moduleVars
<1>1. \/ mpc = "done"
      \/ timers = <<>> /\ work_list = <<>> /\ wpc \in Idle
  BY DEF DeviceInv, BringingUp, MainWaits
<1>2. TypeOK'
  BY DEF CheckInternet, WorkGoto, TypeOK, MainPositions, WorkPositions
<1>3. DeviceInv'
  BY <1>1 DEF CheckInternet, WorkGoto, DeviceInv, BringingUp, Succeeded, Idle
<1>4. FlagsInv'
  BY <1>1
  DEF CheckInternet, WorkGoto, FlagsInv, DeviceInv, BringingUp, Succeeded,
      Idle, Writes
<1>5. AddressInv'
  BY <1>1
  DEF CheckInternet, WorkGoto, AddressInv, DeviceInv, BringingUp, Succeeded,
      Idle, Coming
<1>. QED BY <1>2, <1>3, <1>4, <1>5

\* The flags are copied for the result.
LEMMA ReadForCheckInv ==
  ASSUME IInv, MainWaits, ReadForCheck
  PROVE  IInv'
<1>. USE DEF IInv, mainVars, deviceVars, workVars, moduleVars
<1>1. \/ mpc = "done"
      \/ timers = <<>> /\ work_list = <<>> /\ wpc \in Idle
  BY DEF DeviceInv, BringingUp, MainWaits
<1>2. TypeOK'
  BY DEF ReadForCheck, WorkGoto, TypeOK, MainPositions, WorkPositions
<1>3. DeviceInv'
  BY <1>1 DEF ReadForCheck, WorkGoto, DeviceInv, BringingUp, Succeeded, Idle
<1>4. FlagsInv'
  BY <1>1
  DEF ReadForCheck, WorkGoto, FlagsInv, DeviceInv, BringingUp, Succeeded,
      Idle, Writes
<1>5. AddressInv'
  BY <1>1
  DEF ReadForCheck, WorkGoto, AddressInv, DeviceInv, BringingUp, Succeeded,
      Idle, Coming
<1>. QED BY <1>2, <1>3, <1>4, <1>5

\* A copy of the flags is written back.
LEMMA WriteForWorkInv ==
  ASSUME IInv, MainWaits, WriteForWork
  PROVE  IInv'
<1>. USE DEF IInv, mainVars, deviceVars, workVars, moduleVars
<1>1. \/ mpc = "done"
      \/ timers = <<>> /\ work_list = <<>> /\ wpc \in Idle
  BY DEF DeviceInv, BringingUp, MainWaits
<1>2. flags' \subseteq Flags /\ wcopy' \subseteq Flags
  BY DEF WriteForWork, WorkWrites, TypeOK, Flags
<1>3. TypeOK'
  BY <1>2
  DEF WriteForWork, WorkWrites, WorkGoto, TypeOK, MainPositions, WorkPositions
<1>4. DeviceInv'
  BY <1>1
  DEF WriteForWork, WorkWrites, WorkGoto, DeviceInv, BringingUp, Succeeded,
      Idle
<1>5. FlagsInv'
  BY <1>1
  DEF WriteForWork, WorkWrites, WorkGoto, FlagsInv, DeviceInv, BringingUp,
      Succeeded, Idle, Writes
<1>6. AddressInv'
  BY <1>1
  DEF WriteForWork, WorkWrites, WorkGoto, AddressInv, DeviceInv, BringingUp,
      Succeeded, Idle, Coming
<1>. QED BY <1>3, <1>4, <1>5, <1>6

\* The module joins and announces it.
LEMMA WifiJoinsInv ==
  ASSUME IInv, WifiJoins
  PROVE  IInv'
<1>. USE DEF IInv, mainVars, deviceVars, workVars, moduleVars
<1>1. /\ line' \in Seq(Notices)
      /\ Has(line', "WIFI CONNECTED")
  <2>1. "WIFI CONNECTED" \in Notices
    BY DEF Notices
  <2>. QED BY <2>1, HasPut DEF WifiJoins, TypeOK
<1>2. /\ UNCHANGED <<mainVars, deviceVars, timers, workVars>>
      /\ wifi' \in BOOLEAN /\ lease' \in Addresses \cup {0}
      /\ told' \in {"due", "none"}
  BY DEF WifiJoins
<1>3. TypeOK'
  BY <1>1, <1>2 DEF TypeOK
<1>4. DeviceInv'
  BY <1>1 DEF WifiJoins, DeviceInv, BringingUp, Succeeded, Idle
<1>5. FlagsInv'
  BY <1>1
  DEF WifiJoins, FlagsInv, DeviceInv, BringingUp, Succeeded, Idle, Writes
<1>6. AddressInv'
  BY <1>1
  DEF WifiJoins, AddressInv, DeviceInv, BringingUp, Succeeded, Idle, Coming
<1>. QED BY <1>3, <1>4, <1>5, <1>6

\* The address changes: one that was told is late from then on.
LEMMA AddressChangesInv ==
  ASSUME IInv, AddressChanges
  PROVE  IInv'
<1>. USE DEF IInv, mainVars, deviceVars, workVars, moduleVars
<1>1. /\ UNCHANGED <<mainVars, deviceVars, timers, workVars, wifi, line>>
      /\ lease' \in Addresses \cup {0}
      /\ told' = IF told = "yes" THEN "late" ELSE told
  BY DEF AddressChanges
<1>2. TypeOK'
  BY <1>1 DEF TypeOK
<1>3. DeviceInv'
  BY <1>1 DEF DeviceInv, BringingUp, Succeeded, Idle
<1>4. FlagsInv'
  BY <1>1 DEF FlagsInv, DeviceInv, BringingUp, Succeeded, Idle, Writes
<1>5. AddressInv'
  BY <1>1 DEF AddressInv, DeviceInv, Coming, TypeOK
<1>. QED BY <1>2, <1>3, <1>4, <1>5

\* The module drops out.
LEMMA WifiDropsInv ==
  ASSUME IInv, WifiDrops
  PROVE  IInv'
<1>. USE DEF IInv, mainVars, deviceVars, workVars, moduleVars
<1>1. line' \in Seq(Notices)
  <2>1. "WIFI DISCONNECT" \in Notices
    BY DEF Notices
  <2>. QED BY <2>1, HasPut DEF WifiDrops, TypeOK
<1>2. /\ UNCHANGED <<mainVars, deviceVars, timers, workVars>>
      /\ wifi' = FALSE /\ lease' = 0 /\ told' = "none"
  BY DEF WifiDrops
<1>3. TypeOK'
  BY <1>1, <1>2 DEF TypeOK
<1>4. DeviceInv'
  BY <1>1 DEF WifiDrops, DeviceInv, BringingUp, Succeeded, Idle
<1>5. FlagsInv'
  BY <1>1
  DEF WifiDrops, FlagsInv, DeviceInv, BringingUp, Succeeded, Idle, Writes
<1>6. AddressInv'
  BY <1>1
  DEF WifiDrops, AddressInv, DeviceInv, BringingUp, Succeeded, Idle, Coming
<1>. QED BY <1>3, <1>4, <1>5, <1>6

-----------------------------------------------------------------------------
(* Theorems.                                                               *)

\* The invariant holds in every state of the bring-up and after it, for any
\* addresses and any number of tries.
THEOREM Invariance == Spec => []IInv
<1>1. Init => IInv
  BY InitIInv
<1>2. IInv /\ [Next]_vars => IInv'
  <2>. SUFFICES ASSUME IInv, [Next]_vars PROVE IInv'
    OBVIOUS
  <2>1. CASE MainStep
    BY <2>1, WaitConnectInv, BeginTryInv, CommandOKInv, CommandFailsInv,
       EndTryInv,
       ReportInv, SetStatusInv, SetLinkInv, StartWorkInv, SetUpInv, RegisterInv
    DEF MainStep
  <2>2. CASE WorkStep
    BY <2>2, FindNothingInv, SuspendInv, TakeWorkInv, AskAddressInv,
       StoreAddressInv, AskDhcpInv,
       CheckInternetInv, ReadForCheckInv, WriteForWorkInv
    DEF WorkStep
  <2>3. CASE ReadNotice \/ TimeOut \/ WifiJoins \/ AddressChanges \/ WifiDrops
    BY <2>3, ReadNoticeInv, TimeOutInv, WifiJoinsInv, AddressChangesInv,
       WifiDropsInv
  <2>4. CASE UNCHANGED vars
    <3>1. TypeOK'
      BY <2>4 DEF vars, IInv, TypeOK
    <3>2. DeviceInv' /\ FlagsInv'
      BY <2>4 DEF vars, IInv, DeviceInv, FlagsInv
    <3>3. AddressInv'
      BY <2>4 DEF vars, IInv, AddressInv, Coming, Has
    <3>. QED BY <3>1, <3>2, <3>3 DEF IInv
  <2>. QED BY <2>1, <2>2, <2>3, <2>4 DEF Next
<1>. QED BY <1>1, <1>2, PTL DEF Spec

\* The types of the device, the interface, the threads and the module; in
\* particular the count of the tries (esp8266_init_thread_entry, 608-625).
THEOREM TypeCorrect == Spec => []TypeOK
<1>1. IInv => TypeOK
  BY DEF IInv
<1>. QED BY <1>1, Invariance, PTL

\* However the module joins, drops out and changes its address, and whatever
\* commands fail, an address that is not the current one is about to be
\* replaced, could not be asked for, or is the one the module told before it
\* changed it without a notice (urc_func, esp8266_get_netdev_info).
THEOREM FreshAddress == Spec => []AddressFresh
<1>1. IInv => AddressFresh
  BY HasNothing DEF IInv, AddressInv, AddressFresh, Coming, Fetching, Has
<1>. QED BY <1>1, Invariance, PTL

\* No copy of the flags that is written back takes the interface down
\* (netdev_low_level_set_status, check_netdev_internet_up_work).
THEOREM UpForGood == Spec => []StaysUp
<1>1. IInv => StaysUp
  BY DEF IInv, FlagsInv, StaysUp
<1>. QED BY <1>1, Invariance, PTL
=============================================================================
