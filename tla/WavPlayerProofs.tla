--------------------------- MODULE WavPlayerProofs ---------------------------
(***************************************************************************)
(* The safety properties of WavPlayer, for any number of callers, files    *)
(* and volumes and any queue size.                                         *)
(*                                                                         *)
(* The inductive invariant IInv says who may be where: the mutex follows   *)
(* the positions of the callers (LockInv), a message or an acknowledgement *)
(* under way belongs to the caller that owns the mutex (HandshakeInv), the *)
(* player state fits the command under way (CommandInv) and the position   *)
(* of wav_p (ThreadInv), and so do the file and the device (StreamInv).    *)
(***************************************************************************)
EXTENDS WavPlayer, TLAPS

InCall    == {"init", "lock"}
InSection == {"check", "seturi", "send", "wait", "suspended", "woken", "unlock"}
Waiting   == {"wait", "suspended"}
InVolume  == {"volfind", "volstore", "volctl", "asserted"}

\* The call each caller is in fits its position, and so does its argument.
CallInv ==
  \A c \in Callers :
    /\ pc[c] = "idle" => op[c] = Null /\ ~nested[c]
    /\ pc[c] \in InCall \cup InSection => op[c] \in Commands
    /\ pc[c] \in InVolume => op[c] = "volume" /\ ~nested[c]
    /\ pc[c] = "seturi" => op[c] = "play" /\ ~nested[c]
    /\ nested[c] => op[c] = "play"
    /\ op[c] = "play" => arg[c] \in Files
    /\ op[c] = "volume" => arg[c] \in VOLUME_MIN..VOLUME_MAX

\* The mutex is held by the caller inside of its section, or in a stop nested
\* there, and counts both.
LockInv ==
  /\ \A c \in Callers : lockOwner = c <=> (pc[c] \in InSection \/ nested[c])
  /\ \A c \in Callers : lockOwner = c =>
       lockHold = IF nested[c] /\ pc[c] \notin InCall THEN 2 ELSE 1
  /\ lockOwner = Null => lockHold = 0

\* At most one of: an unread message, a message being acknowledged, a raised
\* flag; each belongs to the owner of the mutex, as does the suspended thread.
HandshakeInv ==
  /\ mq # <<>> =>
       /\ lockOwner # Null /\ pc[lockOwner] \in Waiting
       /\ mq = <<MsgOf(Top(lockOwner))>> /\ wpc # "ack" /\ ~ackFlag
  /\ wpc = "ack" =>
       /\ lockOwner # Null /\ pc[lockOwner] \in Waiting
       /\ event = MsgOf(Top(lockOwner)) /\ mq = <<>> /\ ~ackFlag
  /\ ackFlag => lockOwner # Null /\ pc[lockOwner] \in Waiting \cup {"woken"}
  /\ ackWaiter # Null => ackWaiter = lockOwner /\ pc[ackWaiter] = "suspended"

\* What holds from a command's test of player.state until wav_p reads its
\* message, and from then until it returns.
Requires(o) == /\ o = "play"   => state = "STOPED" /\ uri \in Files
               /\ o = "pause"  => state # "PAUSED"
               /\ o = "resume" => state = "PAUSED"
Ensures(o)  == /\ o = "stop"   => state = "STOPED"
               /\ o = "pause"  => state # "PLAYING"
               /\ o = "resume" => state # "PAUSED"

CommandInv ==
  \A c \in Callers :
    /\ pc[c] = "seturi" => state = "STOPED"
    /\ pc[c] = "send" => Requires(Top(c))
    /\ pc[c] \in Waiting /\ mq # <<>> => Requires(Top(c))
    /\ pc[c] \in Waiting /\ mq = <<>> => Ensures(Top(c))
    /\ pc[c] \in {"woken", "unlock"} => Ensures(Top(c))

Opening == {"find", "fopen", "devopen", "configure", "setvol"}
Closing == {"fclose", "devclose", "devclear"}

\* player.state and the loops of wavplayer_entry.
ThreadInv ==
  /\ wpc = "recv" /\ loop = "inner"  => state = "PLAYING"
  /\ wpc = "recv" /\ loop = "paused" => state = "PAUSED"
  /\ wpc = "ack" => state = StateAfter(event)
  /\ wpc = "ack" /\ loop = "inner"  => event \in {"STOP", "PAUSE"}
  /\ wpc = "ack" /\ loop = "paused" => event \in {"STOP", "RESUME"}
  /\ wpc = "ack" /\ event = "START" => uri \in Files
  /\ wpc \in Opening \cup {"openfailed"} => loop = "outer" /\ state = "PLAYING"
  /\ wpc \in {"find", "fopen"} => uri \in Files
  /\ wpc \in {"read", "write"} => loop = "inner" /\ state = "PLAYING"
  /\ wpc = "check" => loop = "inner" /\ state # "PAUSED"
  /\ wpc \in Closing =>
       \/ loop = "outer" /\ state = "PLAYING"
       \/ loop = "inner" /\ state = "STOPED"

\* What is open at each position of wav_p.
StreamInv ==
  /\ wpc \in {"recv", "ack"} /\ loop = "outer" => fp = Null /\ devRefs = 0
  /\ wpc \in {"find", "fopen", "devclear", "openfailed"} => fp = Null /\ devRefs = 0
  /\ wpc = "devopen" => fp # Null /\ devRefs = 0
  /\ wpc \in {"configure", "setvol"} => fp # Null /\ devRefs = 1
  /\ wpc \in {"recv", "ack", "read", "write", "check"} /\ loop # "outer" =>
       fp # Null /\ devRefs = 1 /\ device
  /\ wpc \in {"fclose", "devclose"} => devRefs = IF loop = "outer" THEN 0 ELSE 1
  /\ wpc = "devclose" => fp = Null
  /\ wpc \in Closing \cup (Opening \ {"find"}) => device
  /\ device => registered
  /\ (fp # Null /\ state # "STOPED") => fp = uri

IInv == TypeOK /\ CallInv /\ LockInv /\ HandshakeInv
               /\ CommandInv /\ ThreadInv /\ StreamInv
-----------------------------------------------------------------------------
(* Which variables a thread leaves alone.                                  *)

CallerAction(c) == Call(c) \/ PlayLock(c) \/ CallStep(c)

\* wav_p touches the callers and the completion only in EventDispatch.
LEMMA ThreadFrame ==
  ASSUME WavPStep
  PROVE  EventDispatch \/ UNCHANGED <<callerVars, lockOwner, lockHold,
                                      ackFlag, ackWaiter>>
BY DEF WavPStep, EventRecv, EventNone, EventDispatch, OpenFind, OpenFile,
       OpenDevice, OpenConfigure, OpenVolume, ReadFile, WriteDevice,
       CheckStopped, CloseFile, CloseDevice, ClearDevice, OpenFailed,
       playerVars, ipcVars, callerVars, threadVars, devVars

\* Only EventRecv reads the queue, and only EventRecv and EventDispatch are
\* concerned with an acknowledgement.
LEMMA ThreadQueueFrame ==
  ASSUME WavPStep
  PROVE  \/ EventRecv \/ EventDispatch
         \/ UNCHANGED mq /\ wpc # "ack" /\ wpc' # "ack"
BY DEF WavPStep, EventRecv, EventNone, EventDispatch, OpenFind, OpenFile,
       OpenDevice, OpenConfigure, OpenVolume, ReadFile, WriteDevice,
       CheckStopped, CloseFile, CloseDevice, ClearDevice, OpenFailed,
       playerVars, ipcVars, callerVars, threadVars, devVars, At, WGoto

\* A caller never moves wav_p and never changes what it has open.
LEMMA CallerFrame ==
  ASSUME NEW c \in Callers, CallerAction(c)
  PROVE  UNCHANGED <<state, fp, wpc, loop, event, wvol, registered, devRefs>>
BY DEF CallerAction, CallStep, Call, PlayLock, CompletionInit, CheckState,
       ReplaceUri, PlayMsgSend, CompletionWait, CompletionWoken, PlayUnlock,
       VolumeFind, VolumeStore, VolumeControl,
       playerVars, ipcVars, callerVars, threadVars, devVars

\* The sequence a send leaves in the empty queue.
LEMMA AppendToEmpty ==
  ASSUME NEW m, mq = <<>>
  PROVE  (IF Len(mq) < MqSize THEN Append(mq, m) ELSE mq) = <<m>>
BY MqSizeAssumption

-----------------------------------------------------------------------------
(* Typing.                                                                 *)

LEMMA MessageType ==
  /\ \A o \in Commands : MsgOf(o) \in Msgs
  /\ \A m \in Msgs : StateAfter(m) \in PlayerStates
BY DEF MsgOf, Msgs, Commands, AllOps, StateAfter, PlayerStates

LEMMA ClampType == \A v \in Volumes : Clamp(v) \in VOLUME_MIN..VOLUME_MAX
BY VolumesAssumption DEF Clamp, VOLUME_MIN, VOLUME_MAX

LEMMA PlayerTypeStep ==
  ASSUME TypeOK, CallInv, [Next]_vars
  PROVE  PlayerTypeOK'
<1>. USE DEF TypeOK, PlayerTypeOK, playerVars, PlayerStates
<1>1. CASE EventRecv
  BY <1>1, MessageType DEF EventRecv, IpcTypeOK
<1>2. ASSUME NEW c \in Callers, ReplaceUri(c) PROVE PlayerTypeOK'
  BY <1>2 DEF ReplaceUri, CallInv
<1>3. ASSUME NEW c \in Callers, VolumeStore(c) PROVE PlayerTypeOK'
  BY <1>3 DEF VolumeStore, CallInv, InVolume
<1>4. CASE OpenFind \/ \E c \in Callers : VolumeFind(c)
  BY <1>4 DEF OpenFind, VolumeFind, DeviceTypeOK
<1>5. CASE OpenFile \/ ReadFile \/ CloseFile \/ ClearDevice \/ OpenFailed
  BY <1>5 DEF OpenFile, ReadFile, CloseFile, ClearDevice, OpenFailed
<1>6. CASE UNCHANGED playerVars
  BY <1>6
<1>. QED
  BY <1>1, <1>2, <1>3, <1>4, <1>5, <1>6
  DEF Next, CallStep, WavPStep, vars, Call, PlayLock, CompletionInit,
      CheckState, PlayMsgSend, CompletionWait, CompletionWoken, PlayUnlock,
      VolumeControl, EventNone, EventDispatch, OpenDevice, OpenConfigure,
      OpenVolume, WriteDevice, CheckStopped, CloseDevice

LEMMA IpcTypeStep ==
  ASSUME TypeOK, CallInv, LockInv, HandshakeInv, [Next]_vars
  PROVE  IpcTypeOK'
<1>. USE DEF TypeOK, IpcTypeOK, ipcVars
<1>1. CASE EventRecv
  BY <1>1 DEF EventRecv
<1>2. CASE EventDispatch
  BY <1>2 DEF EventDispatch, DoneEffect
<1>3. ASSUME NEW c \in Callers, PlayMsgSend(c) PROVE IpcTypeOK'
  <2>1. Top(c) \in Commands
    BY <1>3 DEF PlayMsgSend, CallInv, InSection, Top, Commands, AllOps
  <2>2. mq = <<>>
    BY <1>3 DEF PlayMsgSend, LockInv, HandshakeInv, InSection, Waiting
  <2>3. mq' = <<MsgOf(Top(c))>>
    BY <1>3, <2>2, AppendToEmpty DEF PlayMsgSend
  <2>. QED
    BY <1>3, <2>1, <2>3, MessageType DEF PlayMsgSend
<1>4. ASSUME NEW c \in Callers, PlayLock(c) PROVE IpcTypeOK'
  BY <1>4, NullAssumption DEF PlayLock, LockInv, InCall, InSection, MutexFree
<1>5. ASSUME NEW c \in Callers, PlayUnlock(c) PROVE IpcTypeOK'
  BY <1>5 DEF PlayUnlock, LockInv, InCall, InSection, HoldAfterRelease
<1>6. ASSUME NEW c \in Callers,
             CompletionInit(c) \/ CompletionWait(c) \/ CompletionWoken(c)
      PROVE  IpcTypeOK'
  BY <1>6 DEF CompletionInit, CompletionWait, CompletionWoken,
              WaitEnds, FlagAfterWait
<1>7. CASE UNCHANGED ipcVars
  BY <1>7
<1>. QED
  BY <1>1, <1>2, <1>3, <1>4, <1>5, <1>6, <1>7
  DEF Next, CallStep, WavPStep, vars, Call, CheckState, ReplaceUri,
      VolumeFind, VolumeStore, VolumeControl, EventNone, OpenFind, OpenFile,
      OpenDevice, OpenConfigure, OpenVolume, ReadFile, WriteDevice,
      CheckStopped, CloseFile, CloseDevice, ClearDevice, OpenFailed

LEMMA CallerTypeStep ==
  ASSUME TypeOK, [Next]_vars
  PROVE  CallerTypeOK'
<1>. USE DEF TypeOK, CallerTypeOK, callerVars, Goto
<1>1. CASE EventDispatch
  BY <1>1 DEF EventDispatch, DoneEffect, IpcTypeOK, CallPositions
<1>2. ASSUME NEW c \in Callers, CallerAction(c) PROVE CallerTypeOK'
  <2>1. pc' \in [Callers -> CallPositions]
    BY <1>2 DEF CallerAction, CallStep, CallPositions, Call, PlayLock,
       CompletionInit, CheckState, ReplaceUri, PlayMsgSend, CompletionWait,
       CompletionWoken, PlayUnlock, VolumeFind, VolumeStore, VolumeControl
  <2>2. op' \in [Callers -> AllOps \cup {Null}]
    BY <1>2, OpsAssumption
    DEF CallerAction, CallStep, Call, PlayLock, AllOps,
       CompletionInit, CheckState, ReplaceUri, PlayMsgSend, CompletionWait,
       CompletionWoken, PlayUnlock, VolumeFind, VolumeStore, VolumeControl
  <2>3. nested' \in [Callers -> BOOLEAN]
    BY <1>2 DEF CallerAction, CallStep, Call, PlayLock,
       CompletionInit, CheckState, ReplaceUri, PlayMsgSend, CompletionWait,
       CompletionWoken, PlayUnlock, VolumeFind, VolumeStore, VolumeControl
  <2>4. arg' \in [Callers -> Files \cup (VOLUME_MIN..VOLUME_MAX) \cup {Null}]
    BY <1>2, ClampType
    DEF CallerAction, CallStep, Call, PlayLock,
       CompletionInit, CheckState, ReplaceUri, PlayMsgSend, CompletionWait,
       CompletionWoken, PlayUnlock, VolumeFind, VolumeStore, VolumeControl
  <2>. QED
    BY <2>1, <2>2, <2>3, <2>4
<1>3. CASE UNCHANGED callerVars
  BY <1>3
<1>. QED
  BY <1>1, <1>2, <1>3, ThreadFrame DEF Next, CallerAction, vars

LEMMA ThreadTypeStep ==
  ASSUME TypeOK, [Next]_vars
  PROVE  ThreadTypeOK'
<1>. USE DEF TypeOK, ThreadTypeOK
<1>1. CASE WavPStep
  <2>1. wpc' \in ThreadPositions
    BY <1>1 DEF WavPStep, EventRecv, EventNone, EventDispatch, OpenFind,
       OpenFile, OpenDevice, OpenConfigure, OpenVolume, ReadFile, WriteDevice,
       CheckStopped, CloseFile, CloseDevice, ClearDevice, OpenFailed, WGoto,
       ThreadPositions
  <2>2. loop' \in {"outer", "inner", "paused"}
    BY <1>1 DEF WavPStep, EventRecv, EventNone, EventDispatch, OpenFind,
       OpenFile, OpenDevice, OpenConfigure, OpenVolume, ReadFile, WriteDevice,
       CheckStopped, CloseFile, CloseDevice, ClearDevice, OpenFailed
  <2>3. event' \in Msgs \cup {"NONE"}
    BY <1>1 DEF WavPStep, EventRecv, EventNone, EventDispatch, OpenFind,
       OpenFile, OpenDevice, OpenConfigure, OpenVolume, ReadFile, WriteDevice,
       CheckStopped, CloseFile, CloseDevice, ClearDevice, OpenFailed, IpcTypeOK
  <2>4. wvol' \in VOLUME_MIN..VOLUME_MAX
    BY <1>1 DEF WavPStep, EventRecv, EventNone, EventDispatch, OpenFind,
       OpenFile, OpenDevice, OpenConfigure, OpenVolume, ReadFile, WriteDevice,
       CheckStopped, CloseFile, CloseDevice, ClearDevice, OpenFailed,
       PlayerTypeOK
  <2>. QED
    BY <2>1, <2>2, <2>3, <2>4
<1>2. ASSUME NEW c \in Callers, CallerAction(c) PROVE ThreadTypeOK'
  BY <1>2, CallerFrame
<1>3. CASE UNCHANGED vars
  BY <1>3 DEF vars
<1>. QED
  BY <1>1, <1>2, <1>3 DEF Next, CallerAction

LEMMA DeviceTypeStep ==
  ASSUME TypeOK, CallInv, [Next]_vars
  PROVE  DeviceTypeOK'
<1>. USE DEF TypeOK, DeviceTypeOK, devVars
<1>1. ASSUME NEW c \in Callers, VolumeControl(c) PROVE DeviceTypeOK'
  BY <1>1 DEF VolumeControl, CallInv, InVolume
<1>2. CASE OpenDevice \/ OpenVolume \/ CloseDevice
  BY <1>2 DEF OpenDevice, OpenVolume, CloseDevice, ThreadTypeOK, RefsAfterClose
<1>3. CASE UNCHANGED devVars
  BY <1>3
<1>. QED
  BY <1>1, <1>2, <1>3
  DEF Next, CallStep, WavPStep, vars, Call, PlayLock, CompletionInit,
      CheckState, ReplaceUri, PlayMsgSend, CompletionWait, CompletionWoken,
      PlayUnlock, VolumeFind, VolumeStore, EventRecv, EventNone,
      EventDispatch, OpenFind, OpenFile, OpenConfigure, ReadFile, WriteDevice,
      CheckStopped, CloseFile, ClearDevice, OpenFailed

-----------------------------------------------------------------------------
(* The callers and the mutex.                                              *)

LEMMA CallInvStep ==
  ASSUME TypeOK, CallInv, HandshakeInv, [Next]_vars
  PROVE  CallInv'
<1>. USE DEF TypeOK, CallerTypeOK, CallInv, callerVars, Goto,
             InCall, InSection, InVolume
<1>1. ASSUME NEW c \in Callers, Call(c) PROVE CallInv'
  <2>1. CASE op'[c] = "play" /\ pc'[c] = "init"
    BY <1>1, <2>1, NullAssumption DEF Call, Commands, AllOps
  <2>2. CASE op'[c] \in {"stop", "pause", "resume"} /\ pc'[c] = "init"
    BY <1>1, <2>2, NullAssumption DEF Call, Commands, AllOps
  <2>3. CASE op'[c] = "volume" /\ pc'[c] = "volfind"
    BY <1>1, <2>3, NullAssumption, ClampType DEF Call, Commands, AllOps
  <2>. QED
    BY <1>1, <2>1, <2>2, <2>3 DEF Call
<1>2. ASSUME NEW c \in Callers, CheckState(c) PROVE CallInv'
  BY <1>2 DEF CheckState, Top, Commands, AllOps
<1>3. ASSUME NEW c \in Callers, PlayUnlock(c) PROVE CallInv'
  BY <1>3, NullAssumption DEF PlayUnlock, Commands, AllOps
<1>4. ASSUME NEW c \in Callers, VolumeFind(c) \/ VolumeControl(c)
      PROVE  CallInv'
  BY <1>4, NullAssumption DEF VolumeFind, VolumeControl, AllOps
<1>5. ASSUME NEW c \in Callers,
             \/ PlayLock(c) \/ CompletionInit(c) \/ ReplaceUri(c)
             \/ PlayMsgSend(c) \/ CompletionWait(c) \/ CompletionWoken(c)
             \/ VolumeStore(c)
      PROVE  CallInv'
  BY <1>5 DEF PlayLock, CompletionInit, ReplaceUri, PlayMsgSend,
              CompletionWait, CompletionWoken, VolumeStore
<1>6. CASE EventDispatch
  BY <1>6 DEF EventDispatch, DoneEffect, IpcTypeOK, HandshakeInv
<1>7. CASE UNCHANGED callerVars
  BY <1>7
<1>. QED
  BY <1>1, <1>2, <1>3, <1>4, <1>5, <1>6, <1>7, ThreadFrame
  DEF Next, CallStep, vars

LEMMA LockInvStep ==
  ASSUME TypeOK, CallInv, LockInv, HandshakeInv, [Next]_vars
  PROVE  LockInv'
<1>. USE NullAssumption DEF TypeOK, CallerTypeOK, LockInv, callerVars, ipcVars,
                            Goto, InCall, InSection
<1>1. ASSUME NEW c \in Callers, PlayLock(c) PROVE LockInv'
  BY <1>1 DEF PlayLock, IpcTypeOK, MutexFree
<1>2. ASSUME NEW c \in Callers, PlayUnlock(c) PROVE LockInv'
  BY <1>2 DEF PlayUnlock, IpcTypeOK, HoldAfterRelease
<1>3. ASSUME NEW c \in Callers, CheckState(c) PROVE LockInv'
  BY <1>3 DEF CheckState, Top
<1>4. ASSUME NEW c \in Callers, Call(c) PROVE LockInv'
  BY <1>4 DEF Call, CallInv
<1>5. ASSUME NEW c \in Callers,
             \/ CompletionInit(c) \/ ReplaceUri(c) \/ PlayMsgSend(c)
             \/ CompletionWait(c) \/ CompletionWoken(c)
             \/ VolumeFind(c) \/ VolumeStore(c) \/ VolumeControl(c)
      PROVE  LockInv'
  BY <1>5 DEF CompletionInit, ReplaceUri, PlayMsgSend, CompletionWait,
              CompletionWoken, VolumeFind, VolumeStore, VolumeControl,
              CallInv, InVolume
<1>6. CASE EventDispatch
  BY <1>6 DEF EventDispatch, DoneEffect, IpcTypeOK, HandshakeInv
<1>7. CASE UNCHANGED <<callerVars, lockOwner, lockHold>>
  BY <1>7
<1>. QED
  BY <1>1, <1>2, <1>3, <1>4, <1>5, <1>6, <1>7, ThreadFrame
  DEF Next, CallStep, vars

-----------------------------------------------------------------------------
(* Messages and acknowledgements.                                          *)

LEMMA HandshakeInvStep ==
  ASSUME TypeOK, CallInv, LockInv, HandshakeInv, [Next]_vars
  PROVE  HandshakeInv'
<1>. USE NullAssumption DEF TypeOK, CallerTypeOK, IpcTypeOK, LockInv,
             HandshakeInv, callerVars, ipcVars, threadVars, Goto, Waiting, Top
<1>1. ASSUME NEW c \in Callers, PlayMsgSend(c) PROVE HandshakeInv'
  <2>1. lockOwner = c /\ mq = <<>> /\ wpc # "ack" /\ ~ackFlag
    BY <1>1 DEF PlayMsgSend, InSection
  <2>2. mq' = <<MsgOf(Top(c))>>
    BY <1>1, <2>1, AppendToEmpty DEF PlayMsgSend
  <2>. QED
    BY <1>1, <2>1, <2>2 DEF PlayMsgSend
<1>2. ASSUME NEW c \in Callers, Call(c) PROVE HandshakeInv'
  BY <1>2 DEF Call, CallInv, InSection
<1>3. ASSUME NEW c \in Callers, CompletionInit(c) \/ PlayLock(c)
      PROVE  HandshakeInv'
  BY <1>3 DEF CompletionInit, PlayLock, InSection, MutexFree
<1>4. ASSUME NEW c \in Callers, CheckState(c) \/ ReplaceUri(c) \/ PlayUnlock(c)
      PROVE  HandshakeInv'
  BY <1>4 DEF CheckState, ReplaceUri, PlayUnlock, InSection
<1>5. ASSUME NEW c \in Callers, CompletionWait(c) \/ CompletionWoken(c)
      PROVE  HandshakeInv'
  BY <1>5 DEF CompletionWait, CompletionWoken, InSection,
              WaitEnds, FlagAfterWait
<1>6. ASSUME NEW c \in Callers,
             VolumeFind(c) \/ VolumeStore(c) \/ VolumeControl(c)
      PROVE  HandshakeInv'
  BY <1>6 DEF VolumeFind, VolumeStore, VolumeControl, CallInv, InVolume,
              InSection
<1>7. CASE EventRecv
  BY <1>7 DEF EventRecv, At, WGoto
<1>8. CASE EventDispatch
  BY <1>8 DEF EventDispatch, DoneEffect, At, WGoto
<1>9. CASE /\ UNCHANGED <<callerVars, lockOwner, lockHold, ackFlag, ackWaiter>>
           /\ UNCHANGED mq /\ wpc # "ack" /\ wpc' # "ack"
  BY <1>9
<1>10. CASE UNCHANGED vars
  BY <1>10 DEF vars
<1>. QED
  BY <1>1, <1>2, <1>3, <1>4, <1>5, <1>6, <1>7, <1>8, <1>9, <1>10,
     ThreadFrame, ThreadQueueFrame
  DEF Next, CallStep

-----------------------------------------------------------------------------
(* Commands, the thread and what it has open.                              *)

\* Each message is sent by one command only.
LEMMA MessageOfCommand ==
  \A o \in Commands : /\ MsgOf(o) = "START"  <=> o = "play"
                      /\ MsgOf(o) = "STOP"   <=> o = "stop"
                      /\ MsgOf(o) = "PAUSE"  <=> o = "pause"
                      /\ MsgOf(o) = "RESUME" <=> o = "resume"
BY DEF MsgOf, Commands, AllOps

\* The message wav_p reads is that of the owner of the mutex, whose Requires
\* still holds.
LEMMA MessageRead ==
  ASSUME TypeOK, CallInv, LockInv, HandshakeInv, CommandInv, EventRecv
  PROVE  /\ lockOwner \in Callers /\ pc[lockOwner] \in Waiting
         /\ Top(lockOwner) \in Commands /\ Requires(Top(lockOwner))
         /\ event' = MsgOf(Top(lockOwner))
         /\ state' = StateAfter(MsgOf(Top(lockOwner)))
         /\ mq' = <<>>
BY DEF TypeOK, CallerTypeOK, IpcTypeOK, CallInv, LockInv, HandshakeInv,
       CommandInv, EventRecv, InSection, Waiting, Top, Commands, AllOps

\* An acknowledgement moves no caller but a suspended one.
LEMMA DispatchWakes ==
  ASSUME TypeOK, HandshakeInv, EventDispatch
  PROVE  \A c \in Callers :
           pc'[c] = pc[c] \/ (pc'[c] = "woken" /\ pc[c] = "suspended")
BY DEF TypeOK, IpcTypeOK, CallerTypeOK, HandshakeInv, EventDispatch,
       DoneEffect, Goto

LEMMA CommandInvStep ==
  ASSUME TypeOK, CallInv, LockInv, HandshakeInv, CommandInv, ThreadInv,
         [Next]_vars
  PROVE  CommandInv'
<1>. USE DEF TypeOK, CallerTypeOK, IpcTypeOK, CommandInv, callerVars,
             Goto, Waiting, Top, Requires, Ensures
<1>1. ASSUME NEW c \in Callers, PlayMsgSend(c) PROVE CommandInv'
  <2>1. lockOwner = c /\ mq = <<>>
    BY <1>1 DEF PlayMsgSend, LockInv, HandshakeInv, InSection
  <2>2. mq' = <<MsgOf(Top(c))>>
    BY <1>1, <2>1, AppendToEmpty DEF PlayMsgSend
  <2>3. mq' # <<>>
    BY <2>2
  <2>4. \A d \in Callers \ {c} : pc'[d] \notin InSection
    BY <1>1, <2>1 DEF PlayMsgSend, LockInv
  <2>5. pc'[c] = "wait" /\ Requires(Top(c))'
    BY <1>1 DEF PlayMsgSend, playerVars
  <2>. QED
    BY <2>3, <2>4, <2>5 DEF InSection
<1>2. ASSUME NEW c \in Callers, CheckState(c) PROVE CommandInv'
  BY <1>2 DEF CheckState, Sends, CallInv, LockInv, HandshakeInv, InSection,
              Commands, AllOps, playerVars, ipcVars, StopsFirst
<1>3. ASSUME NEW c \in Callers, ReplaceUri(c) PROVE CommandInv'
  <2>1. lockOwner = c /\ op[c] = "play" /\ ~nested[c] /\ arg[c] \in Files
    BY <1>3 DEF ReplaceUri, CallInv, LockInv, InSection
  <2>2. \A d \in Callers \ {c} : pc[d] \notin InSection
    BY <2>1 DEF LockInv
  <2>. QED
    BY <1>3, <2>1, <2>2 DEF ReplaceUri, InSection, ipcVars
<1>4. ASSUME NEW c \in Callers, CompletionWait(c) PROVE CommandInv'
  <2>1. ackFlag => mq = <<>>
    BY DEF HandshakeInv
  <2>. QED
    BY <1>4, <2>1 DEF CompletionWait, playerVars, WaitEnds, FlagAfterWait
<1>5. ASSUME NEW c \in Callers, PlayUnlock(c) PROVE CommandInv'
  BY <1>5 DEF PlayUnlock, CallInv, playerVars
<1>6. ASSUME NEW c \in Callers,
             \/ Call(c) \/ PlayLock(c) \/ CompletionInit(c)
             \/ CompletionWoken(c)
             \/ VolumeFind(c) \/ VolumeStore(c) \/ VolumeControl(c)
      PROVE  CommandInv'
  BY <1>6 DEF Call, PlayLock, CompletionInit, CompletionWoken, VolumeFind,
              VolumeStore, VolumeControl, playerVars, ipcVars
<1>7. CASE EventRecv
  <2>1. PICK o \in Callers :
          /\ o = lockOwner /\ pc[o] \in Waiting /\ mq' = <<>>
          /\ Top(o) \in Commands /\ state' = StateAfter(MsgOf(Top(o)))
    BY <1>7, MessageRead
  <2>2. \A d \in Callers \ {o} : pc[d] \notin InSection
    BY <2>1 DEF LockInv
  <2>3. UNCHANGED <<pc, op, nested>>
    BY <1>7 DEF EventRecv
  <2>4. Ensures(Top(o))'
    BY <2>1, <2>3 DEF StateAfter, MsgOf, Commands, AllOps
  <2>. QED
    BY <2>1, <2>2, <2>3, <2>4 DEF InSection
<1>8. CASE EventDispatch
  <2>1. mq = <<>> /\ UNCHANGED <<mq, state, uri, op, nested>>
    BY <1>8 DEF EventDispatch, At, HandshakeInv, playerVars
  <2>2. \A c \in Callers :
          pc'[c] = pc[c] \/ (pc'[c] = "woken" /\ pc[c] = "suspended")
    BY <1>8, DispatchWakes
  <2>. QED
    BY <2>1, <2>2
<1>9. CASE ReadFile \/ OpenFailed
  BY <1>9 DEF ReadFile, OpenFailed, ThreadInv, At, callerVars, ipcVars
<1>10. CASE UNCHANGED <<callerVars, mq, state, uri>>
  BY <1>10
<1>. QED
  BY <1>1, <1>2, <1>3, <1>4, <1>5, <1>6, <1>7, <1>8, <1>9, <1>10
  DEF Next, CallStep, WavPStep, vars, EventNone, OpenFind, OpenFile,
      OpenDevice, OpenConfigure, OpenVolume, WriteDevice, CheckStopped,
      CloseFile, CloseDevice, ClearDevice, playerVars, ipcVars

LEMMA ThreadInvStep ==
  ASSUME TypeOK, CallInv, LockInv, HandshakeInv, CommandInv, ThreadInv,
         [Next]_vars
  PROVE  ThreadInv'
<1>. USE DEF TypeOK, PlayerTypeOK, ThreadTypeOK, ThreadInv, Opening, Closing,
             At, WGoto, playerVars, threadVars
<1>1. CASE EventRecv
  BY <1>1, MessageRead, MessageOfCommand
  DEF EventRecv, Requires, Commands, AllOps
<1>2. CASE EventDispatch
  BY <1>2 DEF EventDispatch, StateAfter, Msgs, PauseWaits
<1>3. CASE EventNone \/ ReadFile \/ WriteDevice \/ CheckStopped
  BY <1>3 DEF EventNone, ReadFile, WriteDevice, CheckStopped, PlayerStates,
              LoopEnds
<1>4. CASE OpenFind \/ OpenFile \/ OpenDevice \/ OpenConfigure \/ OpenVolume
  BY <1>4 DEF OpenFind, OpenFile, OpenDevice, OpenConfigure, OpenVolume
<1>5. CASE CloseFile \/ CloseDevice \/ ClearDevice \/ OpenFailed
  BY <1>5 DEF CloseFile, CloseDevice, ClearDevice, OpenFailed
<1>6. ASSUME NEW c \in Callers, CallerAction(c) PROVE ThreadInv'
  <2>1. uri' \in Files \/ UNCHANGED uri
    BY <1>6 DEF CallerAction, CallStep, Call, PlayLock, CompletionInit,
       CheckState, ReplaceUri, PlayMsgSend, CompletionWait, CompletionWoken,
       PlayUnlock, VolumeFind, VolumeStore, VolumeControl, CallInv
  <2>. QED
    BY <1>6, <2>1, CallerFrame
<1>7. CASE UNCHANGED vars
  BY <1>7 DEF vars
<1>. QED
  BY <1>1, <1>2, <1>3, <1>4, <1>5, <1>6, <1>7
  DEF Next, WavPStep, CallerAction

LEMMA StreamInvStep ==
  ASSUME TypeOK, CallInv, LockInv, HandshakeInv, CommandInv, ThreadInv,
         StreamInv, [Next]_vars
  PROVE  StreamInv'
<1>. USE NullAssumption DEF TypeOK, ThreadTypeOK, DeviceTypeOK, PlayerTypeOK,
         StreamInv, Opening, Closing, At, WGoto, playerVars, threadVars, devVars
<1>1. CASE EventRecv
  BY <1>1, MessageRead DEF EventRecv, Requires, ThreadInv, Commands, AllOps,
                           MsgOf, StateAfter
<1>2. CASE EventDispatch
  BY <1>2 DEF EventDispatch
<1>3. CASE EventNone \/ ReadFile \/ WriteDevice \/ CheckStopped
  BY <1>3 DEF EventNone, ReadFile, WriteDevice, CheckStopped, ThreadInv
<1>4. CASE OpenFind \/ OpenFile \/ OpenDevice \/ OpenConfigure \/ OpenVolume
  BY <1>4 DEF OpenFind, OpenFile, OpenDevice, OpenConfigure, OpenVolume,
              ThreadInv
<1>5. CASE CloseFile \/ CloseDevice \/ ClearDevice \/ OpenFailed
  BY <1>5 DEF CloseFile, CloseDevice, ClearDevice, OpenFailed, ThreadInv,
              RefsAfterClose
<1>6. ASSUME NEW c \in Callers, ReplaceUri(c) PROVE StreamInv'
  BY <1>6 DEF ReplaceUri, CommandInv
<1>7. ASSUME NEW c \in Callers, VolumeFind(c) PROVE StreamInv'
  BY <1>7 DEF VolumeFind
<1>8. ASSUME NEW c \in Callers, CallerAction(c), UNCHANGED <<uri, device>>
      PROVE  StreamInv'
  BY <1>8, CallerFrame
<1>9. CASE UNCHANGED vars
  BY <1>9 DEF vars
<1>10. ASSUME NEW c \in Callers, CallerAction(c) PROVE StreamInv'
  <2>1. ReplaceUri(c) \/ VolumeFind(c) \/ UNCHANGED <<uri, device>>
    <3>. USE DEF CallerAction, CallStep
    <3>1. CASE Call(c) \/ PlayLock(c) \/ CompletionInit(c) \/ CheckState(c)
      BY <3>1 DEF Call, PlayLock, CompletionInit, CheckState
    <3>2. CASE PlayMsgSend(c) \/ CompletionWait(c) \/ CompletionWoken(c)
      BY <3>2 DEF PlayMsgSend, CompletionWait, CompletionWoken
    <3>3. CASE PlayUnlock(c) \/ VolumeStore(c) \/ VolumeControl(c)
      BY <3>3 DEF PlayUnlock, VolumeStore, VolumeControl
    <3>. QED BY <1>10, <3>1, <3>2, <3>3
  <2>. QED BY <1>6, <1>7, <1>8, <1>10, <2>1
<1>11. CASE WavPStep
  BY <1>1, <1>2, <1>3, <1>4, <1>5, <1>11 DEF WavPStep
<1>. QED
  BY <1>9, <1>10, <1>11 DEF Next, CallerAction

-----------------------------------------------------------------------------
(* The theorems.                                                           *)

LEMMA InitIInv == Init => IInv
<1>. SUFFICES ASSUME Init PROVE IInv
  OBVIOUS
<1>. USE NullAssumption DEF Init
<1>1. TypeOK
  <2>1. PlayerTypeOK
    <3>1. volume \in VOLUME_MIN..VOLUME_MAX
      BY DEF VOLUME_MIN, VOLUME_MAX, WP_VOLUME_DEFAULT
    <3>2. device \in BOOLEAN
      BY Zenon
    <3>. QED
      BY <3>1, <3>2 DEF PlayerTypeOK, PlayerStates
  <2>2. IpcTypeOK
    <3>1. mq \in Seq(Msgs) /\ lockHold \in 0..2
      OBVIOUS
    <3>2. ackFlag \in BOOLEAN
      BY Zenon
    <3>. QED
      BY <3>1, <3>2 DEF IpcTypeOK
  <2>3. CallerTypeOK
    BY DEF CallerTypeOK, CallPositions
  <2>4. ThreadTypeOK /\ DeviceTypeOK
    BY DEF ThreadTypeOK, DeviceTypeOK, ThreadPositions, VOLUME_MIN,
           VOLUME_MAX, WP_VOLUME_DEFAULT
  <2>. QED
    BY <2>1, <2>2, <2>3, <2>4 DEF TypeOK
<1>2. CallInv /\ LockInv
  BY DEF CallInv, LockInv, InCall, InSection, InVolume, AllOps
<1>3. HandshakeInv /\ CommandInv
  BY DEF HandshakeInv, CommandInv, Waiting
<1>4. ThreadInv /\ StreamInv
  BY DEF ThreadInv, StreamInv, Opening, Closing
<1>. QED
  BY <1>1, <1>2, <1>3, <1>4 DEF IInv

LEMMA NextIInv == IInv /\ [Next]_vars => IInv'
<1>. SUFFICES ASSUME IInv, [Next]_vars PROVE IInv'
  OBVIOUS
<1>. USE DEF IInv
<1>1. TypeOK'
  BY PlayerTypeStep, IpcTypeStep, CallerTypeStep, ThreadTypeStep,
     DeviceTypeStep DEF TypeOK
<1>2. CallInv' /\ LockInv' /\ HandshakeInv'
  BY CallInvStep, LockInvStep, HandshakeInvStep
<1>3. CommandInv' /\ ThreadInv' /\ StreamInv'
  BY CommandInvStep, ThreadInvStep, StreamInvStep
<1>. QED
  BY <1>1, <1>2, <1>3

\* IInv is an invariant of the player: what every theorem below rests on.
THEOREM Invariance == Spec => []IInv
BY InitIInv, NextIInv, PTL DEF Spec

\* Every variable keeps its type; in particular player.volume stays in the
\* range of wavplayer.h:62 and the mutex is never held more than twice.
THEOREM TypeCorrect == Spec => []TypeOK
<1>1. IInv => TypeOK
  BY DEF IInv
<1>. QED
  BY <1>1, Invariance, PTL

\* A command's handshake is its own: no earlier message, flag or thread is in
\* its way (wavplayer.c:109-122, completion.c:45).
THEOREM HandshakesAreFresh == Spec => []HandshakeFresh
<1>1. IInv => HandshakeFresh
  BY NullAssumption
  DEF IInv, LockInv, HandshakeInv, InSection, Waiting, HandshakeFresh
<1>. QED
  BY <1>1, Invariance, PTL

\* What a command promises holds when it gives the mutex back, whatever the
\* end of a file or a failed open did meanwhile (wavplayer.c:128-177).
THEOREM CommandsTakeEffect == Spec => []CommandEffect
<1>1. IInv => CommandEffect
  BY DEF IInv, CommandInv, CommandEffect, Ensures
<1>. QED
  BY <1>1, Invariance, PTL

\* wavplayer_uri_get names the file that plays (wavplayer.h:88).
THEOREM UriTrue == Spec => []UriIsPlaying
<1>1. IInv => UriIsPlaying
  BY DEF IInv, StreamInv, UriIsPlaying
<1>. QED
  BY <1>1, Invariance, PTL

\* The uri is not freed while wavplayer_open is to read it without the mutex
\* (wavplayer.c:116-120, 231).
THEOREM UriOutlivesOpen == Spec => []UriNotFreedInUse
<1>1. IInv => UriNotFreedInUse
  BY DEF IInv, ThreadInv, CommandInv, UriNotFreedInUse, Opening
<1>. QED
  BY <1>1, Invariance, PTL

\* wav_p starts a file from a closed player (wavplayer.c:386-402).
THEOREM StartsClosed == Spec => []StartFindsClosed
<1>1. IInv => StartFindsClosed
  <2>. SUFFICES ASSUME IInv, wpc = "recv", mq # <<>>, Head(mq) = "START"
                PROVE  loop = "outer" /\ fp = Null /\ state = "STOPED"
    BY DEF StartFindsClosed
  <2>. USE DEF IInv
  <2>1. PICK o \in Callers : /\ o = lockOwner /\ pc[o] \in Waiting
                             /\ mq = <<MsgOf(Top(o))>>
    BY DEF HandshakeInv, TypeOK, IpcTypeOK
  <2>2. Top(o) \in Commands
    BY <2>1 DEF CallInv, Top, Waiting, InSection, Commands, AllOps
  <2>3. Top(o) = "play"
    BY <2>1, <2>2, MessageOfCommand
  <2>4. state = "STOPED"
    BY <2>1, <2>3 DEF CommandInv, Requires
  <2>5. loop = "outer"
    BY <2>4 DEF ThreadInv, TypeOK, ThreadTypeOK
  <2>. QED
    BY <2>4, <2>5 DEF StreamInv
<1>. QED
  BY <1>1, Invariance, PTL

\* wav_p reads and writes only while playing, with file and device open once,
\* and releases both before it waits for the next file (wavplayer.c:386-440).
THEOREM StreamsSafe == Spec => []StreamsBalanced
<1>1. IInv => StreamsBalanced
  BY DEF IInv, ThreadInv, StreamInv, StreamsBalanced
<1>. QED
  BY <1>1, Invariance, PTL

-----------------------------------------------------------------------------
(* The refinement of PlayerService.                                        *)

\* What the commands of a call are before and after their first is done.
LEMMA HeadsAndTails ==
  /\ Head(<<"stop", "play">>) = "stop" /\ Tail(<<"stop", "play">>) = <<"play">>
  /\ \A x : Head(<<x>>) = x /\ Tail(<<x>>) = <<>> /\ <<x>> # <<>>
  /\ <<"stop", "play">> # <<>>
OBVIOUS

\* The commands left depend on the owner of the mutex and the queue only.
LEMMA TodoFrame ==
  ASSUME UNCHANGED lockOwner,
         lockOwner # Null =>
           /\ Done(lockOwner)' = Done(lockOwner)
           /\ nested'[lockOwner] = nested[lockOwner]
           /\ op'[lockOwner] = op[lockOwner]
           /\ ~Done(lockOwner) /\ ~nested[lockOwner] /\ op[lockOwner] = "play"
                => (pc'[lockOwner] = "check" <=> pc[lockOwner] = "check")
  PROVE  UNCHANGED Todo
<1>1. CASE lockOwner = Null
  BY <1>1 DEF Todo
<1>2. CASE lockOwner # Null
  <2>. DEFINE c == lockOwner
  <2>1. Todo = TodoOf(c) /\ Todo' = TodoOf(c)'
    BY <1>2 DEF Todo
  <2>2. TodoOf(c)' = TodoOf(c)
    BY <1>2 DEF TodoOf
  <2>. QED
    BY <2>1, <2>2
<1>. QED
  BY <1>1, <1>2

\* A caller outside of its section owns nothing to do.
LEMMA OutsideFrame ==
  ASSUME IInv, NEW c \in Callers, pc[c] \notin InSection, ~nested[c],
         UNCHANGED <<mq, lockOwner>>,
         \A d \in Callers \ {c} :
           pc'[d] = pc[d] /\ op'[d] = op[d] /\ nested'[d] = nested[d]
  PROVE  UNCHANGED Todo
<1>1. lockOwner # c
  BY DEF IInv, LockInv
<1>2. lockOwner # Null => lockOwner \in Callers \ {c}
  BY <1>1 DEF IInv, TypeOK, IpcTypeOK
<1>. QED
  BY <1>2, TodoFrame DEF Done

\* The steps that are not seen: Call, CompletionInit, ReplaceUri, PlayMsgSend,
\* CompletionWait, CompletionWoken and the steps of wavplayer_volume_set.
LEMMA CallerStutters ==
  ASSUME IInv, IInv', NEW c \in Callers,
         \/ Call(c) \/ CompletionInit(c) \/ ReplaceUri(c) \/ PlayMsgSend(c)
         \/ CompletionWait(c) \/ CompletionWoken(c)
         \/ VolumeFind(c) \/ VolumeStore(c) \/ VolumeControl(c)
  PROVE  UNCHANGED <<state, lockOwner, Todo>>
<1>. USE DEF IInv, TypeOK, CallerTypeOK, callerVars, ipcVars, playerVars, Goto
<1>1. UNCHANGED <<state, lockOwner>>
  BY DEF Call, CompletionInit, ReplaceUri, PlayMsgSend, CompletionWait,
         CompletionWoken, VolumeFind, VolumeStore, VolumeControl
<1>2. CASE Call(c)
  BY <1>2, OutsideFrame DEF Call, CallInv, InSection
<1>3. CASE VolumeFind(c) \/ VolumeStore(c) \/ VolumeControl(c)
  BY <1>3, OutsideFrame
  DEF VolumeFind, VolumeStore, VolumeControl, CallInv, InVolume, InSection
<1>4. CASE CompletionInit(c)
  <2>1. /\ ~Done(c) /\ ~Done(c)' /\ pc[c] # "check" /\ pc'[c] # "check"
        /\ UNCHANGED <<op, nested, mq>>
        /\ \A d \in Callers \ {c} : pc'[d] = pc[d]
    BY <1>4 DEF CompletionInit, Done
  <2>. QED
    BY <1>1, <2>1, TodoFrame DEF Done, IpcTypeOK
<1>5. CASE ReplaceUri(c) \/ PlayMsgSend(c) \/ CompletionWait(c) \/ CompletionWoken(c)
  <2>1. lockOwner = c /\ c # Null
    BY <1>5, NullAssumption DEF ReplaceUri, PlayMsgSend, CompletionWait,
       CompletionWoken, LockInv, InSection
  <2>2. UNCHANGED <<op, nested>> /\ pc[c] # "check" /\ pc'[c] # "check"
    BY <1>5 DEF ReplaceUri, PlayMsgSend, CompletionWait, CompletionWoken
  <2>3. Done(c)' = Done(c)
    <3>1. CASE ReplaceUri(c)
      BY <3>1 DEF ReplaceUri, Done
    <3>2. CASE PlayMsgSend(c)
      <4>1. mq = <<>>
        BY <2>1, <3>2 DEF PlayMsgSend, HandshakeInv, Waiting
      <4>2. mq' = <<MsgOf(Top(c))>>
        BY <3>2, <4>1, AppendToEmpty DEF PlayMsgSend
      <4>3. mq' # <<>>
        BY <4>2
      <4>. QED
        BY <3>2, <4>3 DEF PlayMsgSend, Done
    <3>3. CASE CompletionWait(c)
      BY <3>3 DEF CompletionWait, Done, HandshakeInv, WaitEnds
    <3>4. CASE CompletionWoken(c)
      BY <3>4 DEF CompletionWoken, Done
    <3>. QED
      BY <1>5, <3>1, <3>2, <3>3, <3>4
  <2>. QED
    BY <1>1, <2>1, <2>2, <2>3, TodoFrame
<1>. QED
  BY <1>1, <1>2, <1>3, <1>4, <1>5

\* play_lock gives the player to the caller, or lets it in again.
LEMMA LockAcquires ==
  ASSUME IInv, NEW c \in Callers, PlayLock(c)
  PROVE  [Service!Next]_<<state, lockOwner, Todo>>
<1>. USE NullAssumption DEF IInv, TypeOK, CallerTypeOK, Goto
<1>1. /\ UNCHANGED <<state, op, nested>> /\ lockOwner' = c
      /\ pc[c] = "lock" /\ pc'[c] = "check" /\ lockOwner \in {Null, c}
    BY DEF PlayLock, MutexFree, playerVars
<1>2. CASE lockOwner = Null
  <2>1. ~nested[c] /\ op[c] \in Commands
    BY <1>1, <1>2 DEF LockInv, CallInv, InCall
  <2>2. Todo = <<>> /\ Todo' = TodoOf(c)'
    BY <1>1, <1>2 DEF Todo
  <2>3. Todo' = Service!CommandsOf(op[c])
    BY <1>1, <2>1, <2>2 DEF TodoOf, Done, Service!CommandsOf
  <2>4. Service!Acquire(c, op[c])
    BY <1>1, <1>2, <2>3 DEF Service!Acquire
  <2>. QED
    BY <2>1, <2>4 DEF Service!Next, Commands, AllOps
<1>3. CASE lockOwner = c
  <2>1. nested[c]
    BY <1>1, <1>3 DEF LockInv, InSection
  <2>2. UNCHANGED Todo
    BY <1>1, <1>3, <2>1, TodoFrame DEF Done
  <2>. QED
    BY <1>1, <1>3, <2>2
<1>. QED
  BY <1>1, <1>2, <1>3

\* The test of player.state finds the command idle, or is not seen.
LEMMA CheckSkips ==
  ASSUME IInv, NEW c \in Callers, CheckState(c)
  PROVE  [Service!Next]_<<state, lockOwner, Todo>>
<1>. USE NullAssumption DEF IInv, TypeOK, CallerTypeOK, Goto
<1>1. /\ UNCHANGED <<state, lockOwner, op, mq>>
      /\ pc[c] = "check" /\ lockOwner = c /\ c # Null
      /\ op[c] \in Commands /\ Top(c) \in Commands
  BY DEF CheckState, playerVars, ipcVars, LockInv, CallInv, InSection, Top,
         Commands, AllOps
<1>2. Todo = TodoOf(c) /\ Todo' = TodoOf(c)' /\ ~Done(c)
  BY <1>1 DEF Todo, Done
<1>3. CASE Top(c) = "play" /\ StopsFirst
  <2>1. op[c] = "play" /\ ~nested[c] /\ nested'[c] /\ pc'[c] = "init"
    BY <1>1, <1>3 DEF CheckState, Top
  <2>2. Todo' = Todo
    BY <1>1, <1>2, <2>1 DEF TodoOf, Done
  <2>. QED
    BY <1>1, <2>2
<1>4. CASE Top(c) = "play" /\ ~StopsFirst
  <2>1. op[c] = "play" /\ ~nested[c] /\ ~nested'[c] /\ pc'[c] = "seturi"
    BY <1>1, <1>4 DEF CheckState, Top
  <2>2. Todo = <<"stop", "play">> /\ Todo' = <<"play">>
    BY <1>1, <1>2, <2>1 DEF TodoOf, Done
  <2>3. Service!Idle("stop")
    BY <1>4 DEF StopsFirst, Service!Idle
  <2>. QED
    BY <1>1, <2>2, <2>3, HeadsAndTails
    DEF Service!Skip, Service!Work, Service!Next
<1>5. CASE Top(c) # "play" /\ Sends(Top(c), state)
  <2>1. UNCHANGED nested /\ pc'[c] = "send"
    BY <1>1, <1>5 DEF CheckState
  <2>2. Todo' = Todo
    BY <1>1, <1>2, <1>5, <2>1 DEF TodoOf, Done, Top
  <2>. QED
    BY <1>1, <2>2
<1>6. CASE Top(c) # "play" /\ ~Sends(Top(c), state)
  <2>1. UNCHANGED nested /\ pc'[c] = "unlock"
    BY <1>1, <1>6 DEF CheckState
  <2>2. Todo # <<>> /\ Head(Todo) = Top(c) /\ Todo' = Tail(Todo)
    <3>1. CASE nested[c]
      BY <1>1, <1>2, <2>1, <3>1, HeadsAndTails DEF TodoOf, Done, Top
    <3>2. CASE ~nested[c]
      BY <1>1, <1>2, <1>6, <2>1, <3>2, HeadsAndTails DEF TodoOf, Done, Top
    <3>. QED
      BY <3>1, <3>2
  <2>3. Service!Idle(Top(c))
    BY <1>1, <1>6 DEF Sends, Service!Idle, Commands, AllOps, PlayerTypeOK,
                      PlayerStates
  <2>. QED
    BY <1>1, <2>2, <2>3 DEF Service!Skip, Service!Work, Service!Next
<1>. QED
  BY <1>1, <1>3, <1>4, <1>5, <1>6 DEF CheckState

\* play_unlock ends the call, or the stop nested in a play.
LEMMA UnlockReleases ==
  ASSUME IInv, NEW c \in Callers, PlayUnlock(c)
  PROVE  [Service!Next]_<<state, lockOwner, Todo>>
<1>. USE NullAssumption DEF IInv, TypeOK, CallerTypeOK, IpcTypeOK, Goto
<1>1. /\ UNCHANGED state /\ pc[c] = "unlock" /\ lockOwner = c /\ c # Null
      /\ lockHold = (IF nested[c] THEN 2 ELSE 1)
  BY DEF PlayUnlock, playerVars, LockInv, InSection, InCall
<1>2. Done(c) /\ Todo = TodoOf(c)
  BY <1>1 DEF Done, Todo
<1>3. CASE nested[c]
  <2>1. /\ lockOwner' = c /\ pc'[c] = "seturi" /\ ~nested'[c] /\ op'[c] = "play"
    BY <1>1, <1>3 DEF PlayUnlock, HoldAfterRelease, CallInv
  <2>2. Todo = <<"play">> /\ Todo' = <<"play">>
    BY <1>1, <1>2, <1>3, <2>1 DEF TodoOf, Todo, Done
  <2>. QED
    BY <1>1, <2>1, <2>2
<1>4. CASE ~nested[c]
  <2>1. lockOwner' = Null
    BY <1>1, <1>4 DEF PlayUnlock, HoldAfterRelease
  <2>2. Todo = <<>> /\ Todo' = <<>>
    BY <1>2, <1>4, <2>1 DEF TodoOf, Todo
  <2>. QED
    BY <1>1, <2>1, <2>2 DEF Service!Release, Service!Work, Service!Next
<1>. QED
  BY <1>3, <1>4

\* wav_p serves the command when it takes its message off the queue.
LEMMA ReceiveServes ==
  ASSUME IInv, EventRecv
  PROVE  Service!Serve
<1>. USE NullAssumption DEF IInv, TypeOK, CallerTypeOK, IpcTypeOK
<1>1. PICK c \in Callers :
        /\ c = lockOwner /\ pc[c] \in Waiting /\ mq' = <<>> /\ mq # <<>>
        /\ Top(c) \in Commands /\ Requires(Top(c))
        /\ state' = StateAfter(MsgOf(Top(c)))
  BY MessageRead DEF EventRecv
<1>2. UNCHANGED <<lockOwner, pc, op, nested>>
  BY DEF EventRecv, callerVars
<1>3. ~Done(c) /\ Done(c)' /\ c # Null /\ pc[c] # "check"
  BY <1>1, <1>2 DEF Done, Waiting
<1>4. Todo # <<>> /\ Head(Todo) = Top(c) /\ Todo' = Tail(Todo)
  <2>1. Todo = TodoOf(c) /\ Todo' = TodoOf(c)'
    BY <1>1, <1>2, <1>3 DEF Todo
  <2>2. CASE nested[c]
    BY <1>2, <1>3, <2>1, <2>2, HeadsAndTails DEF TodoOf, Top
  <2>3. CASE ~nested[c]
    BY <1>2, <1>3, <2>1, <2>3, HeadsAndTails DEF TodoOf, Top
  <2>. QED
    BY <2>2, <2>3
<1>5. state' = Service!Result(Top(c)) /\ Service!Ready(Top(c))
  BY <1>1 DEF StateAfter, MsgOf, Requires, Commands, AllOps, Service!Result,
              Service!Ready
<1>. QED
  BY <1>2, <1>4, <1>5 DEF Service!Serve

\* Of its other steps only the end of the file and a failed open are seen.
LEMMA ThreadStutters ==
  ASSUME IInv, WavPStep, ~EventRecv
  PROVE  [Service!Next]_<<state, lockOwner, Todo>>
<1>. USE DEF IInv, TypeOK, IpcTypeOK
<1>1. CASE EventDispatch
  <2>1. UNCHANGED <<state, lockOwner, op, nested, mq>> /\ mq = <<>>
    BY <1>1 DEF EventDispatch, playerVars, HandshakeInv, At
  <2>2. \A c \in Callers :
          pc'[c] = pc[c] \/ (pc'[c] = "woken" /\ pc[c] = "suspended")
    BY <1>1, DispatchWakes
  <2>3. UNCHANGED Todo
    BY <2>1, <2>2, TodoFrame DEF Done
  <2>. QED
    BY <2>1, <2>3
<1>2. CASE ReadFile \/ OpenFailed
  <2>1. UNCHANGED <<lockOwner, pc, op, nested, mq>>
    BY <1>2 DEF ReadFile, OpenFailed, ipcVars, callerVars
  <2>2. UNCHANGED Todo
    BY <2>1, TodoFrame DEF Done
  <2>3. UNCHANGED state \/ (state = "PLAYING" /\ state' = "STOPED")
    BY <1>2 DEF ReadFile, OpenFailed, ThreadInv, Opening, At
  <2>. QED
    BY <2>1, <2>2, <2>3 DEF Service!End, Service!Next
<1>3. CASE UNCHANGED <<state, mq, lockOwner, pc, op, nested>>
  <2>1. UNCHANGED Todo
    BY <1>3, TodoFrame DEF Done
  <2>. QED
    BY <1>3, <2>1
<1>. QED
  BY <1>1, <1>2, <1>3
  DEF WavPStep, EventNone, OpenFind, OpenFile, OpenDevice, OpenConfigure,
      OpenVolume, WriteDevice, CheckStopped, CloseFile, CloseDevice,
      ClearDevice, playerVars, ipcVars, callerVars

\* For any callers and files and any queue: every step of the player is one of
\* the service or is not seen (wavplayer.c:105-177, 306-440), so that a command
\* takes effect exactly once, in the call that issued it.
THEOREM PlayerImplementsService == Spec => ServiceSafe
<1>1. Init => Service!Init
  BY DEF Init, Service!Init, Todo
<1>2. IInv /\ IInv' /\ [Next]_vars => [Service!Next]_<<state, lockOwner, Todo>>
  <2>. SUFFICES ASSUME IInv, IInv', [Next]_vars
                PROVE  [Service!Next]_<<state, lockOwner, Todo>>
    OBVIOUS
  <2>1. ASSUME NEW c \in Callers, CallerAction(c)
        PROVE  [Service!Next]_<<state, lockOwner, Todo>>
    <3>1. CASE PlayLock(c) \/ CheckState(c) \/ PlayUnlock(c)
      BY <3>1, LockAcquires, CheckSkips, UnlockReleases
    <3>2. CASE ~(PlayLock(c) \/ CheckState(c) \/ PlayUnlock(c))
      <4>1. UNCHANGED <<state, lockOwner, Todo>>
        BY <2>1, <3>2, CallerStutters DEF CallerAction, CallStep
      <4>. QED
        BY <4>1
    <3>. QED
      BY <3>1, <3>2
  <2>2. CASE WavPStep
    <3>1. CASE EventRecv
      BY <3>1, ReceiveServes DEF Service!Next, Service!Work
    <3>2. CASE ~EventRecv
      BY <2>2, <3>2, ThreadStutters
    <3>. QED
      BY <3>1, <3>2
  <2>3. CASE UNCHANGED vars
    <3>1. UNCHANGED Todo
      BY <2>3, TodoFrame DEF vars, Done
    <3>. QED
      BY <2>3, <3>1 DEF vars
  <2>. QED
    BY <2>1, <2>2, <2>3 DEF Next, CallerAction
<1>. QED
  BY <1>1, <1>2, Invariance, PTL
  DEF Spec, ServiceSafe, Service!Spec, Service!serviceVars
=============================================================================
