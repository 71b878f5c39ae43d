------------------------------ MODULE WavPlayer ------------------------------
(***************************************************************************)
(* The WAV player of packages/wavplayer-v0.2.0/src/wavplayer.c: the API    *)
(* calls that application threads make (wavplayer_play, _stop, _pause,     *)
(* _resume, _volume_set), the player thread wav_p (wavplayer_entry) that   *)
(* executes them, and the four things they share: the static record        *)
(* `player', its message queue, its recursive mutex and the one completion *)
(* object `ack' (rt-thread/components/drivers/src/completion.c).           *)
(*                                                                         *)
(* A thread may be preempted between any two accesses to shared state, so  *)
(* an action is one such access together with the local control that       *)
(* follows it.  pc[c] is the position of caller c in the call it makes,    *)
(* wpc and loop the position of wav_p.                                     *)
(***************************************************************************)
EXTENDS Integers, Sequences

CONSTANTS
  Callers,    \* the threads that call the player (lcd_thr, tshell)
  Files,      \* the uris that may be played
  Volumes,    \* the arguments of wavplayer_volume_set, any integers
  Ops,        \* the calls the callers make: a subset of AllOps
  MqSize,     \* messages the queue holds: rt_mq_create at wavplayer.c:373
  Null        \* RT_NULL, and "no thread"

AllOps == {"play", "stop", "pause", "resume", "volume"}
Commands == AllOps \ {"volume"}

ASSUME NullAssumption    == Null \notin Callers \cup Files \cup AllOps
ASSUME VolumesAssumption == Volumes \subseteq Int
ASSUME OpsAssumption     == Ops \subseteq AllOps
ASSUME MqSizeAssumption  == MqSize \in Nat \ {0}

VOLUME_MIN == 0
VOLUME_MAX == 99
WP_VOLUME_DEFAULT == 55

VARIABLES
  \* struct wavplayer player (wavplayer.c:50-63)
  state,      \* player.state
  uri,        \* player.uri, the file named by the last wavplayer_play
  fp,         \* player.fp, the file that is open
  device,     \* player.device # RT_NULL
  volume,     \* player.volume
  \* its message queue, mutex and completion
  mq, lockOwner, lockHold, ackFlag, ackWaiter,
  \* the callers
  pc,         \* position in the call
  op,         \* the call being made, Null outside of one
  nested,     \* wavplayer_stop is running inside of wavplayer_play
  arg,        \* uri or volume passed to the call
  \* the thread wav_p
  wpc,        \* position in wavplayer_entry
  loop,       \* the loop whose event_handler call is next or running
  event,      \* the event the handler is about to return
  wvol,       \* caps.udata.value of wavplayer_open
  \* the sound device
  registered, \* rt_device_find finds PKG_WP_PLAY_DEVICE
  devRefs,    \* its ref_count
  hwVolume    \* the volume last written to the codec

playerVars == <<state, uri, fp, device, volume>>
ipcVars    == <<mq, lockOwner, lockHold, ackFlag, ackWaiter>>
callerVars == <<pc, op, nested, arg>>
threadVars == <<wpc, loop, event, wvol>>
devVars    == <<registered, devRefs, hwVolume>>
vars == <<state, uri, fp, device, volume,
          mq, lockOwner, lockHold, ackFlag, ackWaiter,
          pc, op, nested, arg, wpc, loop, event, wvol,
          registered, devRefs, hwVolume>>

\* The function on top of caller c's stack: the nested stop hides the play.
Top(c) == IF nested[c] THEN "stop" ELSE op[c]

\* The message each command sends, and the event and state it leads to.
MsgOf(o) == CASE o = "play"   -> "START"
              [] o = "stop"   -> "STOP"
              [] o = "pause"  -> "PAUSE"
              [] o = "resume" -> "RESUME"
              [] OTHER        -> "NONE"

Msgs == {"START", "STOP", "PAUSE", "RESUME"}

StateAfter(m) == CASE m = "STOP"  -> "STOPED"
                   [] m = "PAUSE" -> "PAUSED"
                   [] OTHER       -> "PLAYING"

\* The test each of stop, pause and resume makes before it sends.
Sends(o, s) == \/ o = "stop"   /\ s # "STOPED"
               \/ o = "pause"  /\ s = "PLAYING"
               \/ o = "resume" /\ s = "PAUSED"

\* Mutant: the volume is taken as it comes.
ClampNot(v) == v

\* wavplayer_volume_set:183-186
Clamp(v) == IF v < VOLUME_MIN THEN VOLUME_MIN
            ELSE IF v > VOLUME_MAX THEN VOLUME_MAX ELSE v

Goto(c, l) == pc' = [pc EXCEPT ![c] = l]

\* wav_p has created its queue and mutex and waits for the first command.
Init ==
  /\ state = "STOPED" /\ uri = Null /\ fp = Null /\ device = FALSE
  /\ volume = WP_VOLUME_DEFAULT
  /\ mq = <<>> /\ lockOwner = Null /\ lockHold = 0
  /\ ackFlag = FALSE /\ ackWaiter = Null
  /\ pc = [c \in Callers |-> "idle"]
  /\ op = [c \in Callers |-> Null]
  /\ nested = [c \in Callers |-> FALSE]
  /\ arg = [c \in Callers |-> Null]
  /\ wpc = "recv" /\ loop = "outer" /\ event = "NONE" /\ wvol = WP_VOLUME_DEFAULT
  /\ registered \in BOOLEAN /\ devRefs = 0 /\ hwVolume = Null

-----------------------------------------------------------------------------
(* The calls of the application threads.                                   *)

\* A thread calls one of the five functions.
Call(c) ==
  /\ pc[c] = "idle"
  /\ \/ /\ "play" \in Ops
        /\ \E f \in Files : arg' = [arg EXCEPT ![c] = f]
        /\ op' = [op EXCEPT ![c] = "play"]
        /\ Goto(c, "init")
     \/ /\ \E o \in Ops \cap {"stop", "pause", "resume"} :
              op' = [op EXCEPT ![c] = o]
        /\ Goto(c, "init")
        /\ UNCHANGED arg
     \/ /\ "volume" \in Ops
        /\ \E v \in Volumes : arg' = [arg EXCEPT ![c] = Clamp(v)]
        /\ op' = [op EXCEPT ![c] = "volume"]
        /\ Goto(c, "volfind")
  /\ UNCHANGED <<nested, playerVars, ipcVars, threadVars, devVars>>

\* rt_completion_init(&player.ack), before the mutex is taken: it empties the
\* list of the thread that waits on ack, whoever that is.
CompletionInit(c) ==
  /\ pc[c] = "init"
  /\ ackFlag' = FALSE
  /\ ackWaiter' = Null
  /\ Goto(c, "lock")
  /\ UNCHANGED <<mq, lockOwner, lockHold, op, nested, arg,
                 playerVars, threadVars, devVars>>

\* rt_mutex_take lets the owner in again.
MutexFree(c) == lockOwner \in {Null, c}

\* play_lock
PlayLock(c) ==
  /\ pc[c] = "lock"
  /\ MutexFree(c)
  /\ lockOwner' = c
  /\ lockHold' = lockHold + 1
  /\ Goto(c, "check")
  /\ UNCHANGED <<mq, ackFlag, ackWaiter, op, nested, arg,
                 playerVars, threadVars, devVars>>

\* Mutant: wavplayer_play does not stop what is playing.
StopsFirstNever == FALSE

\* wavplayer_play:112
StopsFirst == state # "STOPED"

\* The test of player.state under the mutex.
CheckState(c) ==
  /\ pc[c] = "check"
  /\ \/ /\ Top(c) = "play" /\ StopsFirst
        /\ nested' = [nested EXCEPT ![c] = TRUE]
        /\ Goto(c, "init")
     \/ /\ Top(c) = "play" /\ ~StopsFirst
        /\ Goto(c, "seturi")
        /\ UNCHANGED nested
     \/ /\ Top(c) # "play" /\ Sends(Top(c), state)
        /\ Goto(c, "send")
        /\ UNCHANGED nested
     \/ /\ Top(c) # "play" /\ ~Sends(Top(c), state)
        /\ Goto(c, "unlock")
        /\ UNCHANGED nested
  /\ UNCHANGED <<op, arg, playerVars, ipcVars, threadVars, devVars>>

\* rt_free of the old uri and rt_strdup of the new one (116-120).
ReplaceUri(c) ==
  /\ pc[c] = "seturi"
  /\ uri' = arg[c]
  /\ Goto(c, "send")
  /\ UNCHANGED <<state, fp, device, volume, op, nested, arg,
                 ipcVars, threadVars, devVars>>

\* play_msg_send: a full queue drops the message, and the callers do not look
\* at the result before they wait.
PlayMsgSend(c) ==
  /\ pc[c] = "send"
  /\ mq' = IF Len(mq) < MqSize THEN Append(mq, MsgOf(Top(c))) ELSE mq
  /\ Goto(c, "wait")
  /\ UNCHANGED <<lockOwner, lockHold, ackFlag, ackWaiter, op, nested, arg,
                 playerVars, threadVars, devVars>>

\* Mutant: a caller that does not wait.
WaitEndsAtOnce == TRUE

\* completion.c:42
WaitEnds == ackFlag

\* Mutant: the flag is not cleaned.
FlagAfterWaitKept == ackFlag

\* completion.c:87-88, "clean completed flag"
FlagAfterWait == FALSE

\* rt_completion_wait(&player.ack, RT_WAITING_FOREVER): take the flag, or
\* suspend on the list.
CompletionWait(c) ==
  /\ pc[c] = "wait"
  /\ \/ /\ WaitEnds
        /\ ackFlag' = FlagAfterWait
        /\ Goto(c, "unlock")
        /\ UNCHANGED ackWaiter
     \/ /\ ~WaitEnds
        /\ ackWaiter' = c
        /\ Goto(c, "suspended")
        /\ UNCHANGED ackFlag
  /\ UNCHANGED <<mq, lockOwner, lockHold, op, nested, arg,
                 playerVars, threadVars, devVars>>

\* The rest of rt_completion_wait, once rt_completion_done resumed the thread.
CompletionWoken(c) ==
  /\ pc[c] = "woken"
  /\ ackFlag' = FlagAfterWait
  /\ Goto(c, "unlock")
  /\ UNCHANGED <<mq, lockOwner, lockHold, ackWaiter, op, nested, arg,
                 playerVars, threadVars, devVars>>

\* Mutant: the mutex does not count its owner's takes.
HoldAfterReleaseZero == 0

\* rt_mutex_release
HoldAfterRelease == lockHold - 1

\* play_unlock, and the return to wavplayer_play or to the application.
PlayUnlock(c) ==
  /\ pc[c] = "unlock"
  /\ lockHold' = HoldAfterRelease
  /\ lockOwner' = IF HoldAfterRelease = 0 THEN Null ELSE c
  /\ IF nested[c]
     THEN Goto(c, "seturi") /\ UNCHANGED <<op, arg>>
     ELSE /\ Goto(c, "idle")
          /\ op' = [op EXCEPT ![c] = Null]
          /\ arg' = [arg EXCEPT ![c] = Null]
  /\ nested' = [nested EXCEPT ![c] = FALSE]
  /\ UNCHANGED <<mq, ackFlag, ackWaiter, playerVars, threadVars, devVars>>

\* wavplayer_volume_set takes no lock.  188-190: look the device up.
VolumeFind(c) ==
  /\ pc[c] = "volfind"
  /\ device' = registered
  /\ IF registered
     THEN Goto(c, "volstore") /\ UNCHANGED <<op, arg>>
     ELSE /\ Goto(c, "idle")
          /\ op' = [op EXCEPT ![c] = Null]
          /\ arg' = [arg EXCEPT ![c] = Null]
  /\ UNCHANGED <<state, uri, fp, volume, nested, ipcVars, threadVars, devVars>>

VolumeStore(c) ==
  /\ pc[c] = "volstore"
  /\ volume' = arg[c]
  /\ Goto(c, "volctl")
  /\ UNCHANGED <<state, uri, fp, device, op, nested, arg,
                 ipcVars, threadVars, devVars>>

\* 198: player.device is read again; RT_ASSERT(dev != RT_NULL) of
\* rt_device_control spins for ever on a null device.
VolumeControl(c) ==
  /\ pc[c] = "volctl"
  /\ \/ /\ device
        /\ hwVolume' = arg[c]
        /\ Goto(c, "idle")
        /\ op' = [op EXCEPT ![c] = Null]
        /\ arg' = [arg EXCEPT ![c] = Null]
     \/ /\ ~device
        /\ Goto(c, "asserted")
        /\ UNCHANGED <<hwVolume, op, arg>>
  /\ UNCHANGED <<registered, devRefs, nested, playerVars, ipcVars, threadVars>>

-----------------------------------------------------------------------------
(* The thread wav_p: wavplayer_entry, with wavplayer_event_handler,        *)
(* wavplayer_open and wavplayer_close inlined.                             *)

At(l) == wpc = l
WGoto(l) == wpc' = l

\* event_handler: the queue holds a message, player.state follows it.
EventRecv ==
  /\ At("recv") /\ mq # <<>>
  /\ event' = Head(mq)
  /\ mq' = Tail(mq)
  /\ state' = StateAfter(Head(mq))
  /\ WGoto("ack")
  /\ UNCHANGED <<uri, fp, device, volume, lockOwner, lockHold, ackFlag,
                 ackWaiter, callerVars, loop, wvol, devVars>>

\* event_handler with RT_WAITING_NO on an empty queue: PLAYER_EVENT_NONE.
EventNone ==
  /\ At("recv") /\ loop = "inner" /\ mq = <<>>
  /\ WGoto("read")
  /\ UNCHANGED <<mq, lockOwner, lockHold, ackFlag, ackWaiter, loop, event, wvol,
                 playerVars, callerVars, devVars>>

\* Mutant: rt_completion_done raises the flag and resumes nobody.
DoneEffectNoResume == ackFlag' = TRUE /\ UNCHANGED <<pc, ackWaiter>>

\* rt_completion_done: nothing when the flag is up already, else raise it and
\* resume the thread on the list.
DoneEffect ==
  /\ ackFlag' = TRUE
  /\ IF ~ackFlag /\ ackWaiter # Null
     THEN Goto(ackWaiter, "woken") /\ ackWaiter' = Null
     ELSE UNCHANGED <<pc, ackWaiter>>

\* 423-427
PauseWaits == event = "PAUSE"

\* The end of event_handler and the switch of the loop that called it:
\* outer 386-388, inner 402-431, paused 426.
EventDispatch ==
  /\ At("ack")
  /\ DoneEffect
  /\ \/ /\ loop = "outer" /\ event = "START"
        /\ WGoto("find") /\ UNCHANGED loop
     \/ /\ loop = "outer" /\ event # "START"
        /\ WGoto("recv") /\ UNCHANGED loop
     \/ /\ loop = "inner" /\ PauseWaits
        /\ WGoto("recv") /\ loop' = "paused"
     \/ /\ loop = "inner" /\ ~PauseWaits
        /\ WGoto("check") /\ UNCHANGED loop
     \/ /\ loop = "paused"
        /\ WGoto("check") /\ loop' = "inner"
  /\ event' = "NONE"
  /\ UNCHANGED <<mq, lockOwner, lockHold, op, nested, arg, wvol,
                 playerVars, devVars>>

\* wavplayer_open:223-228
OpenFind ==
  /\ At("find")
  /\ device' = registered
  /\ WGoto(IF registered THEN "fopen" ELSE "openfailed")
  /\ UNCHANGED <<state, uri, fp, volume, loop, event, wvol,
                 ipcVars, callerVars, devVars>>

\* wavplayer_open:231-237; the file may be missing.
OpenFile ==
  /\ At("fopen")
  /\ \/ fp' = uri  /\ WGoto("devopen")
     \/ fp' = Null /\ WGoto("fclose")
  /\ UNCHANGED <<state, uri, device, volume, loop, event, wvol,
                 ipcVars, callerVars, devVars>>

\* wavplayer_open:240-245; rt_device_open counts a reference when it succeeds.
OpenDevice ==
  /\ At("devopen")
  /\ \/ devRefs' = devRefs + 1 /\ WGoto("configure")
     \/ devRefs' = devRefs /\ WGoto("fclose")
  /\ UNCHANGED <<registered, hwVolume, loop, event, wvol,
                 playerVars, ipcVars, callerVars>>

\* wavplayer_open:247-267: header and stream format, then player->volume is read.
OpenConfigure ==
  /\ At("configure")
  /\ wvol' = volume
  /\ WGoto("setvol")
  /\ UNCHANGED <<loop, event, playerVars, ipcVars, callerVars, devVars>>

\* wavplayer_open:268-270
OpenVolume ==
  /\ At("setvol")
  /\ hwVolume' = wvol
  /\ WGoto("recv") /\ loop' = "inner"
  /\ UNCHANGED <<registered, devRefs, event, wvol,
                 playerVars, ipcVars, callerVars>>

\* The inner loop reads a block: full, or the end of the file.
ReadFile ==
  /\ At("read")
  /\ \/ WGoto("write") /\ UNCHANGED state
     \/ WGoto("check") /\ state' = "STOPED"
  /\ UNCHANGED <<uri, fp, device, volume, loop, event, wvol,
                 ipcVars, callerVars, devVars>>

WriteDevice ==
  /\ At("write")
  /\ WGoto("check")
  /\ UNCHANGED <<loop, event, wvol, playerVars, ipcVars, callerVars, devVars>>

\* Mutant: the loop is never left.
LoopEndsNever == FALSE

\* 433
LoopEnds == state = "STOPED"

CheckStopped ==
  /\ At("check")
  /\ \/ LoopEnds  /\ WGoto("fclose")
     \/ ~LoopEnds /\ WGoto("recv")
  /\ UNCHANGED <<loop, event, wvol, playerVars, ipcVars, callerVars, devVars>>

\* The common text of wavplayer_close and of the __exit of wavplayer_open.
CloseFile ==
  /\ At("fclose")
  /\ fp' = Null
  /\ WGoto("devclose")
  /\ UNCHANGED <<state, uri, device, volume, loop, event, wvol,
                 ipcVars, callerVars, devVars>>

\* Mutant: the device is not closed.
RefsAfterCloseKept == devRefs

\* rt_device_close does nothing on a device nobody holds.
RefsAfterClose == IF device /\ devRefs > 0 THEN devRefs - 1 ELSE devRefs

CloseDevice ==
  /\ At("devclose")
  /\ devRefs' = RefsAfterClose
  /\ WGoto("devclear")
  /\ UNCHANGED <<registered, hwVolume, loop, event, wvol,
                 playerVars, ipcVars, callerVars>>

ClearDevice ==
  /\ At("devclear")
  /\ device' = FALSE
  /\ WGoto(IF loop = "outer" THEN "openfailed" ELSE "recv")
  /\ loop' = "outer"
  /\ UNCHANGED <<state, uri, fp, volume, event, wvol,
                 ipcVars, callerVars, devVars>>

\* 392-397
OpenFailed ==
  /\ At("openfailed")
  /\ state' = "STOPED"
  /\ WGoto("recv")
  /\ UNCHANGED <<uri, fp, device, volume, loop, event, wvol,
                 ipcVars, callerVars, devVars>>

-----------------------------------------------------------------------------
\* The steps of a caller inside of a call, the mutex apart.
CallStep(c) ==
  \/ CompletionInit(c) \/ CheckState(c) \/ ReplaceUri(c) \/ PlayMsgSend(c)
  \/ CompletionWait(c) \/ CompletionWoken(c) \/ PlayUnlock(c)
  \/ VolumeFind(c) \/ VolumeStore(c) \/ VolumeControl(c)

WavPStep ==
  \/ EventRecv \/ EventNone \/ EventDispatch
  \/ OpenFind \/ OpenFile \/ OpenDevice \/ OpenConfigure \/ OpenVolume
  \/ ReadFile \/ WriteDevice \/ CheckStopped
  \/ CloseFile \/ CloseDevice \/ ClearDevice \/ OpenFailed

Next == \/ \E c \in Callers : Call(c) \/ PlayLock(c) \/ CallStep(c)
        \/ WavPStep

Spec == Init /\ [][Next]_vars

\* The scheduler runs every ready thread sooner or later, and rt_mutex_release
\* hands the mutex to the thread that has waited longest.  No thread has to
\* call the player.
Fairness ==
  /\ WF_vars(WavPStep)
  /\ \A c \in Callers : WF_vars(CallStep(c)) /\ SF_vars(PlayLock(c))

FairSpec == Spec /\ Fairness

-----------------------------------------------------------------------------
(* Properties.                                                             *)

PlayerStates == {"STOPED", "PLAYING", "PAUSED"}

CallPositions == {"idle", "init", "lock", "check", "seturi", "send", "wait",
                  "suspended", "woken", "unlock",
                  "volfind", "volstore", "volctl", "asserted"}

ThreadPositions == {"recv", "ack", "find", "fopen", "devopen", "configure",
                    "setvol", "read", "write", "check", "fclose", "devclose",
                    "devclear", "openfailed"}

\* The types of struct wavplayer, of its queue, mutex and completion, and of
\* the positions of the threads (wavplayer.c:50-63).
PlayerTypeOK ==
  /\ state \in PlayerStates
  /\ uri \in Files \cup {Null} /\ fp \in Files \cup {Null}
  /\ device \in BOOLEAN
  /\ volume \in VOLUME_MIN..VOLUME_MAX

IpcTypeOK ==
  /\ mq \in Seq(Msgs)
  /\ lockOwner \in Callers \cup {Null} /\ lockHold \in 0..2
  /\ ackFlag \in BOOLEAN /\ ackWaiter \in Callers \cup {Null}

CallerTypeOK ==
  /\ pc \in [Callers -> CallPositions]
  /\ op \in [Callers -> AllOps \cup {Null}]
  /\ nested \in [Callers -> BOOLEAN]
  /\ arg \in [Callers -> Files \cup (VOLUME_MIN..VOLUME_MAX) \cup {Null}]

ThreadTypeOK ==
  /\ wpc \in ThreadPositions
  /\ loop \in {"outer", "inner", "paused"}
  /\ event \in Msgs \cup {"NONE"}
  /\ wvol \in VOLUME_MIN..VOLUME_MAX

DeviceTypeOK ==
  /\ registered \in BOOLEAN /\ devRefs \in Nat
  /\ hwVolume \in VOLUME_MIN..VOLUME_MAX \cup {Null}

TypeOK == /\ PlayerTypeOK /\ IpcTypeOK /\ CallerTypeOK
          /\ ThreadTypeOK /\ DeviceTypeOK

\* A command finds nothing of an earlier handshake: when it sends its message,
\* the queue is empty, so that rt_mq_send, whose result no caller looks at, is
\* RT_EOK, and the flag is down, so that neither an earlier command nor the stop
\* nested in a play acknowledges it; when it waits, nobody else does, as
\* completion.c:45 asserts (wavplayer.c:109-122, completion.c:87-88).
HandshakeFresh ==
  \A c \in Callers :
    /\ pc[c] = "send" => mq = <<>> /\ ~ackFlag
    /\ pc[c] = "wait" => ackWaiter = Null

\* wavplayer_uri_get, "uri that is currently playing" (wavplayer.h:88): while
\* the player is not stopped the open file is the one player.uri names.
UriIsPlaying == (fp # Null /\ state # "STOPED") => fp = uri

\* wavplayer_open reads player->uri without the mutex (231): no wavplayer_play
\* frees or replaces the string (116-120) until it has.
UriNotFreedInUse ==
  wpc \in {"find", "fopen"} => \A c \in Callers : pc[c] # "seturi"

\* What a command promises holds when it returns, however the end of the file
\* or a failed open raced with it: stop leaves the player stopped, pause not
\* playing, resume not paused (wavplayer.c:128-177).
CommandEffect ==
  \A c \in Callers : pc[c] = "unlock" =>
    /\ Top(c) = "stop"   => state = "STOPED"
    /\ Top(c) = "pause"  => state # "PLAYING"
    /\ Top(c) = "resume" => state # "PAUSED"

\* MSG_START is handled by the outer loop only, with the previous file closed:
\* the inner loop would drop it and go on with the old file (402-431).
StartFindsClosed ==
  (wpc = "recv" /\ mq # <<>> /\ Head(mq) = "START") =>
    loop = "outer" /\ fp = Null /\ state = "STOPED"

\* Blocks are read and written only while playing, not after a pause or a stop
\* was handled (426), with the file and the device open, once (409, 418); both
\* are released when the outer loop waits (386).
StreamsBalanced ==
  /\ wpc \in {"read", "write"}
       => state = "PLAYING" /\ fp # Null /\ device /\ devRefs = 1
  /\ (wpc = "recv" /\ loop = "outer") => fp = Null /\ devRefs = 0

\* A call of the player returns (wavplayer.h:26-57).  The code gives it only to
\* one calling thread: CompletionInit runs before the mutex is taken.
CallReturns == \A c \in Callers : pc[c] # "idle" ~> pc[c] = "idle"

\* After a stop, the end of the file or a failed open, the file and the device
\* are released (wavplayer_close, 437-438).
StoppedReleases ==
  (state = "STOPED" /\ (fp # Null \/ devRefs > 0)) ~> (fp = Null /\ devRefs = 0)

\* wavplayer_state_get (wavplayer.h:77-85): "playing" and "paused" are not
\* reported while the thread waits for a new file with nothing open.
StateMeansOpen ==
  (wpc = "recv" /\ loop = "outer" /\ mq = <<>>) => state = "STOPED"

-----------------------------------------------------------------------------
(* The refinement of PlayerService.                                        *)

\* wav_p has read the message of caller c, or c had none to send.
Done(c) == \/ pc[c] \in {"wait", "suspended"} /\ mq = <<>>
           \/ pc[c] \in {"woken", "unlock"}

\* The commands of the owner of the mutex that have yet to take effect: a play
\* has its stop ahead of it until it found the player stopped, or stopped it.
TodoOf(c) ==
  IF nested[c] THEN IF Done(c) THEN <<"play">> ELSE <<"stop", "play">>
  ELSE IF Done(c) THEN <<>>
  ELSE IF pc[c] = "check" /\ op[c] = "play" THEN <<"stop", "play">>
  ELSE <<op[c]>>

Todo == IF lockOwner = Null THEN <<>> ELSE TodoOf(lockOwner)

Service == INSTANCE PlayerService WITH holder <- lockOwner, todo <- Todo

\* Whatever the callers, the end of a file and failed opens do, the player
\* changes its state as the service does: each command once, for the call that
\* owns the mutex, before that call returns (wavplayer.c:105-177, 306-360).
ServiceSafe == Service!Spec

\* One calling thread is served, too: no command is left undone (wavplayer.h:26-57).
ServiceImplemented == Service!FairSpec

=============================================================================
