# A verification project for the Iot Board internet WAV player

The program (`stm32l475-atk-pandora/`) turns an STM32L475 board into a network
radio: it fetches a list of songs over an ESP8266, stores the chosen song on an
SD card, and plays it through an ES8388 codec, under four keys and a small
screen. It runs on RT-Thread. This directory holds TLA+ models of the program's
own logic, the TLC configurations that check them on small instances, and
proofs that TLAPS checks for every value of the constants.

File names below are relative to `src/stm32l475-atk-pandora/`.

## 1. Inventory

### Threads and what they share

| thread | priority | started in | work |
|---|---|---|---|
| `main` | 10 | `applications/main.c` | brings the ESP8266 up, starts the others, blinks a LED |
| `flex_btn` | 10 | `applications/iotb_key_process.c` | scans the keys every 10 ms, runs their callbacks |
| `lcd_thr` | 12 | `applications/iotb_lcd_process.c` | the menu loop: pages, song list, download, player |
| `event_thr` | 12 | `applications/iotb_event.c` | message queue to event bits |
| `at_clnt` | 9 | `rt-thread/components/net/at/src/at_client.c` | reads the lines of the ESP8266, completes responses, runs the callbacks of sockets |
| `sys_work` | 23 | `rt-thread/components/drivers/src/workqueue.c` | delayed works: fetches the address of the module, checks the internet |
| `wav_p` | 15 | `packages/wavplayer-v0.2.0/src/wavplayer.c` | plays one file at a time |
| `tshell` | 20 | RT-Thread | the shell; its `wavplay` command also calls the player |
| tick interrupt | - | RT-Thread | submits a delayed work when its second has passed |
| DMA interrupt | - | `board/ports/audio/drv_sound.c` | moves a frame into the half of the FIFO just left |

    keys -> flex_button_scan -> callbacks -> iotb_event_put -> [queue] -> event_thr
         -> lcd_event bits -> lcd_thr -> webclient_get_file -> files on the card
                                         -> at_socket calls -> AT commands -> ESP8266
                                         <- packets, notices <- at_clnt    <- ESP8266
                                      -> wavplayer_* -> [mq, mutex, ack] -> wav_p
         -> rt_device_write -> [pool, data queue] <- DMA interrupt -> FIFO -> codec

### Components

**WAV player** (`wavplayer.c`). State: one static record (state, uri, open file,
device, volume), a message queue, a recursive mutex, one completion `ack`.
Operations: `wavplayer_play/stop/pause/resume/volume_set` on any thread, and the
thread `wavplayer_entry` with an outer loop (wait for a file) and an inner loop
(play it). Hard: the calls and the thread interleave, `play` nests `stop` under
the recursive mutex, the end of the file races with every command, opening may
fail half way, and `ack` is re-initialised outside the mutex. Correct when: a
command returns with the effect it promises, the file and the device are open
exactly while data move and are released afterwards, the uri is not freed under
the thread, and each acknowledgement answers its own command.

**Audio framework and sound driver** (`audio.c`, `dataqueue.c`, `drv_sound.c`).
State: the block being filled, a memory pool, a queue of blocks, read and write
indices, the stop event and its completion, the two-half FIFO. Hard: the
interrupt runs between any two steps of the writer, blocks straddle frames,
under-runs, a stop handshake between thread and interrupt. Correct when: data
leave in order with no gap, only the idle half is written, blocks are neither
lost nor freed twice, a write and a close return.

**Button scanner** (`flexible_button.c`). State per button: status, event, 16-bit
scan count, click count. Operation: one scan. Hard: thresholds off by one, the
status that sees a release one scan late, presses during the double-click window,
the count that wraps. Correct when what the callbacks hear about a press is
consistent from its start to its end, and the end is always heard.

**Key processing and event dispatcher** (`iotb_key_process.c`, `iotb_event.c`).
State: a bounded queue whose overflow is dropped, a 32-bit event set that
coalesces. Hard: lost and merged keys, which every consumer must survive.

**Screen and menu** (`iotb_lcd_process.c`). State: the page, each page's pending
event, the refresh count, the song list (pointer, length, selection - three
variables that three pages change), the cache on the card, two play flags, the
volume on the screen. Hard: allocations made by one page and released by
another, a server that fails or changes its list, keys at any time, flags that
shadow the player's state. Correct when the list, its length and the selection
agree, and screen and player agree.

**Web client** (`webclient.c`, `webclient_file.c`). State: a session (socket,
length, what is left of it, chunk size and offset) and the file on the card.
Operation: `webclient_get_file`, that is connect, request, header, a loop of
reads with or without chunks, close. Hard: every step may fail, some failures
have closed the socket already, chunks, packets and buffers do not line up, and
a transfer that breaks off is reported as a success. Correct when a download
ends, what it wrote is the song or its beginning, and nothing stays open.

**AT socket layer** (`at_socket.c`, `at_socket_esp8266.c`). State: the state of
the socket, its list of packets, a semaphore that counts notices, event bits,
the callbacks. Operations: socket, connect, send, recv, close on the calling
thread; the notices of data, close and send results on the thread `at_clnt`.
Hard: `at_clnt` runs between any two steps of a call. Correct when the bytes
come out as they came in, nobody sleeps over data, and 0 means the end.

**AT client** (`at_client.c`). State: a recursive lock, the pointer to the
response of the command under way, a semaphore, the line count. Operations: a
command on any thread, one line of the module on `at_clnt`. Hard: an answer that
comes after its command timed out. Correct when the parser writes only into the
response of the command under way and late answers do not add up.

**ESP8266 device driver, network interface, work queue** (`at_device_esp8266.c`,
`at_device.c`, `netdev.c`, `sal_socket.c`, `workqueue.c`). State: whether the
device is initialised, the flags and the address of the interface, the delayed
works and the list of the queue. Operations: the bring-up with its tries, the
notices of joining and dropping out, the works that fetch the address and check
the internet. Hard: any command may fail, the module joins and drops out at any
time, its address comes and changes without a notice, three threads change the flags
without a lock, an answer is old when it is stored, a thread falls asleep while a work
comes in. Correct when the bring-up ends, the interface stays up, and every join is
followed by a fetch whose answer the interface keeps.

**Not modelled**: the recorder (not enabled in `rtconfig.h`), the parsers (WAV
header, cJSON, optparse), drivers at register level (LCD, codec registers, SD
card), start-up, and the RT-Thread kernel itself, whose mutex, queue, event set,
pool and completion appear where the application uses them.

`PROJECT.json` lists the hazards one by one, at their lines, with the properties
that guard them.

## 2. Modules

| module | models | used by |
|---|---|---|
| `WavPlayer` | `wavplayer.c`, `completion.c`, reference counts of `device.c` | `MCWavPlayer`, `WavPlayerProofs` |
| `PlayerService` | what the player promises, without its threads | `WavPlayer`, as the abstract specification |
| `AudioReplay` | replay side of `audio.c`, `dataqueue.c`, `drv_sound.c` | `MCAudioReplay`, `AudioReplayProofs` |
| `FlexButton` | `flexible_button.c`, thresholds and loop of `iotb_key_process.c` | `MCFlexButton`, `FlexButtonProofs` |
| `IotbEvent` | `iotb_event.c`, messages of `iotb_key_process.c` | `LcdMenu` |
| `LcdMenu` | `iotb_lcd_process.c`, composed with `IotbEvent` | `MCLcdMenu`, `LcdMenuProofs` |
| `AtClient` | `at_client.c`: commands against the parser | `MCAtClient`, `AtClientProofs` |
| `AtSocket` | `at_socket.c` on `at_socket_esp8266.c`, one socket | `WebClient`, `AtSocketProofs` |
| `ByteStream` | what a socket promises the program that reads it | `AtSocket`, as the abstract specification |
| `WebClient` | `webclient_get_file` with `webclient.c`, composed with `AtSocket` | `MCWebClient`, `WebClientProofs` |
| `Esp8266` | bring-up of `at_device_esp8266.c`, flags of `netdev.c`, `workqueue.c` | `MCEsp8266`, `Esp8266Proofs` |
| `MC*` | sets of callers, files, messages, lists for TLC | the runs |
| `*Proofs` | inductive invariants, lemmas, theorems | TLAPS |

Next to a definition that a mutant replaces stands the mutant itself, with a
comment starting "Mutant:"; it is used nowhere else.

### WavPlayer

`state, uri, fp, device, volume` are the fields of `struct wavplayer`. `mq`,
`lockOwner`/`lockHold` (the recursive mutex) and `ackFlag`/`ackWaiter` (the
completion) are the objects it owns. `pc[c]` is the position of caller `c`,
`op[c]` the function it called, `nested[c]` whether it is in the `stop` that
`play` makes. `wpc` and `loop` are the position of `wav_p`. One action is one
access to shared state, so that a preemption is possible between any two:
`Call`, `CompletionInit`, `PlayLock`, `CheckState`, `ReplaceUri`, `PlayMsgSend`,
`CompletionWait`, `CompletionWoken`, `PlayUnlock` follow a command from line to
line, `VolumeFind`, `VolumeStore`, `VolumeControl` follow `wavplayer_volume_set`,
which takes no lock. The thread receives (`EventRecv`, `EventNone`), changes the
state and acknowledges (`EventDispatch`), opens in five steps (`OpenFind` to
`OpenVolume`, each of which may fail as the code may), moves blocks (`ReadFile`,
`WriteDevice`), and closes in three (`CloseFile`, `CloseDevice`, `ClearDevice`).
The interleaving is arbitrary, which includes what the priorities allow. Where
a finding depends on the priorities it names the threads: `wav_p` preempts
`tshell`, never `lcd_thr`, but `lcd_thr` runs while `wav_p` or `tshell` is in
the middle of a step sequence, and blocks on the mutex, the card and the queue.

`PlayerService` is the abstract specification of the same calls: who holds the
player, what its state is, which commands of the call are still to take effect.
A play is a stop and then a play; a command takes effect once or finds nothing to
do; only the end of a file changes the state otherwise. The refinement maps
`holder` to the owner of the mutex and `todo` to `Todo`, which reads off the
position of that caller, the queue and the thread whether the message it sent has
been handled. `ServiceSafe` is the step relation, for any callers; with one caller
`ServiceImplemented` adds the fairness, so that no command is left undone. With
two it fails, for the reason `wavplayer_ack_race` shows.

What `ReadFile` abstracts: `fread` returns a whole block or ends the file; the
trailing part of a file shorter than a block is never played by the code.

### AudioReplay

The variables are the fields of `struct rt_audio_replay`, the pool's free blocks,
the data queue, the FIFO and the DMA's half. A unit of data is a number given at
the time it is written, so that order, loss and repetition are visible; 0 is
silence. The thread side is `_audio_dev_open`, `_write` (allocate, copy, push),
`_audio_flush_replay_frame` and `_audio_dev_close` with `rt_audio_replay_stop`.
The interrupt is `_audio_send_replay_frame`, in pieces: the zero frame with the
acknowledgement of a stop, the copy loop, the under-run. `isr` keeps the thread
out while the handler runs. `Init` fills the FIFO with silence; on a restart
the DMA first transmits the two halves left from before, which `halves` lets the
properties tell from the data of the session.

### FlexButton

`btn[b]` is a `flex_button_t` and whether its callback ran in the last scan;
`cont` is the mask of the buttons down. `Scan` is `flex_button_scan`: read all
pins, then step the seven-status machine of every button. `press[b]` is history
that the properties need. The count is 16 bits wide (`CntMod`).

The model makes these facts of the code precise, and the properties allow for
exactly them: a release is classified one scan after it was seen, so at a
threshold the end event belongs to the next class; a press seen in that one scan
is lost, so a double click may have taken three presses; after about 11 minutes
of holding the count wraps and the end event no longer says how long it was.
`flex_button_register` tests `button_cnt > MAX_BUTTON_CNT`, one too late; the
application registers four, so that is not reached.

### IotbEvent and LcdMenu

`IotbEvent` is the queue (`Put` drops the message when it is full: `rt_mq_send`
fails, `iotb_event_put` waits 100 ms, the callback ignores the result) and `EventHandler`, which
turns a message into the bits of `lcd_event`. `LcdMenu` extends it with the loop
of `lcd_thr`: `Get` is `iotb_lcd_event_get` and the choice of the page;
`ListFetched`, `ListNotFetched`, `SelectSong`, `MusicNoSong`, `MusicCached`,
`MusicDownload`, `PlayOrStop`, `PauseOrResume`, `ChangeVolume`, `EnterSdcard`
are the pages; `RefreshKey` and `RefreshIdle` end an iteration with the refresh
count. The player appears by its promise: a command takes effect, and a playing
song may end at any time (`SongEnds`); `WavPlayer` is the detail of that.
`fault` records the first access outside the song list or the first release of
memory that was not allocated, and stops the model, since what follows is
undefined in C.

The other threads' steps are taken only at `Get`, where the loop reads its bits:
they touch nothing else that the loop reads, so they commute with its other
steps. Bits coalesce, hence `MaxPending` of them outstanding is a bound of the
model on how far the keys run ahead.

A key lost on its way is no fault here: the queue drops it when full, only one of
the bits read together is served, and on a page the next key overwrites
`current_event` before the refresh is due. `MusicKeysNotStarved` says that keys are
served all the same, not that each is. The messages of the run are the clicks and
double clicks of all four keys; that of KEY2 no handler serves, and on the player's
page it wipes out the key before it.

Left out here: drawing; a failed `rt_malloc` (the code goes on or prints);
buffers for names (`download_url` is one byte short and never released, a list
fetched anew leaks the one before: both are leaks or sizes the abstract data do
not show).

### AtClient

`lockOwner`, `lockHold`, `resp`, `resp_status`, `notice` and `line_counts` are
the fields of `struct at_client` that several threads use: `resp` is the thread
whose response is registered, `notice` the queue of releases of the semaphore.
Each of `Call`, `TakeLock`, `Register`, `Send`, `TakeNotice`, `TakeTimeout`,
`TimedOut`, `CheckStatus`, `Exit`, `Unlock` is the code between two accesses to
these; `DeleteResp` and `ClearResp` are the end of `at_client_obj_wait_connect`, in
its order, and `NextPacket` the loop of `esp8266_socket_send`, which holds the lock
around its commands. `ParseLine` and `ParseDropped` are one line in
`client_parser`, which no other thread of the program preempts. The module
(external) answers a command at any time or never, and says other things in
between. Nothing in the code tells an answer from a late one; the model marks the
lines and notices that answer the command sent last (`cur`), for the properties.

### AtSocket and WebClient

`AtSocket` has the calls of `lcd_thr` step by step (`Socket`, `Connect`, `Started`,
`Reclosed`, `Send`, `Prompted`, `SendSeen`, `SendResult`, `Recv`, `RecvState`,
`RecvTakes`, `RecvTimeout`, `Close`, `Closed`), one line on `at_clnt` (`ReadAnswer`,
`ReadSend`, `ReadData`, `ReadDataLost`, `ReadClosed`), and the module with the
server behind it (external: `ExecuteStart` to `ServerCloses`). `WebClient` calls
them in the order of `webclient_get_file`: `at` is where it is, `file` what it has
written. A download may begin again when one is over, on what the last one left.

What is abstract: the server sends units (a status line with its fields, an empty
line, the size of a chunk, a piece of the song) instead of bytes (`Units` are whatever the
streams are made of); `Split` cuts what the server sent into what was taken, what
is in the list and the data of each line on the wire; an answer is a status line
with its fields, an empty line and the song, by its length, in chunks or up to the
close (`Answer`, the grammar of HTTP as far as the client tells it apart); `Pieces`
says of a file that it has the pieces of song among the first units of a stream, in
their order and no others; the list of
packets is flat, its boundaries being those of the units that arrived; a request
is one packet, below 2048 bytes; `at_obj_exec_cmd` is a request and an answer, so
the left-over notice that `AtClient` describes does not reach it. One socket at a
time is in use, always number 0, which `NothingLeftOpen` confirms. `trouble` is
the worst that happened on the connection, in four degrees, and is what the
properties excuse: `cut` (the server broke off, or recv gave up after 6 s), `gap`
(data dropped for want of memory, once on a connection, or 0 returned too
early), `late` (a command timed out and may still be carried out). No download is
begun after `late`, and what was taken and written is followed up to a gap; both
are bounds of the model. A redirection and the failure to allocate a session or
to resolve the name are left out.

`ByteStream` is the abstract specification of a socket: what the server sends
(`source`), how much of it `recv` has returned (`taken`), the worst that happened, and
whether the last call reported the end. It has no packets, notices, threads, commands
or module. `Read` returns the next units, `End` reports an end that without a trouble
is the end of everything sent; from a gap on nothing is promised (`Broken`).
`StreamServed` in `AtSocket` says that the socket implements it, with the end (`Over`)
as a function of the state. It is proved, for every program that calls a socket in
order and for the download (section 4); it is also what TLC finds for the instance of
`web_client`, and finds violated when `at_recvpkt_get` leaves in the list what it
returned.

### Esp8266

`is_init` is the field of `struct at_device`, `flags` and `ip_addr` those of
`struct netdev`, `result` and `retry_num` the locals of
`esp8266_init_thread_entry`. `main` follows that function (`WaitConnect`,
`BeginTry`, `CommandOK`, `CommandFails`, `EndTry`, `Report`, `SetStatus`,
`SetLink`, `StartWork`) and its callers (`SetUp`, `Register`). `ReadNotice` is
`urc_func` on `at_clnt`. `TimeOut` is the timer of a delayed work in the tick
interrupt; `FindNothing`, `Suspend`, `TakeWork` are the loop of `sys_work`,
`AskAddress`, `StoreAddress`, `AskDhcp` its one work, `CheckInternet`,
`ReadForCheck` the other, and `WriteForWork` the end of both. `mcopy` and `wcopy`
are the flags that a thread has read and not yet written back; `at_clnt`, which
none of them preempts, does both at once. `sys_work`, of the lowest priority, runs
while `main` waits. The module (external) joins (`WifiJoins`) and drops out
(`WifiDrops`) at any time and announces it on `line`; `lease` is what it tells when it
is asked for its address, 0 for 0.0.0.0. A join may come without an address;
`AddressChanges` gives it one, another or none at any time while it is joined, and no
notice tells the driver. So a fetch, a second after the join, may find none yet or the
old one, and nothing fetches again.

`told` is a history: "due" from a join until the module is asked, "yes" once it has
told the address it has, "late" when it has changed it since, "none" when the last
fetch was not answered or found no memory (590-593), or none was due, as for a module
that joined before the device was initialised. What
`AddressFresh` and `AddressSettles` promise is about "due" and "yes": no join goes
without a fetch, and no older answer, stored later or kept over a drop, replaces the
one told last. For "late" and "none" they promise nothing, and the code does not keep
the address right.

What is abstract: an answer is read when the notices sent before it have been, and
none comes late (`AtClient` has late answers); a module that has dropped out tells
no address; all delays of works are the same second, so works are submitted in order; gateway and
netmask are only seen by the checks they cause. The check of the internet uses a
UDP socket of its own, beside the one of `AtSocket`; only its result is here.

## 3. Runs

| run | checks | what it shows |
|---|---|---|
| `wavplayer_safety` | `TypeOK`, `HandshakeFresh`, `UriIsPlaying`, `UriNotFreedInUse`, `CommandEffect`, `StreamsBalanced`, `ServiceSafe` | two threads make every call at any time, files and device may be missing: the handshake, the uri and the streams stay consistent, every step is one of the service |
| `wavplayer_one_caller` | `StoppedReleases`, `ServiceImplemented`, deadlock | one calling thread is served and never hangs, and a stopped player lets go of file and device |
| `wavplayer_ack_race` | `CallReturns`, violated | a second caller's `rt_completion_init` takes the first one's wake-up away |
| `wavplayer_ghost_state` | `StateMeansOpen`, violated | a pause racing with the end of the file leaves "paused" with nothing open |
| `audio_replay` | `TypeOK`, `FillsIdleHalf`, `BlocksConserved`, `PlayedInOrder`, `CallsReturn`, deadlock | a writer against the DMA interrupt: order, conservation and termination |
| `flex_button` | `TypeOK`, `EndFitsStart`, `DoubleClickIsTwo`, `StartsInOrder`, `ReleaseReported` | two buttons at any scan: the reports of a press are consistent and end |
| `lcd_menu` | `TypeOK`, `SteadyServerSafe`, `SilentOffMusicPage`, `FlagsTrue`, `MusicKeysNotStarved` | any keys against a failing server and card: list, flags and player agree, and keys are served however fast they come |
| `lcd_wild_free` | `ReleasesWhatWasAllocated`, violated | names are released through a null list |
| `at_client` | `TypeOK`, `RespOfOwner`, `NoticesBounded`, `OwnAnswer`, `CommandReturns`, deadlock | two threads and every kind of command against a module that is late or silent |
| `web_client` | `TypeOK`, `StreamIntact`, `WaiterNotified`, `FileIsTheSong`, `NothingLeftOpen`, `GetReturns` | downloads one after the other over a failing module and server: stream, file, closing, termination |
| `web_early_end` | `ZeroMeansDrained`, violated | recv returns 0 with data in the list |
| `esp8266` | `TypeOK`, `AddressFresh`, `StaysUp`, `BringUpEnds`, `AddressSettles`, deadlock | a module that fails, joins, drops out and changes its address at will: main goes on, the interface is up, and it has the address of the module but for one that came after the fetch or could not be fetched |

`SteadyServerSafe` has its premise for a reason: with a server that fails or
shortens its list the code does read outside the list, which `lcd_wild_free`
shows for one case.

### Bounds, and why they are enough

- **WavPlayer**: two callers (a third waits on the same mutex like the second),
  two files (the next one and the old one), volumes -5 and 42 (one clamped, one
  not), a queue of 8. Callers and files are symmetric in the safety run; the
  runs with liveness use no symmetry. Safety is proved without these bounds.
- **AudioReplay**: a unit stands for a fraction of a frame: frame 2, block 4,
  pool 2 and queue 2 (the tightest the assumption `POOL <= QUEUE` allows; the
  code has 2 and 4), writes of 1, 3 and 8 units (part of a frame, a part that
  straddles frames, the whole pool), 12 units in all: enough to wrap the pool
  and to open, close and open again. A single write larger than the pool before
  the DMA runs would wait for ever (`WriteAssumption`); the player's blocks
  are of 2048 bytes, half a block of the pool.
- **FlexButton**: thresholds 5, 7, 10, 13 for 20, 100, 200, 300 scans and a count
  modulo 16 for 2^16, so that the wrap happens; two buttons. Proved without them.
- **LcdMenu**: a queue of 1 and two bits outstanding (overflow and coalescing
  both happen), lists of no, one and two songs (an index can be before, in and
  after the list), one descriptor (so that they run out), volume 55 to 60 in the code's steps of 5 (both limits
  are reached), refresh times 1, 2, 0 for 5, 5, 0.
- **AtClient**: two threads (a third waits for the lock like the second), one
  repeated probe. Late answers of several commands can meet, and the safety
  properties are proved without the bounds.
- **WebClient**: a song of three pieces with its length, in chunks of two and
  one, and up to the close, and an answer 404; packets of at most two units and a
  buffer of two, so that packets, buffers and chunks end together and apart; two
  lines ahead on the serial line (`AT+CIPCLOSE` may add two more), so that data,
  an answer and a notice wait there together; one loss of data on a connection.
  Safety is proved without these bounds.
- **Esp8266**: two tries (one that fails before one that succeeds) of the code's
  five, two addresses (an old one and a new one, and none), two notices under way (a drop
  and the join after it), and a module that joins only while fewer than two works
  wait, or when one is stranded: a fetch is then asked for while another waits or
  runs. Safety is proved without these bounds.

Deadlock is not checked in `wavplayer_safety`, where two callers can hang for
ever (`wavplayer_ack_race`) and a failed assertion stops a caller, nor in the
`lcd_*` runs, where a fault ends the behaviour, nor in the `web_*` runs, where no
download is begun once a command has timed out.

### Fairness

- **WavPlayer**: weak fairness of `wav_p` and of each caller within a call: all
  of them block or finish, and RT-Thread runs the next ready thread. Strong
  fairness of taking the mutex: `rt_mutex_release` hands it to the waiter, so
  nobody is passed over for ever. No thread is obliged to call.
- **AudioReplay**: the DMA goes on while it is enabled (weak); the thread runs
  between interrupts (strong, because each interrupt disables it for a moment).
  Nobody has to write or close.
- **FlexButton**: the scan loop runs for ever; nothing is assumed of fingers.
- **LcdMenu**: the loop runs for ever; nothing is assumed of keys, of the server
  or of the length of songs.
- **AtClient**: weak fairness of each thread inside of a command; strong fairness
  of taking the lock, a FIFO mutex; the loop over packets comes to its last one,
  because the data are finite. Nothing is assumed of the module: timeouts end
  every wait.
- **WebClient**: weak fairness of the thread alone. A connection that sends nothing,
  for ever, is not excluded; `recv_timeout` and the finite answer end the download.
- **Esp8266**: weak fairness of `main`, `at_clnt`, `sys_work` and the tick: each of
  their waits ends by a timeout, and `main` leaves the processor to `sys_work` for
  most of its life. Nothing is assumed of the module.

## 4. Proofs

`WavPlayerProofs` proves, for any set of callers, files and volumes and any queue
size (`NullAssumption`, `VolumesAssumption`, `OpsAssumption`,
`MqSizeAssumption`), that `IInv` is an invariant (`Invariance`), and from it all
the invariants of `wavplayer_safety`, each as a theorem of its own
(`TypeCorrect`, `HandshakesAreFresh`, `CommandsTakeEffect`, `UriTrue`,
`UriOutlivesOpen`, `StreamsSafe`), that a start message finds everything closed
(`StartsClosed`), and the refinement (`PlayerImplementsService`). None of these is inductive alone. The argument:

- `CallInv` says which call each position belongs to and what its argument is;
- `LockInv` that the owner of the mutex is the caller inside the section, or in
  the nested stop, and that the hold count is that of the nesting;
- `HandshakeInv` is the centre: at most one of an unread message, a message being
  acknowledged and a raised flag exists, and it belongs to the owner of the
  mutex. This survives a second caller's `rt_completion_init`, which may clear
  the flag and the waiter but can never raise a flag: safety holds where
  liveness fails;
- `CommandInv` carries what the command found (`Requires`) until the thread
  reads its message, and what it promises (`Ensures`) until it returns. Only
  the end of a file or a failed open may change the state in between, and
  they change it to stopped;
- `ThreadInv` ties the state to the position in the two loops, `StreamInv` the
  file, the device and its reference count.

The proof has one lemma per action and frame lemmas for what each thread leaves
alone. For the refinement, each action is a step of the service or leaves the
owner, the state and `Todo` alone: taking the mutex acquires, `CheckState` may
skip, the thread's handling of a message serves, the outer release of the mutex
releases, the end of a file or a failed open is `End`. The invariant is what
makes the state at the moment of handling one in which the command is ready.

`FlexButtonProofs` proves for any set of buttons, any width of the count and any
thresholds that lie at least two scans apart (`TicksAssumption`): `Invariance`,
`TypeCorrect`, `EndsFit`, `DoubleClicksAreTwo` and the action property
`ThresholdsInOrder`. The invariant relates the machine to the history of the
press: while the button is down (`DownInv`) the count is one less than the scans
it was held, and lies between the thresholds of the status; after the release
(`UpInv`) it is what it was then, and a press in the double-click window was
short; `ToldInv` is what the last callback heard. A wrapped count excuses the
last ones. `ProcessStep` does the case analysis for one button, `ScanInv` lifts
it to all. The proof needs the distance of two scans between thresholds; with
less, a press can end in a class it never entered.

`AtClientProofs` proves for any set of threads and any number of probes
(`NullNoThread`, `TriesAssumption`): `Invariance`, `TypeCorrect`,
`ResponseIsTheOwners`, `OneNoticeLeft`, `VerdictIsOwn`. `LockInv` says which
positions own the lock and how often, `RespInv` that a registered response is the
owner's. `NoticeInv` is the count behind `NoticesBounded`: notices there are,
plus one if a response is registered, are at most one more than the owner will
still take; a timeout gives up that one only when no notice is there, and the
response it leaves is cleared before the lock is free. `CleanInv` follows an
undisturbed command: it waits for its own answer, has it, or took it.

`AudioReplayProofs` proves for any frame, any block of whole frames, any pool no
larger than the queue and any writes that fit into the pool (the assumptions of
`AudioReplay`): `Invariance`, `TypeCorrect`, `IdleHalfFilled`, `NoBlockLost`, and
the order of what is played, `OrderInvariance` and `InOrder`. The
hard part is the under-run, which stores `pos` in the middle of a block: it is at
the boundary of a frame because every block but the last of a session is full
(`QueueInv`) and full blocks are copied by whole frames (`CopyInv`); the last one
is followed by nothing until the stop is acknowledged on an empty queue
(`StopInv`). Conservation follows from `pool <= queue`: a push always finds room. For the order,
`OrderInv` says what is in each place: behind the units already heard come those
of the half the DMA is reading, then those of the half it reads next
(`HalvesHold`), then the rest of the block being copied and the blocks in the
queue (`QueueFollows`), then the block being filled (`ContentsInv`). While the
interrupt copies, the half it fills holds what was copied so far (`HalfHolds`).
Silence follows only where everything written has been handed on.

`LcdMenuProofs` proves for any lists the server may send, any refresh times, any
messages of the keys (`MessagesAssumption`) and any limits of the volume that lie
a number of steps from its default (`VolumeAssumption`: with others a step could
pass the limit): `Invariance`, `TypeCorrect`, `ListSafe`, `SilentElsewhere`,
`FlagsAreTrue`. `ListInv` relates the three variables of the
song list under a steady server: the page that releases the list can only be left
for the page that fetches it, so no page reads it in between. `PlayerInv` ties the
two flags and the player to the page; `VolumeInv` keeps the volume a multiple of
five from its limits.

`Esp8266Proofs` proves for any addresses other than 0 and any number of tries, with
any number of notices and works (`AddressesAssumption`, `RetryAssumption`):
`Invariance`, `TypeCorrect`, `FreshAddress`, `UpForGood`. `DeviceInv` says that
nothing is submitted before the device is initialised, and that a woken thread
finds a work. `FlagsInv` follows the flag UP through the copies: it is written
before `main` first leaves the processor to `sys_work`, so that whoever copies the
flags later copies it too. `AddressInv` is the argument for the address: as
long as a joined module is still to be asked, the notice is on its way, or a fetch is
a delayed work, in the list, or at work; once it has told, its answer is about to be
stored or is stored, and agrees with the module until that changes its address.
`FreshAddress` has the same exceptions as the property: an address that came after the
fetch, and a fetch without answer or memory.

`AtSocketProofs` and `WebClientProofs` prove for any streams of the server made of
any units with a number each, any packet, any buffer and any length of the serial
line (`StreamsAssumption`, `NullAssumption`, `MaxPacketAssumption`,
`MaxWireAssumption`, `BufszAssumption`, `UnitsAssumption`): `Invariance`,
`TypeCorrect`, `StreamOfTheServer`, `SleeperHasNotice`, `EndsWithNothingOpen`; and
for streams that are answers of HTTP besides (`AnswerAssumption`, which nothing
else uses): `FileInvariance`, `DownloadIsTheSong`. The
proof is in two layers, as the code is. `SInv` is the invariant of a socket,
whatever program uses it: `SocketKept` says that every step of a call, of
`at_clnt`, of the module and of the server preserves it, `SocketUsed` that every
call does that a program begins, `SocketPromises` what it gives. Its argument is
that a command is in one place until one times out: with the module, as a line on
the wire, or as an answer with the call (`AnswerInv`), and a request for data
likewise (`SendInv`). From this and from what each state of the socket admits on
the wire (`LinkInv`, `StartInv`, `CloseInv`: nothing of a link before it is
opened, nothing after its `CLOSED`) a line of data always finds the
socket it was sent for, and `StreamInv` carries the cut of the stream from step to
step. `WaitInv` pairs every packet, and the close, with a notice: `recv` consumes
one only when it looks at the list again. The download adds where it is while the
socket is in which state and call (`SessionInv`) and that its lengths leave
something to read whenever it reads (`LengthInv`), without which `content_length`
less what was read could run below zero.

The file is the third layer, `FInv`. `EndInv` says of the socket that a server which
closed has sent everything, or broke off; so a `recv` that returns nothing on an
undisturbed connection is at the end (`AllTaken`), and whatever was read before is a
beginning of the source (`TakenPrefix`). `Used` is how far the download has looked
into the stream: what was taken, less what `recv` returned and the program has not
handled. Until the header is over, `HeaderInv` says what of it was read. Then the
download is `Going`: the file holds the pieces among the first `Used` units, and the
grammar says what comes next, for each kind of answer. `LengthGoes` relates
`Used` to the three counts of the loops (`offset`, `total`, `content_remainder`),
`ChunkGoes` says in which chunk `Used` is (`InChunk`: unit `p` has the size that
`chunk_sz` holds, and `Used` is `chunk_offset` behind it), `CloseGoes` that all that
comes is song. Or the server broke off within the header, which the client takes
for its end, and nothing comes any more (`Drained`). `AskInv` is why no read
runs over a line: a line is read unit by unit, a chunk no further than its end. At the end
of an undisturbed download, `Used` is the whole stream or what follows holds no
song. `MorePieces` and `PiecesBehind` are the two ways the file keeps up: data go to
its end, and everything else of an answer is skipped. None of it needs to know how
packets, reads and buffers fall on each other.

The socket is also a component of its own. `SocketSpec` is `AtSocket` under any
program that keeps to `Uses`: it asks for a socket while it has none, connects it,
sends and receives only on one that was connected, asks `recv` for at least one unit,
and may close at any time. `SocketInvariance` and `SocketKeepsPromises` hold for all
of them, and `SocketIsAByteStream` is the refinement of `ByteStream`. Its argument: a
step of `at_clnt`, of the module or of a call changes neither source nor `taken`,
unless `recv` takes data, which `TakenPrefix` makes the next piece of the
source, or `AT+CIPSTART` is carried out, when nothing has been read (`StartInv`).
`AllTaken` makes the reported end the end. `DownloadUsesSocket` then shows that the
download is such a program (`CallsInOrder`, from `SessionInv`), so that
`DownloadReadsAByteStream` follows from the two without another look at either.

Two properties were restated so that they could be proved about: `StreamIntact` by a
function that cuts the stream, where the lines were flattened recursively, and
`FileIsTheSong` by a function from the units of the file to their places, where the
stream was filtered. They say the same. The proof also found that the second case of
the status line in `HeaderLine` overlapped with the first.

**Only model-checked**: liveness (`StoppedReleases`, `ServiceImplemented`,
`CallsReturn`, `ReleaseReported`, `MusicKeysNotStarved`, `CommandReturns`,
`GetReturns`, `BringUpEnds`, `AddressSettles`), which is beyond the prover used. Every
invariant and every safety property that a passing run checks is proved. The leaves
of the proofs are small: all of them are also found with a tenth of the time tlapm
allows each (`tlapm --stretch 0.1`), so a slower machine finds them too.

## 5. Findings

Each is a run that TLC refutes, against a line of the repository that says
otherwise (`PROJECT.json`, "findings").

1. `rt_completion_init(&player.ack)` before the mutex (`wavplayer.c:109, 132,
   149, 166`): a call can hang for ever, with the mutex.
2. A pause or stop that arrives as the file ends is executed by the outer loop
   (`wavplayer.c:340`): "paused", nothing open.
3. `item_num` survives the list it counts (`iotb_lcd_process.c:673, 684`): names
   are released through a null list.
4. `at_recvfrom` returns 0 for a closed connection before its list is read out
   (`at_socket.c:777-781, 829-834`); the song loses its last packet.

Known limits of the code that the models show or leave out, without a run:

- `wavplayer_volume_set` tests `player.device` (`wavplayer.c:189`) and uses it
  (198) without the mutex, while `wav_p`, which preempts the shell, clears it; and
  `wavplayer_open` reads the volume (267) and writes it to the codec (268) in two
  steps, between which `lcd_thr` may set another.
- The descriptor that tests the cache (`iotb_lcd_process.c:554`) is never closed;
  when none is left a cached song does not play.
- `at_device_register` sets `is_init` after a bring-up that failed
  (`at_device.c:326`), because `esp8266_netdev_set_up` returns `RT_EOK` after any.
- `result` is never reset between the tries (`at_device_esp8266.c:656`): after one
  failed try the device is reported as failed, whatever the next tries do.
- The address is fetched once, a fixed second after "WIFI CONNECTED"
  (`at_device_esp8266.c:596, 734-743`), and `urc_table` (756-762) has no notice of the
  address itself: when DHCP takes longer, or renews with another address, the
  interface keeps 0.0.0.0 or the old one until the next join (`AddressChanges`). It
  keeps the old one too when there is no memory for the work (590-593) or the module
  does not answer it.
- The next key overwrites the pending one before the page's refresh is due
  (`iotb_lcd_process.c:217-220, 228-234`): of keys in quick succession one is served,
  or none when the last is a double click of KEY2 on the player's page.
- A notice of dropping out is ignored until `is_init` is set (679); then the link
  is set up (681).
- An old answer sets the flag of the internet after the link went down
  (`sal_socket.c:245`).
- The thread of the work queue finds its list empty (`workqueue.c:61`) and
  suspends itself (64) in two steps; a work submitted by the tick in between waits
  until the next one is submitted (`Stranded` in `Esp8266`).
- The audio stop is acknowledged when the queue is empty; the last one or two
  frames are still in the FIFO when the DMA is aborted (`audio.c:158, 163`), and
  are heard at the beginning of the next song (`drv_sound.c:379`).
- A write of more than the pool before the DMA runs waits for ever
  (`audio.c:394`); the player does not make one.
- A command before `wav_p` has run takes a null mutex (`wavplayer.c:87`).
- A late answer of the module completes the next command (`at_client.c:316`), a
  truncated one counts as good (745), and a response can be freed while it is
  registered (397-399).
- A "SEND OK" or "CLOSED" that comes late is counted for the next use of the same
  socket number, and a "CLOSED" between the answer to `AT+CIPSTART` and
  `at_socket.c:704` is overwritten by CONNECT: the download then ends by its
  timeout.
- `at_recvpkt_get` and `at_recvpkt_all_delete` step from a node they have freed
  (`at_socket.c:112, 167`).
- A chunked answer without song, whose first size is 0, is read as one without
  chunks (`webclient.c:793, 1163`), so that the end of its last line goes into the
  file; `Answer` has no such stream.
- After a redirection `webclient_get_file` goes on with the session that
  `webclient_get` freed (`webclient.c:911`).

## 6. Plan

Done: `WavPlayer` with its refinement of `PlayerService`, `AudioReplay`,
`FlexButton`, `IotbEvent` with `LcdMenu`, `AtClient`, `Esp8266`, `AtSocket` and
`WebClient` with the refinement of `ByteStream`, each with its proofs.

Next, in this order:

1. `FlexButton` composed with `IotbEvent`: only messages that keys can produce.
2. `LcdMenu` on `PlayerService` instead of its own summary of the player.

## 7. Coverage

The repository is a board support package with RT-Thread, the STM32 HAL, many
unused drivers and other boards' files: over 1.3 million lines, of which the
program's own logic and the packages it uses are a few thousand. The models
cover the parts that several threads share; a share of the whole says nothing
about them.
