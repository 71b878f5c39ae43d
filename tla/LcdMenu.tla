------------------------------- MODULE LcdMenu -------------------------------
(***************************************************************************)
(* The thread "lcd_thr" of applications/iotb_lcd_process.c: the loop of    *)
(* iotb_lcd_show over the pages 1 (songs of the web server), 2 (player)    *)
(* and 3 (files of the card), composed with the keys of IotbEvent.         *)
(*                                                                         *)
(* One iteration is two or three steps: "get" takes all the event bits and *)
(* runs the handler of a page that is left, "enter" the handler of the     *)
(* page entered, "refresh" the handler of a page with dynamic content and  *)
(* the delay that ends the iteration.  Everything but the bits and the     *)
(* player's state is private to this thread.  What is drawn is left out.   *)
(*                                                                         *)
(* The wav player is what WavPlayer proves of it: a call takes effect      *)
(* before it returns, and a song ends by itself.                           *)
(***************************************************************************)
EXTENDS IotbEvent, Integers

CONSTANTS
    Songs,          \* names of songs
    ServerLists,    \* the song lists the server may answer with
    ItemMax,        \* songs kept of a list (6)
    RefreshTime,    \* menu_refresh_time of pages 1, 2, 3 (5, 5 and 0: the
                    \* array has three initialisers for four slots)
    FdMax,          \* file descriptors of the file system (DFS_FD_MAX, 16)
    VolumeMin, VolumeMax,   \* limits of the keys (10 and 95)
    VolumeDefault   \* volume_value and WP_VOLUME_DEFAULT at start (55)

ASSUME MenuAssumption ==
    /\ ServerLists \subseteq Seq(Songs)
    /\ ItemMax \in Nat \ {0} /\ FdMax \in Nat \ {0}
    /\ RefreshTime \in [1 .. 3 -> Nat]
    /\ {VolumeMin, VolumeMax, VolumeDefault} \subseteq Nat
    /\ VolumeMin <= VolumeDefault /\ VolumeDefault <= VolumeMax

\* The keys' steps of 5 from the default meet both limits.
ASSUME VolumeAssumption ==
    /\ (VolumeDefault - VolumeMin) % 5 = 0
    /\ (VolumeMax - VolumeDefault) % 5 = 0

VARIABLES
    pc,             \* the step of the loop
    menu_index,     \* the page shown
    inst,           \* lcd_instance: content_type and current_event per page
    cnt,            \* delays since the last dynamic refresh
    songlist,       \* the array of names; <<>> is RT_NULL
    item_num,       \* the number of names, as last told by the server
    songlist_num,   \* the selected song, from 0
    files,          \* what the card holds of each song
    fds,            \* descriptors opened by page 2 and never closed
    is_play, is_resume,    \* iotb_music_is_play, iotb_music_is_resume
    volume_value,   \* the volume on the screen
    player,         \* the player's state
    fault,          \* history: the first access outside songlist, or the
                    \* first release of memory that was never allocated
    steady          \* history: the server always answered, and never with
                    \* fewer songs than before

loopVars == <<pc, menu_index, inst, cnt>>
listVars == <<songlist, item_num, songlist_num>>
cardVars == <<files, fds>>
flagVars == <<is_play, is_resume, volume_value>>
playerVars == <<player>>
historyVars == <<fault, steady>>
vars == <<eventVars, loopVars, listVars, cardVars, flagVars, playerVars, historyVars>>

NONE == <<"MENU", "NONE">>
ENTER == <<"MENU", "ENTER">>
EXIT == <<"MENU", "EXIT">>
NEXTSONG == <<"MENU", "NEXTSONG">>
LASTSONG == <<"MENU", "LASTSONG">>
DOWNLOAD == <<"MENU", "DOWNLOAD">>
MenuEvents == {NONE, ENTER, EXIT, NEXTSONG, LASTSONG, DOWNLOAD}

Instance(content, event) == [content |-> content, event |-> event]

\* iotb_lcd_menu_init, then the first lines of iotb_lcd_show.
Init ==
    /\ EventInit
    /\ pc = "enter" /\ menu_index = 1 /\ cnt = 0
    /\ inst = [m \in 1 .. 3 |-> Instance(IF m = 1 THEN "STATIC" ELSE "NONE", NONE)]
    /\ songlist = <<>> /\ item_num = 0 /\ songlist_num = 0
    /\ files \in [Songs -> {"none", "whole"}] /\ fds = 0
    /\ is_play = FALSE /\ is_resume = FALSE /\ volume_value = VolumeDefault
    /\ player = "STOPED"
    /\ fault = "none" /\ steady = TRUE

-----------------------------------------------------------------------------
(* iotb_lcd_show: the event bits.  All are cleared; only the first branch  *)
(* that matches is served, the other bits are lost.                        *)

At(label) == pc = label /\ fault = "none"

\* The page after m: the player's page is skipped, the last wraps to 1.
MenuAfter(m) == IF m = 3 THEN 1 ELSE 3

\* Among the keys with this bit set, the one served.
KeyServed(type) ==
    CASE <<"KEY2", type>> \in lcd_event -> "KEY2"
      [] <<"KEY1", type>> \in lcd_event -> "KEY1"
      [] OTHER                          -> "WKUP"

AnyKey(type) == \E k \in {"KEY2", "KEY1", "WKUP"} : <<k, type>> \in lcd_event

Take(label) == pc' = label /\ lcd_event' = {} /\ UNCHANGED event_mq

\* The player after the handler of page m ran with EXIT: pages 1 and 2
\* stop it.
\* A mutant in which page 2 forgets to stop the song.
PlayerAfterExitPlays(m) == IF m = 1 THEN "STOPED" ELSE player

PlayerAfterExit(m) == IF m \in {1, 2} THEN "STOPED" ELSE player

\* Leave the page: its handler runs with EXIT, then page m is set up.
Leave(m) ==
    /\ Take("enter")
    /\ player' = PlayerAfterExit(menu_index)
    /\ is_play' = (is_play /\ menu_index # 2)
    /\ inst' = [inst EXCEPT ![menu_index] = Instance("NONE", EXIT),
                            ![m] = Instance("STATIC", ENTER)]
    /\ menu_index' = m

\* Stay on the page, with content and event i.
Stay(i) ==
    /\ Take("refresh")
    /\ inst' = [inst EXCEPT ![menu_index] = i]
    /\ UNCHANGED <<menu_index, player, is_play>>

\* What a click means on page 1.
SongEvent(key) ==
    CASE key = "KEY2" -> DOWNLOAD [] key = "KEY1" -> NEXTSONG [] OTHER -> LASTSONG

GetClick ==
    LET key == KeyServed("CLICK")
    IN  CASE menu_index = 1 -> Stay(Instance("DYNAMIC", SongEvent(key)))
          [] menu_index = 2 -> IF key = "KEY2" THEN Leave(1)
                               ELSE Stay(Instance("DYNAMIC", <<key, "CLICK">>))
          [] OTHER          -> Stay(inst[menu_index])

GetEvent ==
    CASE NEXT \in lcd_event -> Leave(MenuAfter(menu_index))
      [] NEXT \notin lcd_event /\ MUSIC_PLAY \in lcd_event ->
            IF menu_index = 1 THEN Leave(2) ELSE Stay(inst[menu_index])
      [] lcd_event \cap {NEXT, MUSIC_PLAY} = {} /\ AnyKey("CLICK") -> GetClick
      [] lcd_event \cap {NEXT, MUSIC_PLAY} = {} /\ ~AnyKey("CLICK")
            /\ AnyKey("DOUBLE_CLICK") ->
            Stay(Instance("DYNAMIC", <<KeyServed("DOUBLE_CLICK"), "DOUBLE_CLICK">>))
      [] OTHER -> Stay(inst[menu_index])

Get ==
    /\ At("get")
    /\ GetEvent
    /\ UNCHANGED <<cnt, listVars, cardVars, is_resume, volume_value, historyVars>>

-----------------------------------------------------------------------------
(* Page 1: the song list of the server.                                    *)

\* The page is on; the loop sets cnt so that a key is served at once,
\* except for the page shown at start.
Entered(i) ==
    /\ pc' = "refresh"
    /\ inst' = [inst EXCEPT ![menu_index] = i]
    /\ cnt' = IF inst[menu_index].event = ENTER THEN RefreshTime[menu_index] ELSE cnt
    /\ UNCHANGED <<eventVars, menu_index>>

\* songlist[i] is memory of the list.
InList(list, i) == 0 <= i /\ i < Len(list)

Touch(list, indices) ==
    fault' = IF \A i \in indices : InList(list, i) THEN fault ELSE "access"

AtPage(label, m) == At(label) /\ menu_index = m

\* No session, no answer, or an answer that does not parse: the list and
\* its length stay as they are.
ListNotFetched ==
    /\ AtPage("enter", 1)
    /\ Entered(inst[1])
    /\ steady' = FALSE
    /\ UNCHANGED <<listVars, cardVars, flagVars, playerVars, fault>>

Kept(list) == SubSeq(list, 1, IF Len(list) > ItemMax THEN ItemMax ELSE Len(list))

\* webserver_data_parse: an empty array only clears item_num; otherwise a
\* new list is allocated and the selected song, whose number is kept from
\* the list before, is shown.
ListFetched(list) ==
    /\ AtPage("enter", 1)
    /\ Entered(inst[1])
    /\ item_num' = Len(Kept(list))
    /\ IF list = <<>> THEN UNCHANGED <<songlist, fault>>
       ELSE songlist' = Kept(list) /\ Touch(songlist', {songlist_num})
    /\ steady' = (steady /\ list # <<>> /\ item_num' >= item_num)
    /\ UNCHANGED <<songlist_num, cardVars, flagVars, playerVars>>

\* The selection after NEXTSONG and LASTSONG, and the names they draw.
\* A mutant that lets the selection run one past the end.
SongAfterRunsOn(event) ==
    IF event = NEXTSONG
    THEN IF songlist_num <= item_num - 1 THEN songlist_num + 1 ELSE 0
    ELSE IF songlist_num - 1 < 0 THEN item_num - 1 ELSE songlist_num - 1

SongAfter(event) ==
    IF event = NEXTSONG
    THEN IF songlist_num + 1 > item_num - 1 THEN 0 ELSE songlist_num + 1
    ELSE IF songlist_num - 1 < 0 THEN item_num - 1 ELSE songlist_num - 1

SongsDrawn(event) ==
    {SongAfter(event)}
       \cup (IF event = LASTSONG \/ songlist_num <= item_num - 1
             THEN {songlist_num} ELSE {})
       \cup (IF event = NEXTSONG /\ SongAfter(event) = 0 THEN {item_num - 1} ELSE {})

SelectSong ==
    /\ inst[1].event \in {NEXTSONG, LASTSONG}
    /\ songlist_num' = SongAfter(inst[1].event)
    /\ Touch(songlist, SongsDrawn(inst[1].event))
    /\ inst' = [inst EXCEPT ![1].event = NONE]
    /\ UNCHANGED <<songlist, item_num, cardVars, flagVars, playerVars, steady>>

-----------------------------------------------------------------------------
(* Page 2: the player.                                                     *)

Song == songlist[songlist_num + 1]

\* The states wavplayer_play may leave the player in, for a file of which
\* the card holds f while n descriptors are taken: the player opens the
\* file itself, and a file cut short may not be playable.
Played(f, n) ==
    IF n >= FdMax \/ f = "none" THEN {"STOPED"}
    ELSE IF f = "whole" THEN {"PLAYING"} ELSE {"PLAYING", "STOPED"}

\* The page is entered without a list, or with a selection outside it.
MusicNoSong ==
    /\ AtPage("enter", 2)
    /\ ~InList(songlist, songlist_num)
    /\ fault' = "access"
    /\ UNCHANGED <<eventVars, loopVars, listVars, cardVars, flagVars, playerVars,
                   steady>>

Cached(song) == files[song] # "none" /\ fds < FdMax

\* The open() that tests for a cached file is never closed.
MusicCached ==
    /\ AtPage("enter", 2)
    /\ InList(songlist, songlist_num)
    /\ Cached(Song)
    /\ fds' = fds + 1
    /\ player' \in Played(files[Song], fds')
    /\ is_play' = TRUE
    /\ Entered(Instance("STATIC", NONE))
    /\ UNCHANGED <<listVars, files, is_resume, volume_value, historyVars>>

\* How webclient_get_file may end: refused before the file is opened, out
\* of memory after it is, or done.  A transfer that breaks off counts as
\* done.
Downloads ==
    IF fds < FdMax THEN {"refused", "nomem", "part", "whole"} ELSE {"refused"}

\* What it leaves on the card.
FilesAfter(got) ==
    CASE got = "refused" -> files
      [] got = "nomem"   -> [files EXCEPT ![Song] = "part"]
      [] OTHER           -> [files EXCEPT ![Song] = got]

MusicDownload ==
    /\ AtPage("enter", 2)
    /\ InList(songlist, songlist_num)
    /\ ~Cached(Song)
    /\ \E got \in Downloads :
          /\ files' = FilesAfter(got)
          /\ IF got \in {"part", "whole"}
             THEN player' \in Played(got, fds) /\ is_play' = TRUE
             ELSE UNCHANGED <<player, is_play>>
    /\ Entered(Instance("STATIC", NONE))
    /\ UNCHANGED <<listVars, fds, is_resume, volume_value, historyVars>>

\* WKUP twice: stop, or play again.
PlayOrStop ==
    /\ inst[2].event = <<"WKUP", "DOUBLE_CLICK">>
    /\ is_play' = ~is_play
    /\ player' \in IF is_play THEN {"STOPED"} ELSE Played(files[Song], fds)
    /\ UNCHANGED <<is_resume, volume_value>>

\* KEY1 twice: resume, or pause, as the flag says.  The player ignores a
\* command its state does not allow.
\* A mutant that leaves the flag alone when it pauses.
ResumeAfterKept == TRUE

ResumeAfter == ~is_resume

PauseOrResume ==
    /\ inst[2].event = <<"KEY1", "DOUBLE_CLICK">>
    /\ player' = CASE is_resume /\ player = "PLAYING" -> "PAUSED"
                   [] ~is_resume /\ player = "PAUSED" -> "PLAYING"
                   [] OTHER -> player
    /\ is_resume' = ResumeAfter
    /\ UNCHANGED <<is_play, volume_value>>

\* KEY1 lowers, WKUP raises the volume by 5, within the keys' limits.
\* A mutant that also calls the player at the limit, one step further.
VolumeAfterLoose(key) ==
    IF key = "KEY1" THEN volume_value - 5 ELSE volume_value + 5

VolumeAfter(key) ==
    CASE key = "KEY1" /\ volume_value > VolumeMin -> volume_value - 5
      [] key = "WKUP" /\ volume_value < VolumeMax -> volume_value + 5
      [] OTHER -> volume_value

ChangeVolume ==
    \E key \in {"KEY1", "WKUP"} :
        /\ inst[2].event = <<key, "CLICK">>
        /\ volume_value' = VolumeAfter(key)
        /\ UNCHANGED <<is_play, is_resume, player>>

MusicKey ==
    /\ PlayOrStop \/ PauseOrResume \/ ChangeVolume
    /\ inst' = [inst EXCEPT ![2].event = NONE]
    /\ UNCHANGED <<listVars, cardVars, historyVars>>

-----------------------------------------------------------------------------
(* Page 3: the files of the card.  Entering it releases the song list:     *)
(* item_num names, read through songlist, before songlist is tested.       *)

EnterSdcard ==
    /\ AtPage("enter", 3)
    /\ Entered(inst[3])
    /\ fault' = IF item_num > Len(songlist) THEN "free" ELSE fault
    /\ songlist' = <<>>
    /\ UNCHANGED <<item_num, songlist_num, cardVars, flagVars, playerVars, steady>>

-----------------------------------------------------------------------------
(* The end of an iteration.                                                *)

Due == inst[menu_index].content = "DYNAMIC" /\ cnt >= RefreshTime[menu_index]

\* cnt after the refresh, if one was due, and the delay.
\* A mutant that starts counting anew at every iteration.
CntAfterReset == 0

CntAfter ==
    IF inst[menu_index].content = "DYNAMIC" THEN (IF Due THEN 0 ELSE cnt) + 1 ELSE cnt

EndIteration ==
    /\ pc' = "get"
    /\ cnt' = CntAfter
    /\ UNCHANGED <<eventVars, menu_index>>

\* The handler of the page does something.
RefreshKey ==
    /\ At("refresh")
    /\ Due
    /\ \/ menu_index = 1 /\ SelectSong
       \/ menu_index = 2 /\ MusicKey
    /\ EndIteration

Served(event) ==
    CASE menu_index = 1 -> event \in {NEXTSONG, LASTSONG}
      [] menu_index = 2 -> event \in {"WKUP", "KEY1"} \X {"CLICK", "DOUBLE_CLICK"}
      [] OTHER -> FALSE

\* No refresh is due, or the handler has nothing to do but draw.
RefreshIdle ==
    /\ At("refresh")
    /\ ~(Due /\ Served(inst[menu_index].event))
    /\ EndIteration
    /\ UNCHANGED <<inst, listVars, cardVars, flagVars, playerVars, historyVars>>

LcdShow ==
    \/ Get
    \/ ListNotFetched \/ (\E list \in ServerLists : ListFetched(list))
    \/ MusicNoSong \/ MusicCached \/ MusicDownload
    \/ EnterSdcard
    \/ RefreshKey \/ RefreshIdle

\* The player's thread reaches the end of the file.
SongEnds ==
    /\ player = "PLAYING" /\ fault = "none"
    /\ player' = "STOPED"
    /\ UNCHANGED <<eventVars, loopVars, listVars, cardVars, flagVars, historyVars>>

\* The keys and the thread "event_thr".  The screen's thread reads
\* lcd_event in "get" alone, so these steps commute with its other steps:
\* they are taken in "get", which loses no behaviour of either thread.
KeyStep ==
    /\ At("get")
    /\ (\E msg \in Messages : Put(msg)) \/ EventHandler
    /\ UNCHANGED <<loopVars, listVars, cardVars, flagVars, playerVars, historyVars>>

Next == LcdShow \/ KeyStep \/ SongEnds

Spec == Init /\ [][Next]_vars

\* The loop of the screen's thread runs for ever; nothing is assumed of the
\* keys, the other threads and the length of songs.
FairSpec == Spec /\ WF_vars(LcdShow)

-----------------------------------------------------------------------------
(* Properties *)

\* Ranges of the state; the volume stays within the keys' limits and the
\* refresh counter never passes its threshold.
TypeOK ==
    /\ event_mq \in Seq(Messages) /\ Len(event_mq) <= MqCapacity
    /\ lcd_event \subseteq AllBits
    /\ pc \in {"get", "enter", "refresh"}
    /\ menu_index \in 1 .. 3
    /\ inst \in [1 .. 3 -> [content : {"NONE", "STATIC", "DYNAMIC"},
                             event : MenuEvents \cup AllBits]]
    /\ cnt \in 0 .. (RefreshTime[1] + RefreshTime[2] + RefreshTime[3] + 1)
    /\ songlist \in Seq(Songs) /\ Len(songlist) <= ItemMax
    /\ item_num \in 0 .. ItemMax /\ songlist_num \in -1 .. ItemMax
    /\ files \in [Songs -> {"none", "part", "whole"}] /\ fds \in 0 .. FdMax
    /\ is_play \in BOOLEAN /\ is_resume \in BOOLEAN
    /\ volume_value \in VolumeMin .. VolumeMax
    /\ player \in {"STOPED", "PLAYING", "PAUSED"}
    /\ fault \in {"none", "access", "free"} /\ steady \in BOOLEAN

\* While the server answers every time, and never with fewer songs than the
\* last time, no sequence of keys makes the pages read outside the list or
\* release it twice: the selection, the list and its length agree although
\* three pages change them.
SteadyServerSafe == steady => fault = "none"

\* "Stop playing when the page changes": no song plays or is paused while
\* another page than the player's is shown.
SilentOffMusicPage == menu_index # 2 => player = "STOPED"

\* The stop/play key never starts a second song over a playing one: when
\* its flag says stopped, the player is.
StoppedFlagTrue == ~is_play => player = "STOPED"

\* A paused song can always be resumed with the pause/resume key.
PausedCanResume == player = "PAUSED" => ~is_resume

\* The two flags the page keeps of its own follow the player, whatever keys,
\* ends of songs and failed plays come (iotb_lcd_process.c:587-640).
FlagsTrue == StoppedFlagTrue /\ PausedCanResume

\* The refresh counter is reset by pages and refreshes, never by keys: however
\* fast they come, once a volume or play key is pending on the player's page a
\* key is served (only that makes the event NONE), or the page is left.  It need
\* not be the same key: the next one overwrites current_event before the refresh
\* is due (iotb_lcd_process.c:217-220, 228-234).  Nor any, if the last of them is
\* a double click of KEY2, which no handler serves and which stays.
MusicKeysNotStarved ==
    (fault = "none" /\ menu_index = 2 /\ Served(inst[2].event))
        ~> (menu_index # 2 \/ inst[2].event \in {NONE, <<"KEY2", "DOUBLE_CLICK">>})

\* What the comment in iotb_lcd_show_sdcard says: what is released is the
\* memory page 1 allocated before.
ReleasesWhatWasAllocated == fault # "free"
=============================================================================
