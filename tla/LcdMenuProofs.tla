---------------------------- MODULE LcdMenuProofs ----------------------------
(***************************************************************************)
(* The safety invariants of LcdMenu, for any songs, any lists the server   *)
(* may answer with, any sizes and refresh times, and any messages of the   *)
(* keys.                                                                   *)
(*                                                                         *)
(* What the pages of the player promise is inductive page by page          *)
(* (PlayerInv).  That nothing is read outside the list is not: songlist,   *)
(* item_num and songlist_num are changed by two pages, and agree only      *)
(* because the page that releases the list is left for the page that       *)
(* fetches it (ListInv).                                                   *)
(***************************************************************************)
EXTENDS LcdMenu, TLAPS

\* The selected song is one of the list as last told, and the list is there,
\* except while page 1 fetches it and while page 3, which releases it, is on.
\* The pages are entered so that these two follow each other.
ListInv ==
    /\ \/ songlist_num \in 0 .. (item_num - 1)
       \/ menu_index = 1 /\ pc = "enter" /\ songlist_num = 0 /\ item_num = 0
    /\ \/ menu_index = 1 /\ pc = "enter"
       \/ menu_index = 3 /\ pc # "enter"
       \/ Len(songlist) = item_num

\* With a steady server all of this holds, and no access has gone wrong.
SteadyInv == steady => fault = "none" /\ ListInv

\* The flags of page 2 follow the player.
PlayerInv == SilentOffMusicPage /\ StoppedFlagTrue /\ PausedCanResume

\* The volume is a number of steps away from both limits.
VolumeInv == (volume_value - VolumeMin) % 5 = 0

\* The inductive invariant.
IInv == TypeOK /\ SteadyInv /\ PlayerInv /\ VolumeInv

-----------------------------------------------------------------------------
(* Types.                                                                  *)

\* What a page may be told to show, and the event it may serve.
Instances == [content : {"NONE", "STATIC", "DYNAMIC"},
              event : MenuEvents \cup AllBits]

\* Every message becomes bits of the event set.
LEMMA BitsOfMessage ==
    ASSUME NEW msg \in Keys \X Types
    PROVE  LcdBits(msg) \subseteq AllBits
BY DEF AllBits

\* A click or double click of KEY1, KEY2 or WKUP is a bit.
LEMMA KeyBits ==
    ASSUME NEW k \in {"KEY2", "KEY1", "WKUP"},
           NEW type \in {"CLICK", "DOUBLE_CLICK"}
    PROVE  <<k, type>> \in AllBits
<1>1. <<k, type>> \in Keys \X Types
    BY DEF Keys, Types
<1>2. LcdBits(<<k, type>>) = {<<k, type>>}
    BY DEF LcdBits
<1>. QED BY <1>1, <1>2 DEF AllBits

\* What the loop makes of the bits: a page is left for another one, page 3
\* only for page 1, or the page stays on with an event of its own.
LEMMA GetCases ==
    ASSUME TypeOK, Get
    PROVE  \/ \E m \in 1 .. 3 : Leave(m) /\ (menu_index = 3 => m = 1)
           \/ \E i \in Instances : Stay(i)
<1>1. GetEvent
    BY DEF Get
<1>2. inst[menu_index] \in Instances
    BY DEF TypeOK, Instances
<1>3. /\ MenuAfter(menu_index) \in 1 .. 3
      /\ menu_index = 3 => MenuAfter(menu_index) = 1
    BY DEF MenuAfter
<1>4. ASSUME NEW type PROVE KeyServed(type) \in {"KEY2", "KEY1", "WKUP"}
    BY DEF KeyServed
<1>5. ASSUME NEW type \in {"CLICK", "DOUBLE_CLICK"}
      PROVE  Instance("DYNAMIC", <<KeyServed(type), type>>) \in Instances
    <2>1. <<KeyServed(type), type>> \in AllBits
        BY <1>4, KeyBits
    <2>. QED BY <2>1 DEF Instance, Instances
<1>6. ASSUME NEW key PROVE Instance("DYNAMIC", SongEvent(key)) \in Instances
    BY DEF Instance, Instances, SongEvent, MenuEvents
<1>7. CASE NEXT \in lcd_event
    <2>1. Leave(MenuAfter(menu_index))
        BY <1>1, <1>7 DEF GetEvent
    <2>. QED BY <1>3, <2>1
<1>8. CASE NEXT \notin lcd_event /\ MUSIC_PLAY \in lcd_event
    <2>1. IF menu_index = 1 THEN Leave(2) ELSE Stay(inst[menu_index])
        BY <1>1, <1>8 DEF GetEvent
    <2>. QED BY <1>2, <2>1
<1>9. CASE lcd_event \cap {NEXT, MUSIC_PLAY} = {} /\ AnyKey("CLICK")
    <2>1. GetClick
        BY <1>1, <1>9 DEF GetEvent
    <2>2. CASE menu_index = 1
        <3>1. Stay(Instance("DYNAMIC", SongEvent(KeyServed("CLICK"))))
            BY <2>1, <2>2 DEF GetClick
        <3>. QED BY <1>6, <3>1
    <2>3. CASE menu_index = 2
        <3>1. \/ Leave(1)
              \/ Stay(Instance("DYNAMIC", <<KeyServed("CLICK"), "CLICK">>))
            BY <2>1, <2>3 DEF GetClick
        <3>2. Instance("DYNAMIC", <<KeyServed("CLICK"), "CLICK">>) \in Instances
            BY <1>5
        <3>. QED BY <3>1, <3>2
    <2>4. CASE menu_index = 3
        <3>1. Stay(inst[menu_index])
            BY <2>1, <2>4 DEF GetClick
        <3>. QED BY <1>2, <3>1
    <2>. QED BY <2>2, <2>3, <2>4 DEF TypeOK
<1>10. CASE /\ lcd_event \cap {NEXT, MUSIC_PLAY} = {} /\ ~AnyKey("CLICK")
            /\ AnyKey("DOUBLE_CLICK")
    <2>1. Stay(Instance("DYNAMIC", <<KeyServed("DOUBLE_CLICK"), "DOUBLE_CLICK">>))
        BY <1>1, <1>10 DEF GetEvent
    <2>. QED BY <1>5, <2>1
<1>11. CASE /\ lcd_event \cap {NEXT, MUSIC_PLAY} = {} /\ ~AnyKey("CLICK")
            /\ ~AnyKey("DOUBLE_CLICK")
    <2>1. Stay(inst[menu_index])
        BY <1>1, <1>11 DEF GetEvent
    <2>. QED BY <1>2, <2>1
<1>. QED BY <1>7, <1>8, <1>9, <1>10, <1>11

\* The page entered, and a threshold of cnt, are in range.
LEMMA EnteredTyped ==
    ASSUME TypeOK, NEW i \in Instances, Entered(i)
    PROVE  /\ event_mq' \in Seq(Messages) /\ Len(event_mq') <= MqCapacity
           /\ lcd_event' \subseteq AllBits /\ pc' = "refresh"
           /\ menu_index' = menu_index /\ inst' \in [1 .. 3 -> Instances]
           /\ cnt' \in 0 .. (RefreshTime[1] + RefreshTime[2] + RefreshTime[3] + 1)
<1>1. RefreshTime[1] \in Nat /\ RefreshTime[2] \in Nat /\ RefreshTime[3] \in Nat
    BY MenuAssumption
<1>2. menu_index \in 1 .. 3 /\ RefreshTime[menu_index] \in
        {RefreshTime[1], RefreshTime[2], RefreshTime[3]}
    BY DEF TypeOK
<1>3. cnt' \in {cnt, RefreshTime[menu_index]}
    BY DEF Entered
<1>4. cnt' \in 0 .. (RefreshTime[1] + RefreshTime[2] + RefreshTime[3] + 1)
    <2>1. cnt \in 0 .. (RefreshTime[1] + RefreshTime[2] + RefreshTime[3] + 1)
        BY DEF TypeOK
    <2>2. RefreshTime[menu_index] \in
            0 .. (RefreshTime[1] + RefreshTime[2] + RefreshTime[3] + 1)
        BY <1>1, <1>2
    <2>. QED BY <1>3, <2>1, <2>2
<1>. QED BY <1>4 DEF Entered, TypeOK, Instances, eventVars

\* The refresh counter never passes its threshold by more than the delay.
LEMMA CntTyped ==
    ASSUME TypeOK
    PROVE  CntAfter \in 0 .. (RefreshTime[1] + RefreshTime[2] + RefreshTime[3] + 1)
<1>1. RefreshTime[1] \in Nat /\ RefreshTime[2] \in Nat /\ RefreshTime[3] \in Nat
    BY MenuAssumption
<1>2. menu_index \in 1 .. 3 /\ RefreshTime[menu_index] \in
        {RefreshTime[1], RefreshTime[2], RefreshTime[3]}
    BY DEF TypeOK
<1>3. cnt \in 0 .. (RefreshTime[1] + RefreshTime[2] + RefreshTime[3] + 1)
    BY DEF TypeOK
<1>4. CASE inst[menu_index].content # "DYNAMIC"
    BY <1>3, <1>4 DEF CntAfter
<1>5. CASE inst[menu_index].content = "DYNAMIC" /\ cnt >= RefreshTime[menu_index]
    BY <1>1, <1>5 DEF CntAfter, Due
<1>6. CASE inst[menu_index].content = "DYNAMIC" /\ ~(cnt >= RefreshTime[menu_index])
    BY <1>1, <1>2, <1>3, <1>6 DEF CntAfter, Due
<1>. QED BY <1>4, <1>5, <1>6

\* The player is left in one of its states, and not paused.
LEMMA PlayedTyped ==
    ASSUME NEW f, NEW n, NEW p \in Played(f, n)
    PROVE  p \in {"STOPED", "PLAYING"}
BY DEF Played

\* A step of 5 stops at both limits.
LEMMA VolumeStep ==
    ASSUME volume_value \in VolumeMin .. VolumeMax,
           (volume_value - VolumeMin) % 5 = 0,
           NEW key \in {"KEY1", "WKUP"}
    PROVE  /\ VolumeAfter(key) \in VolumeMin .. VolumeMax
           /\ (VolumeAfter(key) - VolumeMin) % 5 = 0
<1>1. /\ VolumeMin \in Nat /\ VolumeMax \in Nat /\ volume_value \in Int
      /\ (VolumeMax - VolumeMin) % 5 = 0
    <2>1. VolumeMin \in Nat /\ VolumeMax \in Nat /\ VolumeDefault \in Nat
        BY MenuAssumption
    <2>2. volume_value \in Int
        BY <2>1
    <2>3. (VolumeMax - VolumeMin) % 5 = 0
        BY <2>1, VolumeAssumption
    <2>. QED BY <2>1, <2>2, <2>3
<1>2. CASE key = "KEY1" /\ volume_value > VolumeMin
    <2>1. VolumeAfter(key) = volume_value - 5
        BY <1>2 DEF VolumeAfter
    <2>. QED BY <1>1, <1>2, <2>1
<1>3. CASE key = "WKUP" /\ volume_value < VolumeMax
    <2>1. VolumeAfter(key) = volume_value + 5
        BY <1>3 DEF VolumeAfter
    <2>. QED BY <1>1, <1>3, <2>1
<1>4. CASE ~(key = "KEY1" /\ volume_value > VolumeMin)
           /\ ~(key = "WKUP" /\ volume_value < VolumeMax)
    <2>1. VolumeAfter(key) = volume_value
        BY <1>4 DEF VolumeAfter
    <2>. QED BY <2>1
<1>. QED BY <1>2, <1>3, <1>4

-----------------------------------------------------------------------------
(* Every step preserves the invariant.                                     *)

\* A key or the event thread: the queue and the bits stay theirs.
LEMMA KeyStepStep ==
    ASSUME IInv, KeyStep
    PROVE  IInv'
<1>. USE DEF IInv, KeyStep, AtPage, At,
            eventVars, loopVars, listVars, cardVars, flagVars, playerVars,
            historyVars
<1>1. TypeOK'
    <2>1. ASSUME NEW msg \in Messages, Put(msg)
          PROVE  /\ event_mq' \in Seq(Messages) /\ Len(event_mq') <= MqCapacity
                 /\ lcd_event' = lcd_event
        BY <2>1, CapacityAssumption DEF Put, TypeOK
    <2>2. ASSUME EventHandler
          PROVE  /\ event_mq' \in Seq(Messages) /\ Len(event_mq') <= MqCapacity
                 /\ lcd_event' \subseteq AllBits
        <3>1. Head(event_mq) \in Messages /\ event_mq' \in Seq(Messages)
              /\ Len(event_mq') <= Len(event_mq)
            BY <2>2 DEF EventHandler, TypeOK
        <3>2. LcdBits(Head(event_mq)) \subseteq AllBits
            BY <3>1, BitsOfMessage, MessagesAssumption
        <3>. QED BY <2>2, <3>1, <3>2, CapacityAssumption DEF EventHandler, TypeOK
    <2>. QED BY <2>1, <2>2 DEF TypeOK
<1>2. SteadyInv'
    BY DEF SteadyInv, ListInv
<1>3. PlayerInv'
    BY DEF PlayerInv, SilentOffMusicPage, StoppedFlagTrue, PausedCanResume
<1>4. VolumeInv'
    BY DEF VolumeInv
<1>. QED BY <1>1, <1>2, <1>3, <1>4

\* The end of a song only stops the player.
LEMMA SongEndsStep ==
    ASSUME IInv, SongEnds
    PROVE  IInv'
<1>. USE DEF IInv, SongEnds, AtPage, At,
            eventVars, loopVars, listVars, cardVars, flagVars, playerVars,
            historyVars
<1>1. TypeOK'
    BY DEF TypeOK
<1>2. SteadyInv'
    BY DEF SteadyInv, ListInv
<1>3. PlayerInv'
    BY DEF PlayerInv, SilentOffMusicPage, StoppedFlagTrue, PausedCanResume
<1>4. VolumeInv'
    BY DEF VolumeInv
<1>. QED BY <1>1, <1>2, <1>3, <1>4

\* Leaving pages 1 and 2 stops the player; page 3 is left for page 1.
LEMMA GetStep ==
    ASSUME IInv, Get
    PROVE  IInv'
<1>. USE DEF IInv, Get, AtPage, At,
            eventVars, loopVars, listVars, cardVars, flagVars, playerVars,
            historyVars
<1>a. CASE \E m \in 1 .. 3 : Leave(m) /\ (menu_index = 3 => m = 1)
    <2>. PICK m \in 1 .. 3 : Leave(m) /\ (menu_index = 3 => m = 1)
        BY <1>a
    <2>0. /\ pc' = "enter" /\ lcd_event' = {} /\ event_mq' = event_mq
          /\ menu_index' = m
          /\ player' = PlayerAfterExit(menu_index)
          /\ is_play' = (is_play /\ menu_index # 2)
          /\ inst' = [inst EXCEPT ![menu_index] = Instance("NONE", EXIT),
                                  ![m] = Instance("STATIC", ENTER)]
        BY DEF Leave, Take
    <2>1. TypeOK'
        <3>1. inst' \in [1 .. 3 -> Instances]
            BY <2>0 DEF TypeOK, Instances, Instance, MenuEvents
        <3>2. player' \in {"STOPED", "PLAYING", "PAUSED"}
            BY <2>0 DEF TypeOK, PlayerAfterExit
        <3>. QED BY <2>0, <3>1, <3>2 DEF TypeOK, Instances
    <2>2. SteadyInv'
        BY <2>0 DEF SteadyInv, ListInv, TypeOK
    <2>3. PlayerInv'
        BY <2>0 DEF PlayerInv, SilentOffMusicPage, StoppedFlagTrue,
                    PausedCanResume, PlayerAfterExit, TypeOK
    <2>4. VolumeInv'
        BY DEF VolumeInv
    <2>. QED BY <2>1, <2>2, <2>3, <2>4
<1>b. CASE \E i \in Instances : Stay(i)
    <2>. PICK i \in Instances : Stay(i)
        BY <1>b
    <2>0. /\ pc' = "refresh" /\ lcd_event' = {} /\ event_mq' = event_mq
          /\ inst' = [inst EXCEPT ![menu_index] = i]
          /\ menu_index' = menu_index /\ player' = player /\ is_play' = is_play
        BY DEF Stay, Take
    <2>1. TypeOK'
        BY <2>0 DEF TypeOK, Instances
    <2>2. SteadyInv'
        BY <2>0 DEF SteadyInv, ListInv
    <2>3. PlayerInv'
        BY <2>0
        DEF PlayerInv, SilentOffMusicPage, StoppedFlagTrue, PausedCanResume
    <2>4. VolumeInv'
        BY DEF VolumeInv
    <2>. QED BY <2>1, <2>2, <2>3, <2>4
<1>. QED BY <1>a, <1>b, GetCases

\* A server that does not answer is not steady.
LEMMA ListNotFetchedStep ==
    ASSUME IInv, ListNotFetched
    PROVE  IInv'
<1>. USE DEF IInv, ListNotFetched, AtPage, At,
            eventVars, loopVars, listVars, cardVars, flagVars, playerVars,
            historyVars
<1>a. /\ event_mq' \in Seq(Messages) /\ Len(event_mq') <= MqCapacity
      /\ lcd_event' \subseteq AllBits /\ pc' = "refresh"
      /\ menu_index' = menu_index /\ inst' \in [1 .. 3 -> Instances]
      /\ cnt' \in 0 .. (RefreshTime[1] + RefreshTime[2] + RefreshTime[3] + 1)
    <2>1. inst[1] \in Instances
        BY DEF TypeOK, Instances, Instance, MenuEvents
    <2>. QED BY <2>1, EnteredTyped
<1>1. TypeOK'
    BY <1>a DEF TypeOK, Instances
<1>2. SteadyInv'
    BY <1>a DEF SteadyInv, ListInv
<1>3. PlayerInv'
    BY <1>a
    DEF PlayerInv, SilentOffMusicPage, StoppedFlagTrue, PausedCanResume
<1>4. VolumeInv'
    BY DEF VolumeInv
<1>. QED BY <1>1, <1>2, <1>3, <1>4

\* A steady server's list holds the song selected before.
LEMMA ListFetchedStep ==
    ASSUME IInv, NEW list \in ServerLists, ListFetched(list)
    PROVE  IInv'
<1>. USE DEF IInv, ListFetched, AtPage, At,
            eventVars, loopVars, listVars, cardVars, flagVars, playerVars,
            historyVars
<1>a. /\ event_mq' \in Seq(Messages) /\ Len(event_mq') <= MqCapacity
      /\ lcd_event' \subseteq AllBits /\ pc' = "refresh"
      /\ menu_index' = menu_index /\ inst' \in [1 .. 3 -> Instances]
      /\ cnt' \in 0 .. (RefreshTime[1] + RefreshTime[2] + RefreshTime[3] + 1)
    <2>1. inst[1] \in Instances
        BY DEF TypeOK, Instances, Instance, MenuEvents
    <2>. QED BY <2>1, EnteredTyped
<1>b. /\ Kept(list) \in Seq(Songs) /\ Len(Kept(list)) \in 0 .. ItemMax
      /\ list # <<>> => Len(Kept(list)) > 0
    <2>1. list \in Seq(Songs) /\ ItemMax \in Nat \ {0} /\ Len(list) \in Nat
        BY MenuAssumption
    <2>. DEFINE n == IF Len(list) > ItemMax THEN ItemMax ELSE Len(list)
    <2>2. n \in 0 .. ItemMax /\ n <= Len(list) /\ (list # <<>> => n > 0)
        BY <2>1
    <2>3. Kept(list) = SubSeq(list, 1, n)
        BY DEF Kept
    <2>. HIDE DEF n
    <2>. QED BY <2>1, <2>2, <2>3
<1>c. /\ item_num' = Len(Kept(list))
      /\ songlist' \in {songlist, Kept(list)} /\ fault' \in {"none", "access"}
      /\ list # <<>> => /\ songlist' = Kept(list)
                        /\ fault' = IF InList(Kept(list), songlist_num)
                                    THEN fault ELSE "access"
    BY DEF Touch
<1>1. TypeOK'
    BY <1>a, <1>b, <1>c DEF TypeOK, Instances
<1>2. SteadyInv'
    <2>. SUFFICES ASSUME steady' PROVE fault' = "none" /\ ListInv'
        BY DEF SteadyInv
    <2>1. /\ steady /\ list # <<>> /\ item_num' >= item_num
          /\ item_num \in Nat /\ item_num' \in Nat \ {0}
          /\ songlist_num' = songlist_num
        <3>1. steady /\ list # <<>> /\ item_num' >= item_num
            OBVIOUS
        <3>2. item_num \in Nat
            BY MenuAssumption DEF TypeOK
        <3>3. item_num' \in Nat \ {0}
            BY <1>b, <1>c, <3>1
        <3>. QED BY <3>1, <3>2, <3>3
    <2>2. songlist_num \in 0 .. (item_num' - 1)
        BY <2>1 DEF SteadyInv, ListInv
    <2>3. fault' = "none"
        BY <1>c, <2>1, <2>2 DEF InList
    <2>. QED BY <1>a, <1>c, <2>1, <2>2, <2>3 DEF ListInv
<1>3. PlayerInv'
    BY <1>a
    DEF PlayerInv, SilentOffMusicPage, StoppedFlagTrue, PausedCanResume
<1>4. VolumeInv'
    BY DEF VolumeInv
<1>. QED BY <1>1, <1>2, <1>3, <1>4

\* With a list and a selection inside it page 2 finds its song.
LEMMA MusicNoSongStep ==
    ASSUME IInv, MusicNoSong
    PROVE  IInv'
<1>. USE DEF IInv, MusicNoSong, AtPage, At,
            eventVars, loopVars, listVars, cardVars, flagVars, playerVars,
            historyVars
<1>1. TypeOK'
    BY DEF TypeOK
<1>2. SteadyInv'
    <2>1. steady => InList(songlist, songlist_num)
        BY DEF SteadyInv, ListInv, InList, TypeOK
    <2>. QED BY <2>1 DEF SteadyInv
<1>3. PlayerInv'
    BY DEF PlayerInv, SilentOffMusicPage, StoppedFlagTrue, PausedCanResume
<1>4. VolumeInv'
    BY DEF VolumeInv
<1>. QED BY <1>1, <1>2, <1>3, <1>4

\* A cached song is played, or its file cannot be opened.
LEMMA MusicCachedStep ==
    ASSUME IInv, MusicCached
    PROVE  IInv'
<1>. USE DEF IInv, MusicCached, AtPage, At,
            eventVars, loopVars, listVars, cardVars, flagVars, playerVars,
            historyVars
<1>a. /\ event_mq' \in Seq(Messages) /\ Len(event_mq') <= MqCapacity
      /\ lcd_event' \subseteq AllBits /\ pc' = "refresh"
      /\ menu_index' = menu_index /\ inst' \in [1 .. 3 -> Instances]
      /\ cnt' \in 0 .. (RefreshTime[1] + RefreshTime[2] + RefreshTime[3] + 1)
    <2>1. Instance("STATIC", NONE) \in Instances
        BY DEF TypeOK, Instances, Instance, MenuEvents
    <2>. QED BY <2>1, EnteredTyped
<1>b. player' \in {"STOPED", "PLAYING"}
    BY PlayedTyped
<1>1. TypeOK'
    <2>1. fds' \in 0 .. FdMax
        BY MenuAssumption DEF TypeOK, Cached
    <2>. QED BY <1>a, <1>b, <2>1 DEF TypeOK, Instances
<1>2. SteadyInv'
    BY <1>a DEF SteadyInv, ListInv
<1>3. PlayerInv'
    BY <1>a, <1>b
    DEF PlayerInv, SilentOffMusicPage, StoppedFlagTrue, PausedCanResume
<1>4. VolumeInv'
    BY DEF VolumeInv
<1>. QED BY <1>1, <1>2, <1>3, <1>4

\* A song that was downloaded is played; after a refusal nothing changes.
LEMMA MusicDownloadStep ==
    ASSUME IInv, MusicDownload
    PROVE  IInv'
<1>. USE DEF IInv, MusicDownload, AtPage, At,
            eventVars, loopVars, listVars, cardVars, flagVars, playerVars,
            historyVars
<1>a. /\ event_mq' \in Seq(Messages) /\ Len(event_mq') <= MqCapacity
      /\ lcd_event' \subseteq AllBits /\ pc' = "refresh"
      /\ menu_index' = menu_index /\ inst' \in [1 .. 3 -> Instances]
      /\ cnt' \in 0 .. (RefreshTime[1] + RefreshTime[2] + RefreshTime[3] + 1)
    <2>1. Instance("STATIC", NONE) \in Instances
        BY DEF TypeOK, Instances, Instance, MenuEvents
    <2>. QED BY <2>1, EnteredTyped
<1>b. PICK got \in Downloads :
        /\ files' = FilesAfter(got)
        /\ IF got \in {"part", "whole"}
           THEN player' \in Played(got, fds) /\ is_play' = TRUE
           ELSE UNCHANGED <<player, is_play>>
    OBVIOUS
<1>c. \/ player' \in {"STOPED", "PLAYING"} /\ is_play' = TRUE
      \/ player' = player /\ is_play' = is_play
    <2>1. CASE got \in {"part", "whole"}
        <3>1. player' \in Played(got, fds) /\ is_play' = TRUE
            BY <1>b, <2>1
        <3>2. player' \in {"STOPED", "PLAYING"}
            <4>. HIDE DEF IInv, MusicDownload
            <4>. QED BY <3>1, PlayedTyped
        <3>. HIDE DEF IInv, MusicDownload
        <3>. QED BY <3>1, <3>2
    <2>2. CASE got \notin {"part", "whole"}
        BY <1>b, <2>2
    <2>. QED BY <2>1, <2>2
<1>1. TypeOK'
    <2>1. files' \in [Songs -> {"none", "part", "whole"}]
        <3>1. got \in {"refused", "nomem", "part", "whole"}
            BY DEF Downloads
        <3>2. files \in [Songs -> {"none", "part", "whole"}]
            BY DEF TypeOK
        <3>. QED BY <1>b, <3>1, <3>2 DEF FilesAfter
    <2>2. is_play' \in BOOLEAN /\ player' \in {"STOPED", "PLAYING", "PAUSED"}
        BY <1>c DEF TypeOK
    <2>. QED BY <1>a, <2>1, <2>2 DEF TypeOK, Instances
<1>2. SteadyInv'
    BY <1>a DEF SteadyInv, ListInv
<1>3. PlayerInv'
    BY <1>a, <1>c
    DEF PlayerInv, SilentOffMusicPage, StoppedFlagTrue, PausedCanResume
<1>4. VolumeInv'
    BY DEF VolumeInv
<1>. QED BY <1>1, <1>2, <1>3, <1>4

\* The list that page 3 releases is as long as it was told.
LEMMA EnterSdcardStep ==
    ASSUME IInv, EnterSdcard
    PROVE  IInv'
<1>. USE DEF IInv, EnterSdcard, AtPage, At,
            eventVars, loopVars, listVars, cardVars, flagVars, playerVars,
            historyVars
<1>a. /\ event_mq' \in Seq(Messages) /\ Len(event_mq') <= MqCapacity
      /\ lcd_event' \subseteq AllBits /\ pc' = "refresh"
      /\ menu_index' = menu_index /\ inst' \in [1 .. 3 -> Instances]
      /\ cnt' \in 0 .. (RefreshTime[1] + RefreshTime[2] + RefreshTime[3] + 1)
    <2>1. inst[3] \in Instances
        BY DEF TypeOK, Instances, Instance, MenuEvents
    <2>. QED BY <2>1, EnteredTyped
<1>1. TypeOK'
    <2>1. /\ songlist' \in Seq(Songs) /\ Len(songlist') <= ItemMax
          /\ fault' \in {"none", "access", "free"}
        <3>1. ItemMax \in Nat /\ <<>> \in Seq(Songs) /\ Len(<<>>) = 0
            BY MenuAssumption
        <3>. QED BY <3>1 DEF TypeOK
    <2>. QED BY <1>a, <2>1 DEF TypeOK, Instances
<1>2. SteadyInv'
    <2>1. steady => ~(item_num > Len(songlist))
        BY DEF SteadyInv, ListInv, TypeOK
    <2>. QED BY <1>a, <2>1 DEF SteadyInv, ListInv
<1>3. PlayerInv'
    BY <1>a
    DEF PlayerInv, SilentOffMusicPage, StoppedFlagTrue, PausedCanResume
<1>4. VolumeInv'
    BY DEF VolumeInv
<1>. QED BY <1>1, <1>2, <1>3, <1>4

\* The selection moves inside the list.
LEMMA SelectSongStep ==
    ASSUME IInv, At("refresh"), menu_index = 1,
           SelectSong /\ EndIteration
    PROVE  IInv'
<1>. USE DEF IInv, SelectSong, EndIteration, AtPage, At,
            eventVars, loopVars, listVars, cardVars, flagVars, playerVars,
            historyVars
<1>a. /\ pc' = "get" /\ cnt' = CntAfter /\ menu_index' = menu_index
      /\ event_mq' = event_mq /\ lcd_event' = lcd_event
      /\ CntAfter \in 0 .. (RefreshTime[1] + RefreshTime[2] + RefreshTime[3] + 1)
    BY CntTyped DEF EndIteration
<1>b. inst' \in [1 .. 3 -> Instances]
    BY DEF TypeOK, Instances, MenuEvents
<1>c. songlist_num' = SongAfter(inst[1].event) /\ item_num' = item_num
    OBVIOUS
<1>d. songlist_num' \in -1 .. ItemMax
    <2>1. /\ ItemMax \in Nat \ {0} /\ item_num \in 0 .. ItemMax
          /\ songlist_num \in -1 .. ItemMax
        BY MenuAssumption DEF TypeOK
    <2>2. SongAfter(inst[1].event) \in -1 .. ItemMax
        BY <2>1 DEF SongAfter
    <2>. QED BY <1>c, <2>2
<1>e. steady => /\ \A i \in SongsDrawn(inst[1].event) : InList(songlist, i)
                /\ songlist_num' \in 0 .. (item_num - 1)
    <2>1. steady => /\ item_num \in Nat \ {0} /\ Len(songlist) = item_num
                    /\ songlist_num \in 0 .. (item_num - 1)
        BY DEF SteadyInv, ListInv, TypeOK
    <2>2. steady => songlist_num' \in 0 .. (item_num - 1)
        BY <1>c, <2>1 DEF SongAfter
    <2>. QED BY <1>c, <2>1, <2>2 DEF SongsDrawn, InList
<1>1. TypeOK'
    <2>1. fault' \in {"none", "access", "free"}
        BY DEF Touch, TypeOK
    <2>. QED BY <1>a, <1>b, <1>d, <2>1 DEF TypeOK, Instances
<1>2. SteadyInv'
    <2>1. steady => fault' = fault
        BY <1>e DEF Touch
    <2>. QED BY <1>a, <1>c, <1>e, <2>1 DEF SteadyInv, ListInv
<1>3. PlayerInv'
    BY <1>a
    DEF PlayerInv, SilentOffMusicPage, StoppedFlagTrue, PausedCanResume
<1>4. VolumeInv'
    BY DEF VolumeInv
<1>. QED BY <1>1, <1>2, <1>3, <1>4

\* The keys of page 2: the two flags follow the player.
LEMMA MusicKeyStep ==
    ASSUME IInv, At("refresh"), menu_index = 2,
           MusicKey /\ EndIteration
    PROVE  IInv'
<1>. USE DEF IInv, MusicKey, EndIteration, AtPage, At,
            eventVars, loopVars, listVars, cardVars, flagVars, playerVars,
            historyVars
<1>a. /\ pc' = "get" /\ cnt' = CntAfter /\ menu_index' = menu_index
      /\ event_mq' = event_mq /\ lcd_event' = lcd_event
      /\ CntAfter \in 0 .. (RefreshTime[1] + RefreshTime[2] + RefreshTime[3] + 1)
    BY CntTyped DEF EndIteration
<1>b. inst' \in [1 .. 3 -> Instances]
    BY DEF TypeOK, Instances, MenuEvents
<1>c. /\ is_play' \in BOOLEAN /\ is_resume' \in BOOLEAN
      /\ player' \in {"STOPED", "PLAYING", "PAUSED"}
      /\ (~is_play' => player' = "STOPED") /\ (player' = "PAUSED" => ~is_resume')
      /\ volume_value' \in VolumeMin .. VolumeMax
      /\ (volume_value' - VolumeMin) % 5 = 0
    <2>0. /\ is_play \in BOOLEAN /\ is_resume \in BOOLEAN
          /\ player \in {"STOPED", "PLAYING", "PAUSED"}
          /\ (~is_play => player = "STOPED") /\ (player = "PAUSED" => ~is_resume)
          /\ volume_value \in VolumeMin .. VolumeMax
          /\ (volume_value - VolumeMin) % 5 = 0
        BY DEF TypeOK, PlayerInv, StoppedFlagTrue, PausedCanResume, VolumeInv
    <2>1. CASE PlayOrStop
        <3>1. \/ player' = "STOPED"
              \/ ~is_play /\ player' \in {"STOPED", "PLAYING"}
            BY <2>1, PlayedTyped DEF PlayOrStop
        <3>. QED BY <2>0, <2>1, <3>1 DEF PlayOrStop
    <2>2. CASE PauseOrResume
        BY <2>0, <2>2 DEF PauseOrResume, ResumeAfter
    <2>3. CASE ChangeVolume
        <3>1. PICK key \in {"KEY1", "WKUP"} : volume_value' = VolumeAfter(key)
            BY <2>3 DEF ChangeVolume
        <3>2. volume_value' \in VolumeMin .. VolumeMax
              /\ (volume_value' - VolumeMin) % 5 = 0
            BY <2>0, <3>1, VolumeStep
        <3>. QED BY <2>0, <2>3, <3>2 DEF ChangeVolume
    <2>. QED BY <2>1, <2>2, <2>3
<1>1. TypeOK'
    BY <1>a, <1>b, <1>c DEF TypeOK, Instances
<1>2. SteadyInv'
    BY <1>a DEF SteadyInv, ListInv
<1>3. PlayerInv'
    BY <1>a, <1>c
    DEF PlayerInv, SilentOffMusicPage, StoppedFlagTrue, PausedCanResume
<1>4. VolumeInv'
    BY <1>c DEF VolumeInv
<1>. QED BY <1>1, <1>2, <1>3, <1>4

\* An iteration without a key for the page.
LEMMA RefreshIdleStep ==
    ASSUME IInv, RefreshIdle
    PROVE  IInv'
<1>. USE DEF IInv, RefreshIdle, EndIteration, AtPage, At,
            eventVars, loopVars, listVars, cardVars, flagVars, playerVars,
            historyVars
<1>a. /\ pc' = "get" /\ cnt' = CntAfter /\ menu_index' = menu_index
      /\ event_mq' = event_mq /\ lcd_event' = lcd_event
      /\ CntAfter \in 0 .. (RefreshTime[1] + RefreshTime[2] + RefreshTime[3] + 1)
    BY CntTyped DEF EndIteration
<1>1. TypeOK'
    BY <1>a DEF TypeOK
<1>2. SteadyInv'
    BY <1>a DEF SteadyInv, ListInv
<1>3. PlayerInv'
    BY <1>a
    DEF PlayerInv, SilentOffMusicPage, StoppedFlagTrue, PausedCanResume
<1>4. VolumeInv'
    BY DEF VolumeInv
<1>. QED BY <1>1, <1>2, <1>3, <1>4

-----------------------------------------------------------------------------
(* The theorems.                                                           *)

\* The first page is about to fetch its first list.
LEMMA InitIInv == Init => IInv
<1>. SUFFICES ASSUME Init PROVE IInv
    OBVIOUS
<1>. USE DEF Init, EventInit
<1>1. TypeOK
    <2>1. inst \in [1 .. 3 -> Instances]
        BY DEF Instances, Instance, MenuEvents
    <2>2. RefreshTime[1] \in Nat /\ RefreshTime[2] \in Nat /\ RefreshTime[3] \in Nat
        BY MenuAssumption
    <2>3. files \in [Songs -> {"none", "part", "whole"}]
        OBVIOUS
    <2>4. cnt \in 0 .. (RefreshTime[1] + RefreshTime[2] + RefreshTime[3] + 1)
        BY <2>2
    <2>5. event_mq \in Seq(Messages) /\ Len(event_mq) <= MqCapacity
          /\ songlist \in Seq(Songs) /\ Len(songlist) <= ItemMax
        BY MenuAssumption, CapacityAssumption
    <2>6. /\ item_num \in 0 .. ItemMax /\ songlist_num \in -1 .. ItemMax
          /\ fds \in 0 .. FdMax /\ volume_value \in VolumeMin .. VolumeMax
        BY MenuAssumption
    <2>7. /\ lcd_event \subseteq AllBits
          /\ pc \in {"get", "enter", "refresh"} /\ menu_index \in 1 .. 3
          /\ player \in {"STOPED", "PLAYING", "PAUSED"}
          /\ fault \in {"none", "access", "free"}
        OBVIOUS
    <2>8. /\ is_play \in BOOLEAN /\ is_resume \in BOOLEAN
          /\ steady \in BOOLEAN
        OBVIOUS
    <2>. HIDE DEF Init, EventInit
    <2>. QED
        BY <2>1, <2>3, <2>4, <2>5, <2>6, <2>7, <2>8 DEF TypeOK, Instances
<1>2. SteadyInv
    BY DEF SteadyInv, ListInv
<1>3. PlayerInv
    BY DEF PlayerInv, SilentOffMusicPage, StoppedFlagTrue, PausedCanResume
<1>4. VolumeInv
    BY VolumeAssumption DEF VolumeInv
<1>. QED BY <1>1, <1>2, <1>3, <1>4 DEF IInv

\* The invariant holds for any songs, lists the server may answer with, sizes,
\* refresh times and messages of the keys.
THEOREM Invariance == Spec => []IInv
<1>1. IInv /\ [Next]_vars => IInv'
    <2>. SUFFICES ASSUME IInv, [Next]_vars
                  PROVE  IInv'
        OBVIOUS
    <2>1. CASE Get
        BY <2>1, GetStep
    <2>2. CASE ListNotFetched
        BY <2>2, ListNotFetchedStep
    <2>3. ASSUME NEW list \in ServerLists, ListFetched(list)
          PROVE  IInv'
        BY <2>3, ListFetchedStep
    <2>4. CASE MusicNoSong
        BY <2>4, MusicNoSongStep
    <2>5. CASE MusicCached
        BY <2>5, MusicCachedStep
    <2>6. CASE MusicDownload
        BY <2>6, MusicDownloadStep
    <2>7. CASE EnterSdcard
        BY <2>7, EnterSdcardStep
    <2>8. CASE RefreshKey
        BY <2>8, SelectSongStep, MusicKeyStep DEF RefreshKey
    <2>9. CASE RefreshIdle
        BY <2>9, RefreshIdleStep
    <2>10. CASE KeyStep
        BY <2>10, KeyStepStep
    <2>11. CASE SongEnds
        BY <2>11, SongEndsStep
    <2>12. CASE UNCHANGED vars
        BY <2>12
        DEF vars, eventVars, loopVars, listVars, cardVars, flagVars, playerVars,
            historyVars, IInv, TypeOK, SteadyInv, ListInv, PlayerInv,
            SilentOffMusicPage, StoppedFlagTrue, PausedCanResume, VolumeInv
    <2>. QED
        BY <2>1, <2>2, <2>3, <2>4, <2>5, <2>6, <2>7, <2>8, <2>9, <2>10, <2>11,
           <2>12
        DEF Next, LcdShow
<1>. QED BY InitIInv, <1>1, PTL DEF Spec

\* The ranges of the state; in particular the volume never passes the limits
\* of the keys, and cnt its threshold (iotb_lcd_process.c:595-640).
THEOREM TypeCorrect == Spec => []TypeOK
<1>1. IInv => TypeOK
    BY DEF IInv
<1>. QED BY <1>1, Invariance, PTL

\* However long the lists, and whatever keys are pressed: with a server that
\* answers, and never with fewer songs, no page reads outside the list or
\* releases what it does not hold.
THEOREM ListSafe == Spec => []SteadyServerSafe
<1>1. IInv => SteadyServerSafe
    BY DEF IInv, SteadyInv, SteadyServerSafe
<1>. QED BY <1>1, Invariance, PTL

\* No song is left playing on a page that cannot stop it.
THEOREM SilentElsewhere == Spec => []SilentOffMusicPage
<1>1. IInv => SilentOffMusicPage
    BY DEF IInv, PlayerInv
<1>. QED BY <1>1, Invariance, PTL

\* The stop/play key never takes a playing song for a stopped one, and the
\* pause/resume key can always resume what it paused.
THEOREM FlagsAreTrue == Spec => []FlagsTrue
<1>1. IInv => FlagsTrue
    BY DEF IInv, PlayerInv, FlagsTrue
<1>. QED BY <1>1, Invariance, PTL
=============================================================================
