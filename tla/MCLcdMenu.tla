----------------------------- MODULE MCLcdMenu -----------------------------
(***************************************************************************)
(* LcdMenu for TLC.  No property compares two names, so one name does for  *)
(* all songs: the server lists it not at all, once or twice.  The messages *)
(* are those that a page serves, and the double click of KEY2, which none  *)
(* serves but which overwrites one that is.                                *)
(***************************************************************************)
EXTENDS LcdMenu

CONSTANT song

OneSong == {song}
SomeLists == {<<>>, <<song>>, <<song, song>>}
Refresh == <<1, 2, 0>>
SomeMessages ==
    {"KEY0", "KEY1", "KEY2", "WKUP"} \X {"CLICK", "DOUBLE_CLICK"}
=============================================================================
