--------------------------- MODULE PlayerService ---------------------------
(***************************************************************************)
(* What the wavplayer package promises its callers, without the queue, the *)
(* completion, the nesting of a stop in a play or the thread wav_p         *)
(* (wavplayer.h:26-57): one call at a time owns the player, each command   *)
(* of the call takes effect once, in order, or finds that it has nothing   *)
(* to do, and the call returns only then.  Between two commands nothing    *)
(* but the end of a file changes the state.                                *)
(***************************************************************************)
EXTENDS Sequences

CONSTANTS Callers, Null

VARIABLES
  state,   \* what wavplayer_state_get reports
  holder,  \* the caller whose call is being served
  todo     \* the commands of that call that are still to take effect

serviceVars == <<state, holder, todo>>

\* The commands of a call: wavplayer_play stops first.
CommandsOf(call) == IF call = "play" THEN <<"stop", "play">> ELSE <<call>>

Result(command) == CASE command = "stop"  -> "STOPED"
                     [] command = "pause" -> "PAUSED"
                     [] OTHER             -> "PLAYING"

\* A command has nothing to do: stop unless something plays or is paused,
\* pause unless something plays, resume unless something is paused.
Idle(command) == \/ command = "stop"   /\ state = "STOPED"
                 \/ command = "pause"  /\ state # "PLAYING"
                 \/ command = "resume" /\ state # "PAUSED"

\* A command takes effect.  A pause that the end of the file overtakes still
\* does, a play only starts from a stopped player.
Ready(command) == \/ command = "stop"
                  \/ command = "pause"  /\ state # "PAUSED"
                  \/ command = "resume" /\ state = "PAUSED"
                  \/ command = "play"   /\ state = "STOPED"

Init == state = "STOPED" /\ holder = Null /\ todo = <<>>

Acquire(c, call) ==
  /\ holder = Null
  /\ holder' = c
  /\ todo' = CommandsOf(call)
  /\ UNCHANGED state

Skip ==
  /\ todo # <<>> /\ Idle(Head(todo))
  /\ todo' = Tail(todo)
  /\ UNCHANGED <<state, holder>>

Serve ==
  /\ todo # <<>> /\ Ready(Head(todo))
  /\ state' = Result(Head(todo))
  /\ todo' = Tail(todo)
  /\ UNCHANGED holder

Release ==
  /\ holder # Null /\ todo = <<>>
  /\ holder' = Null
  /\ UNCHANGED <<state, todo>>

\* The file ends, or cannot be opened.
End ==
  /\ state = "PLAYING"
  /\ state' = "STOPED"
  /\ UNCHANGED <<holder, todo>>

Work == Skip \/ Serve \/ Release

Next == \/ \E c \in Callers, call \in {"play", "stop", "pause", "resume"} :
             Acquire(c, call)
        \/ Work \/ End

Spec == Init /\ [][Next]_serviceVars

\* A call that owns the player is served and returns.
FairSpec == Spec /\ WF_serviceVars(Work)
=============================================================================
