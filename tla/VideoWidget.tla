----------------------------- MODULE VideoWidget -----------------------------
(***************************************************************************)
(* HVideoWidget: one cell of the screen with its player.  Everything here  *)
(* runs in the GUI thread: what the user clicks, the events the player's   *)
(* threads post to the widget, the timers, and the message boxes, whose    *)
(* loops handle events and timers in the middle of a handler.              *)
(*                                                                         *)
(* The player is reduced to its session.  Its threads post events while    *)
(* the session lasts and none after stop has joined them (ClosedIsLast in  *)
(* HFFPlayer), but what they posted stays in the widget's event queue.     *)
(*                                                                         *)
(* Time is counted from now, so that it needs no bound: timespan is the    *)
(* time since last_retry_time, negative when that lies ahead, and as good  *)
(* as RetryInterval when it is longer.  A timer may fire late.             *)
(***************************************************************************)
EXTENDS Integers, Sequences, SequencesExt

CONSTANTS
  Sources,        \* the types of media the user opens: "file", "network"
  LoopPlayback,   \* loop_playback of the configuration
  RetryInterval,  \* retry_interval
  RetryMax,       \* retry_maxcnt, negative for no limit
  MaxPending      \* events, scheduled restarts and message boxes at a time (bound)

ASSUME WidgetAssumption ==
  /\ Sources \subseteq {"file", "network"}
  /\ LoopPlayback \in BOOLEAN
  /\ RetryInterval \in Nat
  /\ RetryMax \in Int
  /\ MaxPending \in Nat

VARIABLES
  media,          \* media.type
  status,
  session,        \* pImpl_player: "none" (NULL), or what its session is doing
  timer,          \* the timer that fetches frames is active
  retry_cnt,
  timespan,       \* now - last_retry_time, at most RetryInterval
  restarts,       \* the single shots on restart: time left; set before the last stop?
  posted,         \* the events in the queue
  choosing,       \* the dialog that asks for a media is open
  boxes,          \* message boxes of onOpenFailed that are open, one inside the other
  crashed         \* a handler used pImpl_player when it was NULL

playerVars == <<status, session, timer>>
retryVars == <<retry_cnt, timespan, restarts>>
guiVars == <<choosing, boxes, crashed>>
vars == <<media, playerVars, retryVars, posted, guiVars>>

Init ==
  /\ media = "none" /\ status = "STOP" /\ session = "none" /\ timer = FALSE
  /\ retry_cnt = 0 /\ timespan = RetryInterval /\ restarts = <<>>
  /\ posted = <<>>
  /\ choosing = FALSE /\ boxes = 0 /\ crashed = FALSE
-----------------------------------------------------------------------------
(* The methods, as the handlers below call them. *)

(* onOpenSucceed. *)
OpenSucceed == timer' = TRUE /\ status' = "PLAY"

(* start(): a new player, which is shown before it has opened anything, or *)
(* resume().                                                               *)
Start(source) ==
  IF source # "none" /\ session = "none"
  THEN session' = "opening" /\ OpenSucceed /\ UNCHANGED <<retry_cnt, timespan, restarts>>
  ELSE /\ IF source # "none" /\ status = "PAUSE"
          THEN status' = "PLAY" /\ timer' = TRUE
          ELSE UNCHANGED <<status, timer>>
       /\ UNCHANGED <<session, retry_cnt, timespan, restarts>>

(* Mutant of Stop: the frame timer goes on. *)
StopKeepsTimer ==
  /\ session' = "none" /\ status' = "STOP"
  /\ retry_cnt' = 0 /\ timespan' = RetryInterval
  /\ restarts' = [i \in 1..Len(restarts) |-> [restarts[i] EXCEPT !.stale = TRUE]]
  /\ UNCHANGED timer

(* stop(): the player is stopped and deleted, the retries start again from *)
(* nothing.  Neither the events nor the single shots are taken back.       *)
Stop ==
  /\ timer' = FALSE /\ session' = "none" /\ status' = "STOP"
  /\ retry_cnt' = 0 /\ timespan' = RetryInterval
  /\ restarts' = [i \in 1..Len(restarts) |-> [restarts[i] EXCEPT !.stale = TRUE]]

(* Mutant of Restart: a new player whether there is a media or not. *)
RestartAnyway ==
  IF session # "none" THEN session' = "opening" /\ UNCHANGED <<status, timer>>
  ELSE session' = "opening" /\ OpenSucceed

(* restart(): the same player again, or start(). *)
Restart ==
  IF session # "none" THEN session' = "opening" /\ UNCHANGED <<status, timer>>
  ELSE IF media # "none" THEN session' = "opening" /\ OpenSucceed
  ELSE UNCHANGED playerVars

(* retry(), when the last one is long enough ago. *)
RetryNow ==
  /\ timespan >= RetryInterval
  /\ retry_cnt' = retry_cnt + 1
  /\ timespan' = 0
  /\ Restart
  /\ UNCHANGED restarts

(* Mutants of RetryLater: last_retry_time stays; the single shot is lost. *)
RetryTogether ==
  /\ timespan < RetryInterval
  /\ retry_cnt' = retry_cnt + 1
  /\ restarts' = Append(restarts, [left |-> RetryInterval - timespan, stale |-> FALSE])
  /\ session' = IF session = "none" THEN "none" ELSE "stopped"
  /\ UNCHANGED <<timespan, status, timer>>

RetryNever ==
  /\ timespan < RetryInterval
  /\ retry_cnt' = retry_cnt + 1
  /\ timespan' = timespan - RetryInterval
  /\ session' = IF session = "none" THEN "none" ELSE "stopped"
  /\ UNCHANGED <<restarts, status, timer>>

(* retry(), too early: the player is stopped, and a single shot restarts   *)
(* it at the time that becomes last_retry_time.                            *)
RetryLater ==
  /\ timespan < RetryInterval
  /\ retry_cnt' = retry_cnt + 1
  /\ timespan' = timespan - RetryInterval
  /\ restarts' = Append(restarts, [left |-> RetryInterval - timespan, stale |-> FALSE])
  /\ session' = IF session = "none" THEN "none" ELSE "stopped"
  /\ UNCHANGED <<status, timer>>

(* retry(). *)
Retry ==
  IF RetryMax < 0 \/ retry_cnt < RetryMax THEN RetryNow \/ RetryLater ELSE Stop
-----------------------------------------------------------------------------
(* The user. *)

(* A message box or the dialog keeps the user from everything else. *)
Free == ~crashed /\ ~choosing /\ boxes = 0

(* The widget's own button is there when it is stopped, and the dialog it  *)
(* opens as long as the user likes.                                        *)
UserChooses ==
  /\ Free /\ status = "STOP"
  /\ choosing' = TRUE
  /\ UNCHANGED <<media, playerVars, retryVars, posted, boxes, crashed>>

(* The dialog is closed, with a media (open()) or without; or HMultiView   *)
(* found the widget idle and opens the media the main window asked for.    *)
UserOpens ==
  /\ choosing \/ status = "STOP"
  /\ boxes = 0 /\ ~crashed
  /\ choosing' = FALSE
  /\ \/ \E source \in Sources : media' = source /\ Start(source)
     \/ UNCHANGED <<media, playerVars, retryVars>>
  /\ UNCHANGED <<posted, boxes, crashed>>

UserStarts ==
  /\ Free
  /\ Start(media)
  /\ UNCHANGED <<media, posted, guiVars>>

(* The button is hidden unless the widget plays. *)
UserPauses ==
  /\ Free /\ status = "PLAY"
  /\ status' = "PAUSE" /\ timer' = FALSE
  /\ UNCHANGED <<media, session, retryVars, posted, guiVars>>

(* stop(), or close(), which forgets the media too. *)
UserStops ==
  /\ Free
  /\ Stop
  /\ media' \in {media, "none"}
  /\ UNCHANGED <<posted, guiVars>>

(* The message box of onOpenFailed is closed: stop(). *)
UserConfirms ==
  /\ boxes > 0 /\ ~crashed
  /\ boxes' = boxes - 1
  /\ Stop
  /\ UNCHANGED <<media, posted, choosing, crashed>>
-----------------------------------------------------------------------------
(* The player's threads: the worker when open has succeeded or failed, the *)
(* reading thread at the end of the file (again and again) or after an     *)
(* error; it is there before open has returned.                            *)
PlayerPosts ==
  /\ ~crashed
  /\ Len(posted) + Len(restarts) + boxes < MaxPending
  /\ \/ session = "opening" /\ session' = "playing" /\ posted' = Append(posted, "OPENED")
     \/ session = "opening" /\ session' = "failed" /\ posted' = Append(posted, "OPEN_FAILED")
     \/ /\ session \in {"opening", "playing"}
        /\ \E event \in {"EOF", "ERROR"} : posted' = Append(posted, event)
        /\ UNCHANGED session
  /\ UNCHANGED <<media, status, timer, retryVars, guiVars>>
-----------------------------------------------------------------------------
(* The event loop. *)

Handled(event) ==
  /\ ~crashed
  /\ posted # <<>>
  /\ Head(posted) = event
  /\ posted' = Tail(posted)
  /\ UNCHANGED <<media, choosing>>

OnOpenSucceed ==
  /\ Handled("OPENED")
  /\ IF session = "none"
     THEN crashed' = TRUE /\ UNCHANGED playerVars
     ELSE OpenSucceed /\ UNCHANGED <<session, crashed>>
  /\ UNCHANGED <<retryVars, boxes>>

(* Without retries so far: a message box with the player's error.          *)
OnOpenFailed ==
  /\ Handled("OPEN_FAILED")
  /\ IF retry_cnt # 0 THEN Retry /\ UNCHANGED <<boxes, crashed>>
     ELSE /\ IF session = "none" THEN crashed' = TRUE /\ UNCHANGED boxes
             ELSE boxes' = boxes + 1 /\ UNCHANGED crashed
          /\ UNCHANGED <<playerVars, retryVars>>

OnPlayerEOF ==
  /\ Handled("EOF")
  /\ CASE media = "network" -> Retry
       [] media = "file" /\ LoopPlayback -> Restart /\ UNCHANGED retryVars
       [] OTHER -> Stop
  /\ UNCHANGED <<boxes, crashed>>

OnPlayerError ==
  /\ Handled("ERROR")
  /\ IF media = "network" THEN Retry ELSE Stop
  /\ UNCHANGED <<boxes, crashed>>

(* QTimer::singleShot calls restart. *)
ScheduledRestart ==
  /\ ~crashed
  /\ \E i \in 1..Len(restarts) :
       /\ restarts[i].left = 0
       /\ restarts' = RemoveAt(restarts, i)
  /\ Restart
  /\ UNCHANGED <<media, retry_cnt, timespan, posted, guiVars>>

EventLoop ==
  \/ OnOpenSucceed \/ OnOpenFailed \/ OnPlayerEOF \/ OnPlayerError
  \/ ScheduledRestart

Tick ==
  /\ ~crashed
  /\ timespan' = IF timespan < RetryInterval THEN timespan + 1 ELSE timespan
  /\ restarts' = [i \in 1..Len(restarts) |->
                    IF restarts[i].left > 0 THEN [restarts[i] EXCEPT !.left = @ - 1]
                    ELSE restarts[i]]
  /\ UNCHANGED <<media, playerVars, retry_cnt, posted, guiVars>>
-----------------------------------------------------------------------------
User ==
  \/ UserChooses \/ UserOpens \/ UserStarts \/ UserPauses \/ UserStops
  \/ UserConfirms

Next == User \/ PlayerPosts \/ EventLoop \/ Tick

Spec == Init /\ [][Next]_vars

(* Qt delivers posted events and due timers, time passes, and a message    *)
(* box or a dialog is closed some day.                                     *)
FairSpec ==
  /\ Spec
  /\ WF_vars(OnOpenSucceed \/ OnOpenFailed \/ OnPlayerEOF \/ OnPlayerError)
  /\ WF_vars(ScheduledRestart)
  /\ WF_vars(Tick)
  /\ WF_vars(UserConfirms)
-----------------------------------------------------------------------------
PlayerOK ==
  /\ media \in Sources \cup {"none"}
  /\ status \in {"STOP", "PAUSE", "PLAY"}
  /\ session \in {"none", "opening", "playing", "failed", "stopped"}
  /\ timer \in BOOLEAN

RetriesOK ==
  /\ retry_cnt \in Nat /\ (RetryMax >= 0 => retry_cnt <= RetryMax)
  /\ timespan \in Int /\ timespan <= RetryInterval
  /\ restarts \in Seq([left : Nat, stale : BOOLEAN])

GuiOK ==
  /\ posted \in Seq({"OPENED", "OPEN_FAILED", "EOF", "ERROR"})
  /\ choosing \in BOOLEAN /\ boxes \in Nat /\ crashed \in BOOLEAN

(* Every variable has the shape the code gives it. *)
TypeOK == PlayerOK /\ RetriesOK /\ GuiOK

(* The three things the handlers set one by one, in every order of events, *)
(* timers and nested message boxes, agree: a player exists unless the      *)
(* widget is stopped, and frames are fetched exactly while it plays.       *)
StatusFits ==
  /\ status = "STOP" <=> session = "none"
  /\ timer <=> status = "PLAY"

(* Types and status together, which is what every handler may rely on.     *)
WidgetInv == TypeOK /\ StatusFits

(* However many events of one session arrive at once, the restarts that    *)
(* retry schedules for them keep the interval between each other, and      *)
(* none is later than last_retry_time, from which the next is counted.     *)
RestartsApart ==
  \A i \in 1..Len(restarts) :
    ~restarts[i].stale /\ restarts[i].left > 0 =>
      /\ restarts[i].left <= -timespan
      /\ \A j \in i + 1..Len(restarts) :
           restarts[j].left - restarts[i].left >= RetryInterval

(* A session that could not be opened, or that retry has stopped, does not *)
(* stay that way: it is started again, by its own single shot or by one    *)
(* before it, or the widget is stopped.                                    *)
RetryGoesOn ==
  session \in {"failed", "stopped"} ~> (session \notin {"failed", "stopped"} \/ crashed)

(* A widget that was stopped may start again when an event or a single     *)
(* shot of its last session comes late.  One that was closed does not: it  *)
(* has no media until the user opens one.                                  *)
ClosedStaysClosed ==
  [][media = "none" /\ status = "STOP" /\ status' # "STOP" => UserOpens]_vars
=============================================================================
