------------------------------ MODULE HFFPlayer ------------------------------
(***************************************************************************)
(* The life of an HFFPlayer: the GUI thread starts, pauses, resumes,       *)
(* slows down, stops, restarts and finally deletes it; the worker it       *)
(* inherits from HThread opens the media, decodes the video and closes the *)
(* media; the thread that reads packets and the thread that decodes audio  *)
(* are created by open and joined by close.                                *)
(*                                                                         *)
(* What is decoded is not modelled here (Pipeline does that): a thread is  *)
(* either between two uses of a media context or using one.  open can fail *)
(* after it has started the reading thread; the player then forgets that   *)
(* thread as soon as the next open starts another, so each session's       *)
(* reader has a place of its own.  A reader that uses a context which was  *)
(* taken from it may end the process; if it does not, it goes on as after  *)
(* any read, and this is what the model shows.  The GUI uses               *)
(* the player as HVideoWidget does: one thread, no start before the last   *)
(* stop returned, and a delete only after a stop.                          *)
(***************************************************************************)
EXTENDS HThread

CONSTANTS
  MaxSessions     \* how often the player is started (bound)

ASSUME PlayerAssumption == MaxSessions \in Nat

Sessions == 1..MaxSessions

VARIABLES
  quit,           \* HFFPlayer::quit
  sessions,       \* starts so far
  deleted,        \* "no", "closing" (in the destructor) or "yes"
  opc,            \* where open is
  cpc,            \* where close is, in the worker or in the destructor
  audioOk,        \* what audio_init returned is 0
  fmt, vctx, actx,\* the media is open; the video, the audio decoder is open
  aborted,        \* both packet queues have abort_request set
  readThread,     \* the session whose reader read_thread points to, or 0 (NULL)
  rpc, readRunning,   \* the reader of each session, and read_thread_running
  apc, audioRunning,  \* the audio thread, and audio_thread_running
  decoding,       \* the worker is inside a video decode
  event,          \* the event posted last
  leftBehind      \* history: the sessions whose open failed behind its reader's start

openVars == <<opc, audioOk, fmt, vctx, actx>>
readVars == <<readThread, rpc, readRunning, leftBehind>>
audioVars == <<apc, audioRunning>>
playerVars == <<quit, sessions, deleted, openVars, cpc, aborted, readVars,
                audioVars, decoding, event>>
vars == <<threadVars, playerVars>>

Init ==
  /\ ThreadInit
  /\ quit = FALSE /\ sessions = 0 /\ deleted = "no"
  /\ opc = "idle" /\ cpc = "idle" /\ audioOk = TRUE
  /\ fmt = FALSE /\ vctx = FALSE /\ actx = FALSE /\ aborted = FALSE
  /\ rpc = [n \in Sessions |-> "none"] /\ readRunning = FALSE
  /\ readThread = 0 /\ leftBehind = {}
  /\ apc = "none" /\ audioRunning = FALSE
  /\ decoding = FALSE /\ event = "none"
-----------------------------------------------------------------------------
(* The GUI thread. *)

(* start(): quit = 0, then HThread::start. *)
Start ==
  /\ deleted = "no"
  /\ ~joinable
  /\ sessions < MaxSessions
  /\ ThreadStart
  /\ quit' = FALSE
  /\ sessions' = sessions + 1
  /\ opc' = "input"
  /\ UNCHANGED <<deleted, cpc, audioOk, fmt, vctx, actx, aborted, readVars,
                 audioVars, decoding, event>>

(* pause(), resume(), and set_speed(), which sets the sleep policy. *)
CallMethod ==
  /\ deleted = "no"
  /\ sessions > 0
  /\ \/ \E method \in {"pause", "resume", "policy"} : ThreadReads(method)
     \/ ThreadWrites
  /\ UNCHANGED playerVars

(* seek() uses fmt_ctx when it is not NULL.  It has a value from the       *)
(* beginning of open on, long before the media is open, and is looked at   *)
(* once.  What seek does is in Pipeline.                                   *)
Seek ==
  /\ deleted = "no"
  /\ \/ (fmt \/ opc = "input") /\ ThreadLeaves
     \/ ThreadComesBack
  /\ UNCHANGED playerVars

(* stop(): quit = 1, then HThread::stop. *)
StopCalled ==
  /\ deleted = "no"
  /\ sessions > 0
  /\ ThreadStopCalled
  /\ quit' = TRUE
  /\ UNCHANGED <<sessions, deleted, openVars, cpc, aborted, readVars, audioVars,
                 decoding, event>>

Stop == (ThreadStop \/ ThreadJoin) /\ UNCHANGED playerVars

(* delete: the destructor closes once more. *)
Delete ==
  /\ deleted = "no"
  /\ gpc = "idle"
  /\ quit /\ ~joinable
  /\ deleted' = "closing"
  /\ cpc' = "signal"
  /\ UNCHANGED <<threadVars, quit, sessions, openVars, aborted, readVars, audioVars,
                 decoding, event>>
-----------------------------------------------------------------------------
(* The worker in doPrepare: open(), step by step. *)

(* avformat_open_input, which a quit or a timeout interrupts. *)
OpenInput ==
  /\ opc = "input"
  /\ \/ fmt' = TRUE /\ opc' = "video"
     \/ fmt' = FALSE /\ opc' = "fail"
  /\ UNCHANGED <<threadVars, quit, sessions, deleted, audioOk, vctx, actx, cpc, aborted,
                 readVars, audioVars, decoding, event>>

(* avformat_find_stream_info and video_init; a failure closes the input. *)
InitVideo ==
  /\ opc = "video"
  /\ \/ vctx' = TRUE /\ opc' = "audio" /\ UNCHANGED fmt
     \/ fmt' = FALSE /\ opc' = "fail" /\ UNCHANGED vctx
  /\ UNCHANGED <<threadVars, quit, sessions, deleted, audioOk, actx, cpc, aborted,
                 readVars, audioVars, decoding, event>>

(* audio_init: no audio stream (0), a decoder and a device (0), or neither *)
(* although there is a stream (< 0); open goes on in each case.            *)
InitAudio ==
  /\ opc = "audio"
  /\ \/ audioOk' = TRUE /\ actx' = FALSE
     \/ audioOk' = TRUE /\ actx' = TRUE
     \/ audioOk' = FALSE /\ actx' = FALSE
  /\ opc' = "policy"
  /\ UNCHANGED <<threadVars, quit, sessions, deleted, fmt, vctx, cpc, aborted,
                 readVars, audioVars, decoding, event>>

(* setSleepPolicy(SLEEP_UNTIL, 1000 / fps). *)
OpenSetsPolicy ==
  /\ opc = "policy"
  /\ \/ PrepareReadsStatus /\ UNCHANGED opc
     \/ PrepareWritesStatus /\ opc' = "startReader"
  /\ UNCHANGED <<quit, sessions, deleted, audioOk, fmt, vctx, actx, cpc, aborted,
                 readVars, audioVars, decoding, event>>

(* A new thread; whatever read_thread pointed to is forgotten. *)
StartReader ==
  /\ opc = "startReader"
  /\ rpc' = [rpc EXCEPT ![sessions] = "start"]
  /\ readThread' = sessions
  /\ opc' = "startAudio"
  /\ UNCHANGED <<threadVars, quit, sessions, deleted, audioOk, fmt, vctx, actx, cpc,
                 aborted, readRunning, leftBehind, audioVars, decoding, event>>

(* The audio thread, if there is a decoder and a device for it. *)
StartAudio ==
  /\ opc = "startAudio"
  /\ apc' = IF actx THEN "start" ELSE apc
  /\ opc' = "return"
  /\ UNCHANGED <<threadVars, quit, sessions, deleted, audioOk, fmt, vctx, actx, cpc,
                 aborted, readVars, audioRunning, decoding, event>>

(* open returns what audio_init returned.  If that is not 0, the deferred  *)
(* video_close and avformat_close_input run first, under the reader's feet.*)
OpenReturns ==
  /\ opc = "return"
  /\ IF audioOk
     THEN /\ PrepareSucceeds
          /\ event' = "OPENED"
          /\ opc' = "idle"
          /\ UNCHANGED <<fmt, vctx, leftBehind>>
     ELSE /\ vctx' = FALSE /\ fmt' = FALSE
          /\ opc' = "fail"
          /\ leftBehind' = leftBehind \cup {sessions}
          /\ UNCHANGED <<threadVars, event>>
  /\ UNCHANGED <<quit, sessions, deleted, audioOk, actx, cpc, aborted, readThread, rpc,
                 readRunning, audioVars, decoding>>

(* doPrepare returns false, and says so unless the user is leaving. *)
OpenFails ==
  /\ opc = "fail"
  /\ PrepareFails
  /\ event' = IF quit THEN event ELSE "OPEN_FAILED"
  /\ opc' = "idle"
  /\ UNCHANGED <<quit, sessions, deleted, audioOk, fmt, vctx, actx, cpc, aborted,
                 readVars, audioVars, decoding>>

Open ==
  \/ OpenInput \/ InitVideo \/ InitAudio \/ OpenSetsPolicy
  \/ StartReader \/ StartAudio \/ OpenReturns \/ OpenFails
-----------------------------------------------------------------------------
(* The worker in run(): doTask decodes until quit, whatever the status. *)

RunLoop ==
  /\ Run \/ LoopTest \/ LeavePause
  /\ UNCHANGED playerVars

(* A packet came out of the queue and goes to the video decoder. *)
DecodeVideo ==
  /\ wpc = "task"
  /\ \/ ~decoding /\ ~quit /\ ~aborted /\ decoding' = TRUE
     \/ decoding /\ decoding' = FALSE
  /\ UNCHANGED <<threadVars, quit, sessions, deleted, openVars, cpc, aborted, readVars,
                 audioVars, event>>

DoTaskReturns ==
  /\ quit /\ ~decoding
  /\ TaskReturns
  /\ UNCHANGED playerVars

(* setStatus(STOP), and on to doFinish and its close. *)
LeaveRun ==
  /\ Stopped
  /\ cpc' = "signal"
  /\ UNCHANGED <<quit, sessions, deleted, openVars, aborted, readVars, audioVars,
                 decoding, event>>
-----------------------------------------------------------------------------
(* close(), in doFinish or in the destructor. *)

(* Both running flags cleared, both queues aborted. *)
CloseSignals ==
  /\ cpc = "signal"
  /\ readRunning' = FALSE /\ audioRunning' = FALSE
  /\ aborted' = TRUE
  /\ cpc' = "joinReader"
  /\ UNCHANGED <<threadVars, quit, sessions, deleted, openVars, readThread, rpc,
                 leftBehind, apc, decoding, event>>

(* Mutants of CloseJoinsReader and CloseJoinsAudio: close does not wait. *)
CloseSkipsReader ==
  /\ cpc = "joinReader"
  /\ cpc' = "joinAudio"
  /\ UNCHANGED <<threadVars, quit, sessions, deleted, openVars, aborted, readVars,
                 audioVars, decoding, event>>

CloseSkipsAudio ==
  /\ cpc = "joinAudio"
  /\ cpc' = "release"
  /\ UNCHANGED <<threadVars, quit, sessions, deleted, openVars, aborted, readVars,
                 audioVars, decoding, event>>

(* Mutant of CloseJoinsReader: read_thread is not set to NULL. *)
CloseKeepsPointer ==
  /\ cpc = "joinReader"
  /\ readThread # 0 => rpc[readThread] = "exited"
  /\ rpc' = [n \in Sessions |-> IF n = readThread THEN "joined" ELSE rpc[n]]
  /\ cpc' = "joinAudio"
  /\ UNCHANGED <<threadVars, quit, sessions, deleted, openVars, aborted, readThread,
                 readRunning, leftBehind, audioVars, decoding, event>>

(* The reader that read_thread points to, if any. *)
CloseJoinsReader ==
  /\ cpc = "joinReader"
  /\ readThread # 0 => rpc[readThread] = "exited"
  /\ rpc' = [n \in Sessions |-> IF n = readThread THEN "joined" ELSE rpc[n]]
  /\ readThread' = 0
  /\ cpc' = "joinAudio"
  /\ UNCHANGED <<threadVars, quit, sessions, deleted, openVars, aborted, readRunning,
                 leftBehind, audioVars, decoding, event>>

CloseJoinsAudio ==
  /\ cpc = "joinAudio"
  /\ apc \in {"none", "exited"}
  /\ apc' = "none"
  /\ cpc' = "release"
  /\ UNCHANGED <<threadVars, quit, sessions, deleted, openVars, aborted, readVars,
                 audioRunning, decoding, event>>

(* The queues are flushed and every context is closed; then doFinish posts *)
(* CLOSED, or the destructor is done.                                      *)
CloseReleases ==
  /\ cpc = "release"
  /\ actx' = FALSE /\ vctx' = FALSE /\ fmt' = FALSE
  /\ cpc' = "idle"
  /\ \/ FinishReturns /\ event' = "CLOSED" /\ UNCHANGED deleted
     \/ deleted = "closing" /\ deleted' = "yes" /\ UNCHANGED <<threadVars, event>>
  /\ UNCHANGED <<quit, sessions, opc, audioOk, aborted, readVars, audioVars, decoding>>

Close == CloseSignals \/ CloseJoinsReader \/ CloseJoinsAudio \/ CloseReleases
-----------------------------------------------------------------------------
(* The reading thread of session n: readTask. *)

ReaderGoes(n, from, to) == rpc[n] = from /\ rpc' = [rpc EXCEPT ![n] = to]

ReaderStarts(n) ==
  /\ ReaderGoes(n, "start", "top")
  /\ readRunning' = TRUE
  /\ UNCHANGED event

(* Mutant of ReaderTop: the loop trusts read_thread_running alone. *)
ReaderTopIgnoresQuit(n) ==
  /\ ReaderGoes(n, "top", IF ~readRunning THEN "exiting" ELSE "read")
  /\ UNCHANGED <<readRunning, event>>

(* while (!quit && read_thread_running) *)
ReaderTop(n) ==
  /\ ReaderGoes(n, "top", IF quit \/ ~readRunning THEN "exiting" ELSE "read")
  /\ UNCHANGED <<readRunning, event>>

(* av_read_frame on fmt_ctx: a packet, EAGAIN, the end or an error. *)
ReaderReads(n) ==
  /\ ReaderGoes(n, "read", "top")
  /\ event' \in {event, "EOF", "ERROR"}
  /\ UNCHANGED readRunning

ReaderExits(n) ==
  /\ ReaderGoes(n, "exiting", "exited")
  /\ readRunning' = FALSE
  /\ UNCHANGED event

Reader(n) ==
  /\ ReaderStarts(n) \/ ReaderTop(n) \/ ReaderReads(n) \/ ReaderExits(n)
  /\ UNCHANGED <<threadVars, quit, sessions, deleted, openVars, cpc, aborted,
                 readThread, leftBehind, audioVars, decoding>>
-----------------------------------------------------------------------------
(* The audio thread: audioTask. *)

AudioStarts ==
  /\ apc = "start"
  /\ audioRunning' = TRUE
  /\ apc' = IF actx THEN "top" ELSE "exiting"

(* while (!quit && audio_thread_running), and packet_queue_get, which      *)
(* fails on quit and abort and otherwise returns when there is a packet.   *)
AudioTop ==
  /\ apc = "top"
  /\ \/ (quit \/ ~audioRunning) /\ apc' = "exiting"
     \/ ~quit /\ audioRunning /\ ~aborted /\ apc' = "decode"
  /\ UNCHANGED audioRunning

AudioDecodes ==
  /\ apc = "decode"
  /\ apc' = "top"
  /\ UNCHANGED audioRunning

AudioExits ==
  /\ apc = "exiting"
  /\ audioRunning' = FALSE
  /\ apc' = "exited"

Audio ==
  /\ AudioStarts \/ AudioTop \/ AudioDecodes \/ AudioExits
  /\ UNCHANGED <<threadVars, quit, sessions, deleted, openVars, cpc, aborted,
                 readVars, decoding, event>>
-----------------------------------------------------------------------------
Gui == Start \/ CallMethod \/ Seek \/ StopCalled \/ Stop \/ Delete

Worker == Open \/ RunLoop \/ DecodeVideo \/ DoTaskReturns \/ LeaveRun

Next == Gui \/ Worker \/ Close \/ (\E n \in Sessions : Reader(n)) \/ Audio

Spec == Init /\ [][Next]_vars

(* Every thread that can take a step is scheduled, and library calls end.  *)
(* The user need not do anything, but a method that was called goes on.    *)
FairSpec ==
  /\ Spec
  /\ WF_vars(Worker) /\ WF_vars(Close) /\ WF_vars(Audio)
  /\ \A n \in Sessions : WF_vars(Reader(n))
  /\ WF_vars(Stop)
  /\ WF_vars(gpc # "idle" /\ (CallMethod \/ Seek))
-----------------------------------------------------------------------------
FlagsOK ==
  /\ quit \in BOOLEAN /\ audioOk \in BOOLEAN
  /\ fmt \in BOOLEAN /\ vctx \in BOOLEAN /\ actx \in BOOLEAN
  /\ aborted \in BOOLEAN /\ readRunning \in BOOLEAN /\ audioRunning \in BOOLEAN
  /\ decoding \in BOOLEAN

PlacesOK ==
  /\ deleted \in {"no", "closing", "yes"}
  /\ opc \in {"idle", "input", "video", "audio", "policy", "startReader",
              "startAudio", "return", "fail"}
  /\ cpc \in {"idle", "signal", "joinReader", "joinAudio", "release"}
  /\ rpc \in [Sessions -> {"none", "start", "top", "read", "exiting", "exited", "joined"}]
  /\ apc \in {"none", "start", "top", "decode", "exiting", "exited"}
  /\ event \in {"none", "OPENED", "OPEN_FAILED", "EOF", "ERROR", "CLOSED"}

(* read_thread is NULL or points to a thread that nobody has joined. *)
PointerOK ==
  /\ readThread \in 0..MaxSessions
  /\ readThread # 0 => rpc[readThread] \notin {"none", "joined"}

(* Every variable has the shape the code gives it. *)
TypeOK ==
  /\ ThreadTypeOK /\ FlagsOK /\ PlacesOK /\ PointerOK
  /\ sessions \in 0..MaxSessions /\ leftBehind \subseteq Sessions

Running(n) == rpc[n] \notin {"none", "exited", "joined"}

(* No thread uses a media context that is not open: not while open is      *)
(* still building it, and not while close takes it down.  The exception is *)
(* a reader whose own open failed behind its start.                        *)
OpenWhenUsed ==
  /\ \A n \in Sessions : rpc[n] = "read" => fmt \/ n \in leftBehind
  /\ apc = "decode" => actx
  /\ decoding => vctx

(* A seek that is called while the status is RUNNING or PAUSE has an open  *)
(* media to seek in until it returns: open has finished, and whatever      *)
(* makes the worker close the media waits for the thread that seeks.       *)
SeekFindsItOpen == gpc = "elsewhere" /\ seen["gui"] # "STOP" => fmt

(* When stop has returned nothing of the session is left: no thread, no    *)
(* context.  restart and delete rely on it.  The exception is the reader   *)
(* of a session whose open failed behind its start: stop does not join it. *)
(* The destructor does, unless a later session has started another reader  *)
(* and so overwritten the only pointer to it; such a one may outlive the   *)
(* player.                                                                 *)
StopLeavesNothing ==
  gpc = "idle" /\ ~joinable /\ deleted # "closing" =>
    /\ ~fmt /\ ~vctx /\ ~actx
    /\ wpc \in {"none", "exited"} /\ apc = "none"
    /\ \A n \in Sessions :
         Running(n) =>
           /\ n \in leftBehind
           /\ deleted = "yes" => \E m \in Sessions : n < m /\ rpc[m] = "joined"

(* CLOSED is the last event of a session: no late EOF or ERROR of its      *)
(* reading thread follows it, which HVideoWidget would take for the next   *)
(* session's.  The exception is a reader that a failed open has left       *)
(* behind: it is never joined in time, and can still post one.             *)
ClosedIsLast ==
  [][event = "CLOSED" /\ event' # event /\ wpc = "exited" =>
       \E n \in leftBehind : rpc[n] = "read"]_vars

(* A stop that finds the worker RUNNING or PAUSEd returns: the worker, the *)
(* reader and the audio thread all leave their loops, whatever they were   *)
(* doing and whichever running flag was lost on the way.                   *)
StopEndsPlayback == (gpc = "join" /\ seen["gui"] # "STOP") ~> gpc = "idle"

(* A stop that was set is not taken back by pause, resume, setSleepPolicy  *)
(* or the worker: the status stays STOP until the worker is gone.          *)
StopSticks ==
  gpc = "join" /\ seen["gui"] # "STOP" => status = "STOP"

(* Whenever no worker is in run(), the status is STOP: a start after a     *)
(* stop is not ignored, and no late write of pause, resume or              *)
(* setSleepPolicy leaves a status behind that belongs to the last session. *)
StopOutsideRun == wpc \notin {"loop", "paused", "task"} => status = "STOP"

(* hthread.h: stop() sets STOP and waits for the thread's exit, at any     *)
(* time after start().                                                     *)
StopReturns == gpc = "join" ~> gpc = "idle"

(* The queues carry packets while the decoder runs, in every session: the  *)
(* reset in open was added for the second playback.                        *)
QueuesUsable == wpc = "task" /\ ~quit => ~aborted
=============================================================================
