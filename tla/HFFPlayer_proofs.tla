-------------------------- MODULE HFFPlayer_proofs --------------------------
(***************************************************************************)
(* For any number of sessions: the player's type invariant, and that the   *)
(* status word of HThread, which three methods read and write in two       *)
(* steps, is STOP whenever no worker is in run() and stays STOP once stop  *)
(* has set it.  Then the media: open for a seek and for every thread that  *)
(* uses it, and nothing left of a session that was stopped or CLOSED -     *)
(* except the reader whose open failed behind its start, and of that one   *)
(* where the pointer to it went.                                           *)
(***************************************************************************)
EXTENDS HFFPlayer, TLAPS

(* What the two properties need to be inductive: a thread between the read *)
(* and the write of a method knows the status, or is about to write STOP.  *)
StatusInv ==
  /\ StopOutsideRun
  /\ StopSticks
  /\ gpc = "pause" => seen["gui"] = "RUNNING" /\ status = "RUNNING"
  /\ gpc = "resume" => seen["gui"] = "PAUSE" /\ status = "PAUSE"
  /\ gpc = "policy" => seen["gui"] \in {status, "STOP"}
  /\ wpc = "policy" => seen["worker"] = "STOP"
  /\ gpc = "join" /\ seen["gui"] # "STOP" =>
       wpc \in {"loop", "paused", "task", "stopping", "finish", "exited"}

(* Every step as one step of HThread or none: what the player's actions    *)
(* leave to the base class.                                                *)
ThreadStep ==
  \/ ThreadStart /\ ~joinable
  \/ \E method \in {"pause", "resume", "policy"} : ThreadReads(method)
  \/ ThreadLeaves \/ ThreadComesBack
  \/ ThreadWrites \/ ThreadStopCalled \/ ThreadStop \/ ThreadJoin
  \/ PrepareReadsStatus \/ PrepareWritesStatus \/ PrepareFails \/ PrepareSucceeds
  \/ Run \/ LoopTest \/ LeavePause \/ TaskReturns \/ Stopped \/ FinishReturns
  \/ UNCHANGED threadVars

LEMMA PlayerIsThread == [Next]_vars => ThreadStep
<1> SUFFICES ASSUME [Next]_vars PROVE ThreadStep
  OBVIOUS
<1> USE DEF ThreadStep
<1>1. CASE Gui
  BY <1>1 DEF Gui, Start, CallMethod, Seek, StopCalled, Stop, Delete
<1>2. CASE Worker
  BY <1>2 DEF Worker, Open, OpenInput, InitVideo, InitAudio, OpenSetsPolicy,
     StartReader, StartAudio, OpenReturns, OpenFails, RunLoop, DecodeVideo,
     DoTaskReturns, LeaveRun
<1>3. CASE Close
  BY <1>3 DEF Close, CloseSignals, CloseJoinsReader, CloseJoinsAudio, CloseReleases
<1>4. CASE \E n \in Sessions : Reader(n)
  BY <1>4 DEF Reader
<1>5. CASE Audio
  BY <1>5 DEF Audio
<1>6. CASE UNCHANGED vars
  BY <1>6 DEF vars
<1>7. QED
  BY <1>1, <1>2, <1>3, <1>4, <1>5, <1>6 DEF Next

LEMMA ThreadTypeStep == ThreadTypeOK /\ ThreadStep => ThreadTypeOK'
<1> SUFFICES ASSUME ThreadTypeOK, ThreadStep PROVE ThreadTypeOK'
  OBVIOUS
<1> USE DEF ThreadTypeOK, Status
<1>1. CASE ThreadStart /\ ~joinable
  BY <1>1 DEF ThreadStart
<1>2. ASSUME NEW method \in {"pause", "resume", "policy"}, ThreadReads(method)
      PROVE  ThreadTypeOK'
  BY <1>2 DEF ThreadReads
<1>3. CASE ThreadWrites \/ ThreadLeaves \/ ThreadComesBack
  BY <1>3 DEF ThreadWrites, ThreadLeaves, ThreadComesBack
<1>4. CASE ThreadStopCalled \/ ThreadStop \/ ThreadJoin
  BY <1>4 DEF ThreadStopCalled, ThreadStop, ThreadJoin
<1>5. CASE PrepareReadsStatus \/ PrepareWritesStatus \/ PrepareFails \/ PrepareSucceeds
  BY <1>5 DEF PrepareReadsStatus, PrepareWritesStatus, PrepareFails, PrepareSucceeds
<1>6. CASE Run \/ LoopTest \/ LeavePause \/ TaskReturns \/ Stopped \/ FinishReturns
  BY <1>6 DEF Run, LoopTest, LeavePause, TaskReturns, Stopped, FinishReturns
<1>7. CASE UNCHANGED threadVars
  BY <1>7 DEF threadVars
<1>8. QED
  BY <1>1, <1>2, <1>3, <1>4, <1>5, <1>6, <1>7 DEF ThreadStep
-----------------------------------------------------------------------------
LEMMA TypeInit == Init => TypeOK
<1> SUFFICES ASSUME Init PROVE TypeOK
  OBVIOUS
<1>1. ThreadTypeOK
  BY DEF Init, ThreadInit, ThreadTypeOK, Status
<1>2. FlagsOK
  BY DEF Init, FlagsOK
<1>3. PlacesOK
  BY DEF Init, PlacesOK
<1>4. sessions \in 0..MaxSessions /\ leftBehind \subseteq Sessions /\ PointerOK
  BY PlayerAssumption DEF Init, PointerOK
<1>5. QED
  BY <1>1, <1>2, <1>3, <1>4 DEF TypeOK

LEMMA FlagsStep == FlagsOK /\ [Next]_vars => FlagsOK'
<1> SUFFICES ASSUME FlagsOK, [Next]_vars PROVE FlagsOK'
  OBVIOUS
<1> USE DEF FlagsOK, openVars, readVars, audioVars, playerVars
<1>1. CASE Start
  BY <1>1 DEF Start
<1>2. CASE CallMethod \/ Seek \/ StopCalled \/ Stop \/ Delete
  BY <1>2 DEF CallMethod, Seek, StopCalled, Stop, Delete
<1>3. CASE OpenInput \/ InitVideo \/ InitAudio \/ OpenSetsPolicy
  BY <1>3 DEF OpenInput, InitVideo, InitAudio, OpenSetsPolicy
<1>4. CASE StartReader \/ StartAudio \/ OpenReturns \/ OpenFails
  BY <1>4 DEF StartReader, StartAudio, OpenReturns, OpenFails
<1>5. CASE RunLoop \/ DecodeVideo \/ DoTaskReturns \/ LeaveRun
  BY <1>5 DEF RunLoop, DecodeVideo, DoTaskReturns, LeaveRun
<1>6. CASE Close
  BY <1>6 DEF Close, CloseSignals, CloseJoinsReader, CloseJoinsAudio, CloseReleases
<1>7. CASE \E n \in Sessions : Reader(n)
  BY <1>7 DEF Reader, ReaderStarts, ReaderTop, ReaderReads, ReaderExits, ReaderGoes
<1>8. CASE Audio
  BY <1>8 DEF Audio, AudioStarts, AudioTop, AudioDecodes, AudioExits
<1>9. CASE UNCHANGED vars
  BY <1>9 DEF vars
<1>10. QED
  BY <1>1, <1>2, <1>3, <1>4, <1>5, <1>6, <1>7, <1>8, <1>9 DEF Next, Gui, Worker, Open

LEMMA PlacesStep == PlacesOK /\ [Next]_vars => PlacesOK'
<1> SUFFICES ASSUME PlacesOK, [Next]_vars PROVE PlacesOK'
  OBVIOUS
<1> USE DEF PlacesOK, openVars, readVars, audioVars, playerVars
<1>1. CASE Start
  BY <1>1 DEF Start
<1>2. CASE CallMethod \/ Seek \/ StopCalled \/ Stop \/ Delete
  BY <1>2 DEF CallMethod, Seek, StopCalled, Stop, Delete
<1>3. CASE OpenInput \/ InitVideo \/ InitAudio \/ OpenSetsPolicy
  BY <1>3 DEF OpenInput, InitVideo, InitAudio, OpenSetsPolicy
<1>4. CASE StartReader \/ StartAudio \/ OpenReturns \/ OpenFails
  BY <1>4 DEF StartReader, StartAudio, OpenReturns, OpenFails
<1>5. CASE RunLoop \/ DecodeVideo \/ DoTaskReturns \/ LeaveRun
  BY <1>5 DEF RunLoop, DecodeVideo, DoTaskReturns, LeaveRun
<1>6. CASE Close
  BY <1>6 DEF Close, CloseSignals, CloseJoinsReader, CloseJoinsAudio, CloseReleases
<1>7. CASE \E n \in Sessions : Reader(n)
  BY <1>7 DEF Reader, ReaderStarts, ReaderTop, ReaderReads, ReaderExits, ReaderGoes
<1>8. CASE Audio
  BY <1>8 DEF Audio, AudioStarts, AudioTop, AudioDecodes, AudioExits
<1>9. CASE UNCHANGED vars
  BY <1>9 DEF vars
<1>10. QED
  BY <1>1, <1>2, <1>3, <1>4, <1>5, <1>6, <1>7, <1>8, <1>9 DEF Next, Gui, Worker, Open

LEMMA SessionsStep ==
  sessions \in 0..MaxSessions /\ [Next]_vars => sessions' \in 0..MaxSessions
<1> SUFFICES ASSUME sessions \in 0..MaxSessions, [Next]_vars
             PROVE  sessions' \in 0..MaxSessions
  OBVIOUS
<1>1. CASE Start
  BY <1>1, PlayerAssumption DEF Start
<1>2. [Next]_vars /\ ~Start => sessions' = sessions
  BY DEF Next, Gui, Worker, Open, CallMethod, Seek, StopCalled, Stop, Delete, OpenInput,
     InitVideo, InitAudio, OpenSetsPolicy, StartReader, StartAudio, OpenReturns,
     OpenFails, RunLoop, DecodeVideo, DoTaskReturns, LeaveRun, Close, CloseSignals,
     CloseJoinsReader, CloseJoinsAudio, CloseReleases, Reader, Audio, vars, playerVars
<1>3. QED
  BY <1>1, <1>2

(* The pointer moves only when a reader is started or joined. *)
LEMMA PointerStep ==
  PlacesOK /\ PointerOK /\ sessions \in 0..MaxSessions /\ [Next]_vars => PointerOK'
<1> SUFFICES ASSUME PlacesOK, PointerOK, sessions \in 0..MaxSessions, [Next]_vars
             PROVE  PointerOK'
  OBVIOUS
<1> USE DEF PlacesOK, PointerOK
<1>1. CASE StartReader
  <2>1. readThread' = sessions /\ rpc' = [rpc EXCEPT ![sessions] = "start"]
    BY <1>1 DEF StartReader
  <2> QED
    BY <2>1, PlayerAssumption DEF Sessions
<1>2. CASE CloseJoinsReader
  BY <1>2, PlayerAssumption DEF CloseJoinsReader
<1>3. ASSUME NEW n \in Sessions, Reader(n)
      PROVE  PointerOK'
  <2>1. readThread' = readThread /\ rpc[n] \notin {"none", "joined"}
    BY <1>3 DEF Reader, ReaderStarts, ReaderTop, ReaderReads, ReaderExits, ReaderGoes
  <2>2. \E to \in {"top", "read", "exiting", "exited"} : rpc' = [rpc EXCEPT ![n] = to]
    BY <1>3 DEF Reader, ReaderStarts, ReaderTop, ReaderReads, ReaderExits, ReaderGoes
  <2> QED
    BY <2>1, <2>2, PlayerAssumption DEF Sessions
<1>4. UNCHANGED <<rpc, readThread>> => PointerOK'
  OBVIOUS
<1>5. [Next]_vars => \/ StartReader \/ CloseJoinsReader \/ (\E n \in Sessions : Reader(n))
                     \/ UNCHANGED <<rpc, readThread>>
  BY DEF Next, Gui, Worker, Open, Start, CallMethod, Seek, StopCalled, Stop, Delete,
     OpenInput,
     InitVideo, InitAudio, OpenSetsPolicy, StartAudio, OpenReturns, OpenFails, RunLoop,
     DecodeVideo, DoTaskReturns, LeaveRun, Close, CloseSignals, CloseJoinsAudio,
     CloseReleases, Audio, vars, playerVars, readVars
<1>6. QED
  BY <1>1, <1>2, <1>3, <1>4, <1>5

(* open runs in a session, and only its failing end adds one to leftBehind. *)
OpenedInSession == opc # "idle" => sessions # 0

LEMMA OpenedStep ==
  sessions \in 0..MaxSessions /\ OpenedInSession /\ [Next]_vars => OpenedInSession'
<1> SUFFICES ASSUME sessions \in 0..MaxSessions, OpenedInSession, [Next]_vars
             PROVE  OpenedInSession'
  OBVIOUS
<1>1. Start => sessions' = sessions + 1
  BY DEF Start
<1>2. ~Start => UNCHANGED sessions /\ (opc' = opc \/ opc # "idle")
  BY DEF Next, Gui, Worker, Open, CallMethod, Seek, StopCalled, Stop, Delete, OpenInput,
     InitVideo, InitAudio, OpenSetsPolicy, StartReader, StartAudio, OpenReturns,
     OpenFails, RunLoop, DecodeVideo, DoTaskReturns, LeaveRun, Close, CloseSignals,
     CloseJoinsReader, CloseJoinsAudio, CloseReleases, Reader, Audio, vars, playerVars, openVars
<1>3. QED
  BY <1>1, <1>2, PlayerAssumption DEF OpenedInSession

LEMMA BehindStep ==
  /\ sessions \in 0..MaxSessions /\ leftBehind \subseteq Sessions
  /\ OpenedInSession /\ [Next]_vars
  => leftBehind' \subseteq Sessions
<1> SUFFICES ASSUME sessions \in 0..MaxSessions, leftBehind \subseteq Sessions,
                    OpenedInSession, [Next]_vars
             PROVE  leftBehind' \subseteq Sessions
  OBVIOUS
<1>1. \/ UNCHANGED leftBehind
      \/ opc # "idle" /\ leftBehind' = leftBehind \cup {sessions}
  BY DEF Next, Gui, Worker, Open, Start, CallMethod, Seek, StopCalled, Stop, Delete,
     OpenInput,
     InitVideo, InitAudio, OpenSetsPolicy, StartReader, StartAudio, OpenReturns,
     OpenFails, RunLoop, DecodeVideo, DoTaskReturns, LeaveRun, Close, CloseSignals,
     CloseJoinsReader, CloseJoinsAudio, CloseReleases, Reader, Audio, vars, playerVars, readVars
<1>2. opc # "idle" => sessions \in Sessions
  BY PlayerAssumption DEF OpenedInSession, Sessions
<1>3. QED
  BY <1>1, <1>2

TypeInv == TypeOK /\ OpenedInSession

LEMMA TypeAlways == Spec => []TypeInv
<1>1. Init => TypeInv
  BY TypeInit DEF Init, TypeInv, OpenedInSession
<1>2. TypeInv /\ [Next]_vars => TypeInv'
  BY PlayerIsThread, ThreadTypeStep, FlagsStep, PlacesStep, SessionsStep, PointerStep,
     OpenedStep, BehindStep DEF TypeInv, TypeOK
<1>3. QED
  BY <1>1, <1>2, PTL DEF Spec

(* The player's state always has the shape the code gives it.              *)
THEOREM TypeCorrect == Spec => []TypeOK
<1>1. TypeInv => TypeOK
  BY DEF TypeInv
<1>2. QED
  BY <1>1, TypeAlways, PTL
-----------------------------------------------------------------------------
LEMMA StatusInit == Init => StatusInv
  BY DEF Init, ThreadInit, StatusInv, StopOutsideRun, StopSticks

LEMMA StatusStep == ThreadTypeOK /\ StatusInv /\ ThreadStep => StatusInv'
<1> SUFFICES ASSUME ThreadTypeOK, StatusInv, ThreadStep PROVE StatusInv'
  OBVIOUS
<1> USE DEF ThreadTypeOK, Status, StatusInv, StopOutsideRun, StopSticks
<1>1. CASE ThreadStart /\ ~joinable
  BY <1>1 DEF ThreadStart
<1>2. ASSUME NEW method \in {"pause", "resume", "policy"}, ThreadReads(method)
      PROVE  StatusInv'
  BY <1>2 DEF ThreadReads
<1>3. CASE ThreadWrites \/ ThreadLeaves \/ ThreadComesBack
  BY <1>3 DEF ThreadWrites, ThreadLeaves, ThreadComesBack
<1>4. CASE ThreadStopCalled
  BY <1>4 DEF ThreadStopCalled
<1>5. CASE ThreadStop
  BY <1>5 DEF ThreadStop
<1>6. CASE ThreadJoin
  BY <1>6 DEF ThreadJoin
<1>7. CASE PrepareReadsStatus \/ PrepareWritesStatus \/ PrepareFails \/ PrepareSucceeds
  BY <1>7 DEF PrepareReadsStatus, PrepareWritesStatus, PrepareFails, PrepareSucceeds
<1>8. CASE Run
  BY <1>8 DEF Run
<1>9. CASE LoopTest
  BY <1>9 DEF LoopTest
<1>10. CASE LeavePause \/ TaskReturns \/ Stopped \/ FinishReturns
  BY <1>10 DEF LeavePause, TaskReturns, Stopped, FinishReturns
<1>11. CASE UNCHANGED threadVars
  BY <1>11 DEF threadVars
<1>12. QED
  BY <1>1, <1>2, <1>3, <1>4, <1>5, <1>6, <1>7, <1>8, <1>9, <1>10, <1>11 DEF ThreadStep

LEMMA StatusAlways == Spec => []StatusInv
<1>1. TypeOK /\ StatusInv /\ [Next]_vars => StatusInv'
  BY PlayerIsThread, StatusStep DEF TypeOK
<1>2. QED
  BY <1>1, StatusInit, TypeCorrect, PTL DEF Spec

(* A stop that was set is not taken back, although pause, resume and       *)
(* setSleepPolicy write the status back after other threads' steps.        *)
THEOREM StopIsFinal == Spec => []StopSticks
<1>1. StatusInv => StopSticks
  BY DEF StatusInv
<1>2. QED
  BY <1>1, StatusAlways, PTL

(* The status is STOP outside run(), so that HThread::start, which does    *)
(* nothing unless it is, starts every session.                             *)
THEOREM StartIsPossible == Spec => []StopOutsideRun
<1>1. StatusInv => StopOutsideRun
  BY DEF StatusInv
<1>2. QED
  BY <1>1, StatusAlways, PTL
-----------------------------------------------------------------------------
(* Where the media is open: from the step of open that opens it to the     *)
(* close of the same worker.                                               *)
WorkerInv ==
  /\ opc # "idle" <=> wpc \in {"prepare", "policy"}
  /\ wpc = "policy" => opc = "policy"
  /\ wpc \in {"prepared", "loop", "paused", "task", "stopping"} => fmt
  /\ opc \notin {"idle", "input", "fail"} => fmt

(* Whoever closes is alone with the player: the worker in doFinish, or the *)
(* destructor when there is no worker.                                     *)
CloserInv ==
  /\ cpc # "idle" => wpc = "finish" \/ deleted = "closing"
  /\ deleted # "no" => ~joinable
  /\ ~joinable => wpc \in {"none", "exited"}

MediaInv == WorkerInv /\ CloserInv

(* A seek in progress that found a running player still has one.           *)
SeekInv == gpc = "elsewhere" /\ seen["gui"] # "STOP" => status # "STOP"

LEMMA MediaInit == Init => MediaInv /\ SeekInv
  BY DEF Init, ThreadInit, MediaInv, WorkerInv, CloserInv, SeekInv

LEMMA MediaStep == TypeOK /\ MediaInv /\ [Next]_vars => MediaInv'
<1> SUFFICES ASSUME TypeOK, MediaInv, [Next]_vars PROVE MediaInv'
  OBVIOUS
<1> USE DEF MediaInv, WorkerInv, CloserInv
<1>1. CASE Start
  BY <1>1 DEF Start, ThreadStart
<1>2. CASE CallMethod \/ Seek \/ StopCalled
  BY <1>2 DEF CallMethod, ThreadReads, ThreadWrites, Seek, ThreadLeaves,
     ThreadComesBack, StopCalled, ThreadStopCalled, playerVars, openVars
<1>3. CASE Stop
  BY <1>3 DEF Stop, ThreadStop, ThreadJoin, playerVars, openVars
<1>4. CASE Delete
  BY <1>4 DEF Delete, threadVars, openVars
<1>5. CASE OpenInput \/ InitVideo \/ InitAudio \/ StartReader \/ StartAudio
  BY <1>5 DEF OpenInput, InitVideo, InitAudio, StartReader, StartAudio, threadVars
<1>6. CASE OpenSetsPolicy
  BY <1>6 DEF OpenSetsPolicy, PrepareReadsStatus, PrepareWritesStatus
<1>7. CASE OpenReturns \/ OpenFails
  BY <1>7 DEF OpenReturns, OpenFails, PrepareSucceeds, PrepareFails, threadVars
<1>8. CASE RunLoop \/ DoTaskReturns
  BY <1>8 DEF RunLoop, DoTaskReturns, Run, LoopTest, LeavePause, TaskReturns,
     playerVars, openVars
<1>9. CASE DecodeVideo
  BY <1>9 DEF DecodeVideo, threadVars, openVars
<1>10. CASE LeaveRun
  BY <1>10 DEF LeaveRun, Stopped, openVars
<1>11. CASE CloseSignals \/ CloseJoinsReader \/ CloseJoinsAudio
  BY <1>11 DEF CloseSignals, CloseJoinsReader, CloseJoinsAudio, threadVars, openVars
<1>12. CASE CloseReleases
  BY <1>12 DEF CloseReleases, FinishReturns, threadVars
<1>13. CASE (\E n \in Sessions : Reader(n)) \/ Audio
  BY <1>13 DEF Reader, Audio, threadVars, openVars
<1>14. CASE UNCHANGED vars
  BY <1>14 DEF vars, threadVars, playerVars, openVars
<1>15. QED
  BY <1>1, <1>2, <1>3, <1>4, <1>5, <1>6, <1>7, <1>8, <1>9, <1>10, <1>11, <1>12, <1>13,
     <1>14 DEF Next, Gui, Worker, Open, Close

LEMMA SeekStep == ThreadTypeOK /\ StatusInv /\ SeekInv /\ ThreadStep => SeekInv'
<1> SUFFICES ASSUME ThreadTypeOK, StatusInv, SeekInv, ThreadStep PROVE SeekInv'
  OBVIOUS
<1> USE DEF ThreadTypeOK, Status, StatusInv, StopOutsideRun, SeekInv
<1>1. CASE ThreadStart /\ ~joinable
  BY <1>1 DEF ThreadStart
<1>2. ASSUME NEW method \in {"pause", "resume", "policy"}, ThreadReads(method)
      PROVE  SeekInv'
  BY <1>2 DEF ThreadReads
<1>3. CASE ThreadWrites \/ ThreadLeaves \/ ThreadComesBack
  BY <1>3 DEF ThreadWrites, ThreadLeaves, ThreadComesBack
<1>4. CASE ThreadStopCalled \/ ThreadStop \/ ThreadJoin
  BY <1>4 DEF ThreadStopCalled, ThreadStop, ThreadJoin
<1>5. CASE PrepareReadsStatus \/ PrepareWritesStatus \/ PrepareFails \/ PrepareSucceeds
  BY <1>5 DEF PrepareReadsStatus, PrepareWritesStatus, PrepareFails, PrepareSucceeds
<1>6. CASE Run \/ LoopTest \/ LeavePause \/ TaskReturns \/ Stopped \/ FinishReturns
  BY <1>6 DEF Run, LoopTest, LeavePause, TaskReturns, Stopped, FinishReturns
<1>7. CASE UNCHANGED threadVars
  BY <1>7 DEF threadVars
<1>8. QED
  BY <1>1, <1>2, <1>3, <1>4, <1>5, <1>6, <1>7 DEF ThreadStep

(* A seek that is called in a running or paused player finds the media     *)
(* open as long as it takes: nothing the worker does meanwhile closes it.  *)
THEOREM SeekIsInOpenMedia == Spec => []SeekFindsItOpen
<1>1. TypeOK /\ StatusInv /\ SeekInv /\ [Next]_vars => SeekInv'
  BY PlayerIsThread, SeekStep DEF TypeOK
<1>2. TypeOK /\ StatusInv /\ MediaInv /\ SeekInv => SeekFindsItOpen
  BY DEF StatusInv, StopOutsideRun, MediaInv, WorkerInv, SeekInv, SeekFindsItOpen
<1>3. QED
  BY <1>1, <1>2, MediaInit, MediaStep, StatusAlways, TypeCorrect, PTL DEF Spec
-----------------------------------------------------------------------------
(* Which contexts exist in each step of open, and that the audio thread    *)
(* does not before open has started it: there is a decoder for it or none. *)
OpenInv ==
  /\ opc \in {"input", "fail"} => ~fmt /\ ~vctx /\ ~actx
  /\ opc = "video" => ~vctx /\ ~actx
  /\ opc = "audio" => ~actx
  /\ opc \in {"audio", "policy", "startReader", "startAudio", "return"} => vctx
  /\ opc \in {"policy", "startReader", "startAudio", "return"} /\ ~audioOk => ~actx
  /\ opc \notin {"idle", "return"} => apc = "none"

(* The audio thread outlives neither its decoder nor the worker.           *)
LiveInv ==
  /\ apc # "none" => actx
  /\ decoding => wpc = "task"
  /\ wpc \in {"prepared", "loop", "paused", "task", "stopping"} => vctx
  /\ wpc \in {"none", "exited"} => apc = "none" /\ ~fmt /\ ~vctx /\ ~actx
  /\ cpc = "release" => apc = "none"

SessionInv == OpenInv /\ LiveInv

(* A reader is joined with its session, unless its open failed.            *)
OwnReader ==
  \A n \in Sessions :
    Running(n) /\ n \notin leftBehind =>
      /\ n = readThread /\ n = sessions /\ fmt
      /\ wpc \notin {"none", "exited"}
      /\ opc \notin {"input", "video", "audio", "policy", "startReader", "fail"}

(* Where the pointer to a reader went: it is read_thread still, or was     *)
(* overwritten by a later one, and by what close did with that.            *)
Overwritten(n) == \E m \in Sessions : n < m /\ (m = readThread \/ rpc[m] = "joined")

PointerInv ==
  /\ \A n \in Sessions : n > sessions => rpc[n] = "none"
  /\ \A n \in Sessions : rpc[n] \notin {"none", "joined"} => n = readThread \/ Overwritten(n)
  /\ cpc \in {"joinAudio", "release"} \/ deleted = "yes" => readThread = 0

ReaderInv == OwnReader /\ PointerInv

LEMMA SessionInit == Init => SessionInv
  BY DEF Init, ThreadInit, SessionInv, OpenInv, LiveInv

LEMMA SessionStep ==
  ASSUME TypeOK, MediaInv, SessionInv, [Next]_vars
  PROVE  SessionInv'
<1> USE DEF SessionInv, OpenInv, LiveInv, MediaInv, WorkerInv, CloserInv
<1>1. CASE Start
  BY <1>1 DEF Start, ThreadStart, readVars, audioVars
<1>2. CASE CallMethod
  BY <1>2 DEF CallMethod, ThreadReads, ThreadWrites, playerVars, openVars, readVars,
     audioVars
<1>3. CASE Seek
  BY <1>3 DEF Seek, ThreadLeaves, ThreadComesBack, playerVars, openVars, readVars,
     audioVars
<1>4. CASE StopCalled
  BY <1>4 DEF StopCalled, ThreadStopCalled, threadVars, openVars, readVars, audioVars
<1>5. CASE Stop
  BY <1>5 DEF Stop, ThreadStop, ThreadJoin, playerVars, openVars, readVars, audioVars
<1>6. CASE Delete
  BY <1>6 DEF Delete, threadVars, openVars, readVars, audioVars
<1>7. CASE OpenInput
  BY <1>7 DEF OpenInput, threadVars, openVars, readVars, audioVars
<1>8. CASE InitVideo
  <2>1. opc = "video" /\ UNCHANGED <<audioOk, actx, threadVars, cpc, deleted, apc, decoding>>
    BY <1>8 DEF InitVideo, readVars, audioVars
  <2>2. CASE vctx' = TRUE /\ opc' = "audio" /\ UNCHANGED fmt
    BY <2>1, <2>2 DEF threadVars
  <2>3. CASE fmt' = FALSE /\ opc' = "fail" /\ UNCHANGED vctx
    BY <2>1, <2>3 DEF threadVars
  <2> QED
    BY <1>8, <2>2, <2>3 DEF InitVideo
<1>9. CASE InitAudio
  BY <1>9 DEF InitAudio, threadVars, openVars, readVars, audioVars
<1>10. CASE OpenSetsPolicy
  BY <1>10 DEF OpenSetsPolicy, PrepareReadsStatus, PrepareWritesStatus, readVars,
     audioVars
<1>11. CASE StartReader
  BY <1>11 DEF StartReader, threadVars, openVars, readVars, audioVars
<1>12. CASE StartAudio
  BY <1>12 DEF StartAudio, threadVars, openVars, readVars, audioVars
<1>13. CASE OpenReturns
  BY <1>13 DEF OpenReturns, PrepareSucceeds, threadVars, readVars, audioVars
<1>14. CASE OpenFails
  BY <1>14 DEF OpenFails, PrepareFails, readVars, audioVars
<1>15. CASE RunLoop
  BY <1>15 DEF RunLoop, Run, LoopTest, LeavePause, playerVars, openVars, readVars,
     audioVars
<1>16. CASE DecodeVideo
  BY <1>16 DEF DecodeVideo, threadVars, openVars, readVars, audioVars
<1>17. CASE DoTaskReturns
  BY <1>17 DEF DoTaskReturns, TaskReturns, playerVars, openVars, readVars, audioVars
<1>18. CASE LeaveRun
  BY <1>18 DEF LeaveRun, Stopped, threadVars, openVars, readVars, audioVars
<1>19. CASE CloseSignals
  BY <1>19 DEF CloseSignals, threadVars, openVars, readVars, audioVars
<1>20. CASE CloseJoinsReader
  BY <1>20 DEF CloseJoinsReader, threadVars, openVars, readVars, audioVars
<1>21. CASE CloseJoinsAudio
  BY <1>21 DEF CloseJoinsAudio, threadVars, openVars, readVars, audioVars
<1>22. CASE CloseReleases
  BY <1>22 DEF CloseReleases, FinishReturns, threadVars, readVars, audioVars
<1>23. CASE \E n \in Sessions : Reader(n)
  BY <1>23 DEF Reader, threadVars, openVars, audioVars
<1>24. CASE Audio
  BY <1>24 DEF Audio, AudioStarts, AudioTop, AudioDecodes, AudioExits, threadVars,
     openVars, readVars, audioVars
<1>25. CASE UNCHANGED vars
  BY <1>25 DEF vars, threadVars, playerVars, openVars, readVars, audioVars
<1>26. QED
  BY <1>1, <1>2, <1>3, <1>4, <1>5, <1>6, <1>7, <1>8, <1>9, <1>10, <1>11, <1>12, <1>13,
     <1>14, <1>15, <1>16, <1>17, <1>18, <1>19, <1>20, <1>21, <1>22, <1>23, <1>24, <1>25
     DEF Next, Gui, Worker, Open, Close

LEMMA OwnReaderStep ==
  ASSUME TypeInv, MediaInv, SessionInv, OwnReader, PointerInv, [Next]_vars
  PROVE  OwnReader'
<1> USE PlayerAssumption DEF TypeInv, TypeOK, PlacesOK, ThreadTypeOK, OpenedInSession,
        OwnReader, PointerInv, Running, Sessions, MediaInv, WorkerInv, CloserInv
<1>1. CASE Start
  BY <1>1 DEF Start, ThreadStart, threadVars, openVars, readVars
<1>2. CASE CallMethod
  BY <1>2 DEF CallMethod, ThreadReads, ThreadWrites, playerVars, threadVars,
     openVars, readVars
<1>3. CASE Seek
  BY <1>3 DEF Seek, ThreadLeaves, ThreadComesBack, playerVars, threadVars, openVars,
     readVars
<1>4. CASE StopCalled
  BY <1>4 DEF StopCalled, ThreadStopCalled, threadVars, openVars, readVars
<1>5. CASE Stop
  BY <1>5 DEF Stop, ThreadStop, ThreadJoin, playerVars, threadVars, openVars, readVars
<1>6. CASE Delete
  BY <1>6 DEF Delete, threadVars, openVars, readVars
<1>7. CASE OpenInput
  BY <1>7 DEF OpenInput, threadVars, openVars, readVars
<1>8. CASE InitVideo
  BY <1>8 DEF InitVideo, threadVars, openVars, readVars
<1>9. CASE InitAudio
  BY <1>9 DEF InitAudio, threadVars, openVars, readVars
<1>10. CASE OpenSetsPolicy
  BY <1>10 DEF OpenSetsPolicy, PrepareReadsStatus, PrepareWritesStatus, threadVars,
     openVars, readVars
<1>11. CASE StartReader
  BY <1>11 DEF StartReader, threadVars, openVars, readVars
<1>12. CASE StartAudio
  BY <1>12 DEF StartAudio, threadVars, openVars, readVars
<1>13. CASE OpenReturns
  BY <1>13 DEF OpenReturns, PrepareSucceeds, threadVars, openVars, readVars
<1>14. CASE OpenFails
  BY <1>14 DEF OpenFails, PrepareFails, threadVars, openVars, readVars
<1>15. CASE RunLoop
  BY <1>15 DEF RunLoop, Run, LoopTest, LeavePause, playerVars, threadVars, openVars,
     readVars
<1>16. CASE DecodeVideo
  BY <1>16 DEF DecodeVideo, threadVars, openVars, readVars
<1>17. CASE DoTaskReturns
  BY <1>17 DEF DoTaskReturns, TaskReturns, playerVars, threadVars, openVars, readVars
<1>18. CASE LeaveRun
  BY <1>18 DEF LeaveRun, Stopped, threadVars, openVars, readVars
<1>19. CASE CloseSignals
  BY <1>19 DEF CloseSignals, threadVars, openVars, readVars
<1>20. CASE CloseJoinsReader
  BY <1>20 DEF CloseJoinsReader, threadVars, openVars, readVars
<1>21. CASE CloseJoinsAudio
  BY <1>21 DEF CloseJoinsAudio, threadVars, openVars, readVars
<1>22. CASE CloseReleases
  BY <1>22 DEF CloseReleases, FinishReturns, threadVars, openVars, readVars
<1>23. ASSUME NEW n \in Sessions, Reader(n)
      PROVE  OwnReader'
  <2>1. UNCHANGED <<threadVars, openVars, sessions, readThread, leftBehind>> /\ Running(n)
    BY <1>23 DEF Reader, ReaderStarts, ReaderTop, ReaderReads, ReaderExits,
       ReaderGoes, Running
  <2>2. \A m \in Sessions : m # n => rpc'[m] = rpc[m]
    BY <1>23 DEF Reader, ReaderStarts, ReaderTop, ReaderReads, ReaderExits, ReaderGoes
  <2> QED
    BY <2>1, <2>2 DEF threadVars, openVars
<1>24. CASE Audio \/ UNCHANGED vars
  BY <1>24 DEF Audio, vars, threadVars, playerVars, openVars, readVars
<1> QED
  BY <1>1, <1>2, <1>3, <1>4, <1>5, <1>6, <1>7, <1>8, <1>9, <1>10, <1>11, <1>12,
     <1>13, <1>14, <1>15, <1>16, <1>17, <1>18, <1>19, <1>20, <1>21, <1>22, <1>23,
     <1>24
     DEF Next, Gui, Worker, Open, Close

LEMMA PointerInvStep ==
  ASSUME TypeInv, MediaInv, PointerInv, [Next]_vars
  PROVE  PointerInv'
<1> USE DEF TypeInv, TypeOK, PlacesOK, PointerInv, Overwritten, Sessions
<1>1. CASE Start
  BY <1>1, PlayerAssumption DEF Start, ThreadStart, readVars, MediaInv, CloserInv
<1>2. CASE Delete
  BY <1>2 DEF Delete, readVars
<1>3. CASE StartReader
  <2>1. /\ sessions \in Sessions
        /\ rpc' = [rpc EXCEPT ![sessions] = "start"] /\ readThread' = sessions
        /\ UNCHANGED <<sessions, cpc, deleted>>
    BY <1>3, PlayerAssumption DEF StartReader, OpenedInSession
  <2>2. cpc = "idle" /\ deleted = "no"
    BY <1>3 DEF StartReader, MediaInv, WorkerInv, CloserInv, ThreadTypeOK
  <2>3. \A n \in Sessions : rpc'[n] \notin {"none", "joined"} => n = sessions \/ n < sessions
    BY <2>1, PlayerAssumption
  <2> QED
    BY <2>1, <2>2, <2>3, PlayerAssumption
<1>4. CASE CloseSignals
  BY <1>4 DEF CloseSignals
<1>5. CASE CloseJoinsReader
  BY <1>5 DEF CloseJoinsReader
<1>6. CASE CloseJoinsAudio
  BY <1>6 DEF CloseJoinsAudio, readVars
<1>7. CASE CloseReleases
  BY <1>7 DEF CloseReleases, readVars
<1>8. CASE LeaveRun
  BY <1>8 DEF LeaveRun, readVars
<1>9. ASSUME NEW n \in Sessions, Reader(n)
      PROVE  PointerInv'
  <2>1. /\ UNCHANGED <<sessions, readThread, cpc, deleted>>
        /\ rpc[n] \notin {"none", "joined"} /\ rpc'[n] # "none"
    BY <1>9 DEF Reader, ReaderStarts, ReaderTop, ReaderReads, ReaderExits, ReaderGoes
  <2>2. \A m \in Sessions : m # n => rpc'[m] = rpc[m]
    BY <1>9 DEF Reader, ReaderStarts, ReaderTop, ReaderReads, ReaderExits, ReaderGoes
  <2>3. n <= sessions
    BY <2>1, PlayerAssumption
  <2>4. \A m \in Sessions : m > sessions => rpc'[m] = "none"
    BY <2>1, <2>2, <2>3, PlayerAssumption
  <2>5. \A m \in Sessions : rpc[m] = "joined" => rpc'[m] = "joined"
    BY <2>1, <2>2
  <2>6. \A m \in Sessions : rpc'[m] \notin {"none", "joined"} => rpc[m] \notin {"none", "joined"}
    BY <2>1, <2>2
  <2> QED
    BY <2>1, <2>4, <2>5, <2>6
<1>10. UNCHANGED <<sessions, rpc, readThread, cpc, deleted>> => PointerInv'
  OBVIOUS
<1>11. CASE CallMethod \/ Seek \/ StopCalled \/ Stop
  BY <1>10, <1>11 DEF CallMethod, Seek, StopCalled, Stop, playerVars, readVars
<1>12. CASE OpenInput \/ InitVideo \/ InitAudio \/ OpenSetsPolicy \/ StartAudio
  BY <1>10, <1>12 DEF OpenInput, InitVideo, InitAudio, OpenSetsPolicy, StartAudio,
     readVars
<1>13. CASE OpenReturns \/ OpenFails
  BY <1>10, <1>13 DEF OpenReturns, OpenFails, readVars
<1>14. CASE RunLoop \/ DecodeVideo \/ DoTaskReturns
  BY <1>10, <1>14 DEF RunLoop, DecodeVideo, DoTaskReturns, playerVars, readVars
<1>15. CASE Audio \/ UNCHANGED vars
  BY <1>10, <1>15 DEF Audio, vars, playerVars, readVars
<1> QED
  BY <1>1, <1>2, <1>3, <1>4, <1>5, <1>6, <1>7, <1>8, <1>9, <1>11, <1>12, <1>13, <1>14,
     <1>15 DEF Next, Gui, Worker, Open, Close

LEMMA SessionAlways == Spec => [](TypeInv /\ MediaInv /\ SessionInv /\ ReaderInv)
<1>1. Init => ReaderInv
  BY DEF Init, ReaderInv, OwnReader, PointerInv, Running
<1>2. TypeInv /\ MediaInv /\ SessionInv /\ ReaderInv /\ [Next]_vars => SessionInv' /\ ReaderInv'
  BY SessionStep, OwnReaderStep, PointerInvStep DEF TypeInv, ReaderInv
<1>3. TypeInv => TypeOK
  BY DEF TypeInv
<1>4. QED
  BY <1>1, <1>2, <1>3, MediaInit, MediaStep, SessionInit, TypeAlways, PTL DEF Spec

(* No thread uses a context that is not open, however often the GUI stops  *)
(* and restarts the player and when it deletes it: close joins a thread    *)
(* before it takes down what the thread uses, and the next open finds it   *)
(* gone.  The one exception is named in the property: the reader of a      *)
(* session whose open failed behind its start.                             *)
THEOREM UsedOnlyWhenOpen == Spec => []OpenWhenUsed
<1>1. SessionInv /\ ReaderInv => OpenWhenUsed
  BY DEF SessionInv, LiveInv, ReaderInv, OwnReader, Running, OpenWhenUsed
<1>2. QED
  BY <1>1, SessionAlways, PTL

(* A player whose worker was joined has no open context and no thread but  *)
(* readers whose open had failed; and of these a deleted player has only   *)
(* those behind which a later session put its own into read_thread.        *)
THEOREM StoppedMeansEmpty == Spec => []StopLeavesNothing
<1>1. MediaInv /\ SessionInv /\ ReaderInv => StopLeavesNothing
  <2> SUFFICES ASSUME MediaInv, SessionInv, ReaderInv,
                      gpc = "idle", ~joinable, deleted # "closing"
               PROVE  /\ ~fmt /\ ~vctx /\ ~actx
                      /\ wpc \in {"none", "exited"} /\ apc = "none"
                      /\ \A n \in Sessions :
                           Running(n) =>
                             /\ n \in leftBehind
                             /\ deleted = "yes" => \E m \in Sessions : n < m /\ rpc[m] = "joined"
    BY DEF StopLeavesNothing
  <2>1. /\ ~fmt /\ ~vctx /\ ~actx
        /\ wpc \in {"none", "exited"} /\ apc = "none"
    BY DEF MediaInv, CloserInv, SessionInv, LiveInv
  <2>2. ASSUME NEW n \in Sessions, Running(n)
        PROVE  n \in leftBehind
    BY <2>1, <2>2 DEF ReaderInv, OwnReader
  <2>3. ASSUME NEW n \in Sessions, Running(n), deleted = "yes"
        PROVE  \E m \in Sessions : n < m /\ rpc[m] = "joined"
    BY <2>3, PlayerAssumption DEF ReaderInv, PointerInv, Running, Overwritten, Sessions
  <2> QED
    BY <2>1, <2>2, <2>3
<1>2. QED
  BY <1>1, SessionAlways, PTL

(* The only event that can follow the CLOSED of a session comes from the   *)
(* reader of an open that failed: every other reader was joined before.    *)
THEOREM NothingAfterClosed == Spec => ClosedIsLast
<1>1. /\ SessionInv /\ MediaInv /\ ReaderInv /\ [Next]_vars
      => [event = "CLOSED" /\ event' # event /\ wpc = "exited" =>
            \E n \in leftBehind : rpc[n] = "read"]_vars
  <2> SUFFICES ASSUME SessionInv, MediaInv, ReaderInv, [Next]_vars, wpc = "exited",
                      event' # event
               PROVE  \E n \in leftBehind : rpc[n] = "read"
    OBVIOUS
  <2>1. opc = "idle"
    BY DEF MediaInv, WorkerInv
  <2>2. CASE Gui
    BY <2>2 DEF Gui, Start, CallMethod, Seek, StopCalled, Stop, Delete, playerVars
  <2>3. CASE Worker
    BY <2>1, <2>3 DEF Worker, Open, OpenInput, InitVideo, InitAudio, OpenSetsPolicy,
       StartReader,
       StartAudio, OpenReturns, OpenFails, RunLoop, DecodeVideo, DoTaskReturns, LeaveRun, playerVars
  <2>4. CASE Close
    BY <2>4 DEF Close, CloseSignals, CloseJoinsReader, CloseJoinsAudio,
       CloseReleases, FinishReturns
  <2>5. ASSUME NEW n \in Sessions, Reader(n)
        PROVE  n \in leftBehind /\ rpc[n] = "read"
    <3>1. rpc[n] = "read"
      BY <2>5 DEF Reader, ReaderStarts, ReaderTop, ReaderReads, ReaderExits, ReaderGoes
    <3> QED
      BY <3>1 DEF ReaderInv, OwnReader, Running
  <2>6. CASE Audio \/ UNCHANGED vars
    BY <2>6 DEF Audio, vars, playerVars
  <2> QED
    BY <2>2, <2>3, <2>4, <2>5, <2>6 DEF Next
<1>2. QED
  BY <1>1, SessionAlways, PTL DEF Spec, ClosedIsLast
=============================================================================
