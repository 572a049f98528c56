------------------------------- MODULE HThread -------------------------------
(***************************************************************************)
(* HThread, the base class of HFFPlayer: a status word shared by the       *)
(* thread that controls it (the GUI thread) and the worker it starts.      *)
(*                                                                         *)
(* The status is atomic but the methods are not: pause, resume and         *)
(* setSleepPolicy read it and then write it, and another thread's write    *)
(* may come between.  The virtual methods doPrepare, doTask and doFinish   *)
(* belong to the derived class; what they return are actions of their own  *)
(* here, which HFFPlayer constrains.                                       *)
(***************************************************************************)
EXTENDS Naturals

VARIABLES
  status,         \* STOP, RUNNING or PAUSE
  seen,           \* the status a thread read in the method it is executing
  joinable,       \* HThread::thread is joinable
  gpc,            \* where the controlling thread is
  wpc             \* where the worker is

threadVars == <<status, seen, joinable, gpc, wpc>>

Status == {"STOP", "RUNNING", "PAUSE"}

ThreadTypeOK ==
  /\ status \in Status
  /\ seen \in [{"gui", "worker"} -> Status]
  /\ joinable \in BOOLEAN
  /\ gpc \in {"idle", "pause", "resume", "policy", "elsewhere", "stop", "join", "terminated"}
  /\ wpc \in {"none", "prepare", "policy", "prepared", "loop", "paused", "task",
              "stopping", "finish", "exited"}

ThreadInit ==
  /\ status = "STOP"
  /\ seen = [t \in {"gui", "worker"} |-> "STOP"]
  /\ joinable = FALSE
  /\ gpc = "idle"
  /\ wpc = "none"
-----------------------------------------------------------------------------
(* The controlling thread. *)

(* Mutant of ThreadStart: the status is RUNNING from the start. *)
ThreadStartRunning ==
  /\ gpc = "idle"
  /\ status = "STOP"
  /\ IF joinable
     THEN gpc' = "terminated" /\ UNCHANGED <<joinable, wpc>>
     ELSE joinable' = TRUE /\ wpc' = "prepare" /\ UNCHANGED gpc
  /\ status' = "RUNNING"
  /\ UNCHANGED seen

(* start(): a new worker when the status is STOP.  Assigning a thread to a *)
(* std::thread that is still joinable ends the process.                    *)
ThreadStart ==
  /\ gpc = "idle"
  /\ status = "STOP"
  /\ IF joinable
     THEN gpc' = "terminated" /\ UNCHANGED <<joinable, wpc>>
     ELSE joinable' = TRUE /\ wpc' = "prepare" /\ UNCHANGED gpc
  /\ UNCHANGED <<status, seen>>

(* stop() is called; the derived class may do something of its own first. *)
ThreadStopCalled ==
  /\ gpc = "idle"
  /\ gpc' = "stop"
  /\ UNCHANGED <<status, seen, joinable, wpc>>

(* stop(): set STOP if it is not STOP already, then join. *)
ThreadStop ==
  /\ gpc = "stop"
  /\ status' = "STOP"
  /\ seen' = [seen EXCEPT !["gui"] = status]
  /\ gpc' = "join"
  /\ UNCHANGED <<joinable, wpc>>

(* Mutant of ThreadJoin: detach instead of join. *)
ThreadDetach ==
  /\ gpc = "join"
  /\ joinable' = FALSE
  /\ gpc' = "idle"
  /\ UNCHANGED <<status, seen, wpc>>

(* join() returns when the worker's function has returned. *)
ThreadJoin ==
  /\ gpc = "join"
  /\ joinable => wpc = "exited"
  /\ joinable' = FALSE
  /\ gpc' = "idle"
  /\ UNCHANGED <<status, seen, wpc>>

(* Mutant of ThreadReads: the methods do not test the status. *)
ThreadReadsAnyway(method) ==
  /\ gpc = "idle"
  /\ seen' = [seen EXCEPT !["gui"] = status]
  /\ gpc' = method
  /\ UNCHANGED <<status, joinable, wpc>>

(* The test of pause(), resume() and setSleepPolicy(), which reads the     *)
(* status in order to write it back.                                       *)
ThreadReads(method) ==
  /\ gpc = "idle"
  /\ method = "pause" => status = "RUNNING"
  /\ method = "resume" => status = "PAUSE"
  /\ seen' = [seen EXCEPT !["gui"] = status]
  /\ gpc' = method
  /\ UNCHANGED <<status, joinable, wpc>>

(* The write that follows it. *)
ThreadWrites ==
  /\ gpc \in {"pause", "resume", "policy"}
  /\ status' = CASE gpc = "pause" -> "PAUSE"
                 [] gpc = "resume" -> "RUNNING"
                 [] gpc = "policy" -> seen["gui"]
  /\ gpc' = "idle"
  /\ UNCHANGED <<seen, joinable, wpc>>

(* A method of the derived class that has nothing to do with the status;   *)
(* seen keeps, as history, what the status was when it was called.         *)
ThreadLeaves ==
  /\ gpc = "idle"
  /\ gpc' = "elsewhere"
  /\ seen' = [seen EXCEPT !["gui"] = status]
  /\ UNCHANGED <<status, joinable, wpc>>

ThreadComesBack ==
  /\ gpc = "elsewhere"
  /\ gpc' = "idle"
  /\ UNCHANGED <<status, seen, joinable, wpc>>
-----------------------------------------------------------------------------
(* The worker: the function start() gives to the thread, and run(). *)

(* doPrepare may call setSleepPolicy: the read ... *)
PrepareReadsStatus ==
  /\ wpc = "prepare"
  /\ seen' = [seen EXCEPT !["worker"] = status]
  /\ wpc' = "policy"
  /\ UNCHANGED <<status, joinable, gpc>>

(* ... and the write. *)
PrepareWritesStatus ==
  /\ wpc = "policy"
  /\ status' = seen["worker"]
  /\ wpc' = "prepare"
  /\ UNCHANGED <<seen, joinable, gpc>>

(* doPrepare returned false. *)
PrepareFails ==
  /\ wpc = "prepare"
  /\ wpc' = "exited"
  /\ UNCHANGED <<status, seen, joinable, gpc>>

(* doPrepare returned true. *)
PrepareSucceeds ==
  /\ wpc = "prepare"
  /\ wpc' = "prepared"
  /\ UNCHANGED <<status, seen, joinable, gpc>>

(* setStatus(RUNNING), whatever happened to the status since start(). *)
Run ==
  /\ wpc = "prepared"
  /\ status' = "RUNNING"
  /\ wpc' = "loop"
  /\ UNCHANGED <<seen, joinable, gpc>>

(* while (status != STOP) *)
LoopTest ==
  /\ wpc = "loop"
  /\ wpc' = IF status = "STOP" THEN "stopping" ELSE "paused"
  /\ UNCHANGED <<status, seen, joinable, gpc>>

(* Mutant of LeavePause: the worker leaves the pause RUNNING. *)
LeavePauseResumes ==
  /\ wpc = "paused"
  /\ status # "PAUSE"
  /\ status' = "RUNNING"
  /\ wpc' = "task"
  /\ UNCHANGED <<seen, joinable, gpc>>

(* while (status == PAUSE) yield; then doTask whatever ended the pause. *)
LeavePause ==
  /\ wpc = "paused"
  /\ status # "PAUSE"
  /\ wpc' = "task"
  /\ UNCHANGED <<status, seen, joinable, gpc>>

(* doTask returned; the sleep that follows ends by itself. *)
TaskReturns ==
  /\ wpc = "task"
  /\ wpc' = "loop"
  /\ UNCHANGED <<status, seen, joinable, gpc>>

(* setStatus(STOP) after run(). *)
Stopped ==
  /\ wpc = "stopping"
  /\ status' = "STOP"
  /\ wpc' = "finish"
  /\ UNCHANGED <<seen, joinable, gpc>>

(* doFinish returned, and with it the worker's function. *)
FinishReturns ==
  /\ wpc = "finish"
  /\ wpc' = "exited"
  /\ UNCHANGED <<status, seen, joinable, gpc>>
=============================================================================
