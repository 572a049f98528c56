----------------------------- MODULE PacketQueue -----------------------------
(***************************************************************************)
(* One PacketQueue of HFFPlayer between the thread that reads packets      *)
(* (readTask) and the thread that decodes them (doTask or audioTask), with *)
(* the threads that flush it (seek, close), abort it (close) and ask the   *)
(* player to quit (stop).                                                  *)
(*                                                                         *)
(* quit and abort_request are stored without the mutex, so they can change *)
(* inside of a critical section that has read them.  packet_queue_put and  *)
(* packet_queue_get are split behind these tests: a push, a pop or a wait  *)
(* is a step of its own, after which nobody looks at the flags.  (The two  *)
(* flags are only ever set here, so get's two tests of them are one step.) *)
(* A critical section that reads neither of them is one action.            *)
(*                                                                         *)
(* Packets are numbered in the order av_read_frame returns them.  MaxRead  *)
(* bounds how many the file has; readTask's loop around the put and the    *)
(* decoder's around the get are the only callers of the two operations.    *)
(***************************************************************************)
EXTENDS PacketQueueOps

CONSTANTS
  MaxRead,        \* packets in the file (bound)
  PktSize,        \* the size of each packet
  PktDuration,    \* its duration in the stream's time base, possibly unknown (0)
  Controllers,    \* threads that flush and abort the queue or set quit
  NoPacket        \* a thread holds no packet

PacketOf(n) == [no |-> n, size |-> PktSize[n], duration |-> PktDuration[n]]
Packet == {PacketOf(n) : n \in 1..MaxRead}

ASSUME PacketAssumption ==
  /\ MaxRead \in Nat
  /\ PktSize \in [1..MaxRead -> Nat]
  /\ PktDuration \in [1..MaxRead -> Int]
  /\ NoPacket \notin Packet

VARIABLES
  q,              \* the PacketQueue struct
  mutex,          \* who holds q.mutex across steps ("free" if nobody)
  waiting,        \* the decoder is in q.cond's wait set
  quit,           \* HFFPlayer::quit
  rpc,            \* where the reader is
  total_read,     \* packets read so far; the last one is the one in the reader's hand
  dpc,            \* where the decoder is in packet_queue_get
  pkt,            \* the packet the decoder holds or last held
  cpc,            \* controllers that still owe the notify_all of their operation
  frees           \* history: how often each packet's shell was freed

vars == <<q, mutex, waiting, quit, rpc, total_read, dpc, pkt, cpc, frees>>

(* av_packet_free on packet n's shell. *)
FreePacket(n) == [frees EXCEPT ![n] = @ + 1]

Nos(s) == {s[i].no : i \in 1..Len(s)}

QueuedNos == Nos(q.packets)

Init ==
  /\ q = EmptyQueue
  /\ mutex = "free" /\ waiting = FALSE /\ quit = FALSE
  /\ rpc = "read" /\ total_read = 0
  /\ dpc = "idle" /\ pkt = NoPacket
  /\ cpc = [c \in Controllers |-> "idle"]
  /\ frees = [n \in 1..MaxRead |-> 0]
-----------------------------------------------------------------------------
(* The reader: the part of readTask's loop that dispatches a packet. *)

(* av_read_frame succeeded; the packet moves to a shell of its own. *)
ReadPacket ==
  /\ rpc = "read"
  /\ total_read < MaxRead
  /\ total_read' = total_read + 1
  /\ rpc' = "put"
  /\ UNCHANGED <<q, mutex, waiting, quit, dpc, pkt, cpc, frees>>

(* Mutant of PutBegins: put does not look at abort_request. *)
PutBeginsAnyway ==
  /\ rpc = "put"
  /\ mutex = "free"
  /\ mutex' = "reader"
  /\ rpc' = "push"
  /\ UNCHANGED <<q, waiting, quit, total_read, dpc, pkt, cpc, frees>>

(* packet_queue_put takes the mutex and finds the queue not aborted. *)
PutBegins ==
  /\ rpc = "put"
  /\ mutex = "free"
  /\ ~q.abort_request
  /\ mutex' = "reader"
  /\ rpc' = "push"
  /\ UNCHANGED <<q, waiting, quit, total_read, dpc, pkt, cpc, frees>>

(* The push and the unlock, also when an abort came behind the test. *)
PutAccepted ==
  /\ rpc = "push"
  /\ q' = PutPacket(q, PacketOf(total_read))
  /\ mutex' = "free"
  /\ rpc' = "notify"
  /\ UNCHANGED <<waiting, quit, total_read, dpc, pkt, cpc, frees>>

(* packet_queue_put after an abort: put frees the packet through its own   *)
(* copy of the pointer and returns -1.                                     *)
PutRefused ==
  /\ rpc = "put"
  /\ mutex = "free"
  /\ q.abort_request
  /\ frees' = FreePacket(total_read)
  /\ rpc' = "refused"
  /\ UNCHANGED <<q, mutex, waiting, quit, total_read, dpc, pkt, cpc>>

(* Mutant of NotifyOne: readTask frees its pointer although put took it. *)
NotifyOneFrees ==
  /\ rpc = "notify"
  /\ waiting' = FALSE
  /\ frees' = FreePacket(total_read)
  /\ rpc' = "read"
  /\ UNCHANGED <<q, mutex, quit, total_read, dpc, pkt, cpc>>

(* notify_one after the unlock; the decoder is the only waiter there is. *)
NotifyOne ==
  /\ rpc = "notify"
  /\ waiting' = FALSE
  /\ rpc' = "read"
  /\ UNCHANGED <<q, mutex, quit, total_read, dpc, pkt, cpc, frees>>

(* readTask frees its own pointer when the put returned < 0. *)
FreeRefused ==
  /\ rpc = "refused"
  /\ frees' = FreePacket(total_read)
  /\ rpc' = "read"
  /\ UNCHANGED <<q, mutex, waiting, quit, total_read, dpc, pkt, cpc>>
-----------------------------------------------------------------------------
(* The decoder: packet_queue_get(q, pkt, true). *)

(* doTask's loop: another call, or out of the loop on quit. *)
CallGet ==
  /\ dpc = "idle"
  /\ dpc' = IF quit THEN "exited" ELSE "lock"
  /\ UNCHANGED <<q, mutex, waiting, quit, rpc, total_read, pkt, cpc, frees>>

(* unique_lock, on entry and on the way out of the wait. *)
Lock ==
  /\ dpc = "lock" \/ (dpc = "blocked" /\ ~waiting)
  /\ mutex = "free"
  /\ mutex' = "decoder"
  /\ dpc' = "check"
  /\ UNCHANGED <<q, waiting, quit, rpc, total_read, pkt, cpc, frees>>

(* return -1 because of quit or abort. *)
GetRefused ==
  /\ dpc = "check"
  /\ quit \/ q.abort_request
  /\ mutex' = "free"
  /\ dpc' = "failed"
  /\ UNCHANGED <<q, waiting, quit, rpc, total_read, pkt, cpc, frees>>

(* Neither of them is set: on to the queue. *)
GetGoesOn ==
  /\ dpc = "check"
  /\ ~quit /\ ~q.abort_request
  /\ dpc' = "look"
  /\ UNCHANGED <<q, mutex, waiting, quit, rpc, total_read, pkt, cpc, frees>>

(* return 0: the content moves to the caller's packet, the shell is freed. *)
GetReturns ==
  /\ dpc = "look"
  /\ q.packets # <<>>
  /\ pkt' = Head(q.packets)
  /\ q' = GetPacket(q)
  /\ frees' = FreePacket(Head(q.packets).no)
  /\ mutex' = "free"
  /\ dpc' = "got"
  /\ UNCHANGED <<waiting, quit, rpc, total_read, cpc>>

(* An empty queue: wait_for releases the mutex and joins the wait set in   *)
(* one step.                                                               *)
Wait ==
  /\ dpc = "look"
  /\ q.packets = <<>>
  /\ waiting' = TRUE
  /\ mutex' = "free"
  /\ dpc' = "blocked"
  /\ UNCHANGED <<q, quit, rpc, total_read, pkt, cpc, frees>>

(* Mutant of WaitTimesOut: wait instead of wait_for. *)
WaitForever == FALSE

(* The 100 ms are over (a spurious wake-up looks the same). *)
WaitTimesOut ==
  /\ dpc = "blocked"
  /\ waiting
  /\ waiting' = FALSE
  /\ UNCHANGED <<q, mutex, quit, rpc, total_read, dpc, pkt, cpc, frees>>

(* doTask: process the packet, or leave on quit, or try again. *)
AfterGet ==
  /\ \/ dpc = "got" /\ dpc' = "idle"
     \/ dpc = "failed" /\ dpc' = IF quit THEN "exited" ELSE "idle"
  /\ UNCHANGED <<q, mutex, waiting, quit, rpc, total_read, pkt, cpc, frees>>
-----------------------------------------------------------------------------
(* The other threads. *)

(* Mutant of Flush: the packets are dropped without being freed. *)
FlushLeaks(c) ==
  /\ cpc[c] = "idle"
  /\ mutex = "free"
  /\ q' = FlushQueue(q)
  /\ cpc' = [cpc EXCEPT ![c] = "notify"]
  /\ UNCHANGED <<mutex, waiting, quit, rpc, total_read, dpc, pkt, frees>>

(* packet_queue_flush: free everything under the mutex. *)
Flush(c) ==
  /\ cpc[c] = "idle"
  /\ mutex = "free"
  /\ q' = FlushQueue(q)
  /\ frees' = [n \in 1..MaxRead |->
                 IF n \in QueuedNos THEN frees[n] + 1 ELSE frees[n]]
  /\ cpc' = [cpc EXCEPT ![c] = "notify"]
  /\ UNCHANGED <<mutex, waiting, quit, rpc, total_read, dpc, pkt>>

(* packet_queue_abort stores the flag without taking the mutex. *)
Abort(c) ==
  /\ cpc[c] = "idle"
  /\ q' = AbortQueue(q)
  /\ cpc' = [cpc EXCEPT ![c] = "notify"]
  /\ UNCHANGED <<mutex, waiting, quit, rpc, total_read, dpc, pkt, frees>>

(* The notify_all that ends both. *)
NotifyAll(c) ==
  /\ cpc[c] = "notify"
  /\ waiting' = FALSE
  /\ cpc' = [cpc EXCEPT ![c] = "idle"]
  /\ UNCHANGED <<q, mutex, quit, rpc, total_read, dpc, pkt, frees>>

(* HFFPlayer::stop sets quit, and tells the condition variable nothing. *)
SetQuit(c) ==
  /\ cpc[c] = "idle"
  /\ ~quit
  /\ quit' = TRUE
  /\ UNCHANGED <<q, mutex, waiting, rpc, total_read, dpc, pkt, cpc, frees>>
-----------------------------------------------------------------------------
Reader ==
  ReadPacket \/ PutBegins \/ PutAccepted \/ PutRefused \/ NotifyOne \/ FreeRefused

Decoder ==
  \/ CallGet \/ Lock \/ GetRefused \/ GetGoesOn \/ GetReturns \/ Wait
  \/ WaitTimesOut \/ AfterGet

Controller(c) == Flush(c) \/ Abort(c) \/ NotifyAll(c) \/ SetQuit(c)

Next == Reader \/ Decoder \/ \E c \in Controllers : Controller(c)

Spec == Init /\ [][Next]_vars

(* The decoder's thread is scheduled, its timed waits end, and a reader    *)
(* inside of the critical section comes out of it: nothing is assumed of   *)
(* the reader's loop, of the controllers or of the notifications.          *)
FairSpec == Spec /\ WF_vars(Decoder) /\ WF_vars(PutAccepted)
-----------------------------------------------------------------------------
(* The state has the shape the code gives it. *)
TypeOK ==
  /\ q \in QueueOf(Packet)
  /\ mutex \in {"free", "reader", "decoder"}
  /\ waiting \in BOOLEAN /\ quit \in BOOLEAN
  /\ rpc \in {"read", "put", "push", "notify", "refused"}
  /\ total_read \in 0..MaxRead
  /\ rpc # "read" => total_read > 0
  /\ dpc \in {"idle", "lock", "check", "look", "blocked", "got", "failed", "exited"}
  /\ pkt \in Packet \cup {NoPacket}
  /\ cpc \in [Controllers -> {"idle", "notify"}]
  /\ frees \in [1..MaxRead -> Nat]

(* f[1] + ... + f[n] *)
Total(f, n) ==
  LET sum[i \in 0..n] == IF i = 0 THEN 0 ELSE sum[i - 1] + f[i]
  IN  sum[n]

SizeOf(s) == Total([i \in 1..Len(s) |-> s[i].size], Len(s))
DurationOf(s) == Total([i \in 1..Len(s) |-> Counted(s[i])], Len(s))

(* The counters readTask's watermark test and doTask's prebuffer test rely *)
(* on are the queue's true length, bytes and duration, whatever the puts,  *)
(* gets and flushes of different threads did to them in between.           *)
CountersExact ==
  /\ q.nb_packets = Len(q.packets)
  /\ q.size = SizeOf(q.packets)
  /\ q.duration = DurationOf(q.packets)

(* Types and counters together, which is what every operation may rely on. *)
QueueInv == TypeOK /\ CountersExact

(* No packet is lost and none is used after it was freed: a packet's shell *)
(* is not freed exactly while the packet is still to be read, in the queue *)
(* or in readTask's hand, across every flush, abort and refused put.       *)
LiveWhereHeld ==
  \A n \in 1..MaxRead :
    frees[n] = 0 <=> \/ n > total_read
                     \/ n \in QueuedNos
                     \/ rpc \in {"put", "push"} /\ n = total_read

InFileOrder(s) == \A i, j \in 1..Len(s) : i < j => s[i].no < s[j].no

(* The file's order survives the threads and the flushes: what the decoder *)
(* got comes before the whole queue, the queue is in order, and the packet *)
(* the reader is about to put comes after both.                            *)
FileOrder ==
  /\ InFileOrder(q.packets)
  /\ \A n \in QueuedNos :
       n <= total_read /\ (rpc \in {"put", "push", "refused"} => n < total_read)
  /\ pkt # NoPacket =>
       /\ \A n \in QueuedNos : pkt.no < n
       /\ pkt.no <= total_read
       /\ rpc \in {"put", "push", "refused"} => pkt.no < total_read

(* put frees a packet that it refuses and readTask frees it again: this is *)
(* the only way to a second free.  It takes an abort, stops at two, and    *)
(* from that packet on none is in the queue or comes out of it, so that no *)
(* other thread touches what was freed.                                    *)
FreedTwiceOnlyRefused ==
  \A n \in 1..MaxRead :
    frees[n] > 1 => /\ frees[n] = 2
                    /\ q.abort_request
                    /\ \A m \in QueuedNos : m < n
                    /\ pkt # NoPacket => pkt.no < n

(* A decoder inside packet_queue_get leaves it once quit or abort is set,  *)
(* although stop notifies nobody and abort notifies without the mutex, so  *)
(* that its wake-up may come between the decoder's tests and its wait.     *)
StopEndsGet ==
  (quit \/ q.abort_request) ~> dpc \notin {"lock", "check", "look", "blocked"}

(* The mutex excludes the two critical sections that take several steps.   *)
MutexHeld ==
  /\ mutex = "reader" <=> rpc = "push"
  /\ mutex = "decoder" <=> dpc \in {"check", "look"}

(* A refused packet was freed once, by put, and while one is being pushed  *)
(* none was refused before it.                                             *)
RefusedLast ==
  /\ rpc = "refused" => frees[total_read] = 1 /\ q.abort_request
  /\ rpc = "push" => \A n \in 1..MaxRead : frees[n] <= 1

(* What is inductive together; CountersExact is by itself. *)
IInv ==
  /\ TypeOK /\ MutexHeld /\ q.nb_packets = Len(q.packets)
  /\ LiveWhereHeld /\ FileOrder /\ RefusedLast /\ FreedTwiceOnlyRefused

(* The queue is a FIFO channel that a flush may empty: PacketChannel.  The *)
(* user of the channel is the thread that has passed its test of the flags *)
(* and not yet pushed, popped or seen that there is nothing to pop.        *)
Channel ==
  INSTANCE PacketChannel
    WITH channel <- q.packets, received <- pkt, closed <- q.abort_request,
         user <- IF rpc = "push" THEN "sender"
                 ELSE IF dpc = "look" THEN "receiver" ELSE "nobody"

ImplementsChannel == Channel!Spec
=============================================================================
