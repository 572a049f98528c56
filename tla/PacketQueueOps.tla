--------------------------- MODULE PacketQueueOps ---------------------------
(***************************************************************************)
(* The data part of HFFPlayer's PacketQueue: what each of its operations   *)
(* does to the struct while it holds the struct's mutex.  PacketQueue adds *)
(* the threads, the mutex and the condition variable; Pipeline uses these  *)
(* operators as the atomic critical sections they are.                     *)
(*                                                                         *)
(* A packet is a record with (at least) the fields size and duration; the  *)
(* queue's counters are derived from them by the operations, as in the     *)
(* code, and not recomputed from the sequence.                             *)
(***************************************************************************)
EXTENDS Integers, Sequences

(* The part of a packet's duration the queue accounts for. *)
Counted(p) == IF p.duration > 0 THEN p.duration ELSE 0

(* The struct with packets from a set P.  Its four statistics fields feed  *)
(* nothing but packet_queue_print_stats' log lines and are left out.       *)
QueueOf(P) ==
  [packets : Seq(P), nb_packets : Int, size : Int, duration : Int,
   abort_request : BOOLEAN]

EmptyQueue ==
  [packets |-> <<>>, nb_packets |-> 0, size |-> 0, duration |-> 0,
   abort_request |-> FALSE]

(* Mutant of PutPacket: a push at the wrong end. *)
PutPacketFirst(s, p) ==
  [packets |-> <<p>> \o s.packets,
   nb_packets |-> s.nb_packets + 1,
   size |-> s.size + p.size,
   duration |-> s.duration + Counted(p),
   abort_request |-> s.abort_request]

(* packet_queue_put past its abort test: append and count. *)
PutPacket(s, p) ==
  [packets |-> Append(s.packets, p),
   nb_packets |-> s.nb_packets + 1,
   size |-> s.size + p.size,
   duration |-> s.duration + Counted(p),
   abort_request |-> s.abort_request]

(* packet_queue_get on a non-empty queue: what is left after the pop. *)
GetPacket(s) ==
  [packets |-> Tail(s.packets),
   nb_packets |-> s.nb_packets - 1,
   size |-> s.size - Head(s.packets).size,
   duration |-> s.duration - Counted(Head(s.packets)),
   abort_request |-> s.abort_request]

(* Mutant of FlushQueue: one counter is not reset. *)
FlushQueueKeepsSize(s) == [s EXCEPT !.packets = <<>>, !.nb_packets = 0, !.duration = 0]

(* packet_queue_flush: every packet is freed, the counters start again. *)
FlushQueue(s) ==
  [packets |-> <<>>, nb_packets |-> 0, size |-> 0, duration |-> 0,
   abort_request |-> s.abort_request]

(* packet_queue_abort: one atomic store, outside the mutex.  Nothing in    *)
(* the repository calls packet_queue_start, so the flag is never cleared.  *)
AbortQueue(s) == [s EXCEPT !.abort_request = TRUE]
=============================================================================
