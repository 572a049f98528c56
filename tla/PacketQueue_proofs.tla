------------------------- MODULE PacketQueue_proofs -------------------------
(***************************************************************************)
(* For every file, every set of controllers and every packet size: the     *)
(* queue's type invariant, that a packet is alive exactly where it is held *)
(* and freed twice only if it was refused, that packets leave in file      *)
(* order, that the queue with its threads, mutex and condition variable    *)
(* implements PacketChannel, and that its counters are exact.              *)
(***************************************************************************)
EXTENDS PacketQueue, SequenceTheorems, WellFoundedInduction, TLAPS

(* The number of a packet is its place in the file, so a packet is known   *)
(* by its number.                                                          *)
LEMMA PacketNumber ==
  ASSUME NEW p \in Packet
  PROVE  /\ p.no \in 1..MaxRead
         /\ p = PacketOf(p.no)
         /\ p.size \in Nat
         /\ p.duration \in Int
  BY PacketAssumption DEF Packet, PacketOf

LEMMA PacketOfNumber ==
  ASSUME NEW n \in 1..MaxRead
  PROVE  /\ PacketOf(n) \in Packet
         /\ PacketOf(n).no = n
  BY DEF Packet, PacketOf

(* What the critical sections do to the struct, field by field. *)
LEMMA PutPacketFields ==
  ASSUME NEW s \in QueueOf(Packet), NEW p \in Packet
  PROVE  /\ PutPacket(s, p) \in QueueOf(Packet)
         /\ PutPacket(s, p).packets = Append(s.packets, p)
         /\ PutPacket(s, p).nb_packets = s.nb_packets + 1
         /\ PutPacket(s, p).abort_request = s.abort_request
<1>1. p.size \in Int /\ Counted(p) \in Int
  BY PacketNumber DEF Counted
<1>2. Append(s.packets, p) \in Seq(Packet)
  BY DEF QueueOf
<1>3. QED
  BY <1>1, <1>2 DEF PutPacket, QueueOf

LEMMA GetPacketFields ==
  ASSUME NEW s \in QueueOf(Packet), s.packets # <<>>
  PROVE  /\ GetPacket(s) \in QueueOf(Packet)
         /\ GetPacket(s).packets = Tail(s.packets)
         /\ GetPacket(s).nb_packets = s.nb_packets - 1
         /\ GetPacket(s).abort_request = s.abort_request
         /\ Head(s.packets) \in Packet
<1>1. s.packets \in Seq(Packet)
  BY DEF QueueOf
<1>2. Head(s.packets) \in Packet /\ Tail(s.packets) \in Seq(Packet)
  BY <1>1, HeadTailProperties
<1>3. Head(s.packets).size \in Int /\ Counted(Head(s.packets)) \in Int
  BY <1>2, PacketNumber DEF Counted
<1>4. QED
  BY <1>2, <1>3 DEF GetPacket, QueueOf

LEMMA FlushQueueFields ==
  ASSUME NEW s \in QueueOf(Packet)
  PROVE  /\ FlushQueue(s) \in QueueOf(Packet)
         /\ FlushQueue(s).packets = <<>>
         /\ FlushQueue(s).nb_packets = 0
         /\ FlushQueue(s).abort_request = s.abort_request
  BY EmptySeq DEF FlushQueue, QueueOf

LEMMA AbortQueueFields ==
  ASSUME NEW s \in QueueOf(Packet)
  PROVE  /\ AbortQueue(s) \in QueueOf(Packet)
         /\ AbortQueue(s).packets = s.packets
         /\ AbortQueue(s).nb_packets = s.nb_packets
         /\ AbortQueue(s).abort_request = TRUE
  BY DEF AbortQueue, QueueOf

LEMMA EmptyQueueFields ==
  /\ EmptyQueue \in QueueOf(Packet)
  /\ EmptyQueue.packets = <<>>
  /\ EmptyQueue.nb_packets = 0
  /\ EmptyQueue.abort_request = FALSE
  BY EmptySeq DEF EmptyQueue, QueueOf
-----------------------------------------------------------------------------
LEMMA FreePacketType ==
  ASSUME NEW n \in 1..MaxRead, frees \in [1..MaxRead -> Nat]
  PROVE  FreePacket(n) \in [1..MaxRead -> Nat]
  BY DEF FreePacket

LEMMA TypeInit == Init => TypeOK
<1> SUFFICES ASSUME Init PROVE TypeOK
  OBVIOUS
<1>1. q \in QueueOf(Packet)
  BY EmptyQueueFields DEF Init
<1>2. total_read \in 0..MaxRead
  BY PacketAssumption DEF Init
<1>3. QED
  BY <1>1, <1>2 DEF Init, TypeOK

LEMMA TypeStep == TypeOK /\ [Next]_vars => TypeOK'
<1> SUFFICES ASSUME TypeOK, [Next]_vars PROVE TypeOK'
  OBVIOUS
<1> USE DEF TypeOK
<1>1. CASE ReadPacket
  BY <1>1, PacketAssumption DEF ReadPacket
<1>0. CASE PutBegins
  BY <1>0 DEF PutBegins
<1>2. CASE PutAccepted
  <2>1. total_read \in 1..MaxRead
    BY <1>2 DEF PutAccepted
  <2>2. QED
    BY <1>2, <2>1, PutPacketFields, PacketOfNumber DEF PutAccepted
<1>3. CASE PutRefused
  BY <1>3, FreePacketType DEF PutRefused
<1>4. CASE NotifyOne
  BY <1>4 DEF NotifyOne
<1>5. CASE FreeRefused
  BY <1>5, FreePacketType DEF FreeRefused
<1>6. CASE CallGet
  BY <1>6 DEF CallGet
<1>7. CASE Lock
  BY <1>7 DEF Lock
<1>8. CASE GetRefused
  BY <1>8 DEF GetRefused
<1>9. CASE GetReturns
  <2>1. Head(q.packets) \in Packet /\ GetPacket(q) \in QueueOf(Packet)
    BY <1>9, GetPacketFields DEF GetReturns
  <2>2. Head(q.packets).no \in 1..MaxRead
    BY <2>1, PacketNumber
  <2>3. QED
    BY <1>9, <2>1, <2>2, FreePacketType DEF GetReturns
<1>10. CASE GetGoesOn
  BY <1>10 DEF GetGoesOn
<1>11. CASE Wait
  BY <1>11 DEF Wait
<1>12. CASE WaitTimesOut
  BY <1>12 DEF WaitTimesOut
<1>13. CASE AfterGet
  BY <1>13 DEF AfterGet
<1>14. ASSUME NEW c \in Controllers, Flush(c) PROVE TypeOK'
  BY <1>14, FlushQueueFields DEF Flush
<1>15. ASSUME NEW c \in Controllers, Abort(c) PROVE TypeOK'
  BY <1>15, AbortQueueFields DEF Abort
<1>16. ASSUME NEW c \in Controllers, NotifyAll(c) PROVE TypeOK'
  BY <1>16 DEF NotifyAll
<1>17. ASSUME NEW c \in Controllers, SetQuit(c) PROVE TypeOK'
  BY <1>17 DEF SetQuit
<1>18. CASE UNCHANGED vars
  BY <1>18 DEF vars
<1>19. QED
  BY <1>0, <1>1, <1>2, <1>3, <1>4, <1>5, <1>6, <1>7, <1>8, <1>9, <1>10, <1>11, <1>12,
     <1>13, <1>14, <1>15, <1>16, <1>17, <1>18
     DEF Next, Reader, Decoder, Controller

(* The struct, the program counters and the history always have the shape  *)
(* the code gives them.                                                    *)
LEMMA TypeCorrect == Spec => []TypeOK
  BY TypeInit, TypeStep, PTL DEF Spec
-----------------------------------------------------------------------------
(* Sequences of packets, their numbers and their order. *)
LEMMA AppendNos ==
  ASSUME NEW s \in Seq(Packet), NEW p \in Packet,
         InFileOrder(s), \A n \in Nos(s) : n < p.no
  PROVE  /\ Nos(Append(s, p)) = Nos(s) \cup {p.no}
         /\ InFileOrder(Append(s, p))
<1> DEFINE t == Append(s, p)
<1>1. /\ Len(t) = Len(s) + 1 /\ Len(s) \in Nat
      /\ \A i \in 1..Len(s) : t[i] = s[i]
      /\ t[Len(s) + 1] = p
  OBVIOUS
<1> HIDE DEF t
<1>2. Nos(t) = Nos(s) \cup {p.no}
  BY <1>1 DEF Nos
<1>3. ASSUME NEW i \in 1..Len(t), NEW j \in 1..Len(t), i < j
      PROVE  t[i].no < t[j].no
  <2>1. CASE j \in 1..Len(s)
    BY <1>1, <1>3, <2>1 DEF InFileOrder
  <2>2. CASE j = Len(s) + 1
    <3>1. i \in 1..Len(s)
      BY <1>1, <1>3, <2>2
    <3>2. s[i].no \in Nos(s)
      BY <3>1 DEF Nos
    <3>3. QED
      BY <1>1, <2>2, <3>1, <3>2
  <2>3. QED
    BY <1>1, <2>1, <2>2
<1>4. QED
  BY <1>2, <1>3 DEF InFileOrder, t

LEMMA TailNos ==
  ASSUME NEW s \in Seq(Packet), s # <<>>, InFileOrder(s)
  PROVE  /\ Nos(Tail(s)) = Nos(s) \ {Head(s).no}
         /\ InFileOrder(Tail(s))
         /\ Head(s).no \in Nos(s)
         /\ \A n \in Nos(Tail(s)) : Head(s).no < n
         /\ Head(s) \in Packet
<1> DEFINE t == Tail(s)
<1>1. /\ Len(s) \in Nat \ {0} /\ Len(t) = Len(s) - 1
      /\ \A i \in 1..Len(t) : t[i] = s[i+1]
      /\ Head(s) = s[1] /\ Head(s) \in Packet
  BY HeadTailProperties, EmptySeq
<1> HIDE DEF t
<1>2. \A i \in 1..Len(s) : s[i].no \in Int
  <2>1. \A i \in 1..Len(s) : s[i] \in Packet
    OBVIOUS
  <2>2. QED
    BY <2>1, PacketNumber, PacketAssumption
<1>3. \A i \in 1..Len(t) : i+1 \in 1..Len(s) /\ s[1].no < s[i+1].no
  BY <1>1 DEF InFileOrder
<1>4. \A n \in Nos(t) : Head(s).no < n /\ n \in Nos(s)
  BY <1>1, <1>3 DEF Nos
<1>5. \A n \in Nos(s) : n # Head(s).no => n \in Nos(t)
  <2> SUFFICES ASSUME NEW i \in 1..Len(s), s[i].no # Head(s).no
              PROVE  s[i].no \in Nos(t)
    BY DEF Nos
  <2>1. i # 1
    BY <1>1
  <2>2. i-1 \in 1..Len(t) /\ t[i-1] = s[i]
    BY <1>1, <2>1
  <2>3. QED
    BY <2>2 DEF Nos
<1>6. InFileOrder(t)
  BY <1>1, <1>3 DEF InFileOrder
<1>7. Head(s).no \in Nos(s)
  BY <1>1 DEF Nos
<1>8. Head(s).no \in Int
  BY <1>1, <1>2
<1>9. QED
  BY <1>1, <1>4, <1>5, <1>6, <1>7, <1>8 DEF t

LEMMA EmptyNos == Nos(<<>>) = {} /\ InFileOrder(<<>>)
  BY EmptySeq DEF Nos, InFileOrder
-----------------------------------------------------------------------------
(* What TypeOK, the order and the owners of the packets need together.     *)
Ordered == TypeOK /\ q.nb_packets = Len(q.packets) /\ LiveWhereHeld /\ FileOrder

LEMMA OrderedInit == Init => Ordered
<1> SUFFICES ASSUME Init PROVE Ordered
  OBVIOUS
<1>1. TypeOK
  BY TypeInit
<1>2. q.packets = <<>> /\ q.nb_packets = 0
  BY EmptyQueueFields DEF Init
<1>3. q.nb_packets = Len(q.packets)
  BY <1>2, EmptySeq
<1>4. LiveWhereHeld
  BY DEF Init, LiveWhereHeld
<1>5. FileOrder
  BY <1>2, EmptyNos DEF Init, FileOrder, QueuedNos
<1>6. QED
  BY <1>1, <1>3, <1>4, <1>5 DEF Ordered

LEMMA OrderedStep == Ordered /\ [Next]_vars => Ordered'
<1> SUFFICES ASSUME Ordered, [Next]_vars PROVE Ordered'
  OBVIOUS
<1>1. TypeOK /\ TypeOK'
  BY TypeStep DEF Ordered
<1> USE <1>1
<1>2. /\ q.packets \in Seq(Packet) /\ Len(q.packets) \in Nat
      /\ total_read \in 0..MaxRead /\ MaxRead \in Nat
      /\ q \in QueueOf(Packet)
      /\ frees \in [1..MaxRead -> Nat]
      /\ QueuedNos \subseteq Int
  <2>1. q.packets \in Seq(Packet) /\ q \in QueueOf(Packet)
    BY DEF TypeOK, QueueOf
  <2>2. \A i \in 1..Len(q.packets) : q.packets[i] \in Packet
    BY <2>1
  <2>3. \A i \in 1..Len(q.packets) : q.packets[i].no \in Int
    BY <2>2, PacketNumber, PacketAssumption
  <2>4. QED
    BY SMTT(30), <2>1, <2>3, PacketAssumption DEF TypeOK, QueuedNos, Nos
<1>3. ASSUME UNCHANGED <<q, total_read, rpc, pkt, frees>> PROVE Ordered'
  BY <1>3 DEF Ordered, LiveWhereHeld, FileOrder, QueuedNos, Nos, InFileOrder
<1>4. CASE ReadPacket
  <2>1. /\ q' = q /\ pkt' = pkt /\ frees' = frees
        /\ total_read' = total_read + 1 /\ rpc = "read" /\ rpc' = "put"
        /\ QueuedNos' = QueuedNos
    BY <1>4 DEF ReadPacket, QueuedNos
  <2>2. LiveWhereHeld'
    BY <1>2, <2>1 DEF Ordered, LiveWhereHeld, FileOrder
  <2>3. FileOrder'
    <3>1. pkt # NoPacket => pkt.no \in Int
      BY PacketNumber, PacketAssumption DEF TypeOK
    <3>2. QED
      BY <1>2, <2>1, <3>1 DEF Ordered, FileOrder
  <2>4. QED
    BY <2>1, <2>2, <2>3 DEF Ordered
<1>0. CASE PutBegins
  <2>1. UNCHANGED <<q, total_read, pkt, frees>> /\ rpc = "put" /\ rpc' = "push"
    BY <1>0 DEF PutBegins
  <2>2. QED
    BY <2>1 DEF Ordered, LiveWhereHeld, FileOrder, QueuedNos, Nos, InFileOrder
<1>5. CASE PutAccepted
  <2> DEFINE p == PacketOf(total_read)
  <2>1. total_read \in 1..MaxRead
    BY <1>2, <1>5 DEF PutAccepted, TypeOK
  <2>2. p \in Packet /\ p.no = total_read
    BY <2>1, PacketOfNumber
  <2>3. /\ q' = PutPacket(q, p) /\ rpc = "push" /\ rpc' = "notify"
        /\ total_read' = total_read /\ pkt' = pkt /\ frees' = frees
    BY <1>5 DEF PutAccepted
  <2> HIDE DEF p
  <2>4. q'.packets = Append(q.packets, p) /\ q'.nb_packets = q.nb_packets + 1
    BY <1>2, <2>2, <2>3, PutPacketFields
  <2>5. \A n \in QueuedNos : n < total_read
    BY <2>3 DEF Ordered, FileOrder
  <2>6. QueuedNos' = QueuedNos \cup {total_read} /\ InFileOrder(q.packets)'
    <3>1. InFileOrder(q.packets)
      BY DEF Ordered, FileOrder
    <3>2. QED
      BY <1>2, <2>2, <2>4, <2>5, <3>1, AppendNos DEF QueuedNos
  <2>7. LiveWhereHeld'
    BY <1>2, <2>1, <2>3, <2>6 DEF Ordered, LiveWhereHeld
  <2>8. FileOrder'
    <3>1. pkt # NoPacket => pkt.no < total_read /\ \A n \in QueuedNos : pkt.no < n
      BY <2>3 DEF Ordered, FileOrder
    <3>2. pkt # NoPacket => pkt.no \in Int
      BY PacketNumber, PacketAssumption DEF TypeOK
    <3>3. QED
      BY <1>2, <2>1, <2>3, <2>5, <2>6, <3>1, <3>2 DEF FileOrder
  <2>9. q'.nb_packets = Len(q'.packets)
    BY <1>2, <2>2, <2>4 DEF Ordered
  <2>10. QED
    BY <2>7, <2>8, <2>9 DEF Ordered
<1>6. CASE PutRefused
  BY <1>2, <1>6 DEF PutRefused, FreePacket, TypeOK, Ordered, LiveWhereHeld, FileOrder,
     QueuedNos
<1>7. CASE NotifyOne
  BY <1>2, <1>7 DEF NotifyOne, Ordered, LiveWhereHeld, FileOrder, QueuedNos
<1>8. CASE FreeRefused
  BY <1>2, <1>8 DEF FreeRefused, FreePacket, TypeOK, Ordered, LiveWhereHeld, FileOrder,
     QueuedNos
<1>9. CASE GetReturns
  <2> DEFINE p == Head(q.packets)
  <2>1. /\ q.packets # <<>> /\ pkt' = p /\ q' = GetPacket(q)
        /\ frees' = FreePacket(p.no)
        /\ rpc' = rpc /\ total_read' = total_read
    BY <1>9 DEF GetReturns
  <2>2. /\ q'.packets = Tail(q.packets) /\ q'.nb_packets = q.nb_packets - 1
    BY <1>2, <2>1, GetPacketFields
  <2>3. /\ QueuedNos' = QueuedNos \ {p.no} /\ InFileOrder(q.packets)'
        /\ p.no \in QueuedNos /\ \A n \in QueuedNos' : p.no < n
        /\ p \in Packet
    <3>1. InFileOrder(q.packets)
      BY DEF Ordered, FileOrder
    <3>2. QED
      BY <1>2, <2>1, <2>2, <3>1, TailNos DEF QueuedNos
  <2>4. p.no \in 1..MaxRead
    BY <2>3, PacketNumber
  <2> HIDE DEF p
  <2>5. \A n \in 1..MaxRead :
          frees'[n] = IF n = p.no THEN frees[n] + 1 ELSE frees[n]
    BY <1>2, <2>1, <2>4 DEF FreePacket
  <2>6. /\ p.no <= total_read
        /\ rpc \in {"put", "push", "refused"} => p.no < total_read
    BY <2>3 DEF Ordered, FileOrder, TypeOK
  <2>7. LiveWhereHeld'
    BY <1>2, <2>1, <2>3, <2>4, <2>5, <2>6 DEF Ordered, LiveWhereHeld
  <2>8. FileOrder'
    BY <1>2, <2>1, <2>3, <2>6 DEF Ordered, FileOrder
  <2>9. q'.nb_packets = Len(q'.packets)
    BY <1>2, <2>1, <2>2, HeadTailProperties DEF Ordered
  <2>10. QED
    BY <2>7, <2>8, <2>9 DEF Ordered
<1>10. ASSUME NEW c \in Controllers, Flush(c) PROVE Ordered'
  <2>1. /\ q' = FlushQueue(q)
        /\ rpc' = rpc /\ total_read' = total_read /\ pkt' = pkt
        /\ frees' = [n \in 1..MaxRead |->
                      IF n \in QueuedNos THEN frees[n] + 1 ELSE frees[n]]
    BY <1>10 DEF Flush
  <2>2. q'.packets = <<>> /\ q'.nb_packets = 0
    BY <1>2, <2>1, FlushQueueFields
  <2>3. QueuedNos' = {} /\ InFileOrder(q.packets)'
    BY <2>2, EmptyNos DEF QueuedNos
  <2>4. LiveWhereHeld'
    BY <1>2, <2>1, <2>3 DEF Ordered, LiveWhereHeld, FileOrder
  <2>5. FileOrder'
    BY <2>1, <2>3 DEF Ordered, FileOrder
  <2>6. QED
    BY <2>2, <2>4, <2>5, EmptySeq DEF Ordered
<1>11. ASSUME NEW c \in Controllers, Abort(c) PROVE Ordered'
  <2>1. /\ q'.packets = q.packets /\ q'.nb_packets = q.nb_packets
        /\ UNCHANGED <<total_read, rpc, pkt, frees>>
    BY <1>2, <1>11, AbortQueueFields DEF Abort
  <2>2. QED
    BY <2>1 DEF Ordered, LiveWhereHeld, FileOrder, QueuedNos, Nos, InFileOrder
<1>12. ASSUME CallGet \/ Lock \/ GetRefused \/ GetGoesOn \/ Wait \/ WaitTimesOut \/ AfterGet
       PROVE  Ordered'
  BY <1>3, <1>12
     DEF CallGet, Lock, GetRefused, GetGoesOn, Wait, WaitTimesOut, AfterGet
<1>13. ASSUME NEW c \in Controllers, NotifyAll(c) \/ SetQuit(c) PROVE Ordered'
  BY <1>3, <1>13 DEF NotifyAll, SetQuit
<1>14. CASE UNCHANGED vars
  BY <1>3, <1>14 DEF vars
<1>15. QED
  BY <1>0, <1>4, <1>5, <1>6, <1>7, <1>8, <1>9, <1>10, <1>11, <1>12, <1>13, <1>14
     DEF Next, Reader, Decoder, Controller

(* The mutex and the two critical sections that take several steps.        *)
LEMMA MutexStep == MutexHeld /\ [Next]_vars => MutexHeld'
<1> SUFFICES ASSUME MutexHeld, [Next]_vars PROVE MutexHeld'
  OBVIOUS
<1> USE DEF MutexHeld
<1>1. CASE ReadPacket \/ PutRefused \/ NotifyOne \/ FreeRefused
  BY <1>1 DEF ReadPacket, PutRefused, NotifyOne, FreeRefused
<1>2. CASE PutBegins \/ PutAccepted
  BY <1>2 DEF PutBegins, PutAccepted
<1>3. CASE CallGet \/ Lock \/ WaitTimesOut \/ AfterGet
  BY <1>3 DEF CallGet, Lock, WaitTimesOut, AfterGet
<1>4. CASE GetRefused \/ GetGoesOn \/ GetReturns \/ Wait
  BY <1>4 DEF GetRefused, GetGoesOn, GetReturns, Wait
<1>5. ASSUME NEW c \in Controllers, Controller(c) PROVE MutexHeld'
  BY <1>5 DEF Controller, Flush, Abort, NotifyAll, SetQuit
<1>6. CASE UNCHANGED vars
  BY <1>6 DEF vars
<1>7. QED
  BY <1>1, <1>2, <1>3, <1>4, <1>5, <1>6 DEF Next, Reader, Decoder

(* The second free of a packet, from the order and the owners: a refused   *)
(* packet is the last one read, and after it put begins no more.           *)
Freed == RefusedLast /\ FreedTwiceOnlyRefused

LEMMA FreedStep == Ordered /\ Freed /\ [Next]_vars => Freed'
<1> SUFFICES ASSUME Ordered, Freed, [Next]_vars PROVE Freed'
  OBVIOUS
<1>1. /\ TypeOK /\ LiveWhereHeld /\ FileOrder
      /\ q \in QueueOf(Packet) /\ q.packets \in Seq(Packet)
      /\ total_read \in 0..MaxRead /\ MaxRead \in Nat
      /\ frees \in [1..MaxRead -> Nat]
  BY PacketAssumption DEF Ordered, TypeOK, QueueOf
<1>2. QueuedNos \subseteq 1..MaxRead
  <2>1. \A i \in 1..Len(q.packets) : q.packets[i] \in Packet
    BY <1>1
  <2>2. QED
    BY <2>1, PacketNumber DEF QueuedNos, Nos
<1>3. pkt # NoPacket => pkt.no \in 1..MaxRead
  BY <1>1, PacketNumber DEF TypeOK
<1>4. ASSUME UNCHANGED <<total_read, pkt, frees>>, QueuedNos' = QueuedNos,
             q.abort_request => q'.abort_request,
             rpc' = "refused" => rpc = "refused", rpc' = "push" => rpc = "push"
      PROVE  Freed'
  BY <1>4 DEF Freed, RefusedLast, FreedTwiceOnlyRefused
<1>5. ASSUME UNCHANGED <<q, total_read, rpc, pkt, frees>> PROVE Freed'
  BY <1>4, <1>5 DEF QueuedNos
<1>6. CASE ReadPacket
  BY <1>6 DEF ReadPacket, Freed, RefusedLast, FreedTwiceOnlyRefused, QueuedNos
<1>7. CASE PutBegins
  <2>1. \A n \in 1..MaxRead : frees[n] <= 1
    BY <1>1, <1>7 DEF PutBegins, Freed, FreedTwiceOnlyRefused
  <2>2. QED
    BY <1>7, <2>1 DEF PutBegins, Freed, RefusedLast, FreedTwiceOnlyRefused, QueuedNos
<1>8. CASE PutAccepted
  <2>1. \A n \in 1..MaxRead : frees[n] <= 1
    BY <1>8 DEF PutAccepted, Freed, RefusedLast
  <2>2. frees' = frees /\ rpc' = "notify"
    BY <1>8 DEF PutAccepted
  <2>3. QED
    BY <1>1, <2>1, <2>2 DEF Freed, RefusedLast, FreedTwiceOnlyRefused
<1>9. CASE PutRefused
  <2>1. /\ total_read \in 1..MaxRead /\ rpc = "put" /\ rpc' = "refused"
        /\ UNCHANGED <<q, total_read, pkt>> /\ q.abort_request
        /\ frees' = FreePacket(total_read)
    BY <1>1, <1>9 DEF PutRefused, TypeOK
  <2>2. frees[total_read] = 0
    BY <2>1, <1>1 DEF LiveWhereHeld
  <2>3. \A n \in 1..MaxRead :
          frees'[n] = IF n = total_read THEN 1 ELSE frees[n]
    BY <1>1, <2>1, <2>2 DEF FreePacket
  <2>4. RefusedLast'
    BY <2>1, <2>3 DEF RefusedLast
  <2>5. FreedTwiceOnlyRefused'
    BY <2>1, <2>3 DEF Freed, FreedTwiceOnlyRefused, QueuedNos
  <2>6. QED
    BY <2>4, <2>5 DEF Freed
<1>10. CASE FreeRefused
  <2>1. /\ total_read \in 1..MaxRead /\ rpc = "refused" /\ rpc' = "read"
        /\ UNCHANGED <<q, total_read, pkt>>
        /\ frees' = FreePacket(total_read)
    BY <1>1, <1>10 DEF FreeRefused, TypeOK
  <2>2. frees[total_read] = 1 /\ q.abort_request
    BY <2>1 DEF Freed, RefusedLast
  <2>3. \A n \in 1..MaxRead :
          frees'[n] = IF n = total_read THEN 2 ELSE frees[n]
    BY <1>1, <2>1, <2>2 DEF FreePacket
  <2>4. /\ \A m \in QueuedNos : m < total_read
        /\ pkt # NoPacket => pkt.no < total_read
    BY <1>1, <2>1 DEF FileOrder
  <2>5. FreedTwiceOnlyRefused'
    BY <2>1, <2>2, <2>3, <2>4 DEF Freed, FreedTwiceOnlyRefused, QueuedNos
  <2>6. RefusedLast'
    BY <2>1 DEF RefusedLast
  <2>7. QED
    BY <2>5, <2>6 DEF Freed
<1>11. CASE NotifyOne
  BY <1>4, <1>11 DEF NotifyOne, QueuedNos
<1>12. CASE GetReturns
  <2> DEFINE p == Head(q.packets)
  <2>1. /\ q.packets # <<>> /\ pkt' = p /\ q' = GetPacket(q)
        /\ frees' = FreePacket(p.no)
        /\ rpc' = rpc /\ total_read' = total_read
    BY <1>12 DEF GetReturns
  <2>2. /\ q'.packets = Tail(q.packets) /\ q'.abort_request = q.abort_request
    BY <1>1, <2>1, GetPacketFields
  <2>3. /\ QueuedNos' = QueuedNos \ {p.no} /\ p.no \in QueuedNos /\ p \in Packet
    BY <1>1, <2>1, <2>2, TailNos DEF QueuedNos, FileOrder
  <2> HIDE DEF p
  <2>4. p.no \in 1..MaxRead /\ frees[p.no] = 0
    BY <1>1, <1>2, <2>3 DEF LiveWhereHeld
  <2>5. \A n \in 1..MaxRead : frees'[n] = IF n = p.no THEN 1 ELSE frees[n]
    BY <1>1, <2>1, <2>4 DEF FreePacket
  <2>6. RefusedLast'
    <3>1. rpc = "refused" => p.no # total_read
      BY <1>1, <2>3 DEF FileOrder
    <3>2. rpc = "refused" => total_read \in 1..MaxRead
      BY <1>1 DEF TypeOK
    <3>3. QED
      BY <1>1, <2>1, <2>2, <2>5, <3>1, <3>2 DEF Freed, RefusedLast
  <2>7. FreedTwiceOnlyRefused'
    BY <2>1, <2>2, <2>3, <2>4, <2>5 DEF Freed, FreedTwiceOnlyRefused
  <2>8. QED
    BY <2>6, <2>7 DEF Freed
<1>13. ASSUME NEW c \in Controllers, Flush(c) PROVE Freed'
  <2>1. /\ q' = FlushQueue(q)
        /\ rpc' = rpc /\ total_read' = total_read /\ pkt' = pkt
        /\ frees' = [n \in 1..MaxRead |->
                      IF n \in QueuedNos THEN frees[n] + 1 ELSE frees[n]]
    BY <1>13 DEF Flush
  <2>2. q'.packets = <<>> /\ q'.abort_request = q.abort_request
    BY <1>1, <2>1, FlushQueueFields
  <2>3. QueuedNos' = {}
    BY <2>2, EmptyNos DEF QueuedNos
  <2>4. \A n \in QueuedNos : frees[n] = 0
    BY <1>1, <1>2 DEF LiveWhereHeld
  <2>5. \A n \in 1..MaxRead : frees'[n] = IF n \in QueuedNos THEN 1 ELSE frees[n]
    <3>1. frees' = [n \in 1..MaxRead |-> IF n \in QueuedNos THEN frees[n] + 1 ELSE frees[n]]
      BY <2>1
    <3>2. QED
      BY <2>4, <3>1
  <2>6. RefusedLast'
    <3>1. rpc = "refused" => total_read \in 1..MaxRead /\ total_read \notin QueuedNos
      BY <1>1 DEF FileOrder, TypeOK
    <3>2. QED
      BY <2>1, <2>2, <2>5, <3>1 DEF Freed, RefusedLast
  <2>7. FreedTwiceOnlyRefused'
    BY <2>1, <2>2, <2>3, <2>5 DEF Freed, FreedTwiceOnlyRefused
  <2>8. QED
    BY <2>6, <2>7 DEF Freed
<1>14. ASSUME NEW c \in Controllers, Abort(c) PROVE Freed'
  <2>1. /\ q'.packets = q.packets /\ q'.abort_request = TRUE
        /\ UNCHANGED <<total_read, rpc, pkt, frees>>
    BY <1>1, <1>14, AbortQueueFields DEF Abort
  <2>2. QED
    BY <1>4, <2>1 DEF QueuedNos
<1>15. CASE CallGet \/ Lock \/ GetRefused \/ GetGoesOn \/ Wait \/ WaitTimesOut \/ AfterGet
  BY <1>5, <1>15
     DEF CallGet, Lock, GetRefused, GetGoesOn, Wait, WaitTimesOut, AfterGet
<1>16. ASSUME NEW c \in Controllers, NotifyAll(c) \/ SetQuit(c) PROVE Freed'
  BY <1>5, <1>16 DEF NotifyAll, SetQuit
<1>17. CASE UNCHANGED vars
  BY <1>5, <1>17 DEF vars
<1>18. QED
  BY <1>6, <1>7, <1>8, <1>9, <1>10, <1>11, <1>12, <1>13, <1>14, <1>15, <1>16, <1>17
     DEF Next, Reader, Decoder, Controller

LEMMA IInvAlways == Spec => []IInv
<1>1. Init => MutexHeld /\ Freed
  BY DEF Init, MutexHeld, Freed, RefusedLast, FreedTwiceOnlyRefused
<1>2. Ordered /\ MutexHeld /\ Freed <=> IInv
  BY DEF Ordered, Freed, IInv
<1>3. QED
  BY <1>1, <1>2, OrderedInit, OrderedStep, MutexStep, FreedStep, PTL DEF Spec

(* No packet of the file is lost and none is used after it was freed,      *)
(* whichever way puts, gets, flushes and aborts interleave.                *)
THEOREM LiveWhereHeldAlways == Spec => []LiveWhereHeld
<1>1. IInv => LiveWhereHeld
  BY DEF IInv
<1>2. QED
  BY <1>1, IInvAlways, PTL

(* The decoder sees the packets in the order of the file.                  *)
THEOREM FileOrderAlways == Spec => []FileOrder
<1>1. IInv => FileOrder
  BY DEF IInv
<1>2. QED
  BY <1>1, IInvAlways, PTL

(* A packet is freed twice only if put refused it, and from then on none   *)
(* of the packets behind it is in the queue or comes out of it.            *)
THEOREM FreedTwiceOnlyRefusedAlways == Spec => []FreedTwiceOnlyRefused
<1>1. IInv => FreedTwiceOnlyRefused
  BY DEF IInv
<1>2. QED
  BY <1>1, IInvAlways, PTL
-----------------------------------------------------------------------------
LEMMA ChannelInit == Init => Channel!Init
  BY EmptyQueueFields DEF Init, Channel!Init

LEMMA ChannelStep == TypeOK /\ MutexHeld /\ [Next]_vars => [Channel!Next]_(Channel!vars)
<1> SUFFICES ASSUME TypeOK, MutexHeld, [Next]_vars
             PROVE  [Channel!Next]_(Channel!vars)
  OBVIOUS
<1> USE DEF Channel!Next, Channel!vars
<1>1. q \in QueueOf(Packet)
  BY DEF TypeOK
<1>2. CASE PutBegins
  <2>1. Channel!Come("sender")
    BY <1>2 DEF PutBegins, MutexHeld, Channel!Come
  <2>2. QED
    BY <2>1
<1>3. CASE PutAccepted
  <2> DEFINE p == PacketOf(total_read)
  <2>1. p \in Packet
    BY <1>3, PacketOfNumber, PacketAssumption DEF PutAccepted, TypeOK
  <2>2. /\ q' = PutPacket(q, p) /\ UNCHANGED <<pkt, dpc>>
        /\ rpc = "push" /\ rpc' = "notify"
    BY <1>3 DEF PutAccepted
  <2> HIDE DEF p
  <2>3. /\ q'.packets = Append(q.packets, p)
        /\ q'.abort_request = q.abort_request
    BY <1>1, <2>1, <2>2, PutPacketFields
  <2>4. dpc # "look"
    BY <2>2 DEF MutexHeld
  <2>5. Channel!Send(p)
    BY <2>2, <2>3, <2>4 DEF Channel!Send
  <2>6. QED
    BY <2>1, <2>5
<1>4. CASE GetGoesOn
  <2>1. Channel!Come("receiver")
    BY <1>4 DEF GetGoesOn, MutexHeld, Channel!Come
  <2>2. QED
    BY <2>1
<1>5. CASE GetReturns
  <2>1. /\ q.packets # <<>> /\ pkt' = Head(q.packets) /\ q' = GetPacket(q)
        /\ dpc = "look" /\ dpc' = "got" /\ rpc' = rpc
    BY <1>5 DEF GetReturns
  <2>2. q'.packets = Tail(q.packets) /\ q'.abort_request = q.abort_request
    BY <1>1, <2>1, GetPacketFields
  <2>3. rpc # "push"
    BY <2>1 DEF MutexHeld
  <2>4. Channel!Receive
    BY <2>1, <2>2, <2>3 DEF Channel!Receive
  <2>5. QED
    BY <2>4
<1>6. CASE Wait
  <2>1. Channel!FindEmpty
    BY <1>6 DEF Wait, MutexHeld, Channel!FindEmpty
  <2>2. QED
    BY <2>1
<1>7. ASSUME NEW c \in Controllers, Flush(c) PROVE Channel!Drop
  BY <1>1, <1>7, FlushQueueFields DEF Flush, MutexHeld, Channel!Drop
<1>8. ASSUME NEW c \in Controllers, Abort(c) PROVE Channel!Close
  BY <1>1, <1>8, AbortQueueFields DEF Abort, Channel!Close
<1>9. CASE ReadPacket \/ PutRefused \/ NotifyOne \/ FreeRefused
  BY <1>9 DEF ReadPacket, PutRefused, NotifyOne, FreeRefused
<1>10. CASE CallGet \/ Lock \/ GetRefused \/ WaitTimesOut \/ AfterGet
  BY <1>10 DEF CallGet, Lock, GetRefused, WaitTimesOut, AfterGet
<1>11. ASSUME NEW c \in Controllers, NotifyAll(c) \/ SetQuit(c)
       PROVE  UNCHANGED (Channel!vars)
  BY <1>11 DEF NotifyAll, SetQuit
<1>12. CASE UNCHANGED vars
  BY <1>12 DEF vars
<1>13. QED
  BY <1>2, <1>3, <1>4, <1>5, <1>6, <1>7, <1>8, <1>9, <1>10, <1>11, <1>12
     DEF Next, Reader, Decoder, Controller

(* PacketQueue, with its threads, its mutex and its condition variable, is *)
(* the FIFO channel of PacketChannel: the test of the flags is the coming  *)
(* of a user, which the closed channel refuses, and the push, the pop or   *)
(* the wait is its end, which an abort or a stop in between does not undo. *)
THEOREM QueueImplementsChannel == Spec => ImplementsChannel
<1>1. IInv => TypeOK /\ MutexHeld
  BY DEF IInv
<1>2. QED
  BY <1>1, ChannelInit, ChannelStep, IInvAlways, PTL
     DEF Spec, ImplementsChannel, Channel!Spec
-----------------------------------------------------------------------------
(* A set of natural numbers that is not empty has a least element.         *)
LEMMA Least ==
  ASSUME NEW T \in SUBSET Nat, T # {}
  PROVE  \E x \in T : \A y \in T : x <= y
<1> DEFINE R == OpToRel(<, Nat)
<1>1. IsWellFoundedOn(R, Nat)
  BY NatLessThanWellFounded
<1>2. \A x, y \in Nat : x < y => <<x, y>> \in R
  BY DEF OpToRel
<1> HIDE DEF R
<1>3. PICK x \in T : \A y \in T : ~ (<<y, x>> \in R)
  BY <1>1, WFMin
<1>4. ASSUME NEW y \in T PROVE x <= y
  <2>1. x \in Nat /\ y \in Nat
    OBVIOUS
  <2>2. ~(y < x)
    BY <1>2, <1>3, <2>1
  <2>3. QED
    BY <2>1, <2>2
<1>5. QED
  BY <1>4

(* g is the function that Total defines by recursion.                      *)
Sums(g, f, n) == g = [i \in 0..n |-> IF i = 0 THEN 0 ELSE g[i - 1] + f[i]]

LEMMA TotalChoice ==
  ASSUME NEW f, NEW n \in Nat, \E g : Sums(g, f, n)
  PROVE  \E g : Sums(g, f, n) /\ Total(f, n) = g[n]
<1> DEFINE c == CHOOSE g : Sums(g, f, n)
<1>1. Sums(c, f, n)
  OBVIOUS
<1>2. Total(f, n) = c[n]
  BY DEF Total, Sums
<1>3. QED
  BY <1>1, <1>2

(* There is such a function, whatever f.                                   *)
LEMMA SumsExist ==
  ASSUME NEW f, NEW n \in Nat
  PROVE  \E g : Sums(g, f, n)
<1> DEFINE T == {m \in Nat : ~ \E g : Sums(g, f, m)}
<1>1. SUFFICES ASSUME T # {} PROVE FALSE
  OBVIOUS
<1>2. PICK m \in T : \A y \in T : m <= y
  BY <1>1, Least
<1>3. m # 0
  <2> DEFINE g == [i \in 0..0 |-> 0]
  <2>1. Sums(g, f, 0)
    BY DEF Sums
  <2>2. QED
    BY <2>1
<1>4. m - 1 \in Nat /\ m - 1 \notin T
  BY <1>2, <1>3
<1>5. PICK g : Sums(g, f, m - 1)
  BY <1>4
<1> DEFINE h == [i \in 0..m |-> IF i = m THEN g[m - 1] + f[m] ELSE g[i]]
<1>6. \A i \in 0..m - 1 : g[i] = IF i = 0 THEN 0 ELSE g[i - 1] + f[i]
  BY <1>5 DEF Sums
<1>7. \A i \in 0..m : h[i] = IF i = 0 THEN 0 ELSE h[i - 1] + f[i]
  <2> SUFFICES ASSUME NEW i \in 0..m PROVE h[i] = IF i = 0 THEN 0 ELSE h[i - 1] + f[i]
    OBVIOUS
  <2>1. CASE i = m
    BY <1>3, <2>1
  <2>2. CASE i # m
    <3>1. i \in 0..m - 1 /\ (i # 0 => i - 1 \in 0..m /\ i - 1 # m)
      BY <2>2
    <3>2. QED
      BY <1>6, <2>2, <3>1
  <2>3. QED
    BY <2>1, <2>2
<1>8. Sums(h, f, m)
  BY <1>7 DEF Sums
<1>9. QED
  BY <1>8

(* And only one.                                                           *)
LEMMA SumsUnique ==
  ASSUME NEW f, NEW n \in Nat, NEW g, NEW h, Sums(g, f, n), Sums(h, f, n)
  PROVE  g[n] = h[n]
<1> DEFINE T == {i \in 0..n : g[i] # h[i]}
<1>1. SUFFICES ASSUME T # {} PROVE FALSE
  OBVIOUS
<1>2. T \in SUBSET Nat
  OBVIOUS
<1>3. PICK i \in T : \A y \in T : i <= y
  BY <1>1, <1>2, Least
<1>4. /\ \A k \in 0..n : g[k] = IF k = 0 THEN 0 ELSE g[k - 1] + f[k]
      /\ \A k \in 0..n : h[k] = IF k = 0 THEN 0 ELSE h[k - 1] + f[k]
  BY DEF Sums
<1>5. i # 0
  BY <1>4
<1>6. i - 1 \in 0..n /\ i - 1 \notin T
  BY <1>3, <1>5
<1>7. g[i - 1] = h[i - 1]
  BY <1>6
<1>8. QED
  BY <1>4, <1>5, <1>7

LEMMA TotalIs ==
  ASSUME NEW f, NEW n \in Nat, NEW g, Sums(g, f, n)
  PROVE  Total(f, n) = g[n]
BY TotalChoice, SumsUnique

(* Sums of numbers are numbers.                                            *)
LEMMA SumsAreNumbers ==
  ASSUME NEW f, NEW n \in Nat, \A i \in 1..n : f[i] \in Int, NEW g, Sums(g, f, n)
  PROVE  \A i \in 0..n : g[i] \in Int
<1> DEFINE T == {i \in 0..n : g[i] \notin Int}
<1>1. SUFFICES ASSUME T # {} PROVE FALSE
  OBVIOUS
<1>2. T \in SUBSET Nat
  OBVIOUS
<1>3. PICK i \in T : \A y \in T : i <= y
  BY <1>1, <1>2, Least
<1>4. \A k \in 0..n : g[k] = IF k = 0 THEN 0 ELSE g[k - 1] + f[k]
  BY DEF Sums
<1>5. i # 0
  BY <1>4
<1>6. i - 1 \in 0..n /\ i - 1 \notin T /\ i \in 1..n
  BY <1>3, <1>5
<1>7. g[i - 1] \in Int /\ f[i] \in Int
  BY <1>6
<1>8. g[i] \in Int
  BY <1>4, <1>5, <1>7
<1>9. QED
  BY <1>8

LEMMA TotalOfNone == \A f : Total(f, 0) = 0
<1> TAKE f
<1>1. PICK g : Sums(g, f, 0)
  BY SumsExist
<1>2. g[0] = 0
  BY <1>1 DEF Sums
<1>3. QED
  BY <1>1, <1>2, TotalIs

(* One more number at the end.                                             *)
LEMMA TotalOfMore ==
  ASSUME NEW f, NEW n \in Nat, NEW more, \A i \in 1..n : more[i] = f[i]
  PROVE  Total(more, n + 1) = Total(f, n) + more[n + 1]
<1>1. PICK h : Sums(h, more, n + 1)
  BY SumsExist
<1>2. \A i \in 0..n + 1 : h[i] = IF i = 0 THEN 0 ELSE h[i - 1] + more[i]
  BY <1>1 DEF Sums
<1> DEFINE g == [i \in 0..n |-> h[i]]
<1>3. \A i \in 0..n : g[i] = IF i = 0 THEN 0 ELSE g[i - 1] + f[i]
  <2> SUFFICES ASSUME NEW i \in 0..n PROVE g[i] = IF i = 0 THEN 0 ELSE g[i - 1] + f[i]
    OBVIOUS
  <2>1. i \in 0..n + 1 /\ (i # 0 => i - 1 \in 0..n /\ i \in 1..n)
    OBVIOUS
  <2>2. QED
    BY <1>2, <2>1
<1>4. Sums(g, f, n)
  BY <1>3 DEF Sums
<1>5. Total(f, n) = h[n] /\ Total(more, n + 1) = h[n + 1]
  <2>1. Total(f, n) = g[n]
    BY <1>4, TotalIs
  <2>2. Total(more, n + 1) = h[n + 1]
    BY <1>1, TotalIs
  <2>3. QED
    BY <2>1, <2>2
<1>6. h[n + 1] = h[n] + more[n + 1]
  BY <1>2
<1>7. QED
  BY <1>5, <1>6

(* One number less at the front.                                           *)
LEMMA TotalOfRest ==
  ASSUME NEW f, NEW n \in Nat \ {0}, \A i \in 1..n : f[i] \in Int,
         NEW rest, \A i \in 1..n - 1 : rest[i] = f[i + 1]
  PROVE  Total(rest, n - 1) = Total(f, n) - f[1]
<1>1. PICK g : Sums(g, f, n)
  BY SumsExist
<1>2. \A i \in 0..n : g[i] = IF i = 0 THEN 0 ELSE g[i - 1] + f[i]
  BY <1>1 DEF Sums
<1>3. \A i \in 0..n : g[i] \in Int
  BY <1>1, SumsAreNumbers
<1> DEFINE h == [i \in 0..n - 1 |-> g[i + 1] - f[1]]
<1>4. \A i \in 0..n - 1 : h[i] = IF i = 0 THEN 0 ELSE h[i - 1] + rest[i]
  <2> SUFFICES ASSUME NEW i \in 0..n - 1
               PROVE  h[i] = IF i = 0 THEN 0 ELSE h[i - 1] + rest[i]
    OBVIOUS
  <2>1. f[1] \in Int /\ 1 \in 0..n /\ i + 1 \in 0..n /\ i + 1 # 0 /\ i \in 0..n
    OBVIOUS
  <2>2. CASE i = 0
    <3>1. g[1] = g[0] + f[1] /\ g[0] = 0
      BY <1>2, <2>1
    <3>2. QED
      BY <2>1, <2>2, <3>1
  <2>3. CASE i # 0
    <3>1. i \in 1..n - 1 /\ i - 1 \in 0..n - 1 /\ i + 1 \in 1..n
      BY <2>3
    <3>2. h[i] = g[i + 1] - f[1] /\ h[i - 1] = g[i] - f[1] /\ rest[i] = f[i + 1]
      BY <3>1
    <3>3. g[i + 1] = g[i] + f[i + 1]
      BY <1>2, <2>1
    <3>4. g[i] \in Int /\ f[i + 1] \in Int
      BY <1>3, <2>1, <3>1
    <3>5. QED
      BY <2>1, <2>3, <3>2, <3>3, <3>4
  <2>4. QED
    BY <2>2, <2>3
<1>5. Sums(h, rest, n - 1)
  BY <1>4 DEF Sums
<1>6. Total(f, n) = g[n] /\ Total(rest, n - 1) = h[n - 1]
  BY <1>1, <1>5, TotalIs
<1>7. h[n - 1] = g[n] - f[1]
  OBVIOUS
<1>8. QED
  BY <1>6, <1>7
-----------------------------------------------------------------------------
(* Sizes and durations of sequences of packets.                            *)
LEMMA CountsOfNone == SizeOf(<<>>) = 0 /\ DurationOf(<<>>) = 0
  BY TotalOfNone, EmptySeq DEF SizeOf, DurationOf

LEMMA PacketCounts ==
  ASSUME NEW p \in Packet
  PROVE  p.size \in Int /\ Counted(p) \in Int
  BY PacketNumber DEF Counted

LEMMA CountsOfAppend ==
  ASSUME NEW s \in Seq(Packet), NEW p \in Packet
  PROVE  /\ SizeOf(Append(s, p)) = SizeOf(s) + p.size
         /\ DurationOf(Append(s, p)) = DurationOf(s) + Counted(p)
<1> DEFINE t == Append(s, p)
           n == Len(s)
<1>1. /\ n \in Nat /\ Len(t) = n + 1
      /\ \A i \in 1..n : t[i] = s[i]
      /\ t[n + 1] = p
  OBVIOUS
<1> HIDE DEF t, n
<1>2. SizeOf(t) = SizeOf(s) + p.size
  <2> DEFINE f == [i \in 1..n |-> s[i].size]
             more == [i \in 1..n + 1 |-> t[i].size]
  <2>1. /\ \A i \in 1..n : more[i] = f[i]
        /\ more[n + 1] = p.size
    BY <1>1
  <2>2. SizeOf(t) = Total(more, n + 1) /\ SizeOf(s) = Total(f, n)
    BY <1>1 DEF SizeOf, n
  <2> HIDE DEF f, more
  <2>3. QED
    BY <1>1, <2>1, <2>2, TotalOfMore
<1>3. DurationOf(t) = DurationOf(s) + Counted(p)
  <2> DEFINE f == [i \in 1..n |-> Counted(s[i])]
             more == [i \in 1..n + 1 |-> Counted(t[i])]
  <2>1. /\ \A i \in 1..n : more[i] = f[i]
        /\ more[n + 1] = Counted(p)
    <3>1. \A i \in 1..n : Counted(t[i]) = Counted(s[i])
      BY <1>1
    <3>2. Counted(t[n + 1]) = Counted(p)
      BY <1>1
    <3>3. n + 1 \in 1..n + 1 /\ \A i \in 1..n : i \in 1..n + 1
      BY <1>1
    <3>4. QED
      BY <1>1, <3>1, <3>2, <3>3
  <2>2. DurationOf(t) = Total(more, n + 1) /\ DurationOf(s) = Total(f, n)
    BY <1>1 DEF DurationOf, n
  <2> HIDE DEF f, more
  <2>3. QED
    BY <1>1, <2>1, <2>2, TotalOfMore
<1>4. QED
  BY <1>2, <1>3 DEF t

LEMMA CountsOfTail ==
  ASSUME NEW s \in Seq(Packet), s # <<>>
  PROVE  /\ SizeOf(Tail(s)) = SizeOf(s) - Head(s).size
         /\ DurationOf(Tail(s)) = DurationOf(s) - Counted(Head(s))
<1> DEFINE t == Tail(s)
           n == Len(s)
<1>1. /\ n \in Nat \ {0} /\ Len(t) = n - 1
      /\ \A i \in 1..n - 1 : t[i] = s[i + 1]
      /\ Head(s) = s[1] /\ \A i \in 1..n : s[i] \in Packet
  BY HeadTailProperties, EmptySeq
<1> HIDE DEF t, n
<1>2. \A i \in 1..n : s[i].size \in Int /\ Counted(s[i]) \in Int
  BY <1>1, PacketCounts
<1>3. SizeOf(t) = SizeOf(s) - Head(s).size
  <2> DEFINE f == [i \in 1..n |-> s[i].size]
             rest == [i \in 1..n - 1 |-> t[i].size]
  <2>1. /\ \A i \in 1..n : f[i] \in Int
        /\ \A i \in 1..n - 1 : rest[i] = f[i + 1]
        /\ f[1] = Head(s).size
    BY <1>1, <1>2
  <2>2. SizeOf(t) = Total(rest, n - 1) /\ SizeOf(s) = Total(f, n)
    BY <1>1 DEF SizeOf, n
  <2> HIDE DEF f, rest
  <2>3. QED
    BY <1>1, <2>1, <2>2, TotalOfRest
<1>4. DurationOf(t) = DurationOf(s) - Counted(Head(s))
  <2> DEFINE f == [i \in 1..n |-> Counted(s[i])]
             rest == [i \in 1..n - 1 |-> Counted(t[i])]
  <2>1. /\ \A i \in 1..n : f[i] \in Int
        /\ \A i \in 1..n - 1 : rest[i] = f[i + 1]
        /\ f[1] = Counted(Head(s))
    <3>1. \A i \in 1..n : Counted(s[i]) \in Int
      BY <1>2
    <3>2. \A i \in 1..n - 1 : i + 1 \in 1..n /\ Counted(t[i]) = Counted(s[i + 1])
      BY <1>1
    <3>3. 1 \in 1..n /\ Counted(s[1]) = Counted(Head(s))
      BY <1>1
    <3>4. QED
      BY <3>1, <3>2, <3>3
  <2>2. DurationOf(t) = Total(rest, n - 1) /\ DurationOf(s) = Total(f, n)
    BY <1>1 DEF DurationOf, n
  <2> HIDE DEF f, rest
  <2>3. QED
    BY <1>1, <2>1, <2>2, TotalOfRest
<1>5. QED
  BY <1>3, <1>4 DEF t

(* Each critical section keeps the counters of the struct exact.           *)
Exact(s) ==
  /\ s.nb_packets = Len(s.packets)
  /\ s.size = SizeOf(s.packets)
  /\ s.duration = DurationOf(s.packets)

LEMMA OpsExact ==
  ASSUME NEW s \in QueueOf(Packet), Exact(s)
  PROVE  /\ \A p \in Packet : Exact(PutPacket(s, p))
         /\ s.packets # <<>> => Exact(GetPacket(s))
         /\ Exact(FlushQueue(s)) /\ Exact(AbortQueue(s))
<1>1. s.packets \in Seq(Packet)
  BY DEF QueueOf
<1>2. ASSUME NEW p \in Packet PROVE Exact(PutPacket(s, p))
  <2>1. /\ PutPacket(s, p).packets = Append(s.packets, p)
        /\ PutPacket(s, p).nb_packets = s.nb_packets + 1
        /\ PutPacket(s, p).size = s.size + p.size
        /\ PutPacket(s, p).duration = s.duration + Counted(p)
    BY DEF PutPacket
  <2>2. Len(Append(s.packets, p)) = Len(s.packets) + 1
    BY <1>1
  <2>3. QED
    BY <1>1, <2>1, <2>2, CountsOfAppend DEF Exact
<1>3. ASSUME s.packets # <<>> PROVE Exact(GetPacket(s))
  <2>1. /\ GetPacket(s).packets = Tail(s.packets)
        /\ GetPacket(s).nb_packets = s.nb_packets - 1
        /\ GetPacket(s).size = s.size - Head(s.packets).size
        /\ GetPacket(s).duration = s.duration - Counted(Head(s.packets))
    BY DEF GetPacket
  <2>2. Len(Tail(s.packets)) = Len(s.packets) - 1
    BY <1>1, <1>3, HeadTailProperties
  <2>3. QED
    BY <1>1, <1>3, <2>1, <2>2, CountsOfTail DEF Exact
<1>4. Exact(FlushQueue(s))
  BY CountsOfNone, EmptySeq DEF FlushQueue, Exact
<1>5. Exact(AbortQueue(s))
  <2>1. /\ AbortQueue(s).packets = s.packets /\ AbortQueue(s).nb_packets = s.nb_packets
        /\ AbortQueue(s).size = s.size /\ AbortQueue(s).duration = s.duration
    BY DEF AbortQueue, QueueOf
  <2>2. QED
    BY <2>1 DEF Exact
<1>6. QED
  BY <1>2, <1>3, <1>4, <1>5

LEMMA ExactStep == TypeOK /\ CountersExact /\ [Next]_vars => CountersExact'
<1> SUFFICES ASSUME TypeOK, CountersExact, [Next]_vars PROVE CountersExact'
  OBVIOUS
<1>1. q \in QueueOf(Packet) /\ Exact(q) /\ (CountersExact' <=> Exact(q'))
  BY DEF TypeOK, CountersExact, Exact
<1>2. CASE PutAccepted
  <2>1. PacketOf(total_read) \in Packet
    BY <1>2, PacketOfNumber, PacketAssumption DEF PutAccepted, TypeOK
  <2>2. QED
    BY <1>1, <1>2, <2>1, OpsExact DEF PutAccepted
<1>3. CASE GetReturns
  BY <1>1, <1>3, OpsExact DEF GetReturns
<1>4. ASSUME NEW c \in Controllers, Flush(c) \/ Abort(c) PROVE CountersExact'
  BY <1>1, <1>4, OpsExact DEF Flush, Abort
<1>5. CASE UNCHANGED q
  BY <1>1, <1>5
<1>6. CASE ReadPacket \/ PutBegins \/ PutRefused \/ NotifyOne \/ FreeRefused
  BY <1>5, <1>6 DEF ReadPacket, PutBegins, PutRefused, NotifyOne, FreeRefused
<1>7. CASE CallGet \/ Lock \/ GetRefused \/ GetGoesOn \/ Wait \/ WaitTimesOut \/ AfterGet
  BY <1>5, <1>7 DEF CallGet, Lock, GetRefused, GetGoesOn, Wait, WaitTimesOut, AfterGet
<1>8. ASSUME NEW c \in Controllers, NotifyAll(c) \/ SetQuit(c) PROVE CountersExact'
  BY <1>5, <1>8 DEF NotifyAll, SetQuit
<1>9. CASE UNCHANGED vars
  BY <1>5, <1>9 DEF vars
<1>10. QED
  BY <1>2, <1>3, <1>4, <1>6, <1>7, <1>8, <1>9 DEF Next, Reader, Decoder, Controller

(* Whichever threads put, get, flush and abort, and in whatever order: the *)
(* counters that readTask's watermark and doTask's prebuffer rely on are   *)
(* the length, the bytes and the duration of what is in the queue.         *)
THEOREM CountersAlwaysExact == Spec => []QueueInv
<1>1. Init => CountersExact
  BY CountsOfNone, EmptySeq DEF Init, EmptyQueue, CountersExact
<1>2. QueueInv <=> TypeOK /\ CountersExact
  BY DEF QueueInv
<1>3. QED
  BY <1>1, <1>2, ExactStep, TypeCorrect, PTL DEF Spec
=============================================================================
