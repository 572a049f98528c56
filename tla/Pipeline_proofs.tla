-------------------------- MODULE Pipeline_proofs --------------------------
(***************************************************************************)
(* For every file, every watermark and every number of seeks: Pipeline's   *)
(* type invariant, that the watermark bounds one of the two queues, and    *)
(* what a seek does to the packets underway: none overtakes another, few   *)
(* of the old position are left, none of the new one is lost.              *)
(***************************************************************************)
EXTENDS Pipeline, SequenceTheorems, FiniteSetTheorems, TLAPS

LEMMA PacketFields ==
  ASSUME NEW p \in Packet
  PROVE  /\ p.no \in 1..FileLen
         /\ p.epoch \in 0..MaxSeeks
         /\ p.size \in Nat
         /\ p.duration = 0
  BY PipelineAssumption DEF Packet, PacketOf

LEMMA PacketRead ==
  ASSUME NEW n \in 1..FileLen, NEW e \in 0..MaxSeeks
  PROVE  PacketOf(n, e) \in Packet
  BY DEF Packet

(* What the critical sections do to a queue, field by field. *)
LEMMA PutPacketFields ==
  ASSUME NEW q \in QueueOf(Packet), NEW p \in Packet
  PROVE  /\ PutPacket(q, p) \in QueueOf(Packet)
         /\ PutPacket(q, p).packets = Append(q.packets, p)
         /\ PutPacket(q, p).nb_packets = q.nb_packets + 1
         /\ PutPacket(q, p).size = q.size + p.size
<1>1. p.size \in Nat /\ Counted(p) = 0
  BY PacketFields DEF Counted
<1>2. q.packets \in Seq(Packet) /\ q.size \in Int /\ q.duration \in Int
        /\ q.nb_packets \in Int /\ q.abort_request \in BOOLEAN
  BY DEF QueueOf
<1>3. Append(q.packets, p) \in Seq(Packet)
  BY <1>2
<1>4. q.size + p.size \in Int /\ q.nb_packets + 1 \in Int /\ q.duration + Counted(p) \in Int
  BY <1>1, <1>2
<1>5. QED
  BY <1>2, <1>3, <1>4 DEF PutPacket, QueueOf

LEMMA GetPacketFields ==
  ASSUME NEW q \in QueueOf(Packet), q.packets # <<>>
  PROVE  /\ GetPacket(q) \in QueueOf(Packet)
         /\ GetPacket(q).packets = Tail(q.packets)
         /\ GetPacket(q).nb_packets = q.nb_packets - 1
         /\ GetPacket(q).size = q.size - Head(q.packets).size
         /\ Head(q.packets) \in Packet
<1>1. q.packets \in Seq(Packet) /\ q.size \in Int /\ q.duration \in Int
        /\ q.nb_packets \in Int /\ q.abort_request \in BOOLEAN
  BY DEF QueueOf
<1>2. Head(q.packets) \in Packet /\ Tail(q.packets) \in Seq(Packet)
  BY <1>1, HeadTailProperties
<1>3. Head(q.packets).size \in Nat /\ Counted(Head(q.packets)) = 0
  BY <1>2, PacketFields DEF Counted
<1>4. /\ q.size - Head(q.packets).size \in Int
      /\ q.nb_packets - 1 \in Int
      /\ q.duration - Counted(Head(q.packets)) \in Int
  BY <1>1, <1>3
<1>5. QED
  BY <1>1, <1>2, <1>4 DEF GetPacket, QueueOf

LEMMA FlushQueueFields ==
  ASSUME NEW q \in QueueOf(Packet)
  PROVE  /\ FlushQueue(q) \in QueueOf(Packet)
         /\ FlushQueue(q).packets = <<>>
         /\ FlushQueue(q).nb_packets = 0
         /\ FlushQueue(q).size = 0
<1>1. <<>> \in Seq(Packet) /\ q.abort_request \in BOOLEAN
  BY EmptySeq DEF QueueOf
<1>2. QED
  BY <1>1 DEF FlushQueue, QueueOf

LEMMA EmptyQueueFields ==
  /\ EmptyQueue \in QueueOf(Packet)
  /\ EmptyQueue.packets = <<>>
<1>1. <<>> \in Seq(Packet)
  BY EmptySeq
<1>2. QED
  BY <1>1 DEF EmptyQueue, QueueOf
-----------------------------------------------------------------------------
LEMMA InitTypeOK == Init => TypeOK
<1> SUFFICES ASSUME Init PROVE TypeOK
  OBVIOUS
<1>1. FileOK
  BY PipelineAssumption DEF Init, FileOK, BeforeFile
<1>2. FlagsOK
  BY DEF Init, FlagsOK, Unseen
<1>3. PlacesOK
  BY DEF Init, PlacesOK
<1>4. PacketsOK
  <2>1. <<>> \in Seq(Packet)
    BY EmptySeq
  <2>2. QED
    BY <2>1, EmptyQueueFields DEF Init, PacketsOK
<1>5. QED
  BY <1>1, <1>2, <1>3, <1>4 DEF TypeOK

LEMMA ReaderFlags ==
  ASSUME FlagsOK, PlacesOK, Reader
  PROVE  FlagsOK' /\ PlacesOK'
<1>1. CASE ReaderTop
  BY <1>1 DEF ReaderTop, FlagsOK, PlacesOK, seekVars, decoderVars
<1>2. CASE \E s \in Stream : ReaderLooks(s)
  <2> PICK s \in Stream : ReaderLooks(s)
    BY <1>2
  <2>1. Enough(s) \in BOOLEAN
    BY DEF Enough
  <2>2. enough' \in [Stream -> BOOLEAN]
    BY <2>1 DEF ReaderLooks, FlagsOK
  <2>3. QED
    BY <2>2 DEF ReaderLooks, FlagsOK, PlacesOK, seekVars, decoderVars
<1>3. CASE ReaderDecides
  BY <1>3 DEF ReaderDecides, FlagsOK, PlacesOK, Unseen, seekVars, decoderVars
<1>4. CASE ReaderLocks
  BY <1>4 DEF ReaderLocks, FlagsOK, PlacesOK, seekVars, decoderVars
<1>5. CASE ReaderReads
  BY <1>5 DEF ReaderReads, FlagsOK, PlacesOK, Unseen, seekVars, decoderVars
<1>6. CASE ReaderPuts
  BY <1>6 DEF ReaderPuts, FlagsOK, PlacesOK, Unseen, seekVars, decoderVars
<1>7. QED
  BY <1>1, <1>2, <1>3, <1>4, <1>5, <1>6 DEF Reader

LEMMA ReaderPackets ==
  ASSUME TypeOK, Reader
  PROVE  FileOK' /\ PacketsOK'
<1> USE DEF TypeOK
<1>1. CASE \/ ReaderTop \/ (\E s \in Stream : ReaderLooks(s)) \/ ReaderDecides
           \/ ReaderLocks
  <2>1. rpc' # "put"
    BY <1>1 DEF ReaderTop, ReaderLooks, ReaderDecides, ReaderLocks, Stream
  <2>2. UNCHANGED <<pos, seekVars, read, queue, decoderVars, codec, out>>
    BY <1>1 DEF ReaderTop, ReaderLooks, ReaderDecides, ReaderLocks
  <2>3. QED
    BY <2>1, <2>2 DEF FileOK, PacketsOK, seekVars, decoderVars
<1>2. CASE ReaderReads
  <2>1. UNCHANGED <<seekVars, queue, decoderVars, codec, out>>
    BY <1>2 DEF ReaderReads
  <2>2. CASE rpc' = "put"
    <3>1. pos \in 1..FileLen /\ pos' = pos + 1 /\ read' = <<PacketOf(pos, epoch)>>
      BY <1>2, <2>2, PipelineAssumption DEF ReaderReads, FileOK
    <3>2. PacketOf(pos, epoch) \in Packet
      <4>1. epoch \in 0..MaxSeeks
        BY PipelineAssumption DEF FileOK
      <4>2. QED
        BY <3>1, <4>1, PacketRead
    <3>3. read' \in Seq(Packet) /\ read' # <<>>
      BY <3>1, <3>2
    <3>4. QED
      BY <2>1, <3>1, <3>3, PipelineAssumption DEF FileOK, PacketsOK, seekVars, decoderVars
  <2>3. CASE rpc' # "put"
    <3>1. UNCHANGED <<pos, read>>
      BY <1>2, <2>3 DEF ReaderReads
    <3>2. FileOK'
      BY <2>1, <3>1 DEF FileOK, seekVars, decoderVars
    <3>3. PacketsOK'
      BY <2>1, <2>3, <3>1 DEF PacketsOK, decoderVars
    <3>4. QED
      BY <3>2, <3>3
  <2>4. QED
    BY <2>2, <2>3
<1>3. CASE ReaderPuts
  <2>1. Head(read) \in Packet
    BY <1>3, HeadTailProperties DEF ReaderPuts, PacketsOK
  <2>2. queue' \in [Stream -> QueueOf(Packet)]
    <3> SUFFICES ASSUME NEW s \in Stream PROVE queue'[s] \in QueueOf(Packet)
      BY <1>3 DEF ReaderPuts
    <3>1. queue[s] \in QueueOf(Packet)
      BY DEF PacketsOK
    <3>2. QED
      BY <1>3, <2>1, <3>1, PutPacketFields DEF ReaderPuts
  <2>3. read' \in Seq(Packet) /\ rpc' = "top"
    BY <1>3, EmptySeq DEF ReaderPuts
  <2>4. UNCHANGED <<pos, seekVars, decoderVars, codec, out>>
    BY <1>3 DEF ReaderPuts
  <2>5. QED
    BY <2>2, <2>3, <2>4 DEF FileOK, PacketsOK, seekVars, decoderVars
<1>4. QED
  BY <1>1, <1>2, <1>3 DEF Reader
-----------------------------------------------------------------------------
(* Push keeps the queue of frames a sequence of packets. *)
LEMMA PushType ==
  ASSUME NEW s \in Stream, NEW p \in Packet, out \in [Stream -> Seq(Packet)]
  PROVE  Push(s, p) \in Seq(Packet)
<1>1. out[s] \in Seq(Packet)
  OBVIOUS
<1>2. CASE s = "video" /\ Len(out[s]) >= FrameCache
  <2>1. out[s] # <<>>
    BY <1>2, PipelineAssumption
  <2>2. Tail(out[s]) \in Seq(Packet)
    BY <1>1, <2>1, HeadTailProperties
  <2>3. QED
    BY <1>2, <2>2 DEF Push
<1>3. CASE ~(s = "video" /\ Len(out[s]) >= FrameCache)
  BY <1>1, <1>3 DEF Push
<1>4. QED
  BY <1>2, <1>3

LEMMA DecodeType ==
  ASSUME TypeOK, NEW s \in Stream, Decode(s)
  PROVE  TypeOK'
<1> USE DEF TypeOK
<1>1. taken[s] \in Seq(Packet) /\ taken[s] # <<>>
  BY DEF Decode, PacketsOK
<1>2. Head(taken[s]) \in Packet
  BY <1>1, HeadTailProperties
<1> DEFINE sent == Append(codec[s], Head(taken[s]))
<1>3. sent \in Seq(Packet) /\ sent # <<>>
  <2>1. codec[s] \in Seq(Packet)
    BY DEF PacketsOK
  <2>2. QED
    BY <1>2, <2>1, AppendProperties
<1>4. Head(sent) \in Packet /\ Tail(sent) \in Seq(Packet)
  BY <1>3, HeadTailProperties
<1>5. codec' \in [Stream -> Seq(Packet)]
  BY <1>3, <1>4 DEF Decode, PacketsOK
<1>6. out' \in [Stream -> Seq(Packet)]
  <2>1. Push(s, Head(sent)) \in Seq(Packet)
    BY <1>4, PushType DEF PacketsOK
  <2>2. QED
    BY <2>1 DEF Decode, PacketsOK
<1>7. fed' \in [Stream -> SUBSET (1..FileLen)]
  BY <1>2, PacketFields DEF Decode, FileOK
<1>8. taken' \in [Stream -> Seq(Packet)]
  BY EmptySeq DEF Decode, PacketsOK
<1>9. dpc' = [dpc EXCEPT ![s] = "idle"] /\ taken' = [taken EXCEPT ![s] = <<>>]
        /\ UNCHANGED <<pos, seekVars, readerVars, queue, prebuffered>>
  BY DEF Decode
<1>10. FileOK'
  BY <1>7, <1>9 DEF FileOK, seekVars
<1>11. FlagsOK' /\ PlacesOK'
  BY <1>9 DEF FlagsOK, PlacesOK, seekVars, readerVars
<1>12. \A t \in Stream : dpc'[t] # "idle" => taken'[t] # <<>>
  BY <1>9 DEF PacketsOK, PlacesOK
<1>13. PacketsOK'
  BY <1>5, <1>6, <1>8, <1>9, <1>12 DEF PacketsOK, readerVars
<1>14. QED
  BY <1>10, <1>11, <1>13

LEMMA DecoderType ==
  ASSUME TypeOK, NEW s \in Stream, Decoder(s)
  PROVE  TypeOK'
<1> USE DEF TypeOK
<1>1. CASE Prebuffer(s)
  <2>1. FileOK' /\ PacketsOK'
    BY <1>1 DEF Prebuffer, FileOK, PacketsOK, seekVars, readerVars
  <2>2. FlagsOK' /\ PlacesOK'
    BY <1>1 DEF Prebuffer, FlagsOK, PlacesOK, seekVars, readerVars
  <2>3. QED
    BY <2>1, <2>2
<1>2. CASE Get(s)
  <2>1. queue[s] \in QueueOf(Packet) /\ queue[s].packets # <<>>
    BY <1>2 DEF Get, PacketsOK
  <2>2. GetPacket(queue[s]) \in QueueOf(Packet) /\ Head(queue[s].packets) \in Packet
    BY <2>1, GetPacketFields
  <2>3. FileOK'
    BY <1>2 DEF Get, FileOK, seekVars
  <2>4. FlagsOK' /\ PlacesOK'
    BY <1>2 DEF Get, FlagsOK, PlacesOK, seekVars, readerVars
  <2>5. taken' \in [Stream -> Seq(Packet)] /\ queue' \in [Stream -> QueueOf(Packet)]
    BY <1>2, <2>2 DEF Get, PacketsOK
  <2>6. \A t \in Stream : dpc'[t] # "idle" => taken'[t] # <<>>
    BY <1>2 DEF Get, PacketsOK, PlacesOK
  <2>7. PacketsOK'
    BY <1>2, <2>5, <2>6 DEF Get, PacketsOK, readerVars
  <2>8. QED
    BY <2>3, <2>4, <2>7
<1>3. CASE Skip(s)
  <2>1. FileOK'
    BY <1>3 DEF Skip, FileOK, seekVars
  <2>2. FlagsOK' /\ PlacesOK'
    BY <1>3 DEF Skip, FlagsOK, PlacesOK, seekVars, readerVars
  <2>3. taken' \in [Stream -> Seq(Packet)]
    BY <1>3, EmptySeq DEF Skip, PacketsOK
  <2>4. \A t \in Stream : dpc'[t] # "idle" => taken'[t] # <<>>
    BY <1>3 DEF Skip, PacketsOK, PlacesOK
  <2>5. PacketsOK'
    BY <1>3, <2>3, <2>4 DEF Skip, PacketsOK, readerVars
  <2>6. QED
    BY <2>1, <2>2, <2>5
<1>4. CASE LockDecoder(s)
  <2>1. FileOK'
    BY <1>4 DEF LockDecoder, FileOK, seekVars
  <2>2. FlagsOK' /\ PlacesOK'
    BY <1>4 DEF LockDecoder, FlagsOK, PlacesOK, seekVars, readerVars
  <2>3. PacketsOK'
    BY <1>4 DEF LockDecoder, PacketsOK, PlacesOK, readerVars
  <2>4. QED
    BY <2>1, <2>2, <2>3
<1>5. CASE Decode(s)
  BY <1>5, DecodeType
<1>6. QED
  BY <1>1, <1>2, <1>3, <1>4, <1>5 DEF Decoder
-----------------------------------------------------------------------------
LEMMA SeekType ==
  ASSUME TypeOK, SeekBegins \/ SeekProceeds
  PROVE  TypeOK'
<1> USE DEF TypeOK
<1>1. CASE SeekBegins
  <2>1. FileOK'
    BY <1>1, PipelineAssumption DEF SeekBegins, FileOK, BeforeFile, decoderVars
  <2>2. FlagsOK' /\ PlacesOK'
    BY <1>1 DEF SeekBegins, FlagsOK, PlacesOK, BeforeFile, readerVars, decoderVars
  <2>3. PacketsOK'
    BY <1>1 DEF SeekBegins, PacketsOK, readerVars, decoderVars
  <2>4. QED
    BY <2>1, <2>2, <2>3
<1>2. CASE SeekClears
  <2>1. FileOK'
    BY <1>2 DEF SeekClears, FileOK, BeforeFile, decoderVars
  <2>2. FlagsOK' /\ PlacesOK'
    BY <1>2 DEF SeekClears, FlagsOK, PlacesOK, BeforeFile, readerVars, decoderVars
  <2>3. out' \in [Stream -> Seq(Packet)]
    BY <1>2, EmptySeq DEF SeekClears, PacketsOK
  <2>4. PacketsOK'
    BY <1>2, <2>3 DEF SeekClears, PacketsOK, readerVars, decoderVars
  <2>5. QED
    BY <2>1, <2>2, <2>4
<1>3. CASE SeekFlushes
  <2>1. FileOK'
    BY <1>3 DEF SeekFlushes, FileOK, BeforeFile, decoderVars
  <2>2. FlagsOK' /\ PlacesOK'
    BY <1>3 DEF SeekFlushes, FlagsOK, PlacesOK, BeforeFile, readerVars, decoderVars
  <2>3. \A s \in Stream : FlushQueue(queue[s]) \in QueueOf(Packet)
    BY FlushQueueFields DEF PacketsOK
  <2>4. queue' \in [Stream -> QueueOf(Packet)]
    BY <1>3, <2>3 DEF SeekFlushes, PacketsOK, Stream
  <2>5. PacketsOK'
    BY <1>3, <2>4 DEF SeekFlushes, PacketsOK, readerVars, decoderVars
  <2>6. QED
    BY <2>1, <2>2, <2>5
<1>4. CASE SeekFile
  <2>1. pos' \in 1..FileLen + 1 /\ from' \in 1..FileLen + 1
    BY <1>4, PipelineAssumption DEF SeekFile, FileOK
  <2>2. epoch' \in Nat /\ epoch' <= seeks /\ seeks' = seeks /\ spc' \notin BeforeFile
    BY <1>4, PipelineAssumption DEF SeekFile, FileOK, BeforeFile
  <2>3. FileOK'
    BY <1>4, <2>1, <2>2 DEF SeekFile, FileOK
  <2>4. FlagsOK' /\ PlacesOK'
    BY <1>4 DEF SeekFile, FlagsOK, PlacesOK, BeforeFile, readerVars
  <2>5. PacketsOK'
    BY <1>4 DEF SeekFile, PacketsOK, readerVars
  <2>6. QED
    BY <2>3, <2>4, <2>5
<1>5. CASE SeekFlushesCodecs
  <2>1. FileOK'
    BY <1>5 DEF SeekFlushesCodecs, FileOK, BeforeFile, decoderVars
  <2>2. FlagsOK' /\ PlacesOK'
    BY <1>5 DEF SeekFlushesCodecs, FlagsOK, PlacesOK, readerVars, decoderVars
  <2>3. codec' \in [Stream -> Seq(Packet)]
    BY <1>5, EmptySeq DEF SeekFlushesCodecs
  <2>4. PacketsOK'
    BY <1>5, <2>3 DEF SeekFlushesCodecs, PacketsOK, readerVars, decoderVars
  <2>5. QED
    BY <2>1, <2>2, <2>4
<1>6. CASE SeekEnds
  <2>1. FileOK'
    BY <1>6 DEF SeekEnds, FileOK, BeforeFile, decoderVars
  <2>2. FlagsOK' /\ PlacesOK'
    BY <1>6 DEF SeekEnds, FlagsOK, PlacesOK, readerVars, decoderVars
  <2>3. PacketsOK'
    BY <1>6 DEF SeekEnds, PacketsOK, readerVars, decoderVars
  <2>4. QED
    BY <2>1, <2>2, <2>3
<1>7. QED
  BY <1>1, <1>2, <1>3, <1>4, <1>5, <1>6 DEF SeekProceeds

LEMMA ConsumeType ==
  ASSUME TypeOK, NEW s \in Stream, Consume(s)
  PROVE  TypeOK'
<1> USE DEF TypeOK
<1>1. FileOK'
  BY DEF Consume, FileOK, seekVars, decoderVars
<1>2. FlagsOK' /\ PlacesOK'
  BY DEF Consume, FlagsOK, PlacesOK, seekVars, readerVars, decoderVars
<1>3. out[s] \in Seq(Packet) /\ out[s] # <<>>
  BY DEF Consume, PacketsOK
<1>4. Tail(out[s]) \in Seq(Packet)
  BY <1>3, HeadTailProperties
<1>5. PacketsOK'
  BY <1>4 DEF Consume, PacketsOK, readerVars, decoderVars
<1>6. QED
  BY <1>1, <1>2, <1>5

LEMMA StepTypeOK == TypeOK /\ [Next]_vars => TypeOK'
<1> SUFFICES ASSUME TypeOK, [Next]_vars PROVE TypeOK'
  OBVIOUS
<1>1. CASE Reader
  BY <1>1, ReaderFlags, ReaderPackets DEF TypeOK
<1>2. CASE \E s \in Stream : Decoder(s)
  BY <1>2, DecoderType
<1>3. CASE \E s \in Stream : Consume(s)
  BY <1>3, ConsumeType
<1>4. CASE SeekBegins \/ SeekProceeds
  BY <1>4, SeekType
<1>5. CASE UNCHANGED vars
  BY <1>5 DEF TypeOK, FileOK, FlagsOK, PlacesOK, PacketsOK, vars, seekVars, readerVars,
              decoderVars
<1>6. QED
  BY <1>1, <1>2, <1>3, <1>4, <1>5 DEF Next

(* Every reachable state of the pipeline has the shape TypeOK gives. *)
THEOREM TypeCorrect == Spec => []TypeOK
  BY InitTypeOK, StepTypeOK, PTL DEF Spec
-----------------------------------------------------------------------------
(* s was seen below the watermark in this pass of readTask's loop. *)
SeenLow(s) ==
  /\ ~enough[s]
  /\ \/ s = "video" /\ rpc \notin {"top", "video"}
     \/ s = "audio" /\ rpc \notin {"top", "video", "audio"}

(* It still is: until readTask itself puts a packet a queue only shrinks.   *)
(* And a packet is read only after one of the queues was seen low.          *)
WatermarkInv ==
  /\ \A s \in Stream : SeenLow(s) => ~Enough(s)
  /\ rpc \in {"lock", "yield", "locked", "put"} => \E s \in Stream : ~enough[s]
  /\ OneQueueBounded

(* A low queue is bounded, also with one more packet. *)
LEMMA LowIsBounded ==
  ASSUME TypeOK, NEW s \in Stream, ~Enough(s)
  PROVE  (s = "audio" => HasAudio) /\ Bounded(s)
<1>1. queue[s] \in QueueOf(Packet)
  BY DEF TypeOK, PacketsOK
<1>2. queue[s].nb_packets \in Int /\ queue[s].size \in Int /\ queue[s].packets \in Seq(Packet)
  BY <1>1 DEF QueueOf
<1>3. queue[s].nb_packets <= MaxQueue /\ queue[s].size <= MaxBytes
  BY <1>2, PipelineAssumption DEF Enough
<1>4. CASE queue[s].packets # <<>>
  <2>1. queue[s].packets[Len(queue[s].packets)] \in Packet
    BY <1>2, <1>4
  <2>2. queue[s].packets[Len(queue[s].packets)].size \in Nat
    BY <2>1, PacketFields
  <2>3. QED
    BY SMTT(30), <1>2, <1>3, <2>2, PipelineAssumption DEF Bounded, Enough
<1>5. QED
  BY <1>4 DEF Bounded, Enough

(* A queue that only loses packets stays bounded and stays low. *)
LEMMA ShrinkingStaysBounded ==
  ASSUME TypeOK, NEW s \in Stream,
         \/ queue'[s] = queue[s]
         \/ queue[s].packets # <<>> /\ queue'[s] = GetPacket(queue[s])
         \/ queue'[s] = FlushQueue(queue[s])
  PROVE  /\ Bounded(s) => Bounded(s)'
         /\ ~Enough(s) => ~Enough(s)'
<1>1. queue[s] \in QueueOf(Packet)
  BY DEF TypeOK, PacketsOK
<1>2. queue[s].nb_packets \in Int /\ queue[s].size \in Int /\ queue[s].packets \in Seq(Packet)
  BY <1>1 DEF QueueOf
<1>3. CASE queue'[s] = queue[s]
  BY <1>3 DEF Bounded, Enough
<1>4. CASE queue[s].packets # <<>> /\ queue'[s] = GetPacket(queue[s])
  <2> DEFINE q == queue[s]
             r == GetPacket(queue[s])
  <2>1. /\ r.packets = Tail(q.packets)
        /\ r.nb_packets = q.nb_packets - 1
        /\ r.size = q.size - Head(q.packets).size
        /\ Head(q.packets) \in Packet
    BY <1>1, <1>4, GetPacketFields
  <2>2. Head(q.packets).size \in Nat
    BY <2>1, PacketFields
  <2>3. r.packets # <<>> => r.packets[Len(r.packets)] = q.packets[Len(q.packets)]
    BY <1>2, <1>4, <2>1
  <2>4. q.packets[Len(q.packets)].size \in Nat
    <3>1. q.packets[Len(q.packets)] \in Packet
      BY <1>2, <1>4
    <3>2. QED
      BY <3>1, PacketFields
  <2>5. ~Enough(s) => ~Enough(s)'
    BY SMTT(30), <1>2, <1>4, <2>1, <2>2, PipelineAssumption DEF Enough
  <2>6. Bounded(s) => Bounded(s)'
    <3> SUFFICES ASSUME Bounded(s), r.packets # <<>>
                 PROVE  /\ r.nb_packets - 1 <= MaxQueue
                        /\ r.size - r.packets[Len(r.packets)].size <= MaxBytes
      BY <1>4 DEF Bounded
    <3>1. q.nb_packets - 1 <= MaxQueue /\ q.size - q.packets[Len(q.packets)].size <= MaxBytes
      BY <1>4 DEF Bounded
    <3>2. r.packets[Len(r.packets)] = q.packets[Len(q.packets)]
      BY <2>3
    <3>3. ASSUME NEW size \in Int, NEW head \in Nat, NEW last \in Nat, NEW nb \in Int,
                 nb - 1 <= MaxQueue, size - last <= MaxBytes
          PROVE  nb - 1 - 1 <= MaxQueue /\ size - head - last <= MaxBytes
      BY <3>3, PipelineAssumption
    <3>4. /\ q.nb_packets - 1 - 1 <= MaxQueue
          /\ q.size - Head(q.packets).size - q.packets[Len(q.packets)].size <= MaxBytes
      BY <3>1, <1>2, <2>2, <2>4, <3>3, Zenon
    <3>5. QED
      BY <2>1, <3>2, <3>4, Zenon
  <2>7. QED
    BY <2>5, <2>6
<1>5. CASE queue'[s] = FlushQueue(queue[s])
  BY <1>1, <1>5, FlushQueueFields, PipelineAssumption DEF Bounded, Enough
<1>6. QED
  BY <1>3, <1>4, <1>5

(* Steps that are not readTask's. *)
LEMMA OthersOnlyShrink ==
  ASSUME TypeOK, NEW s \in Stream,
         \/ \E t \in Stream : Decoder(t) \/ Consume(t)
         \/ SeekBegins \/ SeekProceeds
         \/ UNCHANGED vars
  PROVE  /\ UNCHANGED <<rpc, enough>>
         /\ \/ queue'[s] = queue[s]
            \/ queue[s].packets # <<>> /\ queue'[s] = GetPacket(queue[s])
            \/ queue'[s] = FlushQueue(queue[s])
<1>0. queue \in [Stream -> QueueOf(Packet)]
  BY DEF TypeOK, PacketsOK
<1>1. CASE \E t \in Stream : Decoder(t)
  <2> PICK t \in Stream : Decoder(t)
    BY <1>1
  <2>1. CASE Get(t)
    BY <1>0, <2>1 DEF Get, readerVars
  <2>2. CASE Prebuffer(t) \/ Skip(t) \/ LockDecoder(t) \/ Decode(t)
    BY <2>2 DEF Prebuffer, Skip, LockDecoder, Decode, readerVars
  <2>3. QED
    BY <2>1, <2>2 DEF Decoder
<1>2. CASE \E t \in Stream : Consume(t)
  BY <1>2 DEF Consume, readerVars
<1>3. CASE SeekFlushes
  BY <1>0, <1>3 DEF SeekFlushes, readerVars, Stream
<1>4. CASE SeekBegins \/ SeekClears \/ SeekFile \/ SeekFlushesCodecs \/ SeekEnds
  BY <1>4 DEF SeekBegins, SeekClears, SeekFile, SeekFlushesCodecs, SeekEnds, readerVars
<1>5. CASE UNCHANGED vars
  BY <1>5 DEF vars, readerVars
<1>6. QED
  BY <1>1, <1>2, <1>3, <1>4, <1>5 DEF SeekProceeds

LEMMA OthersKeepWatermark ==
  ASSUME TypeOK, WatermarkInv,
         \/ \E t \in Stream : Decoder(t) \/ Consume(t)
         \/ SeekBegins \/ SeekProceeds
         \/ UNCHANGED vars
  PROVE  WatermarkInv'
<1>1. UNCHANGED <<rpc, enough>>
  BY OthersOnlyShrink DEF Stream
<1>2. \A s \in Stream : (Bounded(s) => Bounded(s)') /\ (~Enough(s) => ~Enough(s)')
  BY OthersOnlyShrink, ShrinkingStaysBounded
<1>3. \A s \in Stream : SeenLow(s)' = SeenLow(s)
  BY <1>1 DEF SeenLow
<1>4. OneQueueBounded'
  BY <1>2 DEF WatermarkInv, OneQueueBounded
<1>5. QED
  BY <1>1, <1>2, <1>3, <1>4 DEF WatermarkInv

(* readTask's own steps: only ReaderPuts makes a queue longer, and then one *)
(* of the queues was low.                                                   *)
LEMMA PutKeepsBound ==
  ASSUME TypeOK, WatermarkInv, ReaderPuts
  PROVE  OneQueueBounded'
<1>1. PICK s \in Stream : ~enough[s]
  BY DEF WatermarkInv, ReaderPuts
<1>2. ~Enough(s)
  BY <1>1 DEF WatermarkInv, SeenLow, ReaderPuts, Stream
<1>3. (s = "audio" => HasAudio) /\ Bounded(s)
  BY <1>2, LowIsBounded
<1>4. queue[s] \in QueueOf(Packet) /\ queue' = [t \in Stream |->
         IF Kind[Head(read).no] = t THEN PutPacket(queue[t], Head(read)) ELSE queue[t]]
  BY DEF ReaderPuts, TypeOK, PacketsOK
<1>5. CASE Kind[Head(read).no] = s
  <2>1. Head(read) \in Packet
    BY HeadTailProperties DEF ReaderPuts, TypeOK, PacketsOK
  <2>2. Head(read).size \in Nat
    BY <2>1, PacketFields
  <2> DEFINE q == queue[s]
             r == PutPacket(queue[s], Head(read))
  <2>3. queue'[s] = r
    BY <1>4, <1>5
  <2>4. /\ r.packets = Append(q.packets, Head(read))
        /\ r.nb_packets = q.nb_packets + 1
        /\ r.size = q.size + Head(read).size
    BY <1>4, <2>1, PutPacketFields
  <2>5. q.packets \in Seq(Packet) /\ q.nb_packets \in Int /\ q.size \in Int
    BY <1>4 DEF QueueOf
  <2>6. r.packets[Len(r.packets)] = Head(read)
    BY <2>1, <2>4, <2>5
  <2>7. q.nb_packets <= MaxQueue /\ q.size <= MaxBytes
    BY <1>2, <2>5, PipelineAssumption DEF Enough
  <2>8. r.nb_packets - 1 <= MaxQueue /\ r.size - r.packets[Len(r.packets)].size <= MaxBytes
    <3>1. ASSUME NEW size \in Int, NEW new \in Nat, NEW nb \in Int,
                 NEW nb2, nb2 = nb + 1, NEW size2, size2 = size + new,
                 nb <= MaxQueue, size <= MaxBytes
          PROVE  nb2 - 1 <= MaxQueue /\ size2 - new <= MaxBytes
      BY <3>1, PipelineAssumption
    <3>2. r.nb_packets - 1 <= MaxQueue /\ r.size - Head(read).size <= MaxBytes
      BY <2>2, <2>4, <2>5, <2>7, <3>1, Zenon
    <3>3. QED
      BY <2>6, <3>2, Zenon
  <2>9. Bounded(s)'
    BY <2>3, <2>8 DEF Bounded
  <2>10. QED
    BY <1>3, <2>9 DEF OneQueueBounded
<1>6. CASE Kind[Head(read).no] # s
  <2>1. queue'[s] = queue[s]
    BY <1>4, <1>6
  <2>2. QED
    BY <1>3, <2>1 DEF Bounded, OneQueueBounded
<1>7. QED
  BY <1>5, <1>6

LEMMA ReaderKeepsWatermark ==
  ASSUME TypeOK, WatermarkInv, Reader
  PROVE  WatermarkInv'
<1>1. CASE ReaderPuts
  <2>1. rpc' = "top" /\ OneQueueBounded'
    BY <1>1, PutKeepsBound DEF ReaderPuts
  <2>2. QED
    BY <2>1 DEF WatermarkInv, SeenLow
<1>2. CASE ~ReaderPuts
  <2>1. queue' = queue
    BY <1>2 DEF Reader, ReaderTop, ReaderLooks, ReaderDecides, ReaderLocks, ReaderReads
  <2>2. \A s \in Stream : (Bounded(s)' = Bounded(s)) /\ (Enough(s)' = Enough(s))
    BY <2>1 DEF Bounded, Enough
  <2>3. OneQueueBounded'
    BY <2>2 DEF WatermarkInv, OneQueueBounded
  <2>4. CASE ReaderTop
    BY <2>2, <2>3, <2>4 DEF ReaderTop, WatermarkInv, SeenLow
  <2>5. CASE \E s \in Stream : ReaderLooks(s)
    <3> PICK s \in Stream : ReaderLooks(s)
      BY <2>5
    <3>1. rpc' \notin {"lock", "yield", "locked", "put"}
      BY DEF ReaderLooks
    <3>2. enough' = [enough EXCEPT ![s] = Enough(s)] /\ enough \in [Stream -> BOOLEAN]
      BY DEF ReaderLooks, TypeOK, FlagsOK
    <3>3. ASSUME NEW t \in Stream, SeenLow(t)' PROVE ~Enough(t)
      <4>1. CASE t = s
        BY <3>2, <3>3, <4>1 DEF SeenLow
      <4>2. CASE t # s
        <5>1. ~enough[t]
          BY <3>2, <3>3, <4>2 DEF SeenLow
        <5>2. SeenLow(t)
          BY <3>3, <4>2, <5>1 DEF SeenLow, ReaderLooks, Stream
        <5>3. QED
          BY <5>2 DEF WatermarkInv
      <4>3. QED
        BY <4>1, <4>2
    <3>4. QED
      BY <2>2, <2>3, <3>1, <3>3 DEF WatermarkInv
  <2>6. CASE ReaderDecides
    <3>1. CASE \A s \in Stream : enough[s]
      BY <2>2, <2>3, <2>6, <3>1 DEF ReaderDecides, WatermarkInv, SeenLow
    <3>2. CASE ~\A s \in Stream : enough[s]
      BY <2>2, <2>3, <2>6, <3>2 DEF ReaderDecides, WatermarkInv, SeenLow
    <3>3. QED
      BY <3>1, <3>2
  <2>7. CASE ReaderLocks
    BY <2>2, <2>3, <2>7 DEF ReaderLocks, WatermarkInv, SeenLow
  <2>8. CASE ReaderReads
    BY <2>2, <2>3, <2>8 DEF ReaderReads, FormatLocked, WatermarkInv, SeenLow
  <2>9. QED
    BY <1>2, <2>4, <2>5, <2>6, <2>7, <2>8 DEF Reader
<1>3. QED
  BY <1>1, <1>2

(* The watermark bounds one of the queues, whatever the decoders and seek   *)
(* do between readTask's looks and its put.                                 *)
THEOREM WatermarkBoundsOne == Spec => []OneQueueBounded
<1>1. Init => WatermarkInv
  BY DEF Init, WatermarkInv, SeenLow, OneQueueBounded, Bounded, Stream, EmptyQueue
<1>2. TypeOK /\ WatermarkInv /\ [Next]_vars => WatermarkInv'
  BY ReaderKeepsWatermark, OthersKeepWatermark DEF Next
<1>3. WatermarkInv => OneQueueBounded
  BY DEF WatermarkInv
<1>4. QED
  BY <1>1, <1>2, <1>3, TypeCorrect, PTL DEF Spec
-----------------------------------------------------------------------------
(* A sequence of packets is in the order in which they were read; all of   *)
(* one before all of another; all of it before position n of epoch e; the  *)
(* packets of earlier epochs among its first k only; packet n of e in it.  *)
Ordered(x) == \A i, j \in 1..Len(x) : i < j => Before(x[i], x[j])
Ahead(x, y) == \A i \in 1..Len(x), j \in 1..Len(y) : Before(x[i], y[j])
Behind(x, e, n) ==
  \A i \in 1..Len(x) : x[i].epoch < e \/ (x[i].epoch = e /\ x[i].no < n)
StaleFirst(x, e, k) == \A i \in 1..Len(x) : x[i].epoch < e => i <= k
Has(x, e, n) == \E i \in 1..Len(x) : x[i].epoch = e /\ x[i].no = n

(* Where the items of a concatenation come from. *)
LEMMA ConcatItems ==
  ASSUME NEW x \in Seq(Packet), NEW y \in Seq(Packet), NEW z, z = x \o y
  PROVE  /\ z \in Seq(Packet) /\ Len(z) = Len(x) + Len(y)
         /\ Len(x) \in Nat /\ Len(y) \in Nat
         /\ \A i \in 1..Len(x) : i \in 1..Len(z) /\ z[i] = x[i]
         /\ \A i \in 1..Len(y) : i + Len(x) \in 1..Len(z) /\ z[i + Len(x)] = y[i]
         /\ \A i \in 1..Len(z) : \/ i \in 1..Len(x) /\ z[i] = x[i]
                                 \/ i - Len(x) \in 1..Len(y) /\ z[i] = y[i - Len(x)]
<1>1. /\ z \in Seq(Packet) /\ Len(z) = Len(x) + Len(y)
      /\ \A i \in 1..Len(x) + Len(y) : z[i] = IF i <= Len(x) THEN x[i] ELSE y[i - Len(x)]
  BY ConcatProperties
<1>2. Len(x) \in Nat /\ Len(y) \in Nat
  BY LenProperties
<1> QED
  BY <1>1, <1>2

LEMMA OrderedConcat ==
  ASSUME NEW x \in Seq(Packet), NEW y \in Seq(Packet)
  PROVE  /\ x \o y \in Seq(Packet) /\ Len(x \o y) = Len(x) + Len(y)
         /\ Ordered(x \o y) <=> Ordered(x) /\ Ordered(y) /\ Ahead(x, y)
<1> DEFINE z == x \o y
<1>1. /\ z \in Seq(Packet) /\ Len(z) = Len(x) + Len(y)
      /\ Len(x) \in Nat /\ Len(y) \in Nat
  BY ConcatItems
<1>3. /\ \A i \in 1..Len(x) : i \in 1..Len(z) /\ z[i] = x[i]
      /\ \A i \in 1..Len(y) : i + Len(x) \in 1..Len(z) /\ z[i + Len(x)] = y[i]
      /\ \A i \in 1..Len(z) : \/ i \in 1..Len(x) /\ z[i] = x[i]
                              \/ i - Len(x) \in 1..Len(y) /\ z[i] = y[i - Len(x)]
  BY ConcatItems
<1> HIDE DEF z
<1>4. ASSUME Ordered(z) PROVE Ordered(x) /\ Ordered(y) /\ Ahead(x, y)
  <2>1. Ordered(x)
    BY <1>3, <1>4 DEF Ordered
  <2>2. Ordered(y)
    <3> SUFFICES ASSUME NEW i \in 1..Len(y), NEW j \in 1..Len(y), i < j PROVE Before(y[i], y[j])
      BY DEF Ordered
    <3>1. i + Len(x) < j + Len(x)
      BY <1>1
    <3>2. Before(z[i + Len(x)], z[j + Len(x)])
      BY <1>3, <1>4, <3>1 DEF Ordered
    <3> QED
      BY <1>3, <3>2
  <2>3. Ahead(x, y)
    <3> SUFFICES ASSUME NEW i \in 1..Len(x), NEW j \in 1..Len(y) PROVE Before(x[i], y[j])
      BY DEF Ahead
    <3>1. i < j + Len(x)
      BY <1>1
    <3>2. Before(z[i], z[j + Len(x)])
      BY <1>3, <1>4, <3>1 DEF Ordered
    <3> QED
      BY <1>3, <3>2
  <2> QED
    BY <2>1, <2>2, <2>3
<1>5. ASSUME Ordered(x), Ordered(y), Ahead(x, y) PROVE Ordered(z)
  <2> SUFFICES ASSUME NEW i \in 1..Len(z), NEW j \in 1..Len(z), i < j PROVE Before(z[i], z[j])
    BY DEF Ordered
  <2>1. CASE i \in 1..Len(x) /\ j \in 1..Len(x)
    BY <1>3, <1>5, <2>1 DEF Ordered
  <2>2. CASE i \in 1..Len(x) /\ j - Len(x) \in 1..Len(y)
    <3>1. z[i] = x[i] /\ z[j] = y[j - Len(x)]
      BY <1>1, <1>3, <2>2
    <3> QED
      BY <1>5, <2>2, <3>1 DEF Ahead
  <2>3. CASE i - Len(x) \in 1..Len(y) /\ j - Len(x) \in 1..Len(y)
    <3>1. z[i] = y[i - Len(x)] /\ z[j] = y[j - Len(x)] /\ i - Len(x) < j - Len(x)
      BY <1>1, <1>3, <2>3
    <3> QED
      BY <1>5, <2>3, <3>1 DEF Ordered
  <2> QED
    BY <1>1, <2>1, <2>2, <2>3
<1> QED
  BY <1>1, <1>4, <1>5 DEF z

LEMMA AheadConcat ==
  ASSUME NEW x \in Seq(Packet), NEW y \in Seq(Packet), NEW w \in Seq(Packet)
  PROVE  /\ Ahead(x \o y, w) <=> Ahead(x, w) /\ Ahead(y, w)
         /\ Ahead(w, x \o y) <=> Ahead(w, x) /\ Ahead(w, y)
<1> DEFINE z == x \o y
<1>1. /\ z \in Seq(Packet) /\ Len(z) = Len(x) + Len(y)
      /\ Len(x) \in Nat /\ Len(y) \in Nat
  BY ConcatItems
<1>3. /\ \A i \in 1..Len(x) : i \in 1..Len(z) /\ z[i] = x[i]
      /\ \A i \in 1..Len(y) : i + Len(x) \in 1..Len(z) /\ z[i + Len(x)] = y[i]
      /\ \A i \in 1..Len(z) : \/ i \in 1..Len(x) /\ z[i] = x[i]
                              \/ i - Len(x) \in 1..Len(y) /\ z[i] = y[i - Len(x)]
  BY ConcatItems
<1> HIDE DEF z
<1>4. Ahead(z, w) <=> Ahead(x, w) /\ Ahead(y, w)
  BY <1>3 DEF Ahead
<1>5. Ahead(w, z) <=> Ahead(w, x) /\ Ahead(w, y)
  BY <1>3 DEF Ahead
<1> QED
  BY <1>4, <1>5 DEF z

LEMMA EpochConcat ==
  ASSUME NEW x \in Seq(Packet), NEW y \in Seq(Packet), NEW e, NEW n, NEW k \in Int
  PROVE  /\ Behind(x \o y, e, n) <=> Behind(x, e, n) /\ Behind(y, e, n)
         /\ Has(x \o y, e, n) <=> Has(x, e, n) \/ Has(y, e, n)
         /\ StaleFirst(x \o y, e, k) <=> StaleFirst(x, e, k) /\ StaleFirst(y, e, k - Len(x))
<1> DEFINE z == x \o y
<1>1. /\ z \in Seq(Packet) /\ Len(z) = Len(x) + Len(y)
      /\ Len(x) \in Nat /\ Len(y) \in Nat
  BY ConcatItems
<1>3. /\ \A i \in 1..Len(x) : i \in 1..Len(z) /\ z[i] = x[i]
      /\ \A i \in 1..Len(y) : i + Len(x) \in 1..Len(z) /\ z[i + Len(x)] = y[i]
      /\ \A i \in 1..Len(z) : \/ i \in 1..Len(x) /\ z[i] = x[i]
                              \/ i - Len(x) \in 1..Len(y) /\ z[i] = y[i - Len(x)]
  BY ConcatItems
<1> HIDE DEF z
<1>2. ASSUME NEW i \in 1..Len(y) PROVE \E j \in 1..Len(z) : z[j] = y[i]
  BY <1>3
<1>4. Behind(z, e, n) <=> Behind(x, e, n) /\ Behind(y, e, n)
  <2>1. ASSUME Behind(z, e, n) PROVE Behind(x, e, n) /\ Behind(y, e, n)
    <3>1. Behind(x, e, n)
      BY <1>3, <2>1 DEF Behind
    <3>2. Behind(y, e, n)
      BY <1>2, <2>1 DEF Behind
    <3> QED
      BY <3>1, <3>2
  <2>2. ASSUME Behind(x, e, n), Behind(y, e, n) PROVE Behind(z, e, n)
    BY <1>3, <2>2 DEF Behind
  <2> QED
    BY <2>1, <2>2
<1>5. Has(z, e, n) <=> Has(x, e, n) \/ Has(y, e, n)
  <2>1. ASSUME Has(z, e, n) PROVE Has(x, e, n) \/ Has(y, e, n)
    BY <1>3, <2>1 DEF Has
  <2>2. Has(x, e, n) => Has(z, e, n)
    BY <1>3 DEF Has
  <2>3. Has(y, e, n) => Has(z, e, n)
    BY <1>2 DEF Has
  <2> QED
    BY <2>1, <2>2, <2>3
<1>6. ASSUME StaleFirst(z, e, k) PROVE StaleFirst(x, e, k) /\ StaleFirst(y, e, k - Len(x))
  <2>1. StaleFirst(x, e, k)
    BY <1>3, <1>6 DEF StaleFirst
  <2>2. ASSUME NEW i \in 1..Len(y), y[i].epoch < e PROVE i <= k - Len(x)
    <3>1. i + Len(x) <= k
      BY <1>3, <1>6, <2>2 DEF StaleFirst
    <3> QED
      BY <3>1, <1>1
  <2> QED
    BY <2>1, <2>2 DEF StaleFirst
<1>7. ASSUME StaleFirst(x, e, k), StaleFirst(y, e, k - Len(x)) PROVE StaleFirst(z, e, k)
  <2> SUFFICES ASSUME NEW i \in 1..Len(z), z[i].epoch < e PROVE i <= k
    BY DEF StaleFirst
  <2>1. CASE i \in 1..Len(x) /\ z[i] = x[i]
    BY <1>7, <2>1 DEF StaleFirst
  <2>2. CASE i - Len(x) \in 1..Len(y) /\ z[i] = y[i - Len(x)]
    <3>1. i - Len(x) <= k - Len(x)
      BY <1>7, <2>2 DEF StaleFirst
    <3> QED
      BY <3>1, <1>1
  <2> QED
    BY <1>3, <2>1, <2>2
<1> QED
  BY <1>4, <1>5, <1>6, <1>7 DEF z

(* Nothing, and one packet. *)
LEMMA NothingAndOne ==
  ASSUME NEW p \in Packet, NEW x \in Seq(Packet), NEW e, NEW n, NEW k
  PROVE  /\ <<>> \in Seq(Packet) /\ Len(<<>>) = 0
         /\ Ordered(<<>>) /\ Ahead(<<>>, x) /\ Ahead(x, <<>>)
         /\ Behind(<<>>, e, n) /\ StaleFirst(<<>>, e, k) /\ ~Has(<<>>, e, n)
         /\ <<p>> \in Seq(Packet) /\ Len(<<p>>) = 1 /\ Ordered(<<p>>)
  BY EmptySeq DEF Ordered, Ahead, Behind, StaleFirst, Has

LEMMA SplitHead ==
  ASSUME NEW x \in Seq(Packet), x # <<>>
  PROVE  /\ Head(x) \in Packet /\ Tail(x) \in Seq(Packet) /\ Len(Tail(x)) = Len(x) - 1
         /\ x = <<Head(x)>> \o Tail(x)
<1>1. Head(x) \in Packet /\ Tail(x) \in Seq(Packet) /\ Len(Tail(x)) = Len(x) - 1
  BY HeadTailProperties
<1> DEFINE y == <<Head(x)>> \o Tail(x)
<1>2. /\ y \in Seq(Packet) /\ Len(y) = 1 + Len(Tail(x))
      /\ \A i \in 1..1 + Len(Tail(x)) : y[i] = IF i <= 1 THEN Head(x) ELSE Tail(x)[i - 1]
  <2>1. <<Head(x)>> \in Seq(Packet) /\ Len(<<Head(x)>>) = 1 /\ <<Head(x)>>[1] = Head(x)
    BY <1>1
  <2> QED
    BY <1>1, <2>1, ConcatProperties
<1>3. Len(x) \in Nat /\ Head(x) = x[1] /\ \A i \in 1..Len(x) - 1 : Tail(x)[i] = x[i + 1]
  BY HeadTailProperties, LenProperties
<1>4. \A i \in 1..Len(x) : y[i] = x[i]
  BY <1>1, <1>2, <1>3
<1>5. x = y
  BY <1>1, <1>2, <1>3, <1>4, SeqEqual
<1> QED
  BY <1>1, <1>5
-----------------------------------------------------------------------------
(* Five sequences, one behind the other, are in order; and their packets    *)
(* of earlier epochs are the first k of all.                               *)
InLine(o, c, t, q, r) ==
  /\ Ordered(o) /\ Ordered(c) /\ Ordered(t) /\ Ordered(q) /\ Ordered(r)
  /\ Ahead(o, c) /\ Ahead(o, t) /\ Ahead(o, q) /\ Ahead(o, r)
  /\ Ahead(c, t) /\ Ahead(c, q) /\ Ahead(c, r)
  /\ Ahead(t, q) /\ Ahead(t, r)
  /\ Ahead(q, r)

StaleLine(o, c, t, q, r, e, k) ==
  /\ StaleFirst(o, e, k)
  /\ StaleFirst(c, e, k - Len(o))
  /\ StaleFirst(t, e, k - Len(o) - Len(c))
  /\ StaleFirst(q, e, k - Len(o) - Len(c) - Len(t))
  /\ StaleFirst(r, e, k - Len(o) - Len(c) - Len(t) - Len(q))

BehindLine(o, c, t, q, r, e, n) ==
  Behind(o, e, n) /\ Behind(c, e, n) /\ Behind(t, e, n) /\ Behind(q, e, n) /\ Behind(r, e, n)

LEMMA StaleMonotone ==
  ASSUME NEW x, NEW e, NEW k \in Int, NEW k2 \in Int, k <= k2, StaleFirst(x, e, k),
         Len(x) \in Nat
  PROVE  StaleFirst(x, e, k2)
  BY DEF StaleFirst

(* The line as one sequence. *)
LEMMA LineIsOne ==
  ASSUME NEW o \in Seq(Packet), NEW c \in Seq(Packet), NEW t \in Seq(Packet),
         NEW q \in Seq(Packet), NEW r \in Seq(Packet), NEW e, NEW k \in Int
  PROVE  /\ o \o c \o t \o q \o r \in Seq(Packet)
         /\ Ordered(o \o c \o t \o q \o r) <=> InLine(o, c, t, q, r)
         /\ StaleFirst(o \o c \o t \o q \o r, e, k) <=> StaleLine(o, c, t, q, r, e, k)
<1> DEFINE oc == o \o c
           oct == oc \o t
           octq == oct \o q
<1>1. oc \in Seq(Packet) /\ oct \in Seq(Packet) /\ octq \in Seq(Packet) /\ octq \o r \in Seq(Packet)
  BY OrderedConcat
<1>2. /\ Len(oc) = Len(o) + Len(c) /\ Len(oct) = Len(oc) + Len(t) /\ Len(octq) = Len(oct) + Len(q)
      /\ Len(o) \in Nat /\ Len(c) \in Nat /\ Len(t) \in Nat /\ Len(q) \in Nat
  BY <1>1, OrderedConcat, LenProperties
<1>3. /\ Ordered(oc) <=> Ordered(o) /\ Ordered(c) /\ Ahead(o, c)
      /\ Ordered(oct) <=> Ordered(oc) /\ Ordered(t) /\ Ahead(oc, t)
      /\ Ordered(octq) <=> Ordered(oct) /\ Ordered(q) /\ Ahead(oct, q)
      /\ Ordered(octq \o r) <=> Ordered(octq) /\ Ordered(r) /\ Ahead(octq, r)
  BY <1>1, OrderedConcat
<1>4. \A w \in Seq(Packet) : /\ Ahead(oc, w) <=> Ahead(o, w) /\ Ahead(c, w)
                             /\ Ahead(oct, w) <=> Ahead(oc, w) /\ Ahead(t, w)
                             /\ Ahead(octq, w) <=> Ahead(oct, w) /\ Ahead(q, w)
  BY <1>1, AheadConcat
<1>6. /\ StaleFirst(oc, e, k) <=> StaleFirst(o, e, k) /\ StaleFirst(c, e, k - Len(o))
      /\ StaleFirst(oct, e, k) <=> StaleFirst(oc, e, k) /\ StaleFirst(t, e, k - Len(oc))
      /\ StaleFirst(octq, e, k) <=> StaleFirst(oct, e, k) /\ StaleFirst(q, e, k - Len(oct))
      /\ StaleFirst(octq \o r, e, k) <=> StaleFirst(octq, e, k) /\ StaleFirst(r, e, k - Len(octq))
  BY <1>1, EpochConcat
<1>7. /\ k - Len(oc) = k - Len(o) - Len(c)
      /\ k - Len(oct) = k - Len(o) - Len(c) - Len(t)
      /\ k - Len(octq) = k - Len(o) - Len(c) - Len(t) - Len(q)
  BY <1>2
<1>8. o \o c \o t \o q \o r = octq \o r
  OBVIOUS
<1> HIDE DEF oc, oct, octq
<1>9. Ordered(octq \o r) <=> InLine(o, c, t, q, r)
  BY <1>3, <1>4, Zenon DEF InLine
<1>10. StaleFirst(octq \o r, e, k) <=> StaleLine(o, c, t, q, r, e, k)
  BY <1>6, <1>7, Zenon DEF StaleLine
<1> QED
  BY <1>1, <1>8, <1>9, <1>10

(* readTask reads a packet, or puts it into the queue. *)
LEMMA LineRead ==
  ASSUME NEW o \in Seq(Packet), NEW c \in Seq(Packet), NEW t \in Seq(Packet),
         NEW q \in Seq(Packet), NEW p \in Packet, NEW k \in Int,
         InLine(o, c, t, q, <<>>), BehindLine(o, c, t, q, <<>>, p.epoch, p.no)
  PROVE  /\ InLine(o, c, t, q, <<p>>)
         /\ BehindLine(o, c, t, q, <<p>>, p.epoch, p.no + 1)
         /\ BehindLine(o, c, t, q, <<>>, p.epoch, p.no + 1)
         /\ StaleLine(o, c, t, q, <<>>, p.epoch, k) => StaleLine(o, c, t, q, <<p>>, p.epoch, k)
<1>1. Ordered(<<p>>)
  BY NothingAndOne
<1>2. p.no \in Nat /\ p.epoch \in Nat
  BY PacketFields, PipelineAssumption
<1>3. \A x \in Seq(Packet) : Behind(x, p.epoch, p.no) => Ahead(x, <<p>>)
  BY DEF Behind, Ahead, Before
<1>4. \A x \in Seq(Packet) : Behind(x, p.epoch, p.no) => Behind(x, p.epoch, p.no + 1)
  <2> SUFFICES ASSUME NEW x \in Seq(Packet), Behind(x, p.epoch, p.no), NEW i \in 1..Len(x),
                      x[i].epoch = p.epoch, x[i].no < p.no
               PROVE  x[i].no < p.no + 1
    BY DEF Behind
  <2>1. x[i].no \in Nat
    BY PacketFields, ElementOfSeq, PipelineAssumption
  <2> QED
    BY <1>2, <2>1
<1>5. Behind(<<p>>, p.epoch, p.no + 1)
  BY <1>2 DEF Behind
<1>6. StaleFirst(<<p>>, p.epoch, k - Len(o) - Len(c) - Len(t) - Len(q))
  BY <1>2 DEF StaleFirst
<1>7. <<>> \in Seq(Packet)
  BY EmptySeq
<1>8. InLine(o, c, t, q, <<p>>)
  BY <1>1, <1>3 DEF InLine, BehindLine
<1>9. BehindLine(o, c, t, q, <<>>, p.epoch, p.no + 1) /\ BehindLine(o, c, t, q, <<p>>, p.epoch, p.no + 1)
  BY <1>4, <1>5, <1>7 DEF BehindLine
<1> QED
  BY <1>6, <1>8, <1>9 DEF StaleLine

LEMMA LinePut ==
  ASSUME NEW o \in Seq(Packet), NEW c \in Seq(Packet), NEW t \in Seq(Packet),
         NEW q \in Seq(Packet), NEW r \in Seq(Packet), NEW e, NEW n, NEW k \in Int,
         InLine(o, c, t, q, r), BehindLine(o, c, t, q, r, e, n)
  PROVE  /\ InLine(o, c, t, q \o r, <<>>)
         /\ BehindLine(o, c, t, q \o r, <<>>, e, n)
         /\ StaleLine(o, c, t, q, r, e, k) => StaleLine(o, c, t, q \o r, <<>>, e, k)
<1>1. q \o r \in Seq(Packet) /\ Ordered(q \o r)
  BY OrderedConcat DEF InLine
<1>2. \A x \in Seq(Packet) : Ahead(x, q \o r) <=> Ahead(x, q) /\ Ahead(x, r)
  BY AheadConcat
<1>3. \A x \in Seq(Packet) : Ahead(x, <<>>) /\ Ordered(<<>>) /\ Behind(<<>>, e, n)
  BY DEF Ahead, Ordered, Behind
<1>4. Behind(q \o r, e, n)
  BY EpochConcat DEF BehindLine
<1> DEFINE m == k - Len(o) - Len(c) - Len(t)
<1>5. m \in Int
  BY LenProperties
<1>6. StaleFirst(q \o r, e, m) <=> StaleFirst(q, e, m) /\ StaleFirst(r, e, m - Len(q))
  BY <1>5, EpochConcat
<1>7. \A j : StaleFirst(<<>>, e, j)
  BY DEF StaleFirst
<1>8. InLine(o, c, t, q \o r, <<>>)
  BY <1>1, <1>2, <1>3 DEF InLine
<1>9. BehindLine(o, c, t, q \o r, <<>>, e, n)
  BY <1>3, <1>4 DEF BehindLine
<1> QED
  BY <1>6, <1>7, <1>8, <1>9 DEF StaleLine

(* A decoder takes the first packet of the queue. *)
LEMMA LineGet ==
  ASSUME NEW o \in Seq(Packet), NEW c \in Seq(Packet), NEW t \in Seq(Packet),
         NEW q \in Seq(Packet), NEW r \in Seq(Packet), NEW e, NEW n, NEW k \in Int,
         q # <<>>,
         InLine(o, c, t, q, r), BehindLine(o, c, t, q, r, e, n)
  PROVE  /\ InLine(o, c, <<Head(q)>>, Tail(q), r)
         /\ BehindLine(o, c, <<Head(q)>>, Tail(q), r, e, n)
         /\ StaleLine(o, c, t, q, r, e, k) => StaleLine(o, c, <<Head(q)>>, Tail(q), r, e, k)
<1> DEFINE h == <<Head(q)>>
           u == Tail(q)
<1>1. /\ h \in Seq(Packet) /\ u \in Seq(Packet) /\ q = h \o u
      /\ Len(h) = 1 /\ Len(u) = Len(q) - 1
  BY SplitHead
<1>2. /\ Len(o) \in Nat /\ Len(c) \in Nat /\ Len(t) \in Nat /\ Len(q) \in Nat /\ Len(u) \in Nat
      /\ Len(r) \in Nat
  BY <1>1, LenProperties
<1> HIDE DEF h, u
<1>3. Ordered(h) /\ Ordered(u) /\ Ahead(h, u)
  BY <1>1, OrderedConcat DEF InLine
<1>4. \A x \in Seq(Packet) : /\ Ahead(x, q) <=> Ahead(x, h) /\ Ahead(x, u)
                             /\ Ahead(q, x) <=> Ahead(h, x) /\ Ahead(u, x)
  BY <1>1, AheadConcat
<1>5. Behind(q, e, n) <=> Behind(h, e, n) /\ Behind(u, e, n)
  BY <1>1, EpochConcat
<1>6. InLine(o, c, h, u, r)
  BY <1>3, <1>4 DEF InLine
<1>7. BehindLine(o, c, h, u, r, e, n)
  BY <1>5 DEF BehindLine
<1>8. ASSUME StaleLine(o, c, t, q, r, e, k) PROVE StaleLine(o, c, h, u, r, e, k)
  <2> DEFINE m == k - Len(o) - Len(c)
  <2>1. m \in Int /\ m - Len(t) \in Int
    BY <1>2
  <2>2. StaleFirst(h, e, m - Len(t)) /\ StaleFirst(u, e, m - Len(t) - Len(h))
    BY <1>1, <1>8, <2>1, EpochConcat DEF StaleLine
  <2>3. StaleFirst(h, e, m)
    BY <1>1, <1>2, <2>1, <2>2, StaleMonotone
  <2>4. StaleFirst(u, e, m - Len(h))
    BY <1>1, <1>2, <2>1, <2>2, StaleMonotone
  <2>5. StaleFirst(r, e, m - Len(h) - Len(u))
    <3>1. StaleFirst(r, e, m - Len(t) - Len(q))
      BY <1>8 DEF StaleLine
    <3> QED
      BY <1>1, <1>2, <2>1, <3>1, StaleMonotone
  <2> QED
    BY <1>8, <2>3, <2>4, <2>5 DEF StaleLine
<1> QED
  BY <1>6, <1>7, <1>8 DEF h, u

(* The codec takes the decoder's packet, and gives back its oldest.        *)
LEMMA LineSend ==
  ASSUME NEW o \in Seq(Packet), NEW c \in Seq(Packet), NEW t \in Seq(Packet),
         NEW q \in Seq(Packet), NEW r \in Seq(Packet), NEW e, NEW n, NEW k \in Int,
         InLine(o, c, t, q, r), BehindLine(o, c, t, q, r, e, n)
  PROVE  /\ c \o t \in Seq(Packet)
         /\ InLine(o, c \o t, <<>>, q, r)
         /\ BehindLine(o, c \o t, <<>>, q, r, e, n)
         /\ StaleLine(o, c, t, q, r, e, k) => StaleLine(o, c \o t, <<>>, q, r, e, k)
<1> DEFINE d == c \o t
<1>1. d \in Seq(Packet) /\ Ordered(d) /\ Len(d) = Len(c) + Len(t)
  BY OrderedConcat DEF InLine
<1>2. \A x \in Seq(Packet) : /\ Ahead(x, d) <=> Ahead(x, c) /\ Ahead(x, t)
                             /\ Ahead(d, x) <=> Ahead(c, x) /\ Ahead(t, x)
  BY AheadConcat
<1>3. Behind(d, e, n)
  BY EpochConcat DEF BehindLine
<1>4. /\ Len(o) \in Nat /\ Len(c) \in Nat /\ Len(t) \in Nat /\ Len(q) \in Nat /\ Len(<<>>) = 0
  BY LenProperties, EmptySeq
<1>5. \A x \in Seq(Packet) : /\ Ahead(x, <<>>) /\ Ahead(<<>>, x) /\ Ordered(<<>>) /\ Behind(<<>>, e, n)
                             /\ \A j : StaleFirst(<<>>, e, j)
  BY DEF Ahead, Ordered, Behind, StaleFirst
<1>6. StaleFirst(d, e, k - Len(o)) <=> StaleFirst(c, e, k - Len(o)) /\ StaleFirst(t, e, k - Len(o) - Len(c))
  <2>1. k - Len(o) \in Int
    BY <1>4
  <2> QED
    BY <2>1, EpochConcat
<1>6a. StaleFirst(<<>>, e, k - Len(o) - Len(d))
  BY DEF StaleFirst
<1> HIDE DEF d
<1>7. InLine(o, d, <<>>, q, r)
  BY <1>1, <1>2, <1>5 DEF InLine
<1>8. BehindLine(o, d, <<>>, q, r, e, n)
  BY <1>3, <1>5 DEF BehindLine
<1>9. k - Len(o) - Len(d) - Len(<<>>) = k - Len(o) - Len(c) - Len(t)
  BY <1>1, <1>4
<1>10. ASSUME StaleLine(o, c, t, q, r, e, k) PROVE StaleLine(o, d, <<>>, q, r, e, k)
  BY <1>6, <1>6a, <1>9, <1>10, Zenon DEF StaleLine
<1> QED
  BY <1>1, <1>7, <1>8, <1>10 DEF d

LEMMA LineReceive ==
  ASSUME NEW o \in Seq(Packet), NEW c \in Seq(Packet), NEW t \in Seq(Packet),
         NEW q \in Seq(Packet), NEW r \in Seq(Packet), NEW e, NEW n, NEW k \in Int,
         c # <<>>,
         InLine(o, c, t, q, r), BehindLine(o, c, t, q, r, e, n)
  PROVE  /\ o \o <<Head(c)>> \in Seq(Packet)
         /\ InLine(o \o <<Head(c)>>, Tail(c), t, q, r)
         /\ BehindLine(o \o <<Head(c)>>, Tail(c), t, q, r, e, n)
         /\ StaleLine(o, c, t, q, r, e, k) => StaleLine(o \o <<Head(c)>>, Tail(c), t, q, r, e, k)
<1> DEFINE h == <<Head(c)>>
           u == Tail(c)
           v == o \o h
<1>1. /\ h \in Seq(Packet) /\ u \in Seq(Packet) /\ c = h \o u
      /\ Len(h) = 1 /\ Len(u) = Len(c) - 1
  BY SplitHead
<1> HIDE DEF h, u
<1>2. v \in Seq(Packet) /\ Len(v) = Len(o) + Len(h)
  BY <1>1, OrderedConcat
<1>3. Len(o) \in Nat /\ Len(c) \in Nat /\ Len(t) \in Nat /\ Len(q) \in Nat /\ Len(u) \in Nat
  BY <1>1, LenProperties
<1>4. /\ Ordered(h) /\ Ordered(u) /\ Ahead(h, u)
      /\ Ordered(v) <=> Ordered(o) /\ Ordered(h) /\ Ahead(o, h)
  BY <1>1, OrderedConcat DEF InLine
<1>5. \A x \in Seq(Packet) : /\ Ahead(x, c) <=> Ahead(x, h) /\ Ahead(x, u)
                             /\ Ahead(c, x) <=> Ahead(h, x) /\ Ahead(u, x)
                             /\ Ahead(v, x) <=> Ahead(o, x) /\ Ahead(h, x)
  BY <1>1, AheadConcat
<1>6. Behind(v, e, n) /\ Behind(u, e, n)
  BY <1>1, EpochConcat DEF BehindLine
<1>7. /\ StaleFirst(c, e, k - Len(o)) <=>
            StaleFirst(h, e, k - Len(o)) /\ StaleFirst(u, e, k - Len(o) - Len(h))
      /\ StaleFirst(v, e, k) <=> StaleFirst(o, e, k) /\ StaleFirst(h, e, k - Len(o))
  <2>1. k - Len(o) \in Int
    BY <1>3
  <2> QED
    BY <1>1, <2>1, EpochConcat
<1> HIDE DEF v
<1>8. InLine(v, u, t, q, r)
  BY <1>1, <1>4, <1>5 DEF InLine
<1>9. BehindLine(v, u, t, q, r, e, n)
  BY <1>6 DEF BehindLine
<1>10. k - Len(v) = k - Len(o) - Len(h) /\ k - Len(v) - Len(u) = k - Len(o) - Len(c)
  BY <1>1, <1>2, <1>3
<1>11. ASSUME StaleLine(o, c, t, q, r, e, k) PROVE StaleLine(v, u, t, q, r, e, k)
  BY <1>7, <1>10, <1>11, Zenon DEF StaleLine
<1> QED
  BY <1>2, <1>8, <1>9, <1>11 DEF h, u, v

(* Frames are popped, and any of the five is emptied. *)
LEMMA LinePop ==
  ASSUME NEW o \in Seq(Packet), NEW c \in Seq(Packet), NEW t \in Seq(Packet),
         NEW q \in Seq(Packet), NEW r \in Seq(Packet), NEW e, NEW n, NEW k \in Int,
         o # <<>>,
         InLine(o, c, t, q, r), BehindLine(o, c, t, q, r, e, n)
  PROVE  /\ Tail(o) \in Seq(Packet)
         /\ InLine(Tail(o), c, t, q, r)
         /\ BehindLine(Tail(o), c, t, q, r, e, n)
         /\ StaleLine(o, c, t, q, r, e, k) => StaleLine(Tail(o), c, t, q, r, e, k)
<1> DEFINE h == <<Head(o)>>
           u == Tail(o)
<1>1. /\ h \in Seq(Packet) /\ u \in Seq(Packet) /\ o = h \o u
      /\ Len(h) = 1 /\ Len(u) = Len(o) - 1
  BY SplitHead
<1> HIDE DEF h, u
<1>2. /\ Len(o) \in Nat /\ Len(c) \in Nat /\ Len(t) \in Nat /\ Len(q) \in Nat /\ Len(u) \in Nat
      /\ Len(r) \in Nat
  BY <1>1, LenProperties
<1>3. Ordered(u)
  BY <1>1, OrderedConcat DEF InLine
<1>4. \A x \in Seq(Packet) : Ahead(o, x) => Ahead(u, x)
  BY <1>1, AheadConcat
<1>5. Behind(u, e, n)
  BY <1>1, EpochConcat DEF BehindLine
<1>6. InLine(u, c, t, q, r)
  BY <1>3, <1>4 DEF InLine
<1>7. BehindLine(u, c, t, q, r, e, n)
  BY <1>5 DEF BehindLine
<1>8. ASSUME StaleLine(o, c, t, q, r, e, k) PROVE StaleLine(u, c, t, q, r, e, k)
  <2>1. StaleFirst(u, e, k - Len(h))
    BY <1>1, <1>8, EpochConcat DEF StaleLine
  <2>2. StaleFirst(u, e, k)
    BY <1>1, <1>2, <2>1, StaleMonotone
  <2>3. StaleFirst(c, e, k - Len(u))
    BY <1>1, <1>2, <1>8, StaleMonotone DEF StaleLine
  <2>4. StaleFirst(t, e, k - Len(u) - Len(c))
    BY <1>1, <1>2, <1>8, StaleMonotone DEF StaleLine
  <2>5. StaleFirst(q, e, k - Len(u) - Len(c) - Len(t))
    BY <1>1, <1>2, <1>8, StaleMonotone DEF StaleLine
  <2>6. StaleFirst(r, e, k - Len(u) - Len(c) - Len(t) - Len(q))
    BY <1>1, <1>2, <1>8, StaleMonotone DEF StaleLine
  <2> QED
    BY <2>2, <2>3, <2>4, <2>5, <2>6 DEF StaleLine
<1> QED
  BY <1>1, <1>6, <1>7, <1>8 DEF u

(* Each of the segments a step may empty. *)
LEMMA LineEmptied ==
  ASSUME NEW o \in Seq(Packet), NEW c \in Seq(Packet), NEW t \in Seq(Packet),
         NEW q \in Seq(Packet), NEW r \in Seq(Packet), NEW e, NEW n, NEW k \in Int,
         InLine(o, c, t, q, r), BehindLine(o, c, t, q, r, e, n)
  PROVE  /\ InLine(<<>>, c, t, q, r) /\ BehindLine(<<>>, c, t, q, r, e, n)
         /\ StaleLine(o, c, t, q, r, e, k) => StaleLine(<<>>, c, t, q, r, e, k)
         /\ InLine(o, <<>>, t, q, r) /\ BehindLine(o, <<>>, t, q, r, e, n)
         /\ StaleLine(o, c, t, q, r, e, k) => StaleLine(o, <<>>, t, q, r, e, k)
         /\ InLine(o, c, <<>>, q, r) /\ BehindLine(o, c, <<>>, q, r, e, n)
         /\ StaleLine(o, c, t, q, r, e, k) => StaleLine(o, c, <<>>, q, r, e, k)
         /\ InLine(o, c, t, <<>>, r) /\ BehindLine(o, c, t, <<>>, r, e, n)
         /\ StaleLine(o, c, t, q, r, e, k) => StaleLine(o, c, t, <<>>, r, e, k)
<1>1. \A x \in Seq(Packet) : /\ Ahead(x, <<>>) /\ Ahead(<<>>, x) /\ Ordered(<<>>) /\ Behind(<<>>, e, n)
                             /\ \A j : StaleFirst(<<>>, e, j)
  BY DEF Ahead, Ordered, Behind, StaleFirst
<1>2. /\ Len(o) \in Nat /\ Len(c) \in Nat /\ Len(t) \in Nat /\ Len(q) \in Nat /\ Len(<<>>) = 0
      /\ Len(r) \in Nat
  BY LenProperties, EmptySeq
<1>3. InLine(<<>>, c, t, q, r) /\ BehindLine(<<>>, c, t, q, r, e, n)
  BY <1>1 DEF InLine, BehindLine
<1>4. ASSUME StaleLine(o, c, t, q, r, e, k) PROVE StaleLine(<<>>, c, t, q, r, e, k)
  <2>1. StaleFirst(c, e, k)
    <3>1. k \in Int /\ k - Len(o) \in Int /\ k - Len(o) <= k
      BY <1>2
    <3>2. StaleFirst(c, e, k - Len(o))
      BY <1>4 DEF StaleLine
    <3> QED
      BY <1>2, <3>1, <3>2, StaleMonotone
  <2>2. StaleFirst(t, e, k - Len(c))
    <3>1. k - Len(c) \in Int /\ k - Len(o) - Len(c) \in Int /\ k - Len(o) - Len(c) <= k - Len(c)
      BY <1>2
    <3>2. StaleFirst(t, e, k - Len(o) - Len(c))
      BY <1>4 DEF StaleLine
    <3> QED
      BY <1>2, <3>1, <3>2, StaleMonotone
  <2>3. StaleFirst(q, e, k - Len(c) - Len(t))
    <3>1. k - Len(c) - Len(t) \in Int /\ k - Len(o) - Len(c) - Len(t) \in Int /\ k - Len(o) - Len(c) - Len(t) <= k - Len(c) - Len(t)
      BY <1>2
    <3>2. StaleFirst(q, e, k - Len(o) - Len(c) - Len(t))
      BY <1>4 DEF StaleLine
    <3> QED
      BY <1>2, <3>1, <3>2, StaleMonotone
  <2>4. StaleFirst(r, e, k - Len(c) - Len(t) - Len(q))
    <3>1. k - Len(c) - Len(t) - Len(q) \in Int /\ k - Len(o) - Len(c) - Len(t) - Len(q) \in Int /\ k - Len(o) - Len(c) - Len(t) - Len(q) <= k - Len(c) - Len(t) - Len(q)
      BY <1>2
    <3>2. StaleFirst(r, e, k - Len(o) - Len(c) - Len(t) - Len(q))
      BY <1>4 DEF StaleLine
    <3> QED
      BY <1>2, <3>1, <3>2, StaleMonotone
  <2>5. k - Len(<<>>) = k /\ k - Len(<<>>) - Len(c) = k - Len(c)
       /\ k - Len(<<>>) - Len(c) - Len(t) = k - Len(c) - Len(t) /\ k - Len(<<>>) - Len(c) - Len(t) - Len(q) = k - Len(c) - Len(t) - Len(q)
    BY <1>2
  <2> QED
    BY <1>1, <2>1, <2>2, <2>3, <2>4, <2>5 DEF StaleLine
<1>5. InLine(o, <<>>, t, q, r) /\ BehindLine(o, <<>>, t, q, r, e, n)
  BY <1>1 DEF InLine, BehindLine
<1>6. ASSUME StaleLine(o, c, t, q, r, e, k) PROVE StaleLine(o, <<>>, t, q, r, e, k)
  <2>1. StaleFirst(o, e, k)
    BY <1>6 DEF StaleLine
  <2>2. StaleFirst(t, e, k - Len(o))
    <3>1. k - Len(o) \in Int /\ k - Len(o) - Len(c) \in Int /\ k - Len(o) - Len(c) <= k - Len(o)
      BY <1>2
    <3>2. StaleFirst(t, e, k - Len(o) - Len(c))
      BY <1>6 DEF StaleLine
    <3> QED
      BY <1>2, <3>1, <3>2, StaleMonotone
  <2>3. StaleFirst(q, e, k - Len(o) - Len(t))
    <3>1. k - Len(o) - Len(t) \in Int /\ k - Len(o) - Len(c) - Len(t) \in Int /\ k - Len(o) - Len(c) - Len(t) <= k - Len(o) - Len(t)
      BY <1>2
    <3>2. StaleFirst(q, e, k - Len(o) - Len(c) - Len(t))
      BY <1>6 DEF StaleLine
    <3> QED
      BY <1>2, <3>1, <3>2, StaleMonotone
  <2>4. StaleFirst(r, e, k - Len(o) - Len(t) - Len(q))
    <3>1. k - Len(o) - Len(t) - Len(q) \in Int /\ k - Len(o) - Len(c) - Len(t) - Len(q) \in Int /\ k - Len(o) - Len(c) - Len(t) - Len(q) <= k - Len(o) - Len(t) - Len(q)
      BY <1>2
    <3>2. StaleFirst(r, e, k - Len(o) - Len(c) - Len(t) - Len(q))
      BY <1>6 DEF StaleLine
    <3> QED
      BY <1>2, <3>1, <3>2, StaleMonotone
  <2>5. k - Len(o) - Len(<<>>) = k - Len(o) /\ k - Len(o) - Len(<<>>) - Len(t) = k - Len(o) - Len(t)
       /\ k - Len(o) - Len(<<>>) - Len(t) - Len(q) = k - Len(o) - Len(t) - Len(q)
    BY <1>2
  <2> QED
    BY <1>1, <2>1, <2>2, <2>3, <2>4, <2>5 DEF StaleLine
<1>7. InLine(o, c, <<>>, q, r) /\ BehindLine(o, c, <<>>, q, r, e, n)
  BY <1>1 DEF InLine, BehindLine
<1>8. ASSUME StaleLine(o, c, t, q, r, e, k) PROVE StaleLine(o, c, <<>>, q, r, e, k)
  <2>1. StaleFirst(o, e, k)
    BY <1>8 DEF StaleLine
  <2>2. StaleFirst(c, e, k - Len(o))
    BY <1>8 DEF StaleLine
  <2>3. StaleFirst(q, e, k - Len(o) - Len(c))
    <3>1. k - Len(o) - Len(c) \in Int /\ k - Len(o) - Len(c) - Len(t) \in Int /\ k - Len(o) - Len(c) - Len(t) <= k - Len(o) - Len(c)
      BY <1>2
    <3>2. StaleFirst(q, e, k - Len(o) - Len(c) - Len(t))
      BY <1>8 DEF StaleLine
    <3> QED
      BY <1>2, <3>1, <3>2, StaleMonotone
  <2>4. StaleFirst(r, e, k - Len(o) - Len(c) - Len(q))
    <3>1. k - Len(o) - Len(c) - Len(q) \in Int /\ k - Len(o) - Len(c) - Len(t) - Len(q) \in Int /\ k - Len(o) - Len(c) - Len(t) - Len(q) <= k - Len(o) - Len(c) - Len(q)
      BY <1>2
    <3>2. StaleFirst(r, e, k - Len(o) - Len(c) - Len(t) - Len(q))
      BY <1>8 DEF StaleLine
    <3> QED
      BY <1>2, <3>1, <3>2, StaleMonotone
  <2>5. k - Len(o) - Len(c) - Len(<<>>) = k - Len(o) - Len(c) /\ k - Len(o) - Len(c) - Len(<<>>) - Len(q) = k - Len(o) - Len(c) - Len(q)
    BY <1>2
  <2> QED
    BY <1>1, <2>1, <2>2, <2>3, <2>4, <2>5 DEF StaleLine
<1>9. InLine(o, c, t, <<>>, r) /\ BehindLine(o, c, t, <<>>, r, e, n)
  BY <1>1 DEF InLine, BehindLine
<1>10. ASSUME StaleLine(o, c, t, q, r, e, k) PROVE StaleLine(o, c, t, <<>>, r, e, k)
  <2>1. StaleFirst(o, e, k)
    BY <1>10 DEF StaleLine
  <2>2. StaleFirst(c, e, k - Len(o))
    BY <1>10 DEF StaleLine
  <2>3. StaleFirst(t, e, k - Len(o) - Len(c))
    BY <1>10 DEF StaleLine
  <2>4. StaleFirst(r, e, k - Len(o) - Len(c) - Len(t))
    <3>1. k - Len(o) - Len(c) - Len(t) \in Int /\ k - Len(o) - Len(c) - Len(t) - Len(q) \in Int /\ k - Len(o) - Len(c) - Len(t) - Len(q) <= k - Len(o) - Len(c) - Len(t)
      BY <1>2
    <3>2. StaleFirst(r, e, k - Len(o) - Len(c) - Len(t) - Len(q))
      BY <1>10 DEF StaleLine
    <3> QED
      BY <1>2, <3>1, <3>2, StaleMonotone
  <2>5. k - Len(o) - Len(c) - Len(t) - Len(<<>>) = k - Len(o) - Len(c) - Len(t)
    BY <1>2
  <2> QED
    BY <1>1, <2>1, <2>2, <2>3, <2>4, <2>5 DEF StaleLine
<1> QED
  BY <1>3, <1>4, <1>5, <1>6, <1>7, <1>8, <1>9, <1>10
-----------------------------------------------------------------------------
(* Where each hand is empty, and what the flag of seek keeps away. *)
HandsInv ==
  /\ is_seeking <=> spc # "idle"
  /\ Len(read) <= 1
  /\ rpc # "put" => read = <<>>
  /\ \A s \in Stream : Len(taken[s]) <= 1 /\ (dpc[s] = "idle" => taken[s] = <<>>)
  /\ spc \in {"codecs", "end"} => rpc # "locked" /\ pos = from

Line(s) == InLine(out[s], codec[s], taken[s], queue[s].packets, InRead(s))

(* Everything in the line was read before the packet that is read next. *)
Limit(s) == BehindLine(out[s], codec[s], taken[s], queue[s].packets, InRead(s), epoch, pos)

StaleThree(s) == StaleLine(out[s], codec[s], taken[s], queue[s].packets, InRead(s), epoch, 3)

LineInv == \A s \in Stream : Line(s) /\ Limit(s)

(* What a step does to a line. *)
LineKept(s) ==
  /\ Line(s)' /\ Limit(s)'
  /\ epoch' = epoch /\ StaleThree(s) => StaleThree(s)'

LEMMA LineTypes ==
  ASSUME TypeOK, NEW s \in Stream
  PROVE  /\ out[s] \in Seq(Packet) /\ codec[s] \in Seq(Packet) /\ taken[s] \in Seq(Packet)
         /\ queue[s] \in QueueOf(Packet) /\ queue[s].packets \in Seq(Packet)
         /\ read \in Seq(Packet) /\ InRead(s) \in Seq(Packet)
<1>1. queue[s] \in QueueOf(Packet)
  BY DEF TypeOK, PacketsOK
<1>2. queue[s].packets \in Seq(Packet)
  BY <1>1 DEF QueueOf
<1>3. read \in Seq(Packet) /\ InRead(s) \in Seq(Packet)
  BY EmptySeq DEF TypeOK, PacketsOK, InRead
<1> QED
  BY <1>1, <1>2, <1>3 DEF TypeOK, PacketsOK

LEMMA SoleItem ==
  ASSUME NEW x \in Seq(Packet), x # <<>>, Len(x) <= 1
  PROVE  Head(x) \in Packet /\ x = <<Head(x)>>
<1>1. Len(x) \in Nat /\ Len(x) # 0
  BY EmptySeq, LenProperties
<1>2. Len(x) = 1
  BY <1>1
<1> QED
  BY <1>2

(* The segments of the line as constants, for the lemmas about lines.      *)
LEMMA LineOfState ==
  ASSUME TypeOK, NEW s \in Stream, Line(s), Limit(s)
  PROVE  \E o, c, t, q, r \in Seq(Packet) :
           /\ o = out[s] /\ c = codec[s] /\ t = taken[s] /\ q = queue[s].packets /\ r = InRead(s)
           /\ InLine(o, c, t, q, r) /\ BehindLine(o, c, t, q, r, epoch, pos)
           /\ StaleThree(s) <=> StaleLine(o, c, t, q, r, epoch, 3)
  BY LineTypes DEF Line, Limit, StaleThree

(* The line of the next state, given by its segments. *)
LEMMA LineOfNextState ==
  ASSUME NEW s \in Stream, NEW o, NEW c, NEW t, NEW q, NEW r,
         out'[s] = o, codec'[s] = c, taken'[s] = t, queue'[s].packets = q, InRead(s)' = r,
         UNCHANGED <<epoch, pos>>,
         InLine(o, c, t, q, r), BehindLine(o, c, t, q, r, epoch, pos),
         StaleThree(s) => StaleLine(o, c, t, q, r, epoch, 3)
  PROVE  LineKept(s)
  BY DEF LineKept, Line, Limit, StaleThree

LEMMA SameLine ==
  ASSUME NEW s \in Stream, Line(s), Limit(s),
         out'[s] = out[s], codec'[s] = codec[s], taken'[s] = taken[s],
         queue'[s].packets = queue[s].packets, UNCHANGED <<read, epoch, pos>>
  PROVE  LineKept(s)
<1>1. InRead(s)' = InRead(s)
  BY DEF InRead
<1> QED
  BY <1>1 DEF LineKept, Line, Limit, StaleThree

LEMMA InitHands == Init => HandsInv
  BY DEF Init, HandsInv

LEMMA ReaderHands ==
  ASSUME TypeOK, HandsInv, Reader
  PROVE  HandsInv'
<1>1. CASE ReaderTop \/ (\E s \in Stream : ReaderLooks(s)) \/ ReaderDecides
  BY <1>1 DEF ReaderTop, ReaderLooks, ReaderDecides, HandsInv, seekVars, decoderVars, Stream
<1>2. CASE ReaderLocks
  BY <1>2 DEF ReaderLocks, HandsInv, seekVars, decoderVars
<1>3. CASE ReaderReads
  <2>1. CASE rpc = "locked" /\ read' = <<PacketOf(pos, epoch)>>
    BY <1>3, <2>1 DEF ReaderReads, HandsInv, seekVars, decoderVars, FormatLocked
  <2>2. CASE rpc' = "top" /\ UNCHANGED <<pos, read>>
    BY <1>3, <2>2 DEF ReaderReads, HandsInv, seekVars, decoderVars, FormatLocked
  <2> QED
    BY <1>3, <2>1, <2>2 DEF ReaderReads
<1>4. CASE ReaderPuts
  BY <1>4 DEF ReaderPuts, HandsInv, seekVars, decoderVars
<1> QED
  BY <1>1, <1>2, <1>3, <1>4 DEF Reader

LEMMA OthersHands ==
  ASSUME TypeOK, HandsInv,
         \/ \E t \in Stream : Decoder(t) \/ Consume(t)
         \/ SeekBegins \/ SeekProceeds
         \/ UNCHANGED vars
  PROVE  HandsInv'
<1>1. CASE \E t \in Stream : Decoder(t)
  <2> PICK t \in Stream : Decoder(t)
    BY <1>1
  <2>1. taken \in [Stream -> Seq(Packet)] /\ dpc \in [Stream -> {"idle", "got", "lock", "decode"}]
    BY DEF TypeOK, PacketsOK, PlacesOK
  <2>2. UNCHANGED <<pos, seekVars, readerVars>>
    BY DEF Decoder, Prebuffer, Get, Skip, LockDecoder, Decode
  <2>3. ASSUME NEW s \in Stream
        PROVE  Len(taken'[s]) <= 1 /\ (dpc'[s] = "idle" => taken'[s] = <<>>)
    <3>1. CASE Prebuffer(t)
      BY <3>1 DEF Prebuffer, HandsInv
    <3>2. CASE Get(t)
      <4>1. Len(<<Head(queue[t].packets)>>) = 1
        OBVIOUS
      <4> QED
        BY <2>1, <3>2, <4>1 DEF Get, HandsInv
    <3>3. CASE Skip(t)
      BY <2>1, <3>3, EmptySeq DEF Skip, HandsInv
    <3>4. CASE LockDecoder(t)
      BY <2>1, <3>4 DEF LockDecoder, HandsInv
    <3>5. CASE Decode(t)
      BY <2>1, <3>5, EmptySeq DEF Decode, HandsInv
    <3> QED
      BY <3>1, <3>2, <3>3, <3>4, <3>5 DEF Decoder
  <2> QED
    BY <2>2, <2>3 DEF HandsInv, seekVars, readerVars
<1>2. CASE \E t \in Stream : Consume(t)
  BY <1>2 DEF Consume, HandsInv, seekVars, readerVars, decoderVars
<1>3. CASE SeekBegins
  BY <1>3 DEF SeekBegins, HandsInv, readerVars, decoderVars
<1>4. CASE SeekClears \/ SeekFlushes
  BY <1>4 DEF SeekClears, SeekFlushes, HandsInv, readerVars, decoderVars
<1>5. CASE SeekFile
  <2>1. rpc # "locked" /\ from' = pos' /\ UNCHANGED <<rpc, read, taken, dpc>>
    BY <1>5 DEF SeekFile, FormatLocked, readerVars
  <2>2. CASE spc' = "codecs" /\ UNCHANGED is_seeking
    BY <1>5, <2>1, <2>2 DEF SeekFile, HandsInv
  <2>3. CASE spc' = "idle" /\ is_seeking' = FALSE
    BY <2>1, <2>3 DEF HandsInv
  <2> QED
    BY <1>5, <2>2, <2>3 DEF SeekFile
<1>6. CASE SeekFlushesCodecs
  BY <1>6 DEF SeekFlushesCodecs, HandsInv, readerVars, decoderVars
<1>7. CASE SeekEnds
  BY <1>7 DEF SeekEnds, HandsInv, readerVars, decoderVars
<1>8. CASE UNCHANGED vars
  BY <1>8 DEF vars, HandsInv, seekVars, readerVars, decoderVars
<1> QED
  BY <1>1, <1>2, <1>3, <1>4, <1>5, <1>6, <1>7, <1>8 DEF SeekProceeds

LEMMA StepHands == TypeOK /\ HandsInv /\ [Next]_vars => HandsInv'
  BY ReaderHands, OthersHands DEF Next
-----------------------------------------------------------------------------
(* ReaderPuts appends what readTask holds for the stream. *)
LEMMA PutIsConcat ==
  ASSUME TypeOK, HandsInv, NEW s \in Stream, ReaderPuts
  PROVE  queue'[s].packets = queue[s].packets \o InRead(s)
<1>1. read # <<>>
  BY DEF ReaderPuts, TypeOK, PacketsOK
<1>2. CASE Kind[Head(read).no] = s
  <2>1. InRead(s) = read /\ queue'[s] = PutPacket(queue[s], Head(read))
    BY <1>1, <1>2 DEF ReaderPuts, InRead
  <2>2. Head(read) \in Packet /\ read = <<Head(read)>>
    BY <1>1, LineTypes, SoleItem DEF HandsInv
  <2>3. queue'[s].packets = Append(queue[s].packets, Head(read))
    BY <2>1, <2>2, LineTypes, PutPacketFields
  <2> QED
    BY <2>1, <2>2, <2>3, LineTypes, AppendIsConcat
<1>3. CASE Kind[Head(read).no] # s
  <2>1. InRead(s) = <<>> /\ queue'[s] = queue[s]
    BY <1>3 DEF ReaderPuts, InRead
  <2> QED
    BY <2>1, LineTypes, ConcatEmptySeq
<1> QED
  BY <1>2, <1>3

LEMMA ReaderLine ==
  ASSUME TypeOK, HandsInv, Reader, NEW s \in Stream, Line(s), Limit(s)
  PROVE  LineKept(s)
<1>1. CASE ReaderTop \/ (\E t \in Stream : ReaderLooks(t)) \/ ReaderDecides \/ ReaderLocks
  <2>1. UNCHANGED <<out, codec, taken, queue, read, epoch, pos>>
    BY <1>1 DEF ReaderTop, ReaderLooks, ReaderDecides, ReaderLocks, seekVars, decoderVars
  <2> QED
    BY <2>1, SameLine
<1>2. CASE ReaderReads
  <2>1. UNCHANGED <<out, codec, taken, queue, epoch>>
    BY <1>2 DEF ReaderReads, seekVars, decoderVars
  <2>2. CASE UNCHANGED <<pos, read>>
    BY <2>1, <2>2, SameLine
  <2>3. CASE ~UNCHANGED <<pos, read>>
    <3> DEFINE p == PacketOf(pos, epoch)
    <3>1. rpc = "locked" /\ pos <= FileLen /\ read' = <<p>> /\ pos' = pos + 1
      BY <1>2, <2>3 DEF ReaderReads
    <3>2. p \in Packet /\ p.no = pos /\ p.epoch = epoch
      <4>1. pos \in 1..FileLen /\ epoch \in 0..MaxSeeks
        BY <3>1, PipelineAssumption DEF TypeOK, FileOK
      <4> QED
        BY <4>1, PacketRead DEF PacketOf
    <3>3. InRead(s) = <<>> /\ read = <<>>
      BY <3>1 DEF HandsInv, InRead
    <3>4. InRead(s)' \in {<<p>>, <<>>}
      BY <3>1 DEF InRead
    <3> HIDE DEF p
    <3>5. /\ InLine(out[s], codec[s], taken[s], queue[s].packets, <<p>>)
          /\ BehindLine(out[s], codec[s], taken[s], queue[s].packets, <<p>>, epoch, pos + 1)
          /\ BehindLine(out[s], codec[s], taken[s], queue[s].packets, <<>>, epoch, pos + 1)
          /\ StaleThree(s) => StaleLine(out[s], codec[s], taken[s], queue[s].packets, <<p>>, epoch, 3)
      BY <3>2, <3>3, LineTypes, LineRead DEF Line, Limit, StaleThree
    <3> QED
      BY <2>1, <3>1, <3>3, <3>4, <3>5 DEF LineKept, Line, Limit, StaleThree
  <2> QED
    BY <2>2, <2>3
<1>3. CASE ReaderPuts
  <2>1. UNCHANGED <<out, codec, taken, epoch, pos>> /\ read' = <<>> /\ read # <<>>
    BY <1>3 DEF ReaderPuts, seekVars, decoderVars, TypeOK, PacketsOK
  <2>2. InRead(s)' = <<>>
    BY <2>1 DEF InRead
  <2>3. queue'[s].packets = queue[s].packets \o InRead(s)
    BY <1>3, PutIsConcat
  <2> QED
    BY SMTT(30), <2>1, <2>2, <2>3, LineTypes, LinePut DEF LineKept, Line, Limit, StaleThree
<1> QED
  BY <1>1, <1>2, <1>3 DEF Reader

LEMMA DecoderLine ==
  ASSUME TypeOK, HandsInv, NEW t \in Stream, Decoder(t), NEW s \in Stream, Line(s), Limit(s)
  PROVE  LineKept(s)
<1>0. /\ UNCHANGED <<read, epoch, pos>> /\ InRead(s)' = InRead(s)
      /\ out \in [Stream -> Seq(Packet)] /\ codec \in [Stream -> Seq(Packet)]
      /\ taken \in [Stream -> Seq(Packet)] /\ queue \in [Stream -> QueueOf(Packet)]
  BY DEF Decoder, Prebuffer, Get, Skip, LockDecoder, Decode, seekVars, readerVars, InRead,
         TypeOK, PacketsOK
<1>1. CASE Prebuffer(t) \/ LockDecoder(t)
  BY <1>0, <1>1, SameLine DEF Prebuffer, LockDecoder
<1>2. CASE s # t
  <2>1. out'[s] = out[s] /\ codec'[s] = codec[s] /\ taken'[s] = taken[s] /\ queue'[s] = queue[s]
    BY <1>0, <1>2 DEF Decoder, Prebuffer, Get, Skip, LockDecoder, Decode
  <2> QED
    BY <1>0, <2>1, SameLine
<1>3. CASE Get(s)
  <2>1. /\ queue[s].packets # <<>> /\ UNCHANGED <<out, codec>>
        /\ taken'[s] = <<Head(queue[s].packets)>> /\ queue'[s].packets = Tail(queue[s].packets)
    <3>1. queue[s].packets # <<>> /\ queue'[s] = GetPacket(queue[s])
      BY <1>0, <1>3 DEF Get
    <3> QED
      BY <1>0, <1>3, <3>1, GetPacketFields DEF Get
  <2> PICK o, c, t2, q, r \in Seq(Packet) :
         /\ o = out[s] /\ c = codec[s] /\ t2 = taken[s] /\ q = queue[s].packets /\ r = InRead(s)
         /\ InLine(o, c, t2, q, r) /\ BehindLine(o, c, t2, q, r, epoch, pos)
         /\ StaleThree(s) <=> StaleLine(o, c, t2, q, r, epoch, 3)
    BY LineOfState
  <2>2. q # <<>> /\ 3 \in Int
    BY <2>1
  <2>3. /\ InLine(o, c, <<Head(q)>>, Tail(q), r)
        /\ BehindLine(o, c, <<Head(q)>>, Tail(q), r, epoch, pos)
        /\ StaleLine(o, c, t2, q, r, epoch, 3) => StaleLine(o, c, <<Head(q)>>, Tail(q), r, epoch, 3)
    BY <2>2, LineGet
  <2> QED
    BY <1>0, <2>1, <2>3, LineOfNextState
<1>4. CASE Skip(s)
  <2>1. UNCHANGED <<out, codec, queue>> /\ taken'[s] = <<>>
    BY <1>0, <1>4 DEF Skip
  <2> PICK o, c, t2, q, r \in Seq(Packet) :
         /\ o = out[s] /\ c = codec[s] /\ t2 = taken[s] /\ q = queue[s].packets /\ r = InRead(s)
         /\ InLine(o, c, t2, q, r) /\ BehindLine(o, c, t2, q, r, epoch, pos)
         /\ StaleThree(s) <=> StaleLine(o, c, t2, q, r, epoch, 3)
    BY LineOfState
  <2>2. /\ InLine(o, c, <<>>, q, r)
        /\ BehindLine(o, c, <<>>, q, r, epoch, pos)
        /\ StaleLine(o, c, t2, q, r, epoch, 3) => StaleLine(o, c, <<>>, q, r, epoch, 3)
    <3>1. 3 \in Int
      OBVIOUS
    <3> QED
      BY <3>1, LineEmptied
  <2> QED
    BY <1>0, <2>1, <2>2, LineOfNextState
<1>5. CASE Decode(s)
  <2> DEFINE sent == codec[s] \o taken[s]
  <2>1. UNCHANGED queue /\ taken'[s] = <<>> /\ taken[s] = <<Head(taken[s])>> /\ Head(taken[s]) \in Packet
    <3>1. taken[s] # <<>> /\ Len(taken[s]) <= 1
      BY <1>5 DEF Decode, HandsInv, TypeOK, PacketsOK
    <3>2. UNCHANGED queue /\ taken'[s] = <<>>
      BY <1>0, <1>5 DEF Decode
    <3> QED
      BY <3>1, <3>2, LineTypes, SoleItem
  <2>2. Append(codec[s], Head(taken[s])) = sent /\ sent \in Seq(Packet) /\ sent # <<>>
    <3>1. codec[s] \in Seq(Packet) /\ taken[s] \in Seq(Packet)
      BY LineTypes
    <3>2. Append(codec[s], Head(taken[s])) = codec[s] \o <<Head(taken[s])>>
      BY <2>1, <3>1, AppendIsConcat
    <3>3. Append(codec[s], Head(taken[s])) # <<>>
      BY <2>1, <3>1, AppendProperties
    <3>4. sent \in Seq(Packet)
      BY <3>1, ConcatProperties
    <3> QED
      BY <2>1, <3>2, <3>3, <3>4
  <2>3. /\ InLine(out[s], sent, <<>>, queue[s].packets, InRead(s))
        /\ BehindLine(out[s], sent, <<>>, queue[s].packets, InRead(s), epoch, pos)
        /\ StaleThree(s) => StaleLine(out[s], sent, <<>>, queue[s].packets, InRead(s), epoch, 3)
    <3> PICK o, c, t2, q, r \in Seq(Packet) :
           /\ o = out[s] /\ c = codec[s] /\ t2 = taken[s] /\ q = queue[s].packets /\ r = InRead(s)
           /\ InLine(o, c, t2, q, r) /\ BehindLine(o, c, t2, q, r, epoch, pos)
           /\ StaleThree(s) <=> StaleLine(o, c, t2, q, r, epoch, 3)
      BY LineOfState
    <3>1. /\ InLine(o, c \o t2, <<>>, q, r)
          /\ BehindLine(o, c \o t2, <<>>, q, r, epoch, pos)
          /\ StaleLine(o, c, t2, q, r, epoch, 3) => StaleLine(o, c \o t2, <<>>, q, r, epoch, 3)
      BY SMTT(30), LineSend
    <3> QED
      BY <3>1
  <2> HIDE DEF sent
  <2>4. CASE Len(sent) > CodecDelay
    <3> DEFINE h == Head(sent)
               o == IF s = "video" /\ Len(out[s]) >= FrameCache THEN Tail(out[s]) ELSE out[s]
    <3>1. h \in Packet /\ codec'[s] = Tail(sent) /\ out'[s] = Push(s, h) /\ Tail(sent) \in Seq(Packet)
      BY <1>0, <1>5, <2>2, <2>4, SplitHead DEF Decode
    <3>2. /\ o \in Seq(Packet)
          /\ InLine(o, sent, <<>>, queue[s].packets, InRead(s))
          /\ BehindLine(o, sent, <<>>, queue[s].packets, InRead(s), epoch, pos)
          /\ StaleThree(s) => StaleLine(o, sent, <<>>, queue[s].packets, InRead(s), epoch, 3)
      <4>1. CASE s = "video" /\ Len(out[s]) >= FrameCache
        <5>1. out[s] # <<>> /\ o = Tail(out[s]) /\ <<>> \in Seq(Packet)
          BY <1>0, <4>1, EmptySeq, PipelineAssumption
        <5> QED
          <6>1. /\ Tail(out[s]) \in Seq(Packet)
                /\ InLine(Tail(out[s]), sent, <<>>, queue[s].packets, InRead(s))
                /\ BehindLine(Tail(out[s]), sent, <<>>, queue[s].packets, InRead(s), epoch, pos)
                /\ StaleLine(out[s], sent, <<>>, queue[s].packets, InRead(s), epoch, 3) =>
                     StaleLine(Tail(out[s]), sent, <<>>, queue[s].packets, InRead(s), epoch, 3)
            <7>1. /\ out[s] \in Seq(Packet) /\ queue[s].packets \in Seq(Packet)
                  /\ InRead(s) \in Seq(Packet) /\ 3 \in Int
              BY LineTypes
            <7> QED
              BY <2>2, <2>3, <5>1, <7>1, LinePop
          <6> QED
            BY <2>3, <5>1, <6>1
      <4>2. CASE ~(s = "video" /\ Len(out[s]) >= FrameCache)
        BY <1>0, <2>3, <4>2
      <4> QED
        BY <4>1, <4>2
    <3>3. out'[s] = o \o <<h>>
      <4>1. out'[s] = Append(o, h)
        BY <3>1 DEF Push
      <4> QED
        BY <3>1, <3>2, <4>1, AppendIsConcat
    <3> HIDE DEF o
    <3>4. /\ InLine(out'[s], codec'[s], <<>>, queue[s].packets, InRead(s))
          /\ BehindLine(out'[s], codec'[s], <<>>, queue[s].packets, InRead(s), epoch, pos)
          /\ StaleThree(s) =>
               StaleLine(out'[s], codec'[s], <<>>, queue[s].packets, InRead(s), epoch, 3)
      <4>1. /\ InLine(o \o <<Head(sent)>>, Tail(sent), <<>>, queue[s].packets, InRead(s))
            /\ BehindLine(o \o <<Head(sent)>>, Tail(sent), <<>>, queue[s].packets, InRead(s), epoch, pos)
            /\ StaleLine(o, sent, <<>>, queue[s].packets, InRead(s), epoch, 3) =>
                 StaleLine(o \o <<Head(sent)>>, Tail(sent), <<>>, queue[s].packets, InRead(s), epoch, 3)
        <5>1. /\ queue[s].packets \in Seq(Packet) /\ InRead(s) \in Seq(Packet)
              /\ <<>> \in Seq(Packet) /\ 3 \in Int
          BY LineTypes, EmptySeq
        <5> QED
          BY <2>2, <3>2, <5>1, LineReceive
      <4> QED
        BY <3>1, <3>2, <3>3, <4>1
    <3> QED
      BY <1>0, <2>1, <3>4 DEF LineKept, Line, Limit, StaleThree
  <2>5. CASE ~(Len(sent) > CodecDelay)
    <3>1. codec'[s] = sent /\ out'[s] = out[s]
      BY <1>0, <1>5, <2>2, <2>5 DEF Decode
    <3> QED
      BY <1>0, <2>1, <2>3, <3>1 DEF LineKept, Line, Limit, StaleThree
  <2> QED
    BY <2>4, <2>5
<1> QED
  BY <1>1, <1>2, <1>3, <1>4, <1>5 DEF Decoder

LEMMA OthersLine ==
  ASSUME TypeOK, HandsInv, NEW s \in Stream, Line(s), Limit(s),
         \/ \E t \in Stream : Consume(t)
         \/ SeekBegins \/ SeekProceeds
         \/ UNCHANGED vars
  PROVE  LineKept(s)
<1>0. /\ out \in [Stream -> Seq(Packet)] /\ codec \in [Stream -> Seq(Packet)]
      /\ queue \in [Stream -> QueueOf(Packet)]
  BY DEF TypeOK, PacketsOK
<1>1. CASE \E t \in Stream : Consume(t)
  <2> PICK t \in Stream : Consume(t)
    BY <1>1
  <2>1. UNCHANGED <<codec, taken, queue, read, epoch, pos>> /\ InRead(s)' = InRead(s)
    BY DEF Consume, seekVars, readerVars, decoderVars, InRead
  <2>2. CASE s # t
    BY <1>0, <2>1, <2>2, SameLine DEF Consume
  <2>3. CASE s = t
    <3>1. out[s] # <<>> /\ out'[s] = Tail(out[s])
      BY <1>0, <2>3 DEF Consume
    <3> PICK o, c, t2, q, r \in Seq(Packet) :
           /\ o = out[s] /\ c = codec[s] /\ t2 = taken[s] /\ q = queue[s].packets /\ r = InRead(s)
           /\ InLine(o, c, t2, q, r) /\ BehindLine(o, c, t2, q, r, epoch, pos)
           /\ StaleThree(s) <=> StaleLine(o, c, t2, q, r, epoch, 3)
      BY LineOfState
    <3>2. o # <<>> /\ 3 \in Int
      BY <3>1
    <3>3. /\ InLine(Tail(o), c, t2, q, r)
          /\ BehindLine(Tail(o), c, t2, q, r, epoch, pos)
          /\ StaleLine(o, c, t2, q, r, epoch, 3) => StaleLine(Tail(o), c, t2, q, r, epoch, 3)
      BY <3>2, LinePop
    <3> QED
      BY <2>1, <3>1, <3>3, LineOfNextState
  <2> QED
    BY <2>2, <2>3
<1>2. CASE SeekClears \/ SeekFlushes \/ SeekFlushesCodecs
  <2>1. UNCHANGED <<taken, read, epoch, pos>> /\ InRead(s)' = InRead(s)
    BY <1>2 DEF SeekClears, SeekFlushes, SeekFlushesCodecs, readerVars, decoderVars, InRead
  <2> PICK o, c, t2, q, r \in Seq(Packet) :
         /\ o = out[s] /\ c = codec[s] /\ t2 = taken[s] /\ q = queue[s].packets /\ r = InRead(s)
         /\ InLine(o, c, t2, q, r) /\ BehindLine(o, c, t2, q, r, epoch, pos)
         /\ StaleThree(s) <=> StaleLine(o, c, t2, q, r, epoch, 3)
    BY LineOfState
  <2>2. 3 \in Int
    OBVIOUS
  <2>3. CASE SeekClears
    <3>1. out'[s] \in {o, <<>>} /\ codec'[s] = c /\ queue'[s].packets = q
      BY <1>0, <2>3 DEF SeekClears
    <3>2. /\ InLine(<<>>, c, t2, q, r) /\ BehindLine(<<>>, c, t2, q, r, epoch, pos)
          /\ StaleLine(o, c, t2, q, r, epoch, 3) => StaleLine(<<>>, c, t2, q, r, epoch, 3)
      BY <2>2, LineEmptied
    <3> QED
      BY <2>1, <3>1, <3>2, LineOfNextState
  <2>4. CASE SeekFlushes
    <3>1. queue'[s] \in {queue[s], FlushQueue(queue[s])} /\ out'[s] = o /\ codec'[s] = c
      BY <1>0, <2>4 DEF SeekFlushes
    <3>2. queue'[s].packets \in {q, <<>>}
      BY <1>0, <3>1, FlushQueueFields
    <3>3. /\ InLine(o, c, t2, <<>>, r) /\ BehindLine(o, c, t2, <<>>, r, epoch, pos)
          /\ StaleLine(o, c, t2, q, r, epoch, 3) => StaleLine(o, c, t2, <<>>, r, epoch, 3)
      BY <2>2, LineEmptied
    <3> QED
      BY <2>1, <3>1, <3>2, <3>3, LineOfNextState
  <2>5. CASE SeekFlushesCodecs
    <3>1. codec'[s] = <<>> /\ out'[s] = o /\ queue'[s].packets = q
      BY <2>5 DEF SeekFlushesCodecs
    <3>2. /\ InLine(o, <<>>, t2, q, r) /\ BehindLine(o, <<>>, t2, q, r, epoch, pos)
          /\ StaleLine(o, c, t2, q, r, epoch, 3) => StaleLine(o, <<>>, t2, q, r, epoch, 3)
      BY <2>2, LineEmptied
    <3> QED
      BY <2>1, <3>1, <3>2, LineOfNextState
  <2> QED
    BY <1>2, <2>3, <2>4, <2>5
<1>3. CASE SeekFile
  <2>1. UNCHANGED <<out, codec, taken, queue, read>> /\ InRead(s)' = InRead(s)
    BY <1>3 DEF SeekFile, readerVars, InRead
  <2>2. CASE UNCHANGED <<pos, epoch>>
    BY <2>1, <2>2, SameLine
  <2>3. CASE epoch' = epoch + 1
    <3>1. epoch \in Nat
      BY DEF TypeOK, FileOK
    <3>2. ASSUME NEW x \in Seq(Packet), Behind(x, epoch, pos) PROVE Behind(x, epoch', pos')
      <4>1. \A i \in 1..Len(x) : x[i].epoch \in Nat
        BY PacketFields, ElementOfSeq, PipelineAssumption
      <4> QED
        BY <2>3, <3>1, <3>2, <4>1 DEF Behind
    <3>3. Limit(s)'
      BY <2>1, <3>2, LineTypes DEF Limit, BehindLine
    <3>4. epoch' # epoch
      BY <2>3, <3>1
    <3> QED
      BY <2>1, <3>3, <3>4 DEF LineKept, Line
  <2> QED
    BY <1>3, <2>2, <2>3 DEF SeekFile
<1>4. CASE SeekBegins \/ SeekEnds
  BY <1>4, SameLine DEF SeekBegins, SeekEnds, readerVars, decoderVars
<1>5. CASE UNCHANGED vars
  BY <1>5, SameLine DEF vars, seekVars, readerVars, decoderVars
<1> QED
  BY <1>1, <1>2, <1>3, <1>4, <1>5 DEF SeekProceeds

LEMMA StepLine ==
  TypeOK /\ HandsInv /\ LineInv /\ [Next]_vars => \A s \in Stream : LineKept(s)
  BY ReaderLine, DecoderLine, OthersLine DEF Next, LineInv

LEMMA InitLine == Init => LineInv
<1> SUFFICES ASSUME Init, NEW s \in Stream
             PROVE  Line(s) /\ Limit(s)
  BY DEF LineInv
<1>1. out[s] = <<>> /\ codec[s] = <<>> /\ taken[s] = <<>> /\ queue[s].packets = <<>> /\ InRead(s) = <<>>
  BY DEF Init, EmptyQueue, InRead
<1>2. \A e, n : Ordered(<<>>) /\ Ahead(<<>>, <<>>) /\ Behind(<<>>, e, n)
  BY DEF Ordered, Ahead, Behind
<1> QED
  BY <1>1, <1>2 DEF Line, Limit, InLine, BehindLine

(* The line of each stream, through five threads' hands, is in the order   *)
(* in which the packets were read.                                         *)
THEOREM NothingOvertakesAlways == Spec => []NothingOvertakes
<1>1. Init => HandsInv /\ LineInv
  BY InitHands, InitLine
<1>2. TypeOK /\ HandsInv /\ LineInv /\ [Next]_vars => HandsInv' /\ LineInv'
  BY StepHands, StepLine DEF LineInv, LineKept
<1>3. TypeOK /\ LineInv => NothingOvertakes
  <2> SUFFICES ASSUME TypeOK, LineInv, NEW s \in Stream
               PROVE  Ordered(Underway(s))
    BY DEF NothingOvertakes, Ordered
  <2>1. InLine(out[s], codec[s], taken[s], queue[s].packets, InRead(s)) /\ 3 \in Int
    BY DEF LineInv, Line
  <2> QED
    BY <2>1, LineTypes, LineIsOne DEF Underway
<1>4. QED
  BY <1>1, <1>2, <1>3, TypeCorrect, PTL DEF Spec
-----------------------------------------------------------------------------
(* What is in the output and the queue of a stream or still on its way     *)
(* there whatever seek does: a decoder that had decoder_mutex before the   *)
(* flag was set adds one frame, a reader that had format_mutex one packet. *)
Decoding(s) == IF dpc[s] = "decode" THEN 1 ELSE 0
Reading == IF rpc = "locked" THEN 1 ELSE 0
OutLoad(s) == Len(out[s]) + Decoding(s)
QueueLoad(s) == Len(queue[s].packets) + Reading + Len(read)

(* What seek has emptied stays short. *)
PassedOut(s) ==
  spc \in {"file", "codecs"} \/ (s = "video" /\ spc \in {"flushVideo", "flushAudio", "clearAudio"})
    => OutLoad(s) <= 1

PassedQueue(s) ==
  spc \in {"clearAudio", "file", "codecs"} \/ (s = "video" /\ spc = "flushAudio")
    => QueueLoad(s) <= 1

StaleInv ==
  /\ \A s \in Stream : PassedOut(s) /\ PassedQueue(s)
  /\ spc # "codecs" => \A s \in Stream : StaleThree(s)

(* Packet n of this epoch is somewhere from the reader's hands on. *)
Kept(s, n) ==
  \/ n \in fed[s]
  \/ Has(taken[s], epoch, n) \/ Has(queue[s].packets, epoch, n) \/ Has(InRead(s), epoch, n)

KeptInv ==
  ~is_seeking => \A s \in Stream, n \in from..pos - 1 : Kind[n] = s => Kept(s, n)

LEMMA LenTypes ==
  ASSUME TypeOK, NEW s \in Stream
  PROVE  /\ Len(out[s]) \in Nat /\ Len(codec[s]) \in Nat /\ Len(taken[s]) \in Nat
         /\ Len(queue[s].packets) \in Nat /\ Len(read) \in Nat /\ Len(InRead(s)) \in Nat
         /\ Len(InRead(s)) <= Len(read) /\ Len(<<>>) = 0
<1>1. /\ Len(out[s]) \in Nat /\ Len(codec[s]) \in Nat /\ Len(taken[s]) \in Nat
      /\ Len(queue[s].packets) \in Nat /\ Len(read) \in Nat /\ Len(<<>>) = 0
  BY LineTypes, LenProperties, EmptySeq
<1>2. InRead(s) \in {read, <<>>}
  BY DEF InRead
<1> QED
  BY <1>1, <1>2

LEMMA ReaderLoad ==
  ASSUME TypeOK, HandsInv, is_seeking, NEW s \in Stream, Reader
  PROVE  OutLoad(s)' <= OutLoad(s) /\ QueueLoad(s)' <= QueueLoad(s)
<1>1. /\ Len(out[s]) \in Nat /\ Len(queue[s].packets) \in Nat /\ Len(read) \in Nat
      /\ Len(<<>>) = 0
  BY LenTypes
<1>2. UNCHANGED <<out, dpc>>
  BY DEF Reader, ReaderTop, ReaderLooks, ReaderDecides, ReaderLocks, ReaderReads, ReaderPuts,
         decoderVars
<1>3. OutLoad(s)' <= OutLoad(s)
  BY <1>1, <1>2 DEF OutLoad, Decoding
<1>4. CASE ReaderTop \/ (\E t \in Stream : ReaderLooks(t)) \/ ReaderDecides \/ ReaderLocks
  <2>1. UNCHANGED <<queue, read>> /\ rpc' # "locked"
    BY <1>4 DEF ReaderTop, ReaderLooks, ReaderDecides, ReaderLocks, Stream
  <2> QED
    BY <1>1, <1>3, <2>1 DEF QueueLoad, Reading
<1>5. CASE ReaderReads
  <2>1. UNCHANGED queue /\ rpc' # "locked"
    BY <1>5 DEF ReaderReads
  <2>2. CASE UNCHANGED read
    BY <1>1, <1>3, <2>1, <2>2 DEF QueueLoad, Reading
  <2>3. CASE rpc = "locked" /\ read' = <<PacketOf(pos, epoch)>>
    <3>1. Len(read') = 1 /\ Len(read) = 0
      BY <2>3, EmptySeq DEF HandsInv
    <3> QED
      BY <1>1, <1>3, <2>1, <2>3, <3>1 DEF QueueLoad, Reading
  <2> QED
    BY <1>5, <2>2, <2>3 DEF ReaderReads
<1>6. CASE ReaderPuts
  <2>1. rpc' # "locked" /\ Len(read') = 0 /\ read # <<>> /\ rpc # "locked"
    BY <1>1, <1>6 DEF ReaderPuts, TypeOK, PacketsOK
  <2>2. Len(read) = 1 /\ Head(read) \in Packet
    <3>1. Len(read) <= 1 /\ read \in Seq(Packet) /\ Len(read) # 0
      BY <2>1, LineTypes, EmptySeq DEF HandsInv
    <3> QED
      BY <1>1, <2>1, <3>1, SoleItem
  <2>3. queue'[s] \in {queue[s], PutPacket(queue[s], Head(read))}
    BY <1>6 DEF ReaderPuts
  <2>4. Len(queue'[s].packets) <= Len(queue[s].packets) + 1 /\ Len(queue'[s].packets) \in Nat
    <3>1. CASE queue'[s] = queue[s]
      BY <1>1, <3>1
    <3>2. CASE queue'[s] = PutPacket(queue[s], Head(read))
      <4>1. queue'[s].packets = Append(queue[s].packets, Head(read))
        BY <2>2, <3>2, LineTypes, PutPacketFields
      <4> QED
        BY <1>1, <2>2, <4>1, LineTypes, AppendProperties
    <3> QED
      BY <2>3, <3>1, <3>2
  <2> QED
    BY <1>1, <1>3, <2>1, <2>2, <2>4 DEF QueueLoad, Reading
<1> QED
  BY <1>4, <1>5, <1>6 DEF Reader

LEMMA DecoderLoad ==
  ASSUME TypeOK, HandsInv, is_seeking, NEW s \in Stream, NEW t \in Stream,
         Decoder(t) \/ Consume(t)
  PROVE  OutLoad(s)' <= OutLoad(s) /\ QueueLoad(s)' <= QueueLoad(s)
<1>1. /\ Len(out[s]) \in Nat /\ Len(queue[s].packets) \in Nat /\ Len(read) \in Nat
      /\ Len(<<>>) = 0
  BY LenTypes
<1>2. UNCHANGED <<rpc, read>>
  BY DEF Decoder, Prebuffer, Get, Skip, LockDecoder, Decode, Consume, readerVars
<1>3. /\ out \in [Stream -> Seq(Packet)] /\ queue \in [Stream -> QueueOf(Packet)]
      /\ dpc \in [Stream -> {"idle", "got", "lock", "decode"}]
  BY DEF TypeOK, PacketsOK, PlacesOK
<1>4. CASE s # t
  <2>1. out'[s] = out[s] /\ dpc'[s] = dpc[s] /\ queue'[s] = queue[s]
    BY <1>3, <1>4 DEF Decoder, Prebuffer, Get, Skip, LockDecoder, Decode, Consume, decoderVars
  <2> QED
    BY <1>1, <1>2, <2>1 DEF OutLoad, Decoding, QueueLoad, Reading
<1>5. CASE Prebuffer(s) \/ Skip(s)
  <2>1. UNCHANGED <<out, queue>> /\ (dpc'[s] = "decode" => dpc[s] = "decode")
    BY <1>3, <1>5 DEF Prebuffer, Skip
  <2> QED
    BY <1>1, <1>2, <2>1 DEF OutLoad, Decoding, QueueLoad, Reading
<1>6. CASE Get(s)
  <2>1. /\ UNCHANGED out /\ dpc'[s] # "decode" /\ queue[s].packets # <<>>
        /\ queue'[s] = GetPacket(queue[s])
    BY <1>3, <1>6 DEF Get
  <2>2. queue'[s].packets = Tail(queue[s].packets)
    BY <2>1, LineTypes, GetPacketFields
  <2>3. Len(queue'[s].packets) = Len(queue[s].packets) - 1
    BY <2>1, <2>2, LineTypes, HeadTailProperties
  <2>4. OutLoad(s)' <= OutLoad(s)
    BY <1>1, <2>1 DEF OutLoad, Decoding
  <2>5. QueueLoad(s)' <= QueueLoad(s)
    <3>1. Reading' = Reading /\ Reading \in Nat
      BY <1>2 DEF Reading
    <3> QED
      BY <1>1, <1>2, <2>3, <3>1 DEF QueueLoad
  <2> QED
    BY <2>4, <2>5
<1>7. CASE LockDecoder(s)
  BY <1>7 DEF LockDecoder
<1>8. CASE Decode(s)
  <2>1. UNCHANGED queue /\ dpc[s] = "decode" /\ dpc'[s] = "idle"
    BY <1>3, <1>8 DEF Decode
  <2>2. Len(out'[s]) <= Len(out[s]) + 1 /\ Len(out'[s]) \in Nat
    <3>1. CASE UNCHANGED out
      BY <1>1, <3>1
    <3>2. CASE ~UNCHANGED out
      <4> PICK h : out'[s] = Push(s, h) /\ h \in Packet
        <5>1. taken[s] # <<>>
          BY <2>1 DEF TypeOK, PacketsOK
        <5>2. Head(taken[s]) \in Packet
          BY <5>1, LineTypes, HeadTailProperties
        <5>3. Append(codec[s], Head(taken[s])) \in Seq(Packet) /\ Append(codec[s], Head(taken[s])) # <<>>
          <6>1. codec[s] \in Seq(Packet)
            BY LineTypes
          <6> QED
            BY <5>2, <6>1, AppendProperties
        <5>4. out'[s] = Push(s, Head(Append(codec[s], Head(taken[s]))))
          BY <1>3, <1>8, <3>2 DEF Decode
        <5> QED
          BY <5>3, <5>4, HeadTailProperties
      <4>1. CASE s = "video" /\ Len(out[s]) >= FrameCache
        <5>1. out[s] # <<>>
          BY <1>1, <4>1, PipelineAssumption
        <5>2. Tail(out[s]) \in Seq(Packet) /\ Len(Tail(out[s])) = Len(out[s]) - 1
          BY <5>1, LineTypes, HeadTailProperties
        <5>3. Len(Append(Tail(out[s]), h)) = Len(Tail(out[s])) + 1
          BY <5>2, AppendProperties
        <5> QED
          BY <1>1, <4>1, <5>2, <5>3 DEF Push
      <4>2. CASE ~(s = "video" /\ Len(out[s]) >= FrameCache)
        <5>1. Len(Append(out[s], h)) = Len(out[s]) + 1
          BY LineTypes, AppendProperties
        <5> QED
          BY <1>1, <4>2, <5>1 DEF Push
      <4> QED
        BY <4>1, <4>2
    <3> QED
      BY <3>1, <3>2
  <2> QED
    BY <1>1, <1>2, <2>1, <2>2 DEF OutLoad, Decoding, QueueLoad, Reading
<1>9. CASE Consume(s)
  <2>1. UNCHANGED <<dpc, queue>> /\ out[s] # <<>> /\ out'[s] = Tail(out[s])
    BY <1>3, <1>9 DEF Consume, decoderVars
  <2>2. Len(out'[s]) = Len(out[s]) - 1
    BY <2>1, LineTypes, HeadTailProperties
  <2> QED
    BY <1>1, <1>2, <2>1, <2>2 DEF OutLoad, Decoding, QueueLoad, Reading
<1> QED
  BY <1>4, <1>5, <1>6, <1>7, <1>8, <1>9 DEF Decoder

LEMMA SeekLoad ==
  ASSUME TypeOK, HandsInv, NEW s \in Stream, PassedOut(s), PassedQueue(s),
         SeekBegins \/ SeekProceeds
  PROVE  PassedOut(s)' /\ PassedQueue(s)'
<1>1. /\ Len(out[s]) \in Nat /\ Len(queue[s].packets) \in Nat /\ Len(read) \in Nat
      /\ Len(<<>>) = 0
  BY LenTypes
<1>2. /\ out \in [Stream -> Seq(Packet)] /\ queue \in [Stream -> QueueOf(Packet)]
      /\ s \in {"video", "audio"}
  BY DEF TypeOK, PacketsOK, Stream
<1>3. CASE SeekBegins
  BY <1>3 DEF SeekBegins, PassedOut, PassedQueue
<1>4. CASE SeekClears
  <2>1. UNCHANGED <<queue, rpc, read, dpc>> /\ QueueLoad(s)' = QueueLoad(s)
    BY <1>4 DEF SeekClears, readerVars, decoderVars, QueueLoad, Reading
  <2>2. CASE spc = "clearVideo"
    <3>1. spc' = "flushVideo" /\ (s = "video" => out'[s] = <<>>)
      BY <1>2, <1>4, <2>2 DEF SeekClears
    <3>2. s = "video" => OutLoad(s)' <= 1
      <4>1. Decoding(s)' \in 0..1
        BY DEF Decoding
      <4> QED
        BY <1>1, <3>1, <4>1 DEF OutLoad
    <3> QED
      BY <3>1, <3>2 DEF PassedOut, PassedQueue
  <2>3. CASE spc = "clearAudio"
    <3>1. spc' = "file" /\ out'[s] = IF s = "audio" THEN <<>> ELSE out[s]
      BY <1>2, <1>4, <2>3 DEF SeekClears
    <3>2. OutLoad(s)' <= 1
      <4>1. CASE s = "audio"
        BY <1>1, <3>1, <4>1 DEF OutLoad, Decoding
      <4>2. CASE s = "video"
        BY <2>1, <2>3, <3>1, <4>2 DEF PassedOut, OutLoad, Decoding
      <4> QED
        BY <1>2, <4>1, <4>2
    <3> QED
      BY <2>1, <2>3, <3>1, <3>2 DEF PassedOut, PassedQueue
  <2> QED
    BY <1>4, <2>2, <2>3 DEF SeekClears
<1>5. CASE SeekFlushes
  <2>1. UNCHANGED <<out, rpc, read, dpc>> /\ OutLoad(s)' = OutLoad(s)
    BY <1>5 DEF SeekFlushes, readerVars, decoderVars, OutLoad, Decoding
  <2>2. Reading + Len(read) <= 1 /\ Reading' = Reading /\ Reading \in Nat
    <3>1. rpc = "locked" => Len(read) = 0
      BY <1>1 DEF HandsInv
    <3> QED
      BY <1>1, <2>1, <3>1 DEF HandsInv, Reading
  <2>3. Len(FlushQueue(queue[s]).packets) = 0
    BY <1>1, <1>2, FlushQueueFields
  <2>4. CASE spc = "flushVideo"
    <3>1. spc' = "flushAudio" /\ (s = "video" => queue'[s] = FlushQueue(queue[s]))
      BY <1>2, <1>5, <2>4 DEF SeekFlushes
    <3>2. s = "video" => QueueLoad(s)' <= 1
      BY <1>1, <2>1, <2>2, <2>3, <3>1 DEF QueueLoad
    <3> QED
      BY <2>1, <2>4, <3>1, <3>2 DEF PassedOut, PassedQueue
  <2>5. CASE spc = "flushAudio"
    <3>1. spc' = "clearAudio" /\ queue'[s] = IF s = "audio" THEN FlushQueue(queue[s]) ELSE queue[s]
      BY <1>2, <1>5, <2>5 DEF SeekFlushes
    <3>2. QueueLoad(s)' <= 1
      <4>1. CASE s = "audio"
        BY <1>1, <2>1, <2>2, <2>3, <3>1, <4>1 DEF QueueLoad
      <4>2. CASE s = "video"
        BY <2>1, <2>5, <3>1, <4>2 DEF PassedQueue, QueueLoad, Reading
      <4> QED
        BY <1>2, <4>1, <4>2
    <3> QED
      BY <2>1, <2>5, <3>1, <3>2 DEF PassedOut, PassedQueue
  <2> QED
    BY <1>5, <2>4, <2>5 DEF SeekFlushes
<1>6. CASE SeekFile
  <2>1. /\ UNCHANGED <<out, queue, rpc, read, dpc>>
        /\ OutLoad(s)' = OutLoad(s) /\ QueueLoad(s)' = QueueLoad(s)
    BY <1>6 DEF SeekFile, readerVars, OutLoad, Decoding, QueueLoad, Reading
  <2>2. spc = "file" /\ spc' \in {"codecs", "idle"}
    BY <1>6 DEF SeekFile
  <2> QED
    BY <2>1, <2>2 DEF PassedOut, PassedQueue
<1>7. CASE SeekFlushesCodecs \/ SeekEnds
  <2>1. spc' \in {"end", "idle"}
    BY <1>7 DEF SeekFlushesCodecs, SeekEnds
  <2> QED
    BY <2>1 DEF PassedOut, PassedQueue
<1> QED
  BY <1>3, <1>4, <1>5, <1>6, <1>7 DEF SeekProceeds

LEMMA Slots ==
  ASSUME NEW o \in Nat, NEW t \in Nat, NEW q \in Nat, NEW r \in Nat,
         o <= 1, t <= 1, q + r <= 1
  PROVE  /\ 3 - o \in Int /\ 3 - o - t \in Int /\ 3 - o - t - q \in Int
         /\ o <= 3 /\ t <= 3 - o /\ q <= 3 - o - t /\ r <= 3 - o - t - q
<1>1. 3 - o \in Int /\ 3 - o - t \in Int /\ 3 - o - t - q \in Int
  OBVIOUS
<1>2. o <= 3 /\ t <= 3 - o
  OBVIOUS
<1>3. 1 <= 3 - o - t /\ q <= 1
  OBVIOUS
<1>4. 3 - o - t - q >= 1 - q /\ r <= 1 - q
  OBVIOUS
<1> QED
  BY <1>1, <1>2, <1>3, <1>4

(* What flushDecoders finds when it has emptied the codecs. *)
LEMMA FlushedLine ==
  ASSUME TypeOK, HandsInv, NEW s \in Stream, PassedOut(s), PassedQueue(s), SeekFlushesCodecs
  PROVE  StaleThree(s)'
<1>1. /\ spc = "codecs" /\ codec'[s] = <<>>
      /\ UNCHANGED <<out, taken, queue, read, epoch>> /\ InRead(s)' = InRead(s)
  BY DEF SeekFlushesCodecs, readerVars, decoderVars, InRead
<1>2. /\ Len(out[s]) \in Nat /\ Len(taken[s]) \in Nat /\ Len(queue[s].packets) \in Nat
      /\ Len(read) \in Nat /\ Len(InRead(s)) \in Nat /\ Len(InRead(s)) <= Len(read)
      /\ Len(<<>>) = 0
  BY LenTypes
<1>3. Len(out[s]) <= 1
  <2>1. OutLoad(s) <= 1 /\ Decoding(s) \in Nat
    BY <1>1 DEF PassedOut, Decoding
  <2> QED
    BY <1>2, <2>1 DEF OutLoad
<1>4. Len(queue[s].packets) + Len(read) <= 1
  <2>1. QueueLoad(s) <= 1 /\ Reading \in Nat
    BY <1>1 DEF PassedQueue, Reading
  <2> QED
    BY <1>2, <2>1 DEF QueueLoad
<1>5. Len(taken[s]) <= 1
  BY DEF HandsInv
<1>6. PICK o \in Nat, t \in Nat, q \in Nat, r \in Nat :
        /\ o = Len(out[s]) /\ t = Len(taken[s]) /\ q = Len(queue[s].packets) /\ r = Len(InRead(s))
        /\ o <= 1 /\ t <= 1 /\ q + r <= 1
  <2>1. Len(queue[s].packets) + Len(InRead(s)) <= 1
    BY <1>2, <1>4
  <2> QED
    BY <1>2, <1>3, <1>5, <2>1
<1>7. /\ 3 - o \in Int /\ 3 - o - t \in Int /\ 3 - o - t - q \in Int
      /\ o <= 3 /\ t <= 3 - o /\ q <= 3 - o - t /\ r <= 3 - o - t - q
  BY <1>6, Slots
<1>8. StaleFirst(out[s], epoch, 3) /\ StaleFirst(<<>>, epoch, 3 - o)
  BY <1>2, <1>6, <1>7 DEF StaleFirst
<1>9. /\ StaleFirst(taken[s], epoch, 3 - o)
      /\ StaleFirst(queue[s].packets, epoch, 3 - o - t)
      /\ StaleFirst(InRead(s), epoch, 3 - o - t - q)
  <2>1. ASSUME NEW x, NEW k \in Int, NEW l \in Nat, l = Len(x), l <= k
        PROVE  StaleFirst(x, epoch, k)
    BY <2>1 DEF StaleFirst
  <2> QED
    BY <1>6, <1>7, <2>1
<1>10. 3 - o - Len(<<>>) = 3 - o /\ 3 - o - Len(<<>>) - t = 3 - o - t
  BY <1>2, <1>6
<1> QED
  BY <1>1, <1>6, <1>8, <1>9, <1>10 DEF StaleThree, StaleLine

LEMMA StepStale ==
  ASSUME TypeOK, HandsInv, LineInv, StaleInv, [Next]_vars
  PROVE  StaleInv'
<1>1. \A s \in Stream : epoch' = epoch /\ StaleThree(s) => StaleThree(s)'
  BY StepLine DEF LineKept
<1>2. CASE Reader \/ (\E t \in Stream : Decoder(t) \/ Consume(t))
  <2>1. UNCHANGED <<spc, epoch>>
    BY <1>2 DEF Reader, ReaderTop, ReaderLooks, ReaderDecides, ReaderLocks, ReaderReads, ReaderPuts,
                Decoder, Prebuffer, Get, Skip, LockDecoder, Decode, Consume, seekVars
  <2>2. ASSUME NEW s \in Stream
        PROVE  PassedOut(s)' /\ PassedQueue(s)'
    <3>1. CASE ~is_seeking
      BY <2>1, <3>1 DEF HandsInv, PassedOut, PassedQueue
    <3>2. CASE is_seeking
      <4>1. OutLoad(s)' <= OutLoad(s) /\ QueueLoad(s)' <= QueueLoad(s)
        BY <1>2, <3>2, ReaderLoad, DecoderLoad
      <4>2. /\ OutLoad(s) \in Nat /\ QueueLoad(s) \in Nat
            /\ OutLoad(s)' \in Nat /\ QueueLoad(s)' \in Nat
        <5>1. out'[s] \in Seq(Packet) /\ queue'[s] \in QueueOf(Packet) /\ read' \in Seq(Packet)
          BY StepTypeOK DEF TypeOK, PacketsOK
        <5>2. /\ Len(out'[s]) \in Nat /\ Len(queue'[s].packets) \in Nat /\ Len(read') \in Nat
          BY <5>1, LenProperties DEF QueueOf
        <5>3. /\ Decoding(s) \in Nat /\ Decoding(s)' \in Nat
              /\ Reading \in Nat /\ Reading' \in Nat
          BY DEF Decoding, Reading
        <5> QED
          <6>1. OutLoad(s) \in Nat /\ QueueLoad(s) \in Nat
            BY <5>3, LenTypes DEF OutLoad, QueueLoad
          <6>2. OutLoad(s)' \in Nat /\ QueueLoad(s)' \in Nat
            <7>1. OutLoad(s)' = Len(out'[s]) + Decoding(s)'
              BY DEF OutLoad
            <7>2. QueueLoad(s)' = Len(queue'[s].packets) + Reading' + Len(read')
              BY DEF QueueLoad
            <7>3. \A a, b \in Nat : a + b \in Nat
              OBVIOUS
            <7>4. OutLoad(s)' \in Nat
              BY <5>2, <5>3, <7>1, <7>3, Zenon
            <7>5. Len(queue'[s].packets) + Reading' \in Nat
              BY <5>2, <5>3, <7>3, Zenon
            <7> QED
              BY <5>2, <7>2, <7>3, <7>4, <7>5, Zenon
          <6> QED
            BY <6>1, <6>2
      <4> QED
        BY <2>1, <4>1, <4>2 DEF StaleInv, PassedOut, PassedQueue
    <3> QED
      BY <3>1, <3>2
  <2> QED
    BY <1>1, <2>1, <2>2 DEF StaleInv
<1>3. CASE SeekBegins \/ SeekProceeds
  <2>1. \A s \in Stream : PassedOut(s)' /\ PassedQueue(s)'
    BY <1>3, SeekLoad DEF StaleInv
  <2>2. CASE SeekFlushesCodecs
    BY <2>1, <2>2, FlushedLine DEF StaleInv
  <2>3. CASE SeekBegins \/ SeekClears \/ SeekFlushes \/ SeekEnds
    <3>1. epoch' = epoch /\ spc # "codecs"
      BY <2>3 DEF SeekBegins, SeekClears, SeekFlushes, SeekEnds
    <3> QED
      BY <1>1, <2>1, <3>1 DEF StaleInv
  <2>4. CASE SeekFile
    <3>1. spc = "file" /\ (spc' = "codecs" \/ epoch' = epoch)
      BY <2>4 DEF SeekFile
    <3> QED
      BY <1>1, <2>1, <3>1 DEF StaleInv
  <2> QED
    BY <1>3, <2>2, <2>3, <2>4 DEF SeekProceeds
<1>4. CASE UNCHANGED vars
  <2>1. UNCHANGED <<epoch, spc, out, dpc, queue, rpc, read>>
    BY <1>4 DEF vars, seekVars, readerVars, decoderVars
  <2> QED
    BY <1>1, <2>1 DEF StaleInv, PassedOut, PassedQueue, OutLoad, Decoding, QueueLoad, Reading
<1> QED
  BY <1>2, <1>3, <1>4 DEF Next

LEMMA InitStale == Init => StaleInv
<1> SUFFICES ASSUME Init, NEW s \in Stream
             PROVE  PassedOut(s) /\ PassedQueue(s) /\ StaleThree(s)
  BY DEF StaleInv
<1>1. PassedOut(s) /\ PassedQueue(s)
  BY DEF Init, PassedOut, PassedQueue
<1>2. out[s] = <<>> /\ codec[s] = <<>> /\ taken[s] = <<>> /\ queue[s].packets = <<>> /\ InRead(s) = <<>>
  BY DEF Init, EmptyQueue, InRead
<1>3. \A e, k : StaleFirst(<<>>, e, k)
  BY DEF StaleFirst
<1> QED
  BY <1>1, <1>2, <1>3 DEF StaleThree, StaleLine

(* Between two seeks at most three packets of an earlier position are      *)
(* underway in each stream, and they are the first three.                  *)
THEOREM FewStaleAlways == Spec => []FewStale
<1>1. Init => HandsInv /\ LineInv /\ StaleInv
  BY InitHands, InitLine, InitStale
<1>2. TypeOK /\ HandsInv /\ LineInv /\ StaleInv /\ [Next]_vars => HandsInv' /\ LineInv' /\ StaleInv'
  BY StepHands, StepLine, StepStale DEF LineInv, LineKept
<1>3. TypeOK /\ StaleInv => FewStale
  <2> SUFFICES ASSUME TypeOK, StaleInv, spc = "idle", NEW s \in Stream
               PROVE  Cardinality({i \in 1..Len(Underway(s)) : Underway(s)[i].epoch < epoch}) <= 3
    BY DEF FewStale
  <2> DEFINE stale == {i \in 1..Len(Underway(s)) : Underway(s)[i].epoch < epoch}
  <2>1. Underway(s) \in Seq(Packet) /\ StaleFirst(Underway(s), epoch, 3)
    <3>1. StaleLine(out[s], codec[s], taken[s], queue[s].packets, InRead(s), epoch, 3) /\ 3 \in Int
      BY DEF StaleInv, StaleThree
    <3> QED
      BY <3>1, LineTypes, LineIsOne DEF Underway
  <2>2. stale \subseteq 1..3
    BY <2>1, LenProperties DEF StaleFirst
  <2>3. IsFiniteSet(1..3) /\ Cardinality(1..3) = 3
    <3>1. 1 \in Int /\ 3 \in Int /\ ~(1 > 3) /\ 3 - 1 + 1 = 3
      OBVIOUS
    <3>2. IsFiniteSet(1..3) /\ Cardinality(1..3) = IF 1 > 3 THEN 0 ELSE 3 - 1 + 1
      BY <3>1, FS_Interval, Zenon
    <3> QED
      BY <3>1, <3>2, Zenon
  <2> HIDE DEF stale
  <2>4. Cardinality(stale) <= 3
    BY <2>2, <2>3, FS_Subset
  <2> QED
    BY <2>4 DEF stale
<1>4. QED
  BY <1>1, <1>2, <1>3, TypeCorrect, PTL DEF Spec
-----------------------------------------------------------------------------
LEMMA HasConcat ==
  ASSUME NEW x \in Seq(Packet), NEW y \in Seq(Packet), NEW e, NEW n
  PROVE  Has(x \o y, e, n) <=> Has(x, e, n) \/ Has(y, e, n)
  BY EpochConcat

LEMMA LineHas ==
  ASSUME NEW o \in Seq(Packet), NEW c \in Seq(Packet), NEW t \in Seq(Packet),
         NEW q \in Seq(Packet), NEW r \in Seq(Packet), NEW e, NEW n
  PROVE  Has(o \o c \o t \o q \o r, e, n) <=>
           Has(o, e, n) \/ Has(c, e, n) \/ Has(t, e, n) \/ Has(q, e, n) \/ Has(r, e, n)
<1> DEFINE oc == o \o c
           oct == oc \o t
           octq == oct \o q
<1>1. oc \in Seq(Packet) /\ oct \in Seq(Packet) /\ octq \in Seq(Packet)
  BY ConcatProperties
<1>2. o \o c \o t \o q \o r = octq \o r
  OBVIOUS
<1>3. /\ Has(oc, e, n) <=> Has(o, e, n) \/ Has(c, e, n)
      /\ Has(oct, e, n) <=> Has(oc, e, n) \/ Has(t, e, n)
      /\ Has(octq, e, n) <=> Has(oct, e, n) \/ Has(q, e, n)
      /\ Has(octq \o r, e, n) <=> Has(octq, e, n) \/ Has(r, e, n)
  BY <1>1, HasConcat
<1> HIDE DEF oc, oct, octq
<1> QED
  BY <1>2, <1>3, Zenon

LEMMA HasOne ==
  ASSUME NEW p \in Packet, NEW e, NEW n
  PROVE  Has(<<p>>, e, n) <=> p.epoch = e /\ p.no = n
  BY DEF Has

(* A step that leaves the flag down loses no packet of this epoch. *)
LEMMA ReaderKeeps ==
  ASSUME TypeOK, HandsInv, KeptInv, Reader
  PROVE  KeptInv'
<1>0. UNCHANGED <<is_seeking, from, epoch, fed, taken>>
  BY DEF Reader, ReaderTop, ReaderLooks, ReaderDecides, ReaderLocks, ReaderReads, ReaderPuts,
         seekVars, decoderVars
<1> SUFFICES ASSUME ~is_seeking, NEW s \in Stream, NEW n \in from..pos' - 1, Kind[n] = s
             PROVE  Kept(s, n)'
  BY <1>0 DEF KeptInv
<1>1. CASE ReaderTop \/ (\E t \in Stream : ReaderLooks(t)) \/ ReaderDecides \/ ReaderLocks
  <2>1. UNCHANGED <<queue, read, pos>>
    BY <1>1 DEF ReaderTop, ReaderLooks, ReaderDecides, ReaderLocks
  <2> QED
    BY <1>0, <2>1 DEF KeptInv, Kept, InRead
<1>2. CASE ReaderReads
  <2>1. UNCHANGED queue
    BY <1>2 DEF ReaderReads
  <2>2. CASE UNCHANGED <<pos, read>>
    BY <1>0, <2>1, <2>2 DEF KeptInv, Kept, InRead
  <2>3. CASE ~UNCHANGED <<pos, read>>
    <3> DEFINE p == PacketOf(pos, epoch)
    <3>1. rpc = "locked" /\ pos <= FileLen /\ read' = <<p>> /\ pos' = pos + 1
      BY <1>2, <2>3 DEF ReaderReads
    <3>2. p \in Packet /\ p.no = pos /\ p.epoch = epoch /\ pos \in Nat /\ from \in Nat
      <4>1. pos \in 1..FileLen /\ epoch \in 0..MaxSeeks /\ from \in Nat
        BY <3>1, PipelineAssumption DEF TypeOK, FileOK
      <4> QED
        BY <4>1, PacketRead DEF PacketOf
    <3> HIDE DEF p
    <3>3. CASE n = pos
      <4>1. InRead(s)' = <<p>>
        BY <3>1, <3>2, <3>3 DEF InRead
      <4>2. Has(<<p>>, epoch, n)
        BY <3>2, <3>3, HasOne
      <4> QED
        BY <1>0, <4>1, <4>2 DEF Kept
    <3>4. CASE n # pos
      <4>1. Kept(s, n)
        BY <3>1, <3>2, <3>4 DEF KeptInv
      <4>2. ~Has(InRead(s), epoch, n)
        <5>1. InRead(s) = <<>>
          BY <3>1 DEF HandsInv, InRead
        <5> QED
          BY <5>1, EmptySeq DEF Has
      <4> QED
        BY <1>0, <2>1, <4>1, <4>2 DEF Kept
    <3> QED
      BY <3>3, <3>4
  <2> QED
    BY <2>2, <2>3
<1>3. CASE ReaderPuts
  <2>1. UNCHANGED pos
    BY <1>3 DEF ReaderPuts
  <2>2. queue'[s].packets = queue[s].packets \o InRead(s)
    BY <1>3, PutIsConcat
  <2>3. Kept(s, n)
    BY <2>1 DEF KeptInv
  <2>4. Has(queue'[s].packets, epoch, n) <=> Has(queue[s].packets, epoch, n) \/ Has(InRead(s), epoch, n)
    BY <2>2, LineTypes, HasConcat
  <2> QED
    BY <1>0, <2>3, <2>4 DEF Kept
<1> QED
  BY <1>1, <1>2, <1>3 DEF Reader

LEMMA DecoderKeeps ==
  ASSUME TypeOK, HandsInv, KeptInv, NEW t \in Stream, Decoder(t) \/ Consume(t)
  PROVE  KeptInv'
<1>0. UNCHANGED <<is_seeking, from, epoch, pos, read>>
  BY DEF Decoder, Prebuffer, Get, Skip, LockDecoder, Decode, Consume, seekVars, readerVars
<1> SUFFICES ASSUME ~is_seeking, NEW s \in Stream, NEW n \in from..pos - 1, Kind[n] = s, Kept(s, n)
             PROVE  Kept(s, n)'
  BY <1>0 DEF KeptInv
<1>1. /\ taken \in [Stream -> Seq(Packet)] /\ queue \in [Stream -> QueueOf(Packet)]
      /\ fed \in [Stream -> SUBSET (1..FileLen)] /\ InRead(s)' = InRead(s)
  BY <1>0 DEF TypeOK, PacketsOK, FileOK, InRead
<1>2. CASE Prebuffer(t) \/ LockDecoder(t) \/ Consume(t)
  <2>1. UNCHANGED <<taken, queue, fed>>
    BY <1>2 DEF Prebuffer, LockDecoder, Consume, decoderVars
  <2> QED
    BY <1>0, <1>1, <2>1 DEF Kept
<1>3. CASE s # t
  <2>1. taken'[s] = taken[s] /\ queue'[s] = queue[s] /\ fed'[s] = fed[s]
    BY <1>1, <1>3 DEF Decoder, Prebuffer, Get, Skip, LockDecoder, Decode, Consume, decoderVars
  <2> QED
    BY <1>0, <1>1, <2>1 DEF Kept
<1>4. CASE Skip(t)
  BY <1>4 DEF Skip
<1>5. CASE Get(s)
  <2> DEFINE q == queue[s].packets
  <2>1. q # <<>> /\ taken'[s] = <<Head(q)>> /\ queue'[s] = GetPacket(queue[s]) /\ UNCHANGED fed
    BY <1>1, <1>5 DEF Get
  <2>2. queue'[s].packets = Tail(q) /\ taken[s] = <<>>
    BY <1>1, <1>5, <2>1, GetPacketFields DEF Get, HandsInv
  <2>3. q \in Seq(Packet)
    BY LineTypes
  <2> HIDE DEF q
  <2>4. <<Head(q)>> \in Seq(Packet) /\ Tail(q) \in Seq(Packet) /\ q = <<Head(q)>> \o Tail(q)
    BY <2>1, <2>3, SplitHead
  <2>5. Has(q, epoch, n) <=> Has(<<Head(q)>>, epoch, n) \/ Has(Tail(q), epoch, n)
    <3>1. Has(<<Head(q)>> \o Tail(q), epoch, n) <=> Has(<<Head(q)>>, epoch, n) \/ Has(Tail(q), epoch, n)
      BY <2>4, HasConcat
    <3> QED
      BY <2>4, <3>1, Zenon
  <2>6. ~Has(taken[s], epoch, n)
    BY <2>2, EmptySeq DEF Has
  <2> QED
    BY <1>0, <1>1, <2>1, <2>2, <2>5, <2>6 DEF Kept, q
<1>6. CASE Decode(s)
  <2>1. /\ UNCHANGED queue /\ taken'[s] = <<>>
        /\ fed'[s] = IF Head(taken[s]).epoch = epoch THEN fed[s] \cup {Head(taken[s]).no} ELSE fed[s]
    BY <1>1, <1>6 DEF Decode
  <2>2. Head(taken[s]) \in Packet /\ taken[s] = <<Head(taken[s])>>
    <3>1. taken[s] # <<>> /\ Len(taken[s]) <= 1
      BY <1>6 DEF Decode, HandsInv, TypeOK, PacketsOK
    <3> QED
      BY <3>1, LineTypes, SoleItem
  <2>3. Has(taken[s], epoch, n) => n \in fed'[s]
    <3>1. Has(<<Head(taken[s])>>, epoch, n) <=> Head(taken[s]).epoch = epoch /\ Head(taken[s]).no = n
      BY <2>2, HasOne
    <3> QED
      BY <2>1, <2>2, <3>1
  <2>4. n \in fed[s] => n \in fed'[s]
    BY <2>1
  <2> QED
    BY <1>0, <1>1, <2>1, <2>3, <2>4 DEF Kept
<1> QED
  BY <1>2, <1>3, <1>4, <1>5, <1>6 DEF Decoder

LEMMA SeekKeeps ==
  ASSUME TypeOK, HandsInv, KeptInv, SeekBegins \/ SeekProceeds \/ UNCHANGED vars
  PROVE  KeptInv'
<1>1. CASE SeekBegins
  BY <1>1 DEF SeekBegins, KeptInv
<1>2. CASE SeekClears \/ SeekFlushes \/ SeekFlushesCodecs
  BY <1>2 DEF SeekClears, SeekFlushes, SeekFlushesCodecs, HandsInv, KeptInv
<1>3. CASE SeekFile \/ SeekEnds
  <2>1. pos' = from'
    BY <1>3 DEF SeekFile, SeekEnds, HandsInv
  <2>2. pos' \in Int
    BY StepTypeOK, <1>3 DEF Next, SeekProceeds, TypeOK, FileOK
  <2>3. from'..pos' - 1 = {}
    <3>1. \A i \in Int : i..i - 1 = {}
      OBVIOUS
    <3> QED
      BY <2>1, <2>2, <3>1, Zenon
  <2> QED
    BY <2>3 DEF KeptInv
<1>4. CASE UNCHANGED vars
  BY <1>4 DEF vars, seekVars, readerVars, decoderVars, KeptInv, Kept, InRead
<1> QED
  BY <1>1, <1>2, <1>3, <1>4 DEF SeekProceeds

(* From the end of one seek to the beginning of the next no packet is lost *)
(* between the file and the codecs.                                        *)
THEOREM NothingLostAlways == Spec => []NothingLost
<1>1. Init => HandsInv /\ KeptInv
  BY InitHands DEF Init, KeptInv
<1>2. TypeOK /\ HandsInv /\ KeptInv /\ [Next]_vars => HandsInv' /\ KeptInv'
  BY StepHands, ReaderKeeps, DecoderKeeps, SeekKeeps DEF Next
<1>3. TypeOK /\ KeptInv => NothingLost
  <2> SUFFICES ASSUME TypeOK, KeptInv, ~is_seeking, NEW s \in Stream, NEW n \in from..pos - 1,
                      Kind[n] = s, n \notin fed[s]
               PROVE  n \in InHand(s)
    BY DEF NothingLost
  <2>1. Kept(s, n)
    BY DEF KeptInv
  <2>2. Has(Underway(s), epoch, n)
    <3>1. 3 \in Int
      OBVIOUS
    <3>2. Has(Underway(s), epoch, n) <=>
            \/ Has(out[s], epoch, n) \/ Has(codec[s], epoch, n) \/ Has(taken[s], epoch, n)
            \/ Has(queue[s].packets, epoch, n) \/ Has(InRead(s), epoch, n)
      <4> DEFINE o == out[s]
                 c == codec[s]
                 t == taken[s]
                 q == queue[s].packets
                 r == InRead(s)
      <4>1. o \in Seq(Packet) /\ c \in Seq(Packet) /\ t \in Seq(Packet) /\ q \in Seq(Packet) /\ r \in Seq(Packet)
        BY LineTypes
      <4>2. Underway(s) = o \o c \o t \o q \o r
        BY DEF Underway
      <4> HIDE DEF o, c, t, q, r
      <4>3. Has(o \o c \o t \o q \o r, epoch, n) <=>
              Has(o, epoch, n) \/ Has(c, epoch, n) \/ Has(t, epoch, n) \/ Has(q, epoch, n) \/ Has(r, epoch, n)
        BY <4>1, LineHas
      <4> QED
        BY <4>2, <4>3, Zenon DEF o, c, t, q, r
    <3> QED
      BY <2>1, <3>2 DEF Kept
  <2> QED
    BY <2>2 DEF Has, InHand
<1>4. QED
  BY <1>1, <1>2, <1>3, TypeCorrect, PTL DEF Spec
=============================================================================
