------------------------------ MODULE Pipeline ------------------------------
(***************************************************************************)
(* HFFPlayer between open and close: the thread that reads packets         *)
(* (readTask), the two that decode them (doTask and audioTask), the two    *)
(* packet queues between them, and the GUI thread, which shows frames and  *)
(* seeks.                                                                  *)
(*                                                                         *)
(* format_mutex guards the file, decoder_mutex both codecs; a thread holds *)
(* them in the places FormatLocked and DecoderLocked name.  The queues'    *)
(* own operations are the critical sections PacketQueueOps defines.        *)
(*                                                                         *)
(* The file is a sequence of FileLen packets of known streams and sizes.   *)
(* The epoch counts successful seeks: what was read before the last of     *)
(* them is stale.  The 15 MB and the 100 packets of the watermark, and the *)
(* 10 packets of the prebuffer, are constants.                             *)
(***************************************************************************)
EXTENDS PacketQueueOps, FiniteSets

CONSTANTS
  FileLen,        \* packets in the file (bound)
  Kind,           \* the stream of each: "video", "audio" or "other"
  PktSize,        \* the size of each
  HasAudio,       \* the file has an audio stream
  SeekPoints,     \* positions a seek may lead to (the key frames)
  MaxSeeks,       \* how often the user seeks (bound)
  MaxQueue,       \* MAX_QUEUE_SIZE
  MaxBytes,       \* MAX_QUEUE_BYTES
  MinPrebuffer,   \* MIN_PREBUFFER_PACKETS
  CodecDelay,     \* packets a codec takes before its first frame comes out
  FrameCache      \* frames the frame cache holds

Stream == {"video", "audio"}

ASSUME PipelineAssumption ==
  /\ FileLen \in Nat /\ MaxSeeks \in Nat /\ MaxQueue \in Nat /\ MaxBytes \in Nat
  /\ MinPrebuffer \in Nat /\ CodecDelay \in Nat
  /\ FrameCache \in Nat \ {0}
  /\ HasAudio \in BOOLEAN
  /\ Kind \in [1..FileLen -> Stream \cup {"other"}]
  /\ PktSize \in [1..FileLen -> Nat]
  /\ SeekPoints \subseteq 1..FileLen

PacketOf(n, e) == [no |-> n, epoch |-> e, size |-> PktSize[n], duration |-> 0]
Packet == {PacketOf(n, e) : n \in 1..FileLen, e \in 0..MaxSeeks}

VARIABLES
  pos,            \* the position of fmt_ctx: the packet read next
  epoch,          \* history: successful seeks
  from,           \* history: the position at the end of the last seek
  is_seeking,
  spc,            \* where seek is
  seeks,          \* seeks so far
  rpc,            \* where readTask is
  enough,         \* its video_enough and audio_enough
  read,           \* the packet it holds, in a sequence of at most one
  queue,          \* the two packet queues
  dpc,            \* where each decoding thread is
  prebuffered,
  taken,          \* the packet each holds, in a sequence of at most one
  codec,          \* the packets each codec has taken and not yet given back
  out,            \* video_'s frame cache and audio_.frame_queue
  fed             \* history: packets of this epoch given to each codec

readerVars == <<rpc, enough, read>>
decoderVars == <<dpc, prebuffered, taken, fed>>
seekVars == <<epoch, from, is_seeking, spc, seeks>>
vars == <<pos, seekVars, readerVars, queue, decoderVars, codec, out>>

FormatLocked == rpc \in {"yield", "locked"}
DecoderLocked == \E s \in Stream : dpc[s] = "decode"

(* video_enough and audio_enough live as long as one pass of the loop. *)
Unseen == [s \in Stream |-> FALSE]

Init ==
  /\ pos = 1 /\ epoch = 0 /\ from = 1
  /\ is_seeking = FALSE /\ spc = "idle" /\ seeks = 0
  /\ rpc = "top" /\ enough = Unseen /\ read = <<>>
  /\ queue = [s \in Stream |-> EmptyQueue]
  /\ dpc = [s \in Stream |-> "idle"]
  /\ prebuffered = [s \in Stream |-> FALSE]
  /\ taken = [s \in Stream |-> <<>>]
  /\ codec = [s \in Stream |-> <<>>]
  /\ out = [s \in Stream |-> <<>>]
  /\ fed = [s \in Stream |-> {}]
-----------------------------------------------------------------------------
(* readTask.  Its msleep(10) and the continue after it are "not yet". *)

ReaderTop ==
  /\ rpc = "top"
  /\ ~is_seeking
  /\ rpc' = "video"
  /\ UNCHANGED <<pos, seekVars, enough, read, queue, decoderVars, codec, out>>

(* Mutant of Enough: one packet late, and the bytes are not looked at. *)
EnoughPackets(s) ==
  \/ s = "audio" /\ ~HasAudio
  \/ queue[s].nb_packets > MaxQueue + 1

(* One queue's packets and bytes against the high watermark.  The code     *)
(* reads the packets and, later, the bytes; the queue only shrinks between *)
(* the two, so a look at one of the two moments gives the same decision.   *)
Enough(s) ==
  \/ s = "audio" /\ ~HasAudio
  \/ queue[s].nb_packets > MaxQueue
  \/ queue[s].size > MaxBytes

ReaderLooks(s) ==
  /\ rpc = s
  /\ enough' = [enough EXCEPT ![s] = Enough(s)]
  /\ rpc' = IF s = "video" THEN "audio" ELSE "decide"
  /\ UNCHANGED <<pos, seekVars, read, queue, decoderVars, codec, out>>

(* video_enough && audio_enough.  paused_by_queue and the low watermark    *)
(* that clears it reach nothing but the log.                               *)
ReaderDecides ==
  /\ rpc = "decide"
  /\ IF \A s \in Stream : enough[s]
     THEN rpc' = "top" /\ enough' = Unseen
     ELSE rpc' = "lock" /\ UNCHANGED enough
  /\ UNCHANGED <<pos, seekVars, read, queue, decoderVars, codec, out>>

(* Mutant of ReaderLocks: no second look. *)
ReaderLocksBlindly ==
  /\ rpc = "lock"
  /\ rpc' = "locked"
  /\ UNCHANGED <<pos, seekVars, enough, read, queue, decoderVars, codec, out>>

(* The lock and the second look at is_seeking, after which readTask sleeps *)
(* with the lock held.                                                     *)
ReaderLocks ==
  /\ rpc = "lock"
  /\ rpc' = IF is_seeking THEN "yield" ELSE "locked"
  /\ UNCHANGED <<pos, seekVars, enough, read, queue, decoderVars, codec, out>>

(* av_read_frame, and the unlock: a packet, the end, or EAGAIN (an error   *)
(* posts an event and changes nothing here).                               *)
ReaderReads ==
  /\ \/ /\ rpc = "locked" /\ pos <= FileLen
        /\ read' = <<PacketOf(pos, epoch)>>
        /\ pos' = pos + 1
        /\ rpc' = "put"
        /\ UNCHANGED enough
     \/ FormatLocked /\ rpc' = "top" /\ enough' = Unseen /\ UNCHANGED <<pos, read>>
  /\ UNCHANGED <<seekVars, queue, decoderVars, codec, out>>

(* The packet goes to its stream's queue; one of another stream is freed.  *)
ReaderPuts ==
  /\ rpc = "put"
  /\ queue' = [s \in Stream |-> IF Kind[Head(read).no] = s
                                THEN PutPacket(queue[s], Head(read)) ELSE queue[s]]
  /\ read' = <<>>
  /\ rpc' = "top" /\ enough' = Unseen
  /\ UNCHANGED <<pos, seekVars, decoderVars, codec, out>>

Reader ==
  \/ ReaderTop \/ (\E s \in Stream : ReaderLooks(s)) \/ ReaderDecides
  \/ ReaderLocks \/ ReaderReads \/ ReaderPuts
-----------------------------------------------------------------------------
(* doTask and audioTask. *)

(* Mutant of Prebuffer: one packet more. *)
PrebufferMore(s) ==
  /\ dpc[s] = "idle" /\ ~prebuffered[s]
  /\ queue[s].nb_packets > MinPrebuffer
  /\ prebuffered' = [prebuffered EXCEPT ![s] = TRUE]
  /\ UNCHANGED <<pos, seekVars, readerVars, queue, dpc, taken, fed, codec, out>>

(* queue_size < MIN_PREBUFFER_PACKETS is tested until it is false once. *)
Prebuffer(s) ==
  /\ dpc[s] = "idle" /\ ~prebuffered[s]
  /\ queue[s].nb_packets >= MinPrebuffer
  /\ prebuffered' = [prebuffered EXCEPT ![s] = TRUE]
  /\ UNCHANGED <<pos, seekVars, readerVars, queue, dpc, taken, fed, codec, out>>

(* Mutant of Get: the last packet is left in the queue. *)
GetAllButLast(s) ==
  /\ dpc[s] = "idle" /\ prebuffered[s]
  /\ queue[s].nb_packets > 1
  /\ taken' = [taken EXCEPT ![s] = <<Head(queue[s].packets)>>]
  /\ queue' = [queue EXCEPT ![s] = GetPacket(@)]
  /\ dpc' = [dpc EXCEPT ![s] = "got"]
  /\ UNCHANGED <<pos, seekVars, readerVars, prebuffered, fed, codec, out>>

Get(s) ==
  /\ dpc[s] = "idle" /\ prebuffered[s]
  /\ queue[s].packets # <<>>
  /\ taken' = [taken EXCEPT ![s] = <<Head(queue[s].packets)>>]
  /\ queue' = [queue EXCEPT ![s] = GetPacket(@)]
  /\ dpc' = [dpc EXCEPT ![s] = "got"]
  /\ UNCHANGED <<pos, seekVars, readerVars, prebuffered, fed, codec, out>>

(* Mutant of Skip: the packet is given up, but the function goes on. *)
SkipGoesOn(s) ==
  /\ dpc[s] \in {"got", "lock"}
  /\ is_seeking
  /\ dpc[s] = "lock" => ~DecoderLocked
  /\ taken' = [taken EXCEPT ![s] = <<>>]
  /\ UNCHANGED <<pos, seekVars, readerVars, queue, dpc, prebuffered, fed, codec, out>>

(* processVideoPacket and processAudioPacket give the packet up when they  *)
(* see is_seeking before the lock ...                                      *)
Skip(s) ==
  /\ dpc[s] \in {"got", "lock"}
  /\ is_seeking
  /\ dpc[s] = "lock" => ~DecoderLocked
  /\ taken' = [taken EXCEPT ![s] = <<>>]
  /\ dpc' = [dpc EXCEPT ![s] = "idle"]
  /\ UNCHANGED <<pos, seekVars, readerVars, queue, prebuffered, fed, codec, out>>

(* ... and when they see it after the lock. *)
LockDecoder(s) ==
  /\ ~is_seeking
  /\ \/ dpc[s] = "got" /\ dpc' = [dpc EXCEPT ![s] = "lock"]
     \/ dpc[s] = "lock" /\ ~DecoderLocked /\ dpc' = [dpc EXCEPT ![s] = "decode"]
  /\ UNCHANGED <<pos, seekVars, readerVars, queue, prebuffered, taken, fed, codec, out>>

(* push_frame squeezes the oldest frame out of a full cache; the audio     *)
(* queue has no limit.                                                     *)
Push(s, frame) ==
  IF s = "video" /\ Len(out[s]) >= FrameCache
  THEN Append(Tail(out[s]), frame) ELSE Append(out[s], frame)

(* With the lock held: send the packet, receive a frame if one is ready,   *)
(* wait for its time (video), push it, unlock.                             *)
Decode(s) ==
  /\ dpc[s] = "decode"
  /\ LET sent == Append(codec[s], Head(taken[s]))
     IN IF Len(sent) > CodecDelay
        THEN /\ codec' = [codec EXCEPT ![s] = Tail(sent)]
             /\ out' = [out EXCEPT ![s] = Push(s, Head(sent))]
        ELSE codec' = [codec EXCEPT ![s] = sent] /\ UNCHANGED out
  /\ fed' = IF Head(taken[s]).epoch = epoch
            THEN [fed EXCEPT ![s] = @ \cup {Head(taken[s]).no}] ELSE fed
  /\ taken' = [taken EXCEPT ![s] = <<>>]
  /\ dpc' = [dpc EXCEPT ![s] = "idle"]
  /\ UNCHANGED <<pos, seekVars, readerVars, queue, prebuffered>>

Decoder(s) == Prebuffer(s) \/ Get(s) \/ Skip(s) \/ LockDecoder(s) \/ Decode(s)
-----------------------------------------------------------------------------
(* What comes out. *)

(* The GUI thread's timer pops a frame; the audio callback pops a buffer,  *)
(* but not while is_seeking.                                               *)
Consume(s) ==
  /\ out[s] # <<>>
  /\ IF s = "video" THEN spc = "idle" ELSE ~is_seeking
  /\ out' = [out EXCEPT ![s] = Tail(@)]
  /\ UNCHANGED <<pos, seekVars, readerVars, queue, decoderVars, codec>>
-----------------------------------------------------------------------------
(* seek(), in the GUI thread. *)

(* Mutant of SeekBegins: is_seeking is not set. *)
SeekBeginsUnannounced ==
  /\ spc = "idle"
  /\ seeks < MaxSeeks
  /\ seeks' = seeks + 1
  /\ spc' = "clearVideo"
  /\ UNCHANGED <<pos, epoch, from, is_seeking, readerVars, queue, decoderVars, codec, out>>

SeekBegins ==
  /\ spc = "idle"
  /\ seeks < MaxSeeks
  /\ seeks' = seeks + 1
  /\ is_seeking' = TRUE
  /\ spc' = "clearVideo"
  /\ UNCHANGED <<pos, epoch, from, readerVars, queue, decoderVars, codec, out>>

(* clear_frame_cache, and later the same for the audio frames. *)
SeekClears ==
  /\ \/ spc = "clearVideo" /\ spc' = "flushVideo" /\ out' = [out EXCEPT !["video"] = <<>>]
     \/ spc = "clearAudio" /\ spc' = "file" /\ out' = [out EXCEPT !["audio"] = <<>>]
  /\ UNCHANGED <<pos, epoch, from, is_seeking, seeks, readerVars, queue, decoderVars,
                 codec>>

(* Mutant of SeekFlushes: the video queue is forgotten. *)
SeekFlushesAudio ==
  /\ \/ spc = "flushVideo" /\ spc' = "flushAudio" /\ UNCHANGED queue
     \/ /\ spc = "flushAudio" /\ spc' = "clearAudio"
        /\ queue' = [queue EXCEPT !["audio"] = FlushQueue(@)]
  /\ UNCHANGED <<pos, epoch, from, is_seeking, seeks, readerVars, decoderVars, codec, out>>

(* packet_queue_flush, the one queue and then the other. *)
SeekFlushes ==
  /\ \/ /\ spc = "flushVideo" /\ spc' = "flushAudio"
        /\ queue' = [queue EXCEPT !["video"] = FlushQueue(@)]
     \/ /\ spc = "flushAudio" /\ spc' = "clearAudio"
        /\ queue' = [queue EXCEPT !["audio"] = FlushQueue(@)]
  /\ UNCHANGED <<pos, epoch, from, is_seeking, seeks, readerVars, decoderVars, codec, out>>

(* av_seek_frame with format_mutex held; when both tries fail, seek clears *)
(* the flag and returns.                                                   *)
SeekFile ==
  /\ spc = "file"
  /\ ~FormatLocked
  /\ \/ /\ \E p \in SeekPoints : pos' = p
        /\ epoch' = epoch + 1
        /\ spc' = "codecs"
        /\ UNCHANGED is_seeking
     \/ /\ UNCHANGED <<pos, epoch>>
        /\ is_seeking' = FALSE
        /\ spc' = "idle"
  /\ from' = pos'
  /\ fed' = [s \in Stream |-> {}]
  /\ UNCHANGED <<seeks, readerVars, queue, dpc, prebuffered, taken, codec, out>>

(* flushDecoders with decoder_mutex held. *)
SeekFlushesCodecs ==
  /\ spc = "codecs"
  /\ ~DecoderLocked
  /\ codec' = [s \in Stream |-> <<>>]
  /\ spc' = "end"
  /\ UNCHANGED <<pos, epoch, from, is_seeking, seeks, readerVars, queue, decoderVars, out>>

SeekEnds ==
  /\ spc = "end"
  /\ is_seeking' = FALSE
  /\ spc' = "idle"
  /\ UNCHANGED <<pos, epoch, from, seeks, readerVars, queue, decoderVars, codec, out>>

SeekProceeds == SeekClears \/ SeekFlushes \/ SeekFile \/ SeekFlushesCodecs \/ SeekEnds
-----------------------------------------------------------------------------
Next ==
  \/ Reader
  \/ \E s \in Stream : Decoder(s) \/ Consume(s)
  \/ SeekBegins \/ SeekProceeds

Spec == Init /\ [][Next]_vars

(* The threads are scheduled; a free mutex is taken by some thread that    *)
(* waits for it, but by none in particular.  Nobody need seek or consume.  *)
FairSpec ==
  /\ Spec
  /\ WF_vars(Reader)
  /\ \A s \in Stream : WF_vars(Decoder(s))
  /\ WF_vars(SeekProceeds)
-----------------------------------------------------------------------------
BeforeFile == {"clearVideo", "flushVideo", "flushAudio", "clearAudio", "file"}

FileOK ==
  /\ pos \in 1..FileLen + 1 /\ from \in 1..FileLen + 1
  /\ epoch \in Nat /\ seeks \in 0..MaxSeeks
  /\ epoch <= seeks /\ (spc \in BeforeFile => epoch < seeks)
  /\ fed \in [Stream -> SUBSET (1..FileLen)]

FlagsOK ==
  /\ is_seeking \in BOOLEAN
  /\ enough \in [Stream -> BOOLEAN]
  /\ prebuffered \in [Stream -> BOOLEAN]

PlacesOK ==
  /\ spc \in BeforeFile \cup {"idle", "codecs", "end"}
  /\ rpc \in {"top", "video", "audio", "decide", "lock", "yield", "locked", "put"}
  /\ dpc \in [Stream -> {"idle", "got", "lock", "decode"}]

(* A thread holds a packet in the places where it goes on to use one. *)
PacketsOK ==
  /\ read \in Seq(Packet)
  /\ rpc = "put" => read # <<>>
  /\ queue \in [Stream -> QueueOf(Packet)]
  /\ taken \in [Stream -> Seq(Packet)]
  /\ \A s \in Stream : dpc[s] # "idle" => taken[s] # <<>>
  /\ codec \in [Stream -> Seq(Packet)]
  /\ out \in [Stream -> Seq(Packet)]

(* Every variable has the shape the code gives it. *)
TypeOK == FileOK /\ FlagsOK /\ PlacesOK /\ PacketsOK

(* A queue without its last packet is at or below the high watermark.      *)
Bounded(s) ==
  LET q == queue[s]
  IN q.packets = <<>> \/ /\ q.nb_packets - 1 <= MaxQueue
                         /\ q.size - q.packets[Len(q.packets)].size <= MaxBytes

(* hffplayer.cpp:1511: "audio and video queue are judged apart; if any of   *)
(* them reaches the high mark, reading pauses".  The code pauses when both  *)
(* do (1519), and a queue whose decoder is the slower one grows.            *)
EachQueueBounded == \A s \in Stream : Bounded(s)

(* What the watermark does bound: one of the queues, if not both, which is  *)
(* less than the code's comment says (EachQueueBounded).  readTask looks at *)
(* them one after the other and reads long after the look, while the        *)
(* decoders and seek change them.                                           *)
OneQueueBounded == \E s \in Stream : (s = "audio" => HasAudio) /\ Bounded(s)

(* What readTask holds, if it is for stream s. *)
InRead(s) == IF read # <<>> /\ Kind[Head(read).no] = s THEN read ELSE <<>>

(* Everything of stream s on its way from the file to the screen or the     *)
(* loudspeaker, the oldest first.                                           *)
Underway(s) == out[s] \o codec[s] \o taken[s] \o queue[s].packets \o InRead(s)

Before(p1, p2) == p1.epoch < p2.epoch \/ (p1.epoch = p2.epoch /\ p1.no < p2.no)

(* Nothing overtakes: neither a packet of the position before a seek one    *)
(* from after it, nor two packets of the same run of the file, although     *)
(* five threads' hands, queues and codecs are emptied one by one.           *)
NothingOvertakes ==
  \A s \in Stream :
    LET line == Underway(s)
    IN \A i, j \in 1..Len(line) : i < j => Before(line[i], line[j])

InHand(s) == {p.no : p \in {line \in {Underway(s)[i] : i \in 1..Len(Underway(s))} :
                               line.epoch = epoch}}

(* From the end of one seek to the beginning of the next no packet is lost: *)
(* each that was read since is still underway or went to its codec.  A seek *)
(* that clears its flag before it has emptied the queues, or a reader that  *)
(* does not look at it again under the lock, would lose the first of them.  *)
NothingLost ==
  ~is_seeking =>
    \A s \in Stream : \A n \in from..pos - 1 :
      Kind[n] = s => n \in fed[s] \cup InHand(s)

(* How much of the old position a seek can leave behind in each stream: the *)
(* frame a decoder was just finishing, the packet it took before the queue  *)
(* was emptied, and the packet readTask had read.                           *)
FewStale ==
  spc = "idle" =>
    \A s \in Stream :
      Cardinality({i \in 1..Len(Underway(s)) : Underway(s)[i].epoch < epoch}) <= 3

(* A seek ends, although the reader and both decoders keep taking the locks *)
(* it needs: is_seeking turns each of them away from the second time on.    *)
SeekReturns == spc # "idle" ~> spc = "idle"

(* Not prebuffered, and too few packets in the queue to become so.          *)
TooFew(s) == ~prebuffered[s] /\ queue[s].nb_packets < MinPrebuffer

(* After the end of the file was read, every packet of either stream since  *)
(* the last seek goes to its codec, unless the next seek comes first.  The  *)
(* exception is a stream that was not prebuffered when nothing is left to   *)
(* read: a file, or a rest of one after a seek, with fewer packets than     *)
(* MIN_PREBUFFER_PACKETS stays in its queue for ever.  What the codecs give *)
(* back is another matter: the frames of the last CodecDelay packets never  *)
(* come out, as nobody drains a codec at the end.                           *)
EndReachesCodecs ==
  pos > FileLen /\ ~is_seeking ~>
    \/ is_seeking
    \/ \A s \in Stream :
         \/ \A n \in from..FileLen : Kind[n] = s => n \in fed[s]
         \/ pos > FileLen /\ read = <<>> /\ TooFew(s)

(* Two full queues do not stay full: some decoder or a seek empties them,   *)
(* and readTask goes on.  The exception is a standstill: packets so large   *)
(* that they pass MAX_QUEUE_BYTES before they are MIN_PREBUFFER_PACKETS, so *)
(* that readTask waits for the decoders and they for it.                    *)
ReadingGoesOn ==
  (\A s \in Stream : Enough(s)) ~>
    (\E s \in Stream : ~Enough(s)) \/ (\A s \in Stream : TooFew(s))
=============================================================================
