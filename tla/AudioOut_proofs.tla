--------------------------- MODULE AudioOut_proofs ---------------------------
(***************************************************************************)
(* For frames of any sizes, a device that wants any number of bytes, and   *)
(* any number of frames, seeks and sessions: the callback leaves the play  *)
(* buffer only in the two ways that are named, one old frame at most is    *)
(* left in the queue after a seek, the clock is that of the sound, and     *)
(* between two seeks every byte is heard once and in order.                *)
(***************************************************************************)
EXTENDS AudioOut, SequenceTheorems, TLAPS

Seeking == {"index", "size", "file", "codecs", "end"}

(* Where a seek can be, and how many epochs there still are. *)
EpochInv ==
  /\ epoch <= MaxEpochs
  /\ spc \in {"clear", "index", "size", "file"} => epoch < MaxEpochs
  /\ spc # "idle" => opened /\ ~quit
  /\ spc # "idle" => is_seeking
  /\ ~opened => decoding = <<>> /\ frame_queue = <<>> /\ play_buf = <<>>

(* What the callback knows of the frame in the play buffer at each place,  *)
(* whatever seek does to index and size meanwhile: only len1 may be        *)
(* negative.                                                               *)
FrameInv ==
  play_buf # <<>> =>
    LET n == play_buf[1].size
    IN /\ cpc # "crashed" => n <= play_buf[1].cap
       /\ cpc = "setSize" => reg = n
       /\ cpc \notin {"setSize", "crashed"} => play_buf_size \in {0, n}
       /\ cpc \notin {"setSize", "clock", "reset", "crashed"} => play_buf_index \in 0 .. n
       /\ cpc = "index" => reg \in {0, n}
       /\ cpc \in {"copy", "add"} => len1 <= n /\ play_buf_index + len1 <= n
       /\ cpc = "add" => len1 >= 0
       /\ cpc = "store" => reg \in 0 .. n

(* What it knows of a call that no seek has disturbed. *)
CallInv ==
  /\ cpc = "setSize" => reg > 0
  /\ cpc = "clock" => play_buf # <<>>
  /\ cpc \in {"copy", "add", "store"} => len1 <= len
  /\ ~disturbed =>
       /\ cpc # "idle" => len <= StreamLen
       /\ cpc \in {"clock", "reset"} => play_buf_size > 0
       /\ cpc = "size" => play_buf_index <= play_buf_size
       /\ cpc = "index" => play_buf_index <= reg
       /\ cpc \in {"copy", "add", "store"} => len1 >= 0

(* Old frames are at the head of the queue only, and decoded before any    *)
(* new one.                                                                *)
OldInv ==
  /\ Len(decoding) <= 1
  /\ spc \in Seeking => Len(frame_queue) + Len(decoding) <= 1
  /\ \A i \in 1 .. Len(frame_queue) : i # 1 => frame_queue[i].epoch >= epoch
  /\ decoding # <<>> /\ decoding[1].epoch < epoch => frame_queue = <<>>

(* New frames appear only when flushDecoders has reset the clock, and when *)
(* one is in the play buffer nothing old is left that could set the clock. *)
NewInv ==
  /\ \A i \in 1 .. Len(frame_queue) : frame_queue[i].epoch <= epoch
  /\ decoding # <<>> => decoding[1].epoch <= epoch
  /\ play_buf # <<>> => play_buf[1].epoch <= epoch
  /\ heard.epoch \in Nat /\ heard.epoch <= epoch
  /\ spc \in {"codecs", "end"} =>
       /\ \A i \in 1 .. Len(frame_queue) : frame_queue[i].epoch # epoch
       /\ decoding # <<>> => decoding[1].epoch # epoch
       /\ play_buf # <<>> => play_buf[1].epoch # epoch
       /\ heard.epoch # epoch

NewHeard == heard.epoch = epoch \/ (play_buf # <<>> /\ play_buf[1].epoch = epoch)

ClockInv ==
  /\ ClockOfTheSound
  /\ NewHeard =>
       /\ \A i \in 1 .. Len(frame_queue) : frame_queue[i].epoch = epoch
       /\ decoding # <<>> => decoding[1].epoch = epoch
       /\ play_buf # <<>> => play_buf[1].epoch = epoch
  /\ play_buf # <<>> /\ play_buf[1].epoch = epoch
       /\ cpc \notin {"setSize", "clock", "crashed"} => audio_clock = epoch

(* Pushing a frame adds it at the end. *)
LEMMA Pushed ==
  ASSUME NEW S, NEW q \in Seq(S), NEW d \in Seq(S), Len(d) = 1
  PROVE  /\ q \o d \in Seq(S)
         /\ Len(q \o d) = Len(q) + 1
         /\ \A i \in 1 .. Len(q) : (q \o d)[i] = q[i]
         /\ (q \o d)[Len(q) + 1] = d[1]
<1>1. Len(d) \in Nat /\ Len(q) \in Nat /\ Len(q) + 1 \in Len(q) + 1 .. Len(q) + Len(d)
  BY LenProperties
<1>2. /\ q \o d \in Seq(S) /\ Len(q \o d) = Len(q) + Len(d)
      /\ \A i \in 1 .. Len(q) + Len(d) : (q \o d)[i] = IF i <= Len(q) THEN q[i] ELSE d[i - Len(q)]
  BY ConcatProperties
<1> QED
  BY <1>1, <1>2

(* Popping one takes it from the front. *)
LEMMA Popped ==
  ASSUME NEW S, NEW q \in Seq(S), q # <<>>
  PROVE  /\ Tail(q) \in Seq(S)
         /\ Len(q) >= 1 /\ Len(Tail(q)) = Len(q) - 1
         /\ \A i \in 1 .. Len(q) - 1 : Tail(q)[i] = q[i + 1]
         /\ Head(q) = q[1] /\ q[1] \in S
BY HeadTailProperties, EmptySeq, LenProperties

(* What the invariants need to know of the shape of the values. *)
Shapes ==
  /\ is_seeking \in BOOLEAN /\ epoch \in Nat \ {0} /\ made \in 0 .. MaxFrames
  /\ Len(decoding) \in Nat /\ Len(frame_queue) \in Nat
  /\ decoding # <<>> => Len(decoding) >= 1 /\ decoding[1].epoch \in Nat
  /\ Len(decoding) = 0 => decoding = <<>>
  /\ frame_queue = <<>> <=> Len(frame_queue) = 0
  /\ \A i \in 1 .. Len(frame_queue) : frame_queue[i].epoch \in Nat
  /\ play_buf # <<>> => /\ play_buf[1].epoch \in Nat
                        /\ play_buf[1].size \in Nat \ {0} /\ play_buf[1].cap \in Nat
  /\ play_buf_size \in Nat /\ play_buf_index \in Int
  /\ len \in Nat /\ len1 \in Int /\ reg \in Int
  /\ audio_clock \in Nat

LEMMA TypeGivesShapes ==
  ASSUME TypeOK
  PROVE  Shapes
<1> USE AudioAssumption
<1>0. MaxEpochs \in Nat /\ Sizes \subseteq Nat \ {0}
  OBVIOUS
<1>1. \A q \in Seq(Frame) : /\ Len(q) \in Nat /\ (q = <<>> <=> Len(q) = 0)
                             /\ \A i \in 1 .. Len(q) : q[i] \in Frame
  BY EmptySeq, LenProperties, ElementOfSeq
<1>2. decoding \in Seq(Frame) /\ frame_queue \in Seq(Frame)
  BY DEF TypeOK
<1>3. \A f \in Frame : f.epoch \in Nat
  BY DEF Frame
<1>4. play_buf # <<>> => /\ play_buf[1].epoch \in Nat
                        /\ play_buf[1].size \in Nat \ {0} /\ play_buf[1].cap \in Nat
  <2> SUFFICES ASSUME play_buf # <<>>
               PROVE  /\ play_buf[1].epoch \in Nat
                      /\ play_buf[1].size \in Nat \ {0} /\ play_buf[1].cap \in Nat
    OBVIOUS
  <2> DEFINE b == play_buf[1]
  <2>1. b \in [epoch : 1 .. MaxEpochs, no : 1 .. MaxFrames, size : Sizes, cap : Sizes]
    BY DEF TypeOK
  <2> HIDE DEF b
  <2>2. b.epoch \in 1 .. MaxEpochs /\ b.size \in Sizes /\ b.cap \in Sizes
    BY <2>1
  <2>3. b.epoch \in Nat /\ b.size \in Nat \ {0} /\ b.cap \in Nat
    <3>1. b.epoch \in Nat  BY <1>0, <2>2
    <3>2. b.size \in Nat \ {0}  BY <1>0, <2>2
    <3>3. b.cap \in Nat  BY <1>0, <2>2
    <3> QED  BY <3>1, <3>2, <3>3
  <2> QED  BY <2>3 DEF b
<1>5. /\ is_seeking \in BOOLEAN /\ epoch \in Nat \ {0} /\ made \in 0 .. MaxFrames
      /\ play_buf_size \in Nat /\ play_buf_index \in Int
      /\ len \in Nat /\ len1 \in Int /\ reg \in Int /\ audio_clock \in Nat
  BY DEF TypeOK
<1> QED
  BY <1>1, <1>2, <1>3, <1>4, <1>5 DEF Shapes

(* The queue after a push. *)
LEMMA PushAdds ==
  ASSUME TypeOK, OldInv, PushFrame
  PROVE  /\ frame_queue' \in Seq(Frame) /\ decoding[1] \in Frame
         /\ Len(frame_queue') = Len(frame_queue) + 1
         /\ \A i \in 1 .. Len(frame_queue) : frame_queue'[i] = frame_queue[i]
         /\ frame_queue'[Len(frame_queue) + 1] = decoding[1]
<1>1. decoding \in Seq(Frame) /\ frame_queue \in Seq(Frame)
  BY DEF TypeOK
<1>2. Len(decoding) = 1
  <2>1. Len(decoding) \in Nat /\ (Len(decoding) = 0 => decoding = <<>>)
    BY <1>1, EmptySeq, LenProperties
  <2>2. decoding # <<>> /\ Len(decoding) <= 1
    BY DEF PushFrame, OldInv
  <2> QED  BY <2>1, <2>2 
<1>3. decoding[1] \in Frame
  BY <1>1, <1>2, ElementOfSeq
<1> QED
  BY <1>1, <1>2, <1>3, Pushed DEF PushFrame

(* The queue and the play buffer after a pop. *)
LEMMA PopTakes ==
  ASSUME TypeOK, CallbackPops, NextFrame
  PROVE  /\ frame_queue' \in Seq(Frame) /\ frame_queue[1] \in Frame
         /\ Len(frame_queue) >= 1 /\ Len(frame_queue') = Len(frame_queue) - 1
         /\ \A i \in 1 .. Len(frame_queue') :
               frame_queue'[i] = frame_queue[i + 1] /\ i + 1 \in 2 .. Len(frame_queue)
         /\ play_buf' # <<>>
         /\ play_buf'[1] \in [epoch : 1 .. MaxEpochs, no : 1 .. MaxFrames, size : Sizes, cap : Sizes]
         /\ play_buf'[1].epoch = frame_queue[1].epoch
         /\ play_buf'[1].no = frame_queue[1].no
         /\ play_buf'[1].size = frame_queue[1].size
         /\ reg' = frame_queue[1].size /\ reg' \in Nat \ {0}
         /\ cpc = "pop"
         /\ cpc' = IF play_buf'[1].size <= play_buf'[1].cap THEN "setSize" ELSE "crashed"
         /\ UNCHANGED <<opened, quit, is_seeking, spc, epoch, made, decoding, len, len1,
                        play_buf_size, play_buf_index, audio_clock, heard, disturbed>>
<1> USE AudioAssumption
<1>1. frame_queue \in Seq(Frame) /\ frame_queue # <<>> /\ frame_queue' = Tail(frame_queue)
  BY DEF TypeOK, NextFrame
<1>2. /\ frame_queue' \in Seq(Frame) /\ frame_queue[1] \in Frame /\ Head(frame_queue) = frame_queue[1]
      /\ Len(frame_queue) >= 1 /\ Len(frame_queue') = Len(frame_queue) - 1
      /\ \A i \in 1 .. Len(frame_queue) - 1 : frame_queue'[i] = frame_queue[i + 1]
  BY <1>1, Popped
<1>2a. /\ Len(frame_queue) \in Nat
       /\ \A i \in 1 .. Len(frame_queue') :
             frame_queue'[i] = frame_queue[i + 1] /\ i + 1 \in 2 .. Len(frame_queue)
  BY <1>1, <1>2, LenProperties
<1> DEFINE af == frame_queue[1]
           cap == IF play_buf = <<>> \/ af.size > 2 * BufferSize THEN af.size ELSE play_buf[1].cap
<1>3. cap \in Sizes
  BY <1>2 DEF TypeOK, Frame
<1>4. play_buf' = <<[epoch |-> af.epoch, no |-> af.no, size |-> af.size, cap |-> cap]>> /\ reg' = af.size
  BY <1>2 DEF NextFrame
<1>5. af.epoch \in 1 .. MaxEpochs /\ af.no \in 1 .. MaxFrames /\ af.size \in Sizes
  BY <1>2 DEF Frame
<1> HIDE DEF cap, af
<1>6. play_buf'[1] = [epoch |-> af.epoch, no |-> af.no, size |-> af.size, cap |-> cap] /\ play_buf' # <<>>
  BY <1>4
<1>7. /\ cpc = "pop"
      /\ cpc' = IF play_buf'[1].size <= play_buf'[1].cap THEN "setSize" ELSE "crashed"
      /\ UNCHANGED <<opened, quit, is_seeking, spc, epoch, made, decoding, len, len1,
                     play_buf_size, play_buf_index, audio_clock, heard, disturbed>>
  BY <1>6 DEF CallbackPops, Callback, seekVars
<1>8. /\ play_buf'[1] \in [epoch : 1 .. MaxEpochs, no : 1 .. MaxFrames, size : Sizes, cap : Sizes]
      /\ play_buf'[1].epoch = af.epoch /\ play_buf'[1].no = af.no
      /\ play_buf'[1].size = af.size
      /\ reg' = af.size /\ reg' \in Nat \ {0}
  BY <1>3, <1>4, <1>5, <1>6
<1> QED
  BY <1>2, <1>2a, <1>6, <1>7, <1>8 DEF af

(* The frame that is begun. *)
LEMMA BeginMakes ==
  ASSUME TypeOK, EpochInv, BeginDecode
  PROVE  /\ opened /\ ~quit /\ spc = "idle" /\ decoding = <<>>
         /\ decoding' \in Seq(Frame) /\ Len(decoding') = 1 /\ decoding' # <<>>
         /\ decoding'[1].epoch = epoch /\ decoding'[1].no = made + 1
         /\ made' = made + 1 /\ made' \in 0 .. MaxFrames
         /\ UNCHANGED <<opened, quit, is_seeking, spc, epoch, frame_queue, play_buf,
                        play_buf_size, play_buf_index, cpc, len, len1, reg, audio_clock,
                        heard, disturbed>>
<1> USE AudioAssumption
<1>1. PICK size \in Sizes : decoding' = <<[epoch |-> epoch, no |-> made + 1, size |-> size]>>
  BY DEF BeginDecode
<1>2. made < MaxFrames /\ made \in Nat /\ epoch \in 1 .. MaxEpochs
  BY DEF BeginDecode, TypeOK, EpochInv
<1>3. [epoch |-> epoch, no |-> made + 1, size |-> size] \in Frame
  BY <1>1, <1>2 DEF Frame
<1>4. /\ decoding' \in Seq(Frame) /\ Len(decoding') = 1 /\ decoding' # <<>>
      /\ decoding'[1].epoch = epoch /\ decoding'[1].no = made + 1
  BY <1>1, <1>3
<1> QED
  BY <1>2, <1>4 DEF BeginDecode, EpochInv, bufVars, callVars

(* Values keep their types. *)
LEMMA TypeStep ==
  ASSUME TypeOK, EpochInv, CallInv, OldInv, FrameInv, [Next]_vars
  PROVE  TypeOK'
<1> USE AudioAssumption DEF TypeOK, EpochInv, CallInv, OldInv, FrameInv, seekVars, bufVars, callVars, Frame
<1>1. CASE BeginDecode
  BY <1>1, BeginMakes
<1>2. CASE PushFrame
  BY <1>2, PushAdds DEF PushFrame
<1>3. CASE CallbackBegins
  BY <1>3 DEF CallbackBegins, Callback
<1>4. CASE CallbackTests
  BY <1>4 DEF CallbackTests, Callback
<1>5. CASE CallbackPops /\ NoFrame
  BY <1>5 DEF CallbackPops, Callback, NoFrame
<1>6. CASE CallbackPops /\ NextFrame
  <2>1. opened' \in BOOLEAN /\ quit' \in BOOLEAN /\ is_seeking' \in BOOLEAN /\ disturbed' \in BOOLEAN
    BY <1>6, PopTakes
  <2>2. /\ spc' \in {"idle", "clear", "index", "size", "file", "codecs", "end"}
        /\ epoch' \in Nat \ {0} /\ made' \in 0 .. MaxFrames /\ audio_clock' \in 0 .. MaxEpochs
    BY <1>6, PopTakes
  <2>3. decoding' \in Seq(Frame) /\ frame_queue' \in Seq(Frame)
    BY <1>6, PopTakes
  <2>4. play_buf' = <<>> \/ play_buf'[1] \in [epoch : 1 .. MaxEpochs, no : 1 .. MaxFrames, size : Sizes, cap : Sizes]
    BY <1>6, PopTakes
  <2>5. /\ play_buf_size' \in Nat /\ play_buf_index' \in Int
        /\ cpc' \in {"idle", "test", "pop", "setSize", "clock", "reset", "size", "index",
                    "copy", "add", "store", "crashed"}
        /\ len' \in Nat /\ len1' \in Int /\ reg' \in Int
    <3>1. cpc' \in {"setSize", "crashed"}  BY <1>6, PopTakes
    <3>2. reg' \in Int /\ UNCHANGED <<len, len1, play_buf_size, play_buf_index>>
      BY <1>6, PopTakes
    <3> QED  BY <3>1, <3>2
  <2> QED  BY <2>1, <2>2, <2>3, <2>4, <2>5
<1>7. CASE CallbackSetsSize
  BY <1>7 DEF CallbackSetsSize, Callback
<1>8. CASE CallbackSetsClock
  BY <1>8 DEF CallbackSetsClock, Callback
<1>9. CASE CallbackResetsIndex
  BY <1>9 DEF CallbackResetsIndex, Callback
<1>10. CASE CallbackReadsSize
  BY <1>10 DEF CallbackReadsSize, Callback
<1>11. CASE CallbackReadsIndex
  BY <1>11 DEF CallbackReadsIndex, Callback
<1>12. CASE CallbackCopies
  BY <1>12 DEF CallbackCopies, Callback, Outside
<1>13. CASE CallbackAdds
  BY <1>13 DEF CallbackAdds, Callback
<1>14. CASE CallbackStores
  BY <1>14 DEF CallbackStores, Callback
<1>15. CASE SeekBegins
  BY <1>15 DEF SeekBegins, Seek
<1>16. CASE SeekClears
  BY <1>16 DEF SeekClears, Seek
<1>17. CASE SeekResets
  <2>1. disturbed' = (cpc # "idle") /\ UNCHANGED <<is_seeking, epoch, made, frame_queue, audio_clock>>
    BY <1>17 DEF SeekResets
  <2>2. CASE Seek("index", "size") /\ play_buf_index' = 0 /\ UNCHANGED play_buf_size
    BY <2>1, <2>2 DEF Seek
  <2>3. CASE Seek("size", "file") /\ play_buf_size' = 0 /\ UNCHANGED play_buf_index
    BY <2>1, <2>3 DEF Seek
  <2> QED  BY <1>17, <2>2, <2>3 DEF SeekResets
<1>18. CASE SeekFile
  <2>1. /\ epoch' = epoch + 1 /\ made' = 0
        /\ UNCHANGED <<frame_queue, play_buf_size, play_buf_index, audio_clock, disturbed>>
    BY <1>18 DEF SeekFile
  <2>2. CASE Seek("file", "codecs") /\ UNCHANGED is_seeking
    BY <2>1, <2>2 DEF Seek
  <2>3. CASE Seek("file", "idle") /\ is_seeking' = FALSE
    <3>1. opened' \in BOOLEAN /\ quit' \in BOOLEAN /\ is_seeking' \in BOOLEAN /\ disturbed' \in BOOLEAN
      BY <2>1, <2>3 DEF Seek
    <3>2. /\ spc' \in {"idle", "clear", "index", "size", "file", "codecs", "end"}
          /\ epoch' \in Nat \ {0} /\ made' \in 0 .. MaxFrames /\ audio_clock' \in 0 .. MaxEpochs
      BY <2>1, <2>3 DEF Seek
    <3>3. decoding' \in Seq(Frame) /\ frame_queue' \in Seq(Frame)
      BY <2>1, <2>3 DEF Seek
    <3>4. play_buf' = <<>> \/ play_buf'[1] \in [epoch : 1 .. MaxEpochs, no : 1 .. MaxFrames, size : Sizes, cap : Sizes]
      BY <2>1, <2>3 DEF Seek
    <3>5. /\ play_buf_size' \in Nat /\ play_buf_index' \in Int
          /\ cpc' \in {"idle", "test", "pop", "setSize", "clock", "reset", "size", "index",
                      "copy", "add", "store", "crashed"}
          /\ len' \in Nat /\ len1' \in Int /\ reg' \in Int
      BY <2>1, <2>3 DEF Seek
    <3> QED  BY <3>1, <3>2, <3>3, <3>4, <3>5
  <2> QED  BY <1>18, <2>2, <2>3 DEF SeekFile
<1>19. CASE SeekFlushes
  BY <1>19 DEF SeekFlushes, Seek
<1>20. CASE SeekEnds
  BY <1>20 DEF SeekEnds, Seek
<1>21. CASE Stop
  BY <1>21 DEF Stop
<1>22. CASE AudioClose
  <2>1. opened' \in BOOLEAN /\ quit' \in BOOLEAN /\ is_seeking' \in BOOLEAN /\ disturbed' \in BOOLEAN
    BY <1>22 DEF AudioClose
  <2>2. /\ spc' \in {"idle", "clear", "index", "size", "file", "codecs", "end"}
        /\ epoch' \in Nat \ {0} /\ made' \in 0 .. MaxFrames /\ audio_clock' \in 0 .. MaxEpochs
    BY <1>22 DEF AudioClose
  <2>3. decoding' \in Seq(Frame) /\ frame_queue' \in Seq(Frame)
    BY <1>22 DEF AudioClose
  <2>4. play_buf' = <<>> \/ play_buf'[1] \in [epoch : 1 .. MaxEpochs, no : 1 .. MaxFrames, size : Sizes, cap : Sizes]
    BY <1>22 DEF AudioClose
  <2>5. /\ play_buf_size' \in Nat /\ play_buf_index' \in Int
        /\ cpc' \in {"idle", "test", "pop", "setSize", "clock", "reset", "size", "index",
                    "copy", "add", "store", "crashed"}
        /\ len' \in Nat /\ len1' \in Int /\ reg' \in Int
    BY <1>22 DEF AudioClose
  <2> QED  BY <2>1, <2>2, <2>3, <2>4, <2>5
<1>23. CASE AudioOpen
  <2>1. opened' \in BOOLEAN /\ quit' \in BOOLEAN /\ is_seeking' \in BOOLEAN /\ disturbed' \in BOOLEAN
    BY <1>23 DEF AudioOpen
  <2>2. /\ spc' \in {"idle", "clear", "index", "size", "file", "codecs", "end"}
        /\ epoch' \in Nat \ {0} /\ made' \in 0 .. MaxFrames /\ audio_clock' \in 0 .. MaxEpochs
    BY <1>23 DEF AudioOpen
  <2>3. decoding' \in Seq(Frame) /\ frame_queue' \in Seq(Frame)
    BY <1>23 DEF AudioOpen
  <2>4. play_buf' = <<>> \/ play_buf'[1] \in [epoch : 1 .. MaxEpochs, no : 1 .. MaxFrames, size : Sizes, cap : Sizes]
    BY <1>23 DEF AudioOpen
  <2>5. /\ play_buf_size' \in Nat /\ play_buf_index' \in Int
        /\ cpc' \in {"idle", "test", "pop", "setSize", "clock", "reset", "size", "index",
                    "copy", "add", "store", "crashed"}
        /\ len' \in Nat /\ len1' \in Int /\ reg' \in Int
    BY <1>23 DEF AudioOpen
  <2> QED  BY <2>1, <2>2, <2>3, <2>4, <2>5
<1>24. CASE UNCHANGED vars
  BY <1>24 DEF vars
<1> QED
  BY <1>1, <1>2, <1>3, <1>4, <1>5, <1>6, <1>7, <1>8, <1>9, <1>10, <1>11, <1>12, <1>13, <1>14, <1>15, <1>16, <1>17, <1>18, <1>19, <1>20, <1>21, <1>22, <1>23, <1>24 DEF Next, CallbackGoesOn, CallbackPops

(* A seek begins and ends in one session. *)
LEMMA EpochStep ==
  ASSUME TypeOK, EpochInv, OldInv, [Next]_vars
  PROVE  EpochInv'
<1> USE AudioAssumption DEF EpochInv, OldInv, seekVars, bufVars, callVars, Shapes
<1>0. Shapes
  BY TypeGivesShapes
<1>1. CASE BeginDecode
  BY <1>0, <1>1, BeginMakes
<1>2. CASE PushFrame
  BY <1>0, <1>2, PushAdds DEF PushFrame
<1>3. CASE CallbackBegins
  BY <1>0, <1>3 DEF CallbackBegins, Callback
<1>4. CASE CallbackTests
  BY <1>0, <1>4 DEF CallbackTests, Callback
<1>5. CASE CallbackPops /\ NoFrame
  BY <1>0, <1>5 DEF CallbackPops, Callback, NoFrame
<1>6. CASE CallbackPops /\ NextFrame
  BY <1>0, <1>6, PopTakes
<1>7. CASE CallbackSetsSize
  BY <1>0, <1>7 DEF CallbackSetsSize, Callback
<1>8. CASE CallbackSetsClock
  BY <1>0, <1>8 DEF CallbackSetsClock, Callback
<1>9. CASE CallbackResetsIndex
  BY <1>0, <1>9 DEF CallbackResetsIndex, Callback
<1>10. CASE CallbackReadsSize
  BY <1>0, <1>10 DEF CallbackReadsSize, Callback
<1>11. CASE CallbackReadsIndex
  BY <1>0, <1>11 DEF CallbackReadsIndex, Callback
<1>12. CASE CallbackCopies
  BY <1>0, <1>12 DEF CallbackCopies, Callback, Outside
<1>13. CASE CallbackAdds
  BY <1>0, <1>13 DEF CallbackAdds, Callback
<1>14. CASE CallbackStores
  BY <1>0, <1>14 DEF CallbackStores, Callback
<1>15. CASE SeekBegins
  BY <1>0, <1>15 DEF SeekBegins, Seek
<1>16. CASE SeekClears
  BY <1>0, <1>16 DEF SeekClears, Seek
<1>17. CASE SeekResets
  <2>1. disturbed' = (cpc # "idle") /\ UNCHANGED <<is_seeking, epoch, made, frame_queue, audio_clock>>
    BY <1>17 DEF SeekResets
  <2>2. CASE Seek("index", "size") /\ play_buf_index' = 0 /\ UNCHANGED play_buf_size
    BY <1>0, <2>1, <2>2 DEF Seek
  <2>3. CASE Seek("size", "file") /\ play_buf_size' = 0 /\ UNCHANGED play_buf_index
    BY <1>0, <2>1, <2>3 DEF Seek
  <2> QED  BY <1>17, <2>2, <2>3 DEF SeekResets
<1>18. CASE SeekFile
  <2>1. /\ epoch' = epoch + 1 /\ made' = 0
        /\ UNCHANGED <<frame_queue, play_buf_size, play_buf_index, audio_clock, disturbed>>
    BY <1>18 DEF SeekFile
  <2>2. CASE Seek("file", "codecs") /\ UNCHANGED is_seeking
    BY <1>0, <2>1, <2>2 DEF Seek
  <2>3. CASE Seek("file", "idle") /\ is_seeking' = FALSE
    BY <1>0, <2>1, <2>3 DEF Seek
  <2> QED  BY <1>18, <2>2, <2>3 DEF SeekFile
<1>19. CASE SeekFlushes
  BY <1>0, <1>19 DEF SeekFlushes, Seek
<1>20. CASE SeekEnds
  BY <1>0, <1>20 DEF SeekEnds, Seek
<1>21. CASE Stop
  BY <1>0, <1>21 DEF Stop
<1>22. CASE AudioClose
  BY <1>0, <1>22 DEF AudioClose
<1>23. CASE AudioOpen
  BY <1>0, <1>23 DEF AudioOpen
<1>24. CASE UNCHANGED vars
  BY <1>0, <1>24 DEF vars
<1> QED
  BY <1>1, <1>2, <1>3, <1>4, <1>5, <1>6, <1>7, <1>8, <1>9, <1>10, <1>11, <1>12, <1>13, <1>14, <1>15, <1>16, <1>17, <1>18, <1>19, <1>20, <1>21, <1>22, <1>23, <1>24 DEF Next, CallbackGoesOn, CallbackPops

(* A call stays in the frame. *)
LEMMA FrameStep ==
  ASSUME TypeOK, EpochInv, OldInv, FrameInv, [Next]_vars
  PROVE  FrameInv'
<1> USE AudioAssumption DEF FrameInv, seekVars, bufVars, callVars, Shapes
<1>0. Shapes
  BY TypeGivesShapes
<1>1. CASE BeginDecode
  BY <1>0, <1>1, BeginMakes
<1>2. CASE PushFrame
  BY <1>0, <1>2, PushAdds DEF PushFrame
<1>3. CASE CallbackBegins
  BY <1>0, <1>3 DEF CallbackBegins, Callback
<1>4. CASE CallbackTests
  BY <1>0, <1>4 DEF CallbackTests, Callback
<1>5. CASE CallbackPops /\ NoFrame
  BY <1>0, <1>5 DEF CallbackPops, Callback, NoFrame
<1>6. CASE CallbackPops /\ NextFrame
  BY <1>0, <1>6, PopTakes
<1>7. CASE CallbackSetsSize
  BY <1>0, <1>7 DEF CallbackSetsSize, Callback
<1>8. CASE CallbackSetsClock
  BY <1>0, <1>8 DEF CallbackSetsClock, Callback
<1>9. CASE CallbackResetsIndex
  BY <1>0, <1>9 DEF CallbackResetsIndex, Callback
<1>10. CASE CallbackReadsSize
  BY <1>0, <1>10 DEF CallbackReadsSize, Callback
<1>11. CASE CallbackReadsIndex
  BY <1>0, <1>11 DEF CallbackReadsIndex, Callback
<1>12. CASE CallbackCopies
  BY <1>0, <1>12 DEF CallbackCopies, Callback, Outside
<1>13. CASE CallbackAdds
  BY <1>0, <1>13 DEF CallbackAdds, Callback
<1>14. CASE CallbackStores
  BY <1>0, <1>14 DEF CallbackStores, Callback
<1>15. CASE SeekBegins
  BY <1>0, <1>15 DEF SeekBegins, Seek
<1>16. CASE SeekClears
  BY <1>0, <1>16 DEF SeekClears, Seek
<1>17. CASE SeekResets
  <2>1. disturbed' = (cpc # "idle") /\ UNCHANGED <<is_seeking, epoch, made, frame_queue, audio_clock>>
    BY <1>17 DEF SeekResets
  <2>2. CASE Seek("index", "size") /\ play_buf_index' = 0 /\ UNCHANGED play_buf_size
    BY <1>0, <2>1, <2>2 DEF Seek
  <2>3. CASE Seek("size", "file") /\ play_buf_size' = 0 /\ UNCHANGED play_buf_index
    BY <1>0, <2>1, <2>3 DEF Seek
  <2> QED  BY <1>17, <2>2, <2>3 DEF SeekResets
<1>18. CASE SeekFile
  <2>1. /\ epoch' = epoch + 1 /\ made' = 0
        /\ UNCHANGED <<frame_queue, play_buf_size, play_buf_index, audio_clock, disturbed>>
    BY <1>18 DEF SeekFile
  <2>2. CASE Seek("file", "codecs") /\ UNCHANGED is_seeking
    BY <1>0, <2>1, <2>2 DEF Seek
  <2>3. CASE Seek("file", "idle") /\ is_seeking' = FALSE
    BY <1>0, <2>1, <2>3 DEF Seek
  <2> QED  BY <1>18, <2>2, <2>3 DEF SeekFile
<1>19. CASE SeekFlushes
  BY <1>0, <1>19 DEF SeekFlushes, Seek
<1>20. CASE SeekEnds
  BY <1>0, <1>20 DEF SeekEnds, Seek
<1>21. CASE Stop
  BY <1>0, <1>21 DEF Stop
<1>22. CASE AudioClose
  BY <1>0, <1>22 DEF AudioClose
<1>23. CASE AudioOpen
  BY <1>0, <1>23 DEF AudioOpen
<1>24. CASE UNCHANGED vars
  BY <1>0, <1>24 DEF vars
<1> QED
  BY <1>1, <1>2, <1>3, <1>4, <1>5, <1>6, <1>7, <1>8, <1>9, <1>10, <1>11, <1>12, <1>13, <1>14, <1>15, <1>16, <1>17, <1>18, <1>19, <1>20, <1>21, <1>22, <1>23, <1>24 DEF Next, CallbackGoesOn, CallbackPops

(* So does its arithmetic, when no seek disturbs it. *)
LEMMA CallStep ==
  ASSUME TypeOK, EpochInv, OldInv, FrameInv, CallInv, [Next]_vars
  PROVE  CallInv'
<1> USE AudioAssumption DEF FrameInv, CallInv, seekVars, bufVars, callVars, Shapes
<1>0. Shapes
  BY TypeGivesShapes
<1>1. CASE BeginDecode
  BY <1>0, <1>1, BeginMakes
<1>2. CASE PushFrame
  BY <1>0, <1>2, PushAdds DEF PushFrame
<1>3. CASE CallbackBegins
  BY <1>0, <1>3 DEF CallbackBegins, Callback
<1>4. CASE CallbackTests
  BY <1>0, <1>4 DEF CallbackTests, Callback
<1>5. CASE CallbackPops /\ NoFrame
  BY <1>0, <1>5 DEF CallbackPops, Callback, NoFrame
<1>6. CASE CallbackPops /\ NextFrame
  BY SMTT(30), <1>0, <1>6, PopTakes
<1>7. CASE CallbackSetsSize
  BY <1>0, <1>7 DEF CallbackSetsSize, Callback
<1>8. CASE CallbackSetsClock
  BY <1>0, <1>8 DEF CallbackSetsClock, Callback
<1>9. CASE CallbackResetsIndex
  BY <1>0, <1>9 DEF CallbackResetsIndex, Callback
<1>10. CASE CallbackReadsSize
  BY <1>0, <1>10 DEF CallbackReadsSize, Callback
<1>11. CASE CallbackReadsIndex
  BY <1>0, <1>11 DEF CallbackReadsIndex, Callback
<1>12. CASE CallbackCopies
  BY <1>0, <1>12 DEF CallbackCopies, Callback, Outside
<1>13. CASE CallbackAdds
  BY <1>0, <1>13 DEF CallbackAdds, Callback
<1>14. CASE CallbackStores
  BY <1>0, <1>14 DEF CallbackStores, Callback
<1>15. CASE SeekBegins
  BY <1>0, <1>15 DEF SeekBegins, Seek
<1>16. CASE SeekClears
  BY <1>0, <1>16 DEF SeekClears, Seek
<1>17. CASE SeekResets
  <2>1. disturbed' = (cpc # "idle") /\ UNCHANGED <<is_seeking, epoch, made, frame_queue, audio_clock>>
    BY <1>17 DEF SeekResets
  <2>2. CASE Seek("index", "size") /\ play_buf_index' = 0 /\ UNCHANGED play_buf_size
    BY <1>0, <2>1, <2>2 DEF Seek
  <2>3. CASE Seek("size", "file") /\ play_buf_size' = 0 /\ UNCHANGED play_buf_index
    BY <1>0, <2>1, <2>3 DEF Seek
  <2> QED  BY <1>17, <2>2, <2>3 DEF SeekResets
<1>18. CASE SeekFile
  <2>1. /\ epoch' = epoch + 1 /\ made' = 0
        /\ UNCHANGED <<frame_queue, play_buf_size, play_buf_index, audio_clock, disturbed>>
    BY <1>18 DEF SeekFile
  <2>2. CASE Seek("file", "codecs") /\ UNCHANGED is_seeking
    BY <1>0, <2>1, <2>2 DEF Seek
  <2>3. CASE Seek("file", "idle") /\ is_seeking' = FALSE
    BY <1>0, <2>1, <2>3 DEF Seek
  <2> QED  BY <1>18, <2>2, <2>3 DEF SeekFile
<1>19. CASE SeekFlushes
  BY <1>0, <1>19 DEF SeekFlushes, Seek
<1>20. CASE SeekEnds
  BY <1>0, <1>20 DEF SeekEnds, Seek
<1>21. CASE Stop
  BY <1>0, <1>21 DEF Stop
<1>22. CASE AudioClose
  BY <1>0, <1>22 DEF AudioClose
<1>23. CASE AudioOpen
  BY <1>0, <1>23 DEF AudioOpen
<1>24. CASE UNCHANGED vars
  BY <1>0, <1>24 DEF vars
<1> QED
  BY <1>1, <1>2, <1>3, <1>4, <1>5, <1>6, <1>7, <1>8, <1>9, <1>10, <1>11, <1>12, <1>13, <1>14, <1>15, <1>16, <1>17, <1>18, <1>19, <1>20, <1>21, <1>22, <1>23, <1>24 DEF Next, CallbackGoesOn, CallbackPops

(* Nothing is decoded before the old frame is in the queue. *)
LEMMA OldStep ==
  ASSUME TypeOK, EpochInv, OldInv, [Next]_vars
  PROVE  OldInv'
<1> USE AudioAssumption DEF EpochInv, OldInv, Seeking, seekVars, bufVars, callVars, Shapes
<1>0. Shapes
  BY TypeGivesShapes
<1>1. CASE BeginDecode
  <2>1. /\ spc' = "idle" /\ Len(decoding') = 1 /\ decoding'[1].epoch = epoch
        /\ epoch' = epoch /\ frame_queue' = frame_queue
    BY <1>1, BeginMakes
  <2>2. ~(decoding'[1].epoch < epoch')
    BY <1>0, <2>1
  <2> QED  BY <2>1, <2>2
<1>2. CASE PushFrame
  BY <1>0, <1>2, PushAdds DEF PushFrame
<1>3. CASE CallbackBegins
  BY <1>0, <1>3 DEF CallbackBegins, Callback
<1>4. CASE CallbackTests
  BY <1>0, <1>4 DEF CallbackTests, Callback
<1>5. CASE CallbackPops /\ NoFrame
  BY <1>0, <1>5 DEF CallbackPops, Callback, NoFrame
<1>6. CASE CallbackPops /\ NextFrame
  BY SMTT(30), <1>0, <1>6, PopTakes
<1>7. CASE CallbackSetsSize
  BY <1>0, <1>7 DEF CallbackSetsSize, Callback
<1>8. CASE CallbackSetsClock
  BY <1>0, <1>8 DEF CallbackSetsClock, Callback
<1>9. CASE CallbackResetsIndex
  BY <1>0, <1>9 DEF CallbackResetsIndex, Callback
<1>10. CASE CallbackReadsSize
  BY <1>0, <1>10 DEF CallbackReadsSize, Callback
<1>11. CASE CallbackReadsIndex
  BY <1>0, <1>11 DEF CallbackReadsIndex, Callback
<1>12. CASE CallbackCopies
  BY <1>0, <1>12 DEF CallbackCopies, Callback, Outside
<1>13. CASE CallbackAdds
  BY <1>0, <1>13 DEF CallbackAdds, Callback
<1>14. CASE CallbackStores
  BY <1>0, <1>14 DEF CallbackStores, Callback
<1>15. CASE SeekBegins
  BY <1>0, <1>15 DEF SeekBegins, Seek
<1>16. CASE SeekClears
  BY <1>0, <1>16 DEF SeekClears, Seek
<1>17. CASE SeekResets
  <2>1. disturbed' = (cpc # "idle") /\ UNCHANGED <<is_seeking, epoch, made, frame_queue, audio_clock>>
    BY <1>17 DEF SeekResets
  <2>2. CASE Seek("index", "size") /\ play_buf_index' = 0 /\ UNCHANGED play_buf_size
    BY <1>0, <2>1, <2>2 DEF Seek
  <2>3. CASE Seek("size", "file") /\ play_buf_size' = 0 /\ UNCHANGED play_buf_index
    BY <1>0, <2>1, <2>3 DEF Seek
  <2> QED  BY <1>17, <2>2, <2>3 DEF SeekResets
<1>18. CASE SeekFile
  <2>1. /\ epoch' = epoch + 1 /\ made' = 0
        /\ UNCHANGED <<frame_queue, play_buf_size, play_buf_index, audio_clock, disturbed>>
    BY <1>18 DEF SeekFile
  <2>2. CASE Seek("file", "codecs") /\ UNCHANGED is_seeking
    BY <1>0, <2>1, <2>2 DEF Seek
  <2>3. CASE Seek("file", "idle") /\ is_seeking' = FALSE
    BY <1>0, <2>1, <2>3 DEF Seek
  <2> QED  BY <1>18, <2>2, <2>3 DEF SeekFile
<1>19. CASE SeekFlushes
  BY <1>0, <1>19 DEF SeekFlushes, Seek
<1>20. CASE SeekEnds
  BY <1>0, <1>20 DEF SeekEnds, Seek
<1>21. CASE Stop
  BY <1>0, <1>21 DEF Stop
<1>22. CASE AudioClose
  BY <1>0, <1>22 DEF AudioClose
<1>23. CASE AudioOpen
  BY <1>0, <1>23 DEF AudioOpen
<1>24. CASE UNCHANGED vars
  BY <1>0, <1>24 DEF vars
<1> QED
  BY <1>1, <1>2, <1>3, <1>4, <1>5, <1>6, <1>7, <1>8, <1>9, <1>10, <1>11, <1>12, <1>13, <1>14, <1>15, <1>16, <1>17, <1>18, <1>19, <1>20, <1>21, <1>22, <1>23, <1>24 DEF Next, CallbackGoesOn, CallbackPops

(* Nothing new is decoded before the clock is reset. *)
LEMMA NewStep ==
  ASSUME TypeOK, EpochInv, OldInv, NewInv, [Next]_vars
  PROVE  NewInv'
<1> USE AudioAssumption DEF EpochInv, OldInv, NewInv, seekVars, bufVars, callVars, Shapes
<1>0. Shapes
  BY TypeGivesShapes
<1>1. CASE BeginDecode
  BY SMTT(30), <1>0, <1>1, BeginMakes
<1>2. CASE PushFrame
  BY <1>0, <1>2, PushAdds DEF PushFrame
<1>3. CASE CallbackBegins
  BY <1>0, <1>3 DEF CallbackBegins, Callback
<1>4. CASE CallbackTests
  BY <1>0, <1>4 DEF CallbackTests, Callback
<1>5. CASE CallbackPops /\ NoFrame
  BY <1>0, <1>5 DEF CallbackPops, Callback, NoFrame
<1>6. CASE CallbackPops /\ NextFrame
  <2>1. frame_queue[1].epoch <= epoch /\ (spc \in {"codecs", "end"} => frame_queue[1].epoch # epoch)
    BY <1>0, <1>6, PopTakes
  <2>2. \A i \in 1 .. Len(frame_queue') :
          /\ frame_queue'[i].epoch <= epoch
          /\ spc \in {"codecs", "end"} => frame_queue'[i].epoch # epoch
    <3>1. \A i \in 1 .. Len(frame_queue') :
             frame_queue'[i] = frame_queue[i + 1] /\ i + 1 \in 2 .. Len(frame_queue)
      BY <1>6, PopTakes
    <3>2. \A i \in 2 .. Len(frame_queue) : i \in 1 .. Len(frame_queue)
      BY <1>0
    <3> QED  BY <3>1, <3>2
  <2>3. /\ play_buf'[1].epoch = frame_queue[1].epoch
        /\ UNCHANGED <<spc, epoch, decoding, heard>>
    BY <1>6, PopTakes
  <2> HIDE DEF Shapes
  <2> QED  BY <2>1, <2>2, <2>3
<1>7. CASE CallbackSetsSize
  BY <1>0, <1>7 DEF CallbackSetsSize, Callback
<1>8. CASE CallbackSetsClock
  BY <1>0, <1>8 DEF CallbackSetsClock, Callback
<1>9. CASE CallbackResetsIndex
  BY <1>0, <1>9 DEF CallbackResetsIndex, Callback
<1>10. CASE CallbackReadsSize
  BY <1>0, <1>10 DEF CallbackReadsSize, Callback
<1>11. CASE CallbackReadsIndex
  BY <1>0, <1>11 DEF CallbackReadsIndex, Callback
<1>12. CASE CallbackCopies
  BY <1>0, <1>12 DEF CallbackCopies, Callback, Outside
<1>13. CASE CallbackAdds
  BY <1>0, <1>13 DEF CallbackAdds, Callback
<1>14. CASE CallbackStores
  BY <1>0, <1>14 DEF CallbackStores, Callback
<1>15. CASE SeekBegins
  BY <1>0, <1>15 DEF SeekBegins, Seek
<1>16. CASE SeekClears
  BY <1>0, <1>16 DEF SeekClears, Seek
<1>17. CASE SeekResets
  <2>1. disturbed' = (cpc # "idle") /\ UNCHANGED <<is_seeking, epoch, made, frame_queue, audio_clock>>
    BY <1>17 DEF SeekResets
  <2>2. CASE Seek("index", "size") /\ play_buf_index' = 0 /\ UNCHANGED play_buf_size
    BY <1>0, <2>1, <2>2 DEF Seek
  <2>3. CASE Seek("size", "file") /\ play_buf_size' = 0 /\ UNCHANGED play_buf_index
    BY <1>0, <2>1, <2>3 DEF Seek
  <2> QED  BY <1>17, <2>2, <2>3 DEF SeekResets
<1>18. CASE SeekFile
  <2>1. /\ spc = "file" /\ spc' \in {"idle", "codecs"} /\ epoch' = epoch + 1
        /\ UNCHANGED <<frame_queue, decoding, play_buf, heard>>
    BY <1>18 DEF SeekFile, Seek
  <2> QED  BY <1>0, <2>1
<1>19. CASE SeekFlushes
  BY <1>0, <1>19 DEF SeekFlushes, Seek
<1>20. CASE SeekEnds
  BY <1>0, <1>20 DEF SeekEnds, Seek
<1>21. CASE Stop
  BY <1>0, <1>21 DEF Stop
<1>22. CASE AudioClose
  BY <1>0, <1>22 DEF AudioClose
<1>23. CASE AudioOpen
  BY <1>0, <1>23 DEF AudioOpen
<1>24. CASE UNCHANGED vars
  BY <1>0, <1>24 DEF vars
<1> QED
  BY <1>1, <1>2, <1>3, <1>4, <1>5, <1>6, <1>7, <1>8, <1>9, <1>10, <1>11, <1>12, <1>13, <1>14, <1>15, <1>16, <1>17, <1>18, <1>19, <1>20, <1>21, <1>22, <1>23, <1>24 DEF Next, CallbackGoesOn, CallbackPops

(* After the flush the clock is set by new frames only. *)
LEMMA ClockStep ==
  ASSUME TypeOK, EpochInv, OldInv, NewInv, CallInv, FrameInv, ClockInv, [Next]_vars
  PROVE  ClockInv'
<1> USE AudioAssumption DEF EpochInv, OldInv, NewInv, CallInv, ClockInv, ClockOfTheSound, NewHeard, Seeking, seekVars, bufVars, callVars, Shapes
<1>0. Shapes
  BY TypeGivesShapes
<1>1. CASE BeginDecode
  BY <1>0, <1>1, BeginMakes
<1>2. CASE PushFrame
  BY <1>0, <1>2, PushAdds DEF PushFrame
<1>3. CASE CallbackBegins
  BY <1>0, <1>3 DEF CallbackBegins, Callback
<1>4. CASE CallbackTests
  BY <1>0, <1>4 DEF CallbackTests, Callback
<1>5. CASE CallbackPops /\ NoFrame
  BY <1>0, <1>5 DEF CallbackPops, Callback, NoFrame
<1>6. CASE CallbackPops /\ NextFrame
  <2> HIDE DEF Shapes
  <2>1. /\ cpc' \in {"setSize", "crashed"} /\ play_buf' # <<>>
        /\ play_buf'[1].epoch = frame_queue[1].epoch
        /\ UNCHANGED <<epoch, decoding, audio_clock, heard>>
    BY <1>6, PopTakes
  <2>2. \A i \in 1 .. Len(frame_queue') :
          frame_queue'[i] = frame_queue[i + 1] /\ i + 1 \in 2 .. Len(frame_queue)
    BY <1>6, PopTakes
  <2>3. Len(frame_queue) >= 1 /\ Len(frame_queue) \in Nat /\ frame_queue # <<>>
    BY <1>0, <1>6, PopTakes DEF Shapes
  <2>4. ASSUME frame_queue[1].epoch = epoch
        PROVE  /\ \A i \in 1 .. Len(frame_queue) : frame_queue[i].epoch = epoch
               /\ decoding # <<>> => decoding[1].epoch = epoch
    BY <1>0, <2>3, <2>4 DEF Shapes
  <2>5. NewHeard => /\ \A i \in 1 .. Len(frame_queue) : frame_queue[i].epoch = epoch
                    /\ decoding # <<>> => decoding[1].epoch = epoch
    OBVIOUS
  <2>6. ASSUME NewHeard'
        PROVE  /\ \A i \in 1 .. Len(frame_queue) : frame_queue[i].epoch = epoch
               /\ decoding # <<>> => decoding[1].epoch = epoch
    BY <2>1, <2>4, <2>5, <2>6
  <2>7. NewHeard' => /\ \A i \in 1 .. Len(frame_queue') : frame_queue'[i].epoch = epoch'
                     /\ decoding' # <<>> => decoding'[1].epoch = epoch'
                     /\ play_buf'[1].epoch = epoch'
    <3> HIDE DEF NewHeard
    <3> SUFFICES ASSUME NewHeard'
                 PROVE  /\ \A i \in 1 .. Len(frame_queue') : frame_queue'[i].epoch = epoch
                        /\ decoding # <<>> => decoding[1].epoch = epoch
                        /\ frame_queue[1].epoch = epoch
      BY <2>1
    <3>1. 1 \in 1 .. Len(frame_queue) /\ \A i \in 2 .. Len(frame_queue) : i \in 1 .. Len(frame_queue)
      BY <2>3
    <3> QED  BY <2>2, <2>6, <3>1
  <2> QED  BY <2>1, <2>7
<1>7. CASE CallbackSetsSize
  BY <1>0, <1>7 DEF CallbackSetsSize, Callback
<1>8. CASE CallbackSetsClock
  BY <1>0, <1>8 DEF CallbackSetsClock, Callback
<1>9. CASE CallbackResetsIndex
  BY <1>0, <1>9 DEF CallbackResetsIndex, Callback
<1>10. CASE CallbackReadsSize
  BY <1>0, <1>10 DEF CallbackReadsSize, Callback
<1>11. CASE CallbackReadsIndex
  BY <1>0, <1>11 DEF CallbackReadsIndex, Callback
<1>12. CASE CallbackCopies
  BY <1>0, <1>12 DEF CallbackCopies, Callback, Outside
<1>13. CASE CallbackAdds
  BY <1>0, <1>13 DEF CallbackAdds, Callback
<1>14. CASE CallbackStores
  BY <1>0, <1>14 DEF CallbackStores, Callback
<1>15. CASE SeekBegins
  BY <1>0, <1>15 DEF SeekBegins, Seek
<1>16. CASE SeekClears
  BY <1>0, <1>16 DEF SeekClears, Seek
<1>17. CASE SeekResets
  <2>1. disturbed' = (cpc # "idle") /\ UNCHANGED <<is_seeking, epoch, made, frame_queue, audio_clock>>
    BY <1>17 DEF SeekResets
  <2>2. CASE Seek("index", "size") /\ play_buf_index' = 0 /\ UNCHANGED play_buf_size
    BY <1>0, <2>1, <2>2 DEF Seek
  <2>3. CASE Seek("size", "file") /\ play_buf_size' = 0 /\ UNCHANGED play_buf_index
    BY <1>0, <2>1, <2>3 DEF Seek
  <2> QED  BY <1>17, <2>2, <2>3 DEF SeekResets
<1>18. CASE SeekFile
  <2>1. /\ epoch' = epoch + 1 /\ made' = 0
        /\ UNCHANGED <<frame_queue, play_buf_size, play_buf_index, audio_clock, disturbed>>
    BY <1>18 DEF SeekFile
  <2>2. CASE Seek("file", "codecs") /\ UNCHANGED is_seeking
    BY <1>0, <2>1, <2>2 DEF Seek
  <2>3. CASE Seek("file", "idle") /\ is_seeking' = FALSE
    BY <1>0, <2>1, <2>3 DEF Seek
  <2> QED  BY <1>18, <2>2, <2>3 DEF SeekFile
<1>19. CASE SeekFlushes
  BY <1>0, <1>19 DEF SeekFlushes, Seek
<1>20. CASE SeekEnds
  BY <1>0, <1>20 DEF SeekEnds, Seek
<1>21. CASE Stop
  BY <1>0, <1>21 DEF Stop
<1>22. CASE AudioClose
  BY <1>0, <1>22 DEF AudioClose
<1>23. CASE AudioOpen
  BY <1>0, <1>23 DEF AudioOpen
<1>24. CASE UNCHANGED vars
  BY <1>0, <1>24 DEF vars
<1> QED
  BY <1>1, <1>2, <1>3, <1>4, <1>5, <1>6, <1>7, <1>8, <1>9, <1>10, <1>11, <1>12, <1>13, <1>14, <1>15, <1>16, <1>17, <1>18, <1>19, <1>20, <1>21, <1>22, <1>23, <1>24 DEF Next, CallbackGoesOn, CallbackPops

(* The invariants hold together in the initial state and after each step. *)
IndInv ==
  /\ TypeOK /\ EpochInv /\ FrameInv /\ CallInv /\ OldInv /\ NewInv /\ ClockInv
  /\ CrashesExplained

LEMMA InitInd == Init => IndInv
<1> SUFFICES ASSUME Init PROVE IndInv
  OBVIOUS
<1> USE AudioAssumption DEF AudioAssumption, Init, NoChunk
<1>1. <<>> \in Seq(Frame) /\ Len(<<>>) = 0
  OBVIOUS
<1>2. TypeOK
  <2>1. opened \in BOOLEAN /\ quit \in BOOLEAN /\ is_seeking \in BOOLEAN /\ disturbed \in BOOLEAN
    OBVIOUS
  <2>2. decoding \in Seq(Frame) /\ frame_queue \in Seq(Frame) /\ play_buf = <<>>
    BY <1>1
  <2>3. epoch \in Nat \ {0} /\ made \in 0 .. MaxFrames /\ audio_clock \in 0 .. MaxEpochs
    OBVIOUS
  <2>4. /\ spc = "idle" /\ cpc = "idle" /\ play_buf_size \in Nat /\ play_buf_index \in Int
        /\ len \in Nat /\ len1 \in Int /\ reg \in Int
    OBVIOUS
  <2> QED  BY <2>1, <2>2, <2>3, <2>4 DEF TypeOK
<1>3. EpochInv /\ FrameInv /\ CallInv /\ CrashesExplained
  BY DEF EpochInv, FrameInv, CallInv, CrashesExplained
<1>4. OldInv /\ NewInv
  BY <1>1 DEF OldInv, NewInv, Seeking
<1>5. ClockInv
  BY <1>1 DEF ClockInv, ClockOfTheSound, NewHeard
<1> QED
  BY <1>2, <1>3, <1>4, <1>5 DEF IndInv

(* A crash is one of the two that are named. *)
LEMMA CrashStep ==
  ASSUME TypeOK, FrameInv, CallInv, CrashesExplained, [Next]_vars
  PROVE  CrashesExplained'
<1> USE AudioAssumption DEF AudioAssumption, CrashesExplained
<1>0. Shapes
  BY TypeGivesShapes
<1>1. CASE CallbackPops /\ NoFrame
  BY <1>1 DEF CallbackPops, Callback, NoFrame
<1>2. CASE CallbackPops /\ NextFrame
  <2>1. /\ play_buf'[1].size \in Nat /\ play_buf'[1].cap \in Nat
        /\ cpc' = IF play_buf'[1].size <= play_buf'[1].cap THEN "setSize" ELSE "crashed"
    BY <1>2, PopTakes
  <2> QED  BY <2>1
<1>3. CASE CallbackCopies
  <2>1. cpc = "copy" /\ (cpc' = "crashed" => Outside) /\ UNCHANGED <<play_buf, disturbed>>
    BY <1>3 DEF CallbackCopies, Callback, bufVars
  <2>2. cpc = "copy" /\ Outside => disturbed
    BY <1>0 DEF Outside, FrameInv, CallInv, Shapes
  <2> QED  BY <2>1, <2>2
<1>4. CASE \/ CallbackTests \/ CallbackSetsSize \/ CallbackSetsClock \/ CallbackResetsIndex
           \/ CallbackReadsSize \/ CallbackReadsIndex \/ CallbackAdds \/ CallbackStores
           \/ CallbackBegins
  BY <1>4 DEF CallbackTests, CallbackSetsSize, CallbackSetsClock, CallbackResetsIndex,
    CallbackReadsSize, CallbackReadsIndex, CallbackAdds, CallbackStores, CallbackBegins, Callback
<1>5. ASSUME cpc # "crashed", UNCHANGED cpc
      PROVE  CrashesExplained'
  BY <1>5
<1>6. CASE /\ cpc # "crashed"
           /\ \/ BeginDecode \/ PushFrame \/ SeekBegins \/ SeekClears \/ SeekResets
              \/ SeekFile \/ SeekFlushes \/ SeekEnds \/ Stop \/ AudioClose \/ AudioOpen
  <2>1. UNCHANGED cpc
    BY <1>6 DEF BeginDecode, PushFrame, SeekBegins, SeekClears, SeekResets, SeekFile,
      SeekFlushes, SeekEnds, Stop, AudioClose, AudioOpen, Seek, callVars
  <2> QED  BY <1>5, <1>6, <2>1
<1>7. CASE UNCHANGED vars
  BY <1>7 DEF vars, bufVars, callVars
<1> QED
  BY <1>1, <1>2, <1>3, <1>4, <1>6, <1>7 DEF Next, CallbackGoesOn, CallbackPops

LEMMA StepInd == IndInv /\ [Next]_vars => IndInv'
<1> SUFFICES ASSUME IndInv, [Next]_vars PROVE IndInv'
  OBVIOUS
<1> USE DEF IndInv
<1> QED
  BY TypeStep, EpochStep, FrameStep, CallStep, OldStep, NewStep, ClockStep, CrashStep

LEMMA AlwaysInd == Spec => []IndInv
<1> QED
  BY InitInd, StepInd, PTL DEF Spec

(* In every run, index, size and buffer have their types, and the callback *)
(* of SDL leaves the play buffer only after a frame larger than the one it *)
(* was allocated for, or when seek reset index and size during the call.   *)
THEOREM CallbackStaysInside == Spec => []BufferInv
<1>1. IndInv => BufferInv
  BY DEF IndInv, BufferInv
<1> QED
  BY AlwaysInd, <1>1, PTL

(* After any seek, at most the frame that was being decoded is left of the *)
(* old position in the queue, and it is the first.                         *)
THEOREM FewOldFramesAlways == Spec => []FewOldFrames
<1>1. IndInv => FewOldFrames
  <2> SUFFICES ASSUME IndInv, spc = "idle", NEW i \in 1 .. Len(frame_queue),
                      frame_queue[i].epoch < epoch
               PROVE  i = 1
    BY DEF FewOldFrames, OldFrames
  <2>1. TypeOK /\ OldInv
    BY DEF IndInv
  <2>2. frame_queue[i].epoch \in Nat /\ epoch \in Nat
    BY <2>1, TypeGivesShapes DEF Shapes
  <2> QED  BY <2>1, <2>2 DEF OldInv
<1> QED
  BY AlwaysInd, <1>1, PTL

(* Whichever of the callback and the flush of seek sets the audio clock    *)
(* last, it is the clock of the sound once the new position is heard.      *)
THEOREM ClockIsOfTheSound == Spec => []ClockOfTheSound
<1>1. IndInv => ClockOfTheSound
  BY DEF IndInv, ClockInv
<1> QED
  BY AlwaysInd, <1>1, PTL
-----------------------------------------------------------------------------
(* Nothing of an earlier epoch comes after anything of a later one, from   *)
(* what is heard over the play buffer and the queue to the audio thread.   *)
SortInv ==
  /\ play_buf # <<>> => heard.epoch <= play_buf[1].epoch
  /\ \A i \in 1 .. Len(frame_queue) :
       /\ heard.epoch <= frame_queue[i].epoch
       /\ play_buf # <<>> => play_buf[1].epoch <= frame_queue[i].epoch
       /\ \A j \in i .. Len(frame_queue) : frame_queue[i].epoch <= frame_queue[j].epoch
       /\ decoding # <<>> => frame_queue[i].epoch <= decoding[1].epoch
  /\ decoding # <<>> =>
       /\ heard.epoch <= decoding[1].epoch
       /\ play_buf # <<>> => play_buf[1].epoch <= decoding[1].epoch

(* From the moment seek has moved the file until the next seek begins, and *)
(* while the device is open, the frames of the epoch are accounted for.    *)
Steady == opened /\ spc \in {"idle", "codecs", "end"}

Current == play_buf # <<>> /\ play_buf[1].epoch = epoch

(* The frames of the epoch that are being decoded, those that the queue    *)
(* has, and the last that was taken from it.                               *)
Decoding == IF decoding # <<>> /\ decoding[1].epoch = epoch THEN 1 ELSE 0
Queued ==
  IF frame_queue # <<>> /\ frame_queue[1].epoch < epoch
  THEN Len(frame_queue) - 1 ELSE Len(frame_queue)
Taken ==
  IF Current THEN play_buf[1].no ELSE IF heard.epoch = epoch THEN heard.no ELSE 0

(* They have the numbers from 1 to made, in this order, and none is lost.  *)
NumberInv ==
  /\ heard.no \in Nat
  /\ Steady =>
       /\ made = Taken + Queued + Decoding
       /\ Decoding = 1 => decoding[1].no = made
       /\ \A i \in 1 .. Len(frame_queue) :
            frame_queue[i].epoch = epoch =>
              frame_queue[i].no = (made - Decoding) - (Len(frame_queue) - i)

(* The first n frames of the epoch were heard to their ends, and nothing   *)
(* after them.                                                             *)
HeardAll(n) ==
  IF heard.epoch = epoch THEN heard.no = n /\ heard.upto = heard.size ELSE n = 0

(* The current frame was heard up to its byte pos.                         *)
HeardUpTo(pos) ==
  IF pos = 0 THEN HeardAll(play_buf[1].no - 1)
  ELSE /\ heard.epoch = epoch /\ heard.no = play_buf[1].no
       /\ heard.upto = pos /\ heard.size = play_buf[1].size

(* Where the callback is in the frame, and what was heard of it.           *)
PlaceInv ==
  /\ cpc \in {"pop", "setSize", "clock", "reset", "size", "index", "copy"} => len > 0
  /\ Steady =>
       /\ ~Current => HeardAll(Taken)
       /\ Current /\ cpc \in {"setSize", "clock", "reset"} => HeardUpTo(0)
       /\ Current /\ cpc \notin {"setSize", "crashed"} => play_buf_size = play_buf[1].size
       /\ Current =>
            /\ cpc = "pop" => play_buf_index = play_buf_size
            /\ cpc \in {"size", "index"} => play_buf_index < play_buf_size
            /\ cpc = "index" => reg = play_buf_size
            /\ cpc \in {"copy", "add"} => len1 > 0
            /\ cpc \in {"idle", "test", "pop", "size", "index", "copy"} => HeardUpTo(play_buf_index)
            /\ cpc = "add" => HeardUpTo(play_buf_index + len1)
            /\ cpc = "store" => HeardUpTo(reg)

(* What the order needs to know of the frames' numbers. *)
LEMMA Numbers ==
  ASSUME TypeOK
  PROVE  /\ \A i \in 1 .. Len(frame_queue) : frame_queue[i].no \in Nat
         /\ decoding # <<>> => decoding[1].no \in Nat
         /\ play_buf # <<>> => play_buf[1].no \in Nat
<1>0. MaxFrames \in Nat
  BY AudioAssumption
<1>1. \A f \in Frame : f.no \in Nat
  BY <1>0 DEF Frame
<1>2. \A i \in 1 .. Len(frame_queue) : frame_queue[i] \in Frame
  BY ElementOfSeq DEF TypeOK
<1>3. decoding # <<>> => decoding[1] \in Frame
  <2>1. decoding \in Seq(Frame)
    BY DEF TypeOK
  <2>2. decoding # <<>> => Len(decoding) \in Nat \ {0}
    BY <2>1, EmptySeq, LenProperties
  <2> QED  BY <2>1, <2>2, ElementOfSeq
<1>4. play_buf # <<>> => play_buf[1].no \in Nat
  <2> SUFFICES ASSUME play_buf # <<>> PROVE play_buf[1].no \in Nat
    OBVIOUS
  <2> DEFINE b == play_buf[1]
  <2>1. b \in [epoch : 1 .. MaxEpochs, no : 1 .. MaxFrames, size : Sizes, cap : Sizes]
    BY DEF TypeOK
  <2> HIDE DEF b
  <2>2. b.no \in Nat
    BY <1>0, <2>1
  <2> QED  BY <2>2 DEF b
<1> QED
  BY <1>1, <1>2, <1>3, <1>4

(* What the device gets. *)
LEMMA CopyHears ==
  ASSUME CallbackCopies
  PROVE  /\ cpc = "copy" /\ cpc' \in {"crashed", "add"}
         /\ UNCHANGED <<opened, quit, is_seeking, spc, epoch, made, decoding, frame_queue,
                        play_buf, play_buf_size, play_buf_index, len, len1, reg>>
         /\ cpc' = "crashed" <=> Outside
         /\ \/ heard' = heard /\ (play_buf = <<>> \/ len1 = 0 \/ Outside)
            \/ /\ play_buf # <<>> /\ len1 # 0 /\ ~Outside
               /\ heard'.epoch = play_buf[1].epoch /\ heard'.no = play_buf[1].no
               /\ heard'.from = play_buf_index /\ heard'.upto = play_buf_index + len1
               /\ heard'.size = play_buf[1].size
<1>1. CASE play_buf = <<>> \/ len1 = 0 \/ Outside
  BY <1>1 DEF CallbackCopies, Callback, seekVars, bufVars
<1>2. CASE ~(play_buf = <<>> \/ len1 = 0 \/ Outside)
  <2>1. heard' = [epoch |-> play_buf[1].epoch, no |-> play_buf[1].no,
                  from |-> play_buf_index, upto |-> play_buf_index + len1,
                  size |-> play_buf[1].size]
    BY <1>2 DEF CallbackCopies
  <2> QED  BY <1>2, <2>1 DEF CallbackCopies, Callback, seekVars, bufVars
<1> QED
  BY <1>1, <1>2

(* The steps that move frames. *)
LEMMA FramesMove ==
  ASSUME [Next]_vars
  PROVE  \/ BeginDecode \/ PushFrame
         \/ CallbackPops /\ NoFrame
         \/ CallbackPops /\ NextFrame
         \/ CallbackCopies \/ SeekClears \/ AudioClose
         \/ UNCHANGED <<decoding, frame_queue, play_buf, heard>>
<1> DEFINE Rest == UNCHANGED <<decoding, frame_queue, play_buf, heard>>
<1>1. ASSUME CallbackBegins
      PROVE  Rest
  BY <1>1 DEF CallbackBegins, Callback, bufVars
<1>2. ASSUME \/ CallbackTests \/ CallbackSetsSize \/ CallbackSetsClock \/ CallbackResetsIndex
           \/ CallbackReadsSize \/ CallbackReadsIndex \/ CallbackAdds \/ CallbackStores
      PROVE  Rest
  BY <1>2 DEF CallbackTests, CallbackSetsSize, CallbackSetsClock,
     CallbackResetsIndex, CallbackReadsSize, CallbackReadsIndex, CallbackAdds, CallbackStores,
     Callback, bufVars
<1>3. ASSUME SeekBegins \/ SeekResets \/ SeekFile \/ SeekFlushes \/ SeekEnds
      PROVE  Rest
  BY <1>3 DEF SeekBegins, SeekResets, SeekFile, SeekFlushes, SeekEnds, Seek
<1>4. ASSUME Stop \/ AudioOpen \/ UNCHANGED vars
      PROVE  Rest
  BY <1>4 DEF Stop, AudioOpen, vars, bufVars
<1>5. CallbackPops => NoFrame \/ NextFrame
  BY DEF CallbackPops
<1>6. \/ BeginDecode \/ PushFrame \/ CallbackBegins \/ CallbackGoesOn
      \/ SeekBegins \/ SeekClears \/ SeekResets \/ SeekFile \/ SeekFlushes \/ SeekEnds
      \/ Stop \/ AudioClose \/ AudioOpen \/ UNCHANGED vars
  BY DEF Next
<1>7. CallbackGoesOn =>
        \/ CallbackTests \/ CallbackPops \/ CallbackSetsSize \/ CallbackSetsClock
        \/ CallbackResetsIndex \/ CallbackReadsSize \/ CallbackReadsIndex
        \/ CallbackCopies \/ CallbackAdds \/ CallbackStores
  BY DEF CallbackGoesOn
<1> HIDE DEF Rest
<1> QED
  BY <1>1, <1>2, <1>3, <1>4, <1>5, <1>6, <1>7 DEF Rest

(* The order of the epochs is kept by every step. *)
LEMMA SortStep ==
  ASSUME TypeOK, EpochInv, OldInv, NewInv, SortInv, [Next]_vars
  PROVE  SortInv'
<1>0. Shapes
  BY TypeGivesShapes
<1>1. CASE BeginDecode
  BY <1>0, <1>1, BeginMakes DEF SortInv, NewInv, Shapes
<1>2. CASE PushFrame
  <2>1. decoding # <<>> /\ decoding' = <<>> /\ UNCHANGED <<play_buf, heard>>
    BY <1>2 DEF PushFrame, bufVars
  <2> DEFINE n == Len(frame_queue)
  <2>2. /\ n \in Nat /\ Len(frame_queue') = n + 1
        /\ \A i \in 1 .. n : frame_queue'[i] = frame_queue[i]
        /\ frame_queue'[n + 1] = decoding[1]
    BY <1>0, <1>2, PushAdds DEF Shapes
  <2>3. decoding[1].epoch \in Nat
    BY <1>0, <2>1 DEF Shapes
  <2> HIDE DEF n
  <2>4. \A i \in 1 .. n + 1 :
          /\ heard.epoch <= frame_queue'[i].epoch
          /\ play_buf # <<>> => play_buf[1].epoch <= frame_queue'[i].epoch
    BY <2>1, <2>2 DEF SortInv, n
  <2>5. ASSUME NEW i \in 1 .. n + 1, NEW j \in i .. n + 1
        PROVE  frame_queue'[i].epoch <= frame_queue'[j].epoch
    <3>1. CASE j \in 1 .. n
      BY <2>2, <3>1 DEF SortInv, n
    <3>2. CASE j = n + 1 /\ i \in 1 .. n
      BY <2>1, <2>2, <3>2 DEF SortInv, n
    <3>3. CASE i = n + 1 /\ j = n + 1
      BY <2>2, <2>3, <3>3
    <3> QED  BY <2>2, <3>1, <3>2, <3>3
  <2> QED  BY <2>1, <2>2, <2>4, <2>5 DEF SortInv
<1>3. CASE CallbackPops /\ NoFrame
  BY <1>3 DEF CallbackPops, Callback, NoFrame, SortInv
<1>4. CASE CallbackPops /\ NextFrame
  <2> DEFINE n == Len(frame_queue)
  <2>1. /\ Len(frame_queue') = n - 1 /\ n >= 1 /\ n \in Nat
        /\ \A i \in 1 .. Len(frame_queue') :
             frame_queue'[i] = frame_queue[i + 1] /\ i + 1 \in 2 .. Len(frame_queue)
        /\ play_buf'[1].epoch = frame_queue[1].epoch
        /\ UNCHANGED <<decoding, heard>>
    BY <1>0, <1>4, PopTakes DEF Shapes
  <2> HIDE DEF n
  <2>2. 1 \in 1 .. n /\ \A i \in 1 .. n : i \in 1 .. n /\ i \in 1 .. n
    BY <2>1
  <2>3. \A i \in 1 .. n - 1 : /\ heard.epoch <= frame_queue'[i].epoch
                              /\ play_buf'[1].epoch <= frame_queue'[i].epoch
                              /\ decoding # <<>> => frame_queue'[i].epoch <= decoding[1].epoch
    BY <2>1 DEF SortInv, n
  <2>4. \A i \in 1 .. n - 1 : \A j \in i .. n - 1 :
          frame_queue'[i].epoch <= frame_queue'[j].epoch
    <3> SUFFICES ASSUME NEW i \in 1 .. n - 1, NEW j \in i .. n - 1
                 PROVE  frame_queue'[i].epoch <= frame_queue'[j].epoch
      OBVIOUS
    <3>1. i + 1 \in 1 .. n /\ j + 1 \in i + 1 .. n /\ j \in 1 .. n - 1
      BY <2>1
    <3> QED  BY <2>1, <3>1 DEF SortInv, n
  <2>5. /\ heard.epoch <= play_buf'[1].epoch
        /\ decoding # <<>> => /\ play_buf'[1].epoch <= decoding[1].epoch
                              /\ heard.epoch <= decoding[1].epoch
    BY <2>1, <2>2 DEF SortInv, n
  <2> QED  BY <2>1, <2>3, <2>4, <2>5 DEF SortInv
<1>5. CASE CallbackCopies
  <2>1. /\ UNCHANGED <<decoding, frame_queue, play_buf>>
        /\ heard' = heard \/ (play_buf # <<>> /\ heard'.epoch = play_buf[1].epoch)
    BY <1>5, CopyHears
  <2>2. play_buf # <<>> => play_buf[1].epoch \in Nat
    BY <1>0 DEF Shapes
  <2>3. CASE heard' = heard
    BY <2>1, <2>3 DEF SortInv
  <2>4. CASE play_buf # <<>> /\ heard'.epoch = play_buf[1].epoch
    BY <2>1, <2>2, <2>4 DEF SortInv
  <2> QED  BY <2>1, <2>3, <2>4
<1>6. CASE SeekClears
  <2>1. frame_queue' = <<>> /\ UNCHANGED <<decoding, play_buf, heard>>
    BY <1>6 DEF SeekClears, Seek
  <2> QED  BY <2>1, EmptySeq DEF SortInv
<1>7. CASE AudioClose
  <2>1. frame_queue' = <<>> /\ play_buf' = <<>> /\ decoding' = <<>>
    BY <1>7 DEF AudioClose
  <2> QED  BY <2>1, EmptySeq DEF SortInv
<1>8. CASE UNCHANGED <<decoding, frame_queue, play_buf, heard>>
  BY <1>8 DEF SortInv
<1> QED
  BY <1>1, <1>2, <1>3, <1>4, <1>5, <1>6, <1>7, <1>8, FramesMove

(* The steps after which the frames of an epoch are accounted for.         *)
LEMMA SteadySteps ==
  ASSUME EpochInv, [Next]_vars, Steady'
  PROVE  \/ /\ Steady
            /\ \/ BeginDecode \/ PushFrame
               \/ CallbackPops /\ NoFrame
               \/ CallbackPops /\ NextFrame
               \/ CallbackCopies
               \/ UNCHANGED <<made, epoch, decoding, frame_queue, play_buf, heard>>
         \/ spc = "file" /\ SeekFile
         \/ ~opened /\ AudioOpen
<1>1. CASE BeginDecode
  BY <1>1 DEF BeginDecode, Steady
<1>2. CASE PushFrame
  BY <1>2 DEF PushFrame, Steady, seekVars
<1>3. CASE CallbackBegins \/ CallbackGoesOn
  <2>1. UNCHANGED <<opened, spc, made, epoch, decoding>>
    BY <1>3 DEF CallbackBegins, CallbackGoesOn, CallbackTests, CallbackPops, CallbackSetsSize,
       CallbackSetsClock, CallbackResetsIndex, CallbackReadsSize, CallbackReadsIndex,
       CallbackCopies, CallbackAdds, CallbackStores, Callback, seekVars
  <2>2. Steady
    BY <2>1 DEF Steady
  <2>3. \/ CallbackPops /\ NoFrame
        \/ CallbackPops /\ NextFrame
        \/ CallbackCopies
        \/ UNCHANGED <<frame_queue, play_buf, heard>>
    <3>1. CASE CallbackPops
      BY <3>1 DEF CallbackPops
    <3>2. CASE ~CallbackPops /\ ~CallbackCopies
      BY <1>3, <3>2 DEF CallbackBegins, CallbackGoesOn, CallbackTests, CallbackSetsSize,
         CallbackSetsClock, CallbackResetsIndex, CallbackReadsSize, CallbackReadsIndex,
         CallbackAdds, CallbackStores, bufVars
    <3> QED  BY <3>1, <3>2
  <2> QED  BY <2>1, <2>2, <2>3
<1>4. CASE SeekBegins \/ SeekClears \/ SeekResets
  BY <1>4 DEF SeekBegins, SeekClears, SeekResets, Seek, Steady
<1>5. CASE SeekFile
  BY <1>5 DEF SeekFile, Seek
<1>6. CASE SeekFlushes \/ SeekEnds
  BY <1>6 DEF SeekFlushes, SeekEnds, Seek, Steady
<1>7. CASE Stop
  BY <1>7 DEF Stop, Steady, seekVars, bufVars
<1>8. CASE AudioClose
  BY <1>8 DEF AudioClose, Steady
<1>9. CASE AudioOpen
  BY <1>9 DEF AudioOpen
<1>10. CASE UNCHANGED vars
  BY <1>10 DEF vars, Steady, seekVars, bufVars
<1> QED
  BY <1>1, <1>2, <1>3, <1>4, <1>5, <1>6, <1>7, <1>8, <1>9, <1>10 DEF Next

(* Until a frame of the epoch comes nothing of it was taken from the queue. *)
LEMMA NewEpoch ==
  ASSUME TypeOK, EpochInv, OldInv, NewInv,
         (spc = "file" /\ SeekFile) \/ (~opened /\ AudioOpen)
  PROVE  /\ ~Current' /\ heard'.epoch # epoch' /\ made' = 0
         /\ Decoding' = 0 /\ Queued' = 0 /\ Taken' = 0
         /\ \A i \in 1 .. Len(frame_queue') : frame_queue'[i].epoch # epoch'
<1>0. Shapes
  BY TypeGivesShapes
<1>1. /\ epoch' = epoch + 1 /\ made' = 0
      /\ UNCHANGED <<decoding, frame_queue, play_buf, heard>>
  BY DEF SeekFile, Seek, AudioOpen, bufVars
<1>2. ~Current' /\ heard'.epoch # epoch' /\ Decoding' = 0
  BY <1>0, <1>1 DEF Shapes, NewInv, Current, Decoding
<1>3. \A i \in 1 .. Len(frame_queue') : frame_queue'[i].epoch # epoch'
  BY <1>0, <1>1 DEF Shapes, NewInv
<1>4. Len(frame_queue) <= 1 /\ Len(frame_queue) \in Nat
  BY <1>0 DEF Shapes, OldInv, EpochInv, Seeking
<1>5. Queued' = 0
  <2>1. CASE frame_queue = <<>>
    BY <1>0, <1>1, <2>1 DEF Shapes, Queued
  <2>2. CASE frame_queue # <<>>
    <3> DEFINE n == Len(frame_queue)
    <3>0. n # 0 /\ n <= 1 /\ n \in Nat
      BY <1>0, <1>4, <2>2 DEF Shapes
    <3> HIDE DEF n
    <3>1a. n = 1
      BY <3>0
    <3>1. Len(frame_queue) = 1
      BY <3>1a DEF n
    <3>2. frame_queue[1].epoch <= epoch /\ frame_queue[1].epoch \in Nat /\ epoch \in Nat
      BY <1>0, <3>1 DEF Shapes, NewInv
    <3>3. frame_queue'[1].epoch < epoch' /\ frame_queue' # <<>> /\ Len(frame_queue') = 1
      BY <1>1, <2>2, <3>1, <3>2
    <3> QED  BY <3>3 DEF Queued
  <2> QED  BY <2>1, <2>2
<1>6. Taken' = 0
  BY <1>2 DEF Taken
<1> QED
  BY <1>1, <1>2, <1>3, <1>5, <1>6

(* The first frame in the queue, if it is of the epoch, is the next.       *)
LEMMA NextToTake ==
  ASSUME TypeOK, NumberInv, Steady, frame_queue # <<>>, frame_queue[1].epoch = epoch
  PROVE  frame_queue[1].no = Taken + 1
<1>0. Shapes
  BY TypeGivesShapes
<1>1. Len(frame_queue) \in Nat /\ Len(frame_queue) >= 1 /\ Queued = Len(frame_queue)
  BY <1>0 DEF Shapes, Queued
<1>2. Decoding \in Nat /\ made \in Nat /\ Taken \in Nat
  BY <1>0, Numbers DEF Shapes, Decoding, Taken, NumberInv, Current
<1>3. frame_queue[1].no = (made - Decoding) - (Len(frame_queue) - 1)
  BY <1>1 DEF NumberInv
<1>4. made = Taken + Len(frame_queue) + Decoding
  BY <1>1 DEF NumberInv
<1> QED
  BY <1>1, <1>2, <1>3, <1>4

(* As soon as a frame of the epoch is heard or about to be, all are of it. *)
LEMMA AllCurrent ==
  ASSUME ClockInv, heard.epoch = epoch \/ Current
  PROVE  /\ \A i \in 1 .. Len(frame_queue) : frame_queue[i].epoch = epoch
         /\ play_buf # <<>> => Current
BY DEF ClockInv, NewHeard, Current

(* The frame that is taken when the callback looks for one.                *)
LEMMA TakenByPop ==
  ASSUME TypeOK, EpochInv, FrameInv, OldInv, NewInv, ClockInv, NumberInv, PlaceInv, Steady,
         cpc = "pop"
  PROVE  /\ HeardAll(Taken)
         /\ Current => heard.epoch = epoch
<1>0. Shapes
  BY TypeGivesShapes
<1>1. CASE Current
  <2>1. play_buf[1].size \in Nat \ {0}
    BY <1>0, <1>1 DEF Shapes, Current
  <2>2. HeardUpTo(play_buf_index) /\ play_buf_index = play_buf[1].size
    BY <1>1 DEF PlaceInv
  <2>3. /\ heard.epoch = epoch /\ heard.no = play_buf[1].no
        /\ heard.upto = play_buf_index /\ heard.size = play_buf[1].size
    BY <2>1, <2>2 DEF HeardUpTo
  <2> QED  BY <1>1, <2>2, <2>3 DEF HeardAll, Taken
<1>2. CASE ~Current
  BY <1>2 DEF PlaceInv
<1> QED
  BY <1>1, <1>2

(* The numbers of the frames of an epoch go on from step to step.          *)
LEMMA NumberStep ==
  ASSUME TypeOK, EpochInv, FrameInv, OldInv, NewInv, ClockInv, NumberInv, PlaceInv, [Next]_vars
  PROVE  NumberInv'
<1>0. Shapes
  BY TypeGivesShapes
<1> DEFINE n == Len(frame_queue)
<1>n. /\ n \in Nat /\ made \in Nat /\ epoch \in Nat /\ heard.epoch \in Nat
      /\ heard.no \in Nat
      /\ (frame_queue = <<>> <=> n = 0)
  BY <1>0 DEF Shapes, NewInv, NumberInv
<1>t. Taken \in Nat /\ Queued \in Int
  <2>1. play_buf # <<>> => play_buf[1].no \in Nat
    BY Numbers
  <2>2. Taken \in Nat
    BY <1>n, <2>1 DEF Taken, Current
  <2>3. Queued \in Int
    BY <1>n DEF Queued
  <2> QED  BY <2>2, <2>3
<1>1. heard'.no \in Nat
  <2>1. CASE CallbackCopies
    <3>1. heard' = heard \/ (play_buf # <<>> /\ heard'.no = play_buf[1].no)
      BY <2>1, CopyHears
    <3>2. play_buf # <<>> => play_buf[1].no \in Nat
      BY Numbers
    <3>3. CASE heard' = heard
      BY <1>n, <3>3
    <3>4. CASE play_buf # <<>> /\ heard'.no = play_buf[1].no
      BY <3>2, <3>4
    <3> QED  BY <3>1, <3>3, <3>4
  <2>2. CASE ~CallbackCopies
    <3>1. heard' = heard
      BY <2>2, FramesMove, PopTakes, BeginMakes DEF PushFrame, CallbackPops, SeekClears, Seek, AudioClose
    <3> QED  BY <3>1 DEF NumberInv
  <2> QED  BY <2>1, <2>2
<1>2. ASSUME Steady, UNCHANGED <<made, epoch, decoding, frame_queue, play_buf, heard>>
      PROVE  NumberInv'
  BY <1>1, <1>2 DEF NumberInv, Taken, Queued, Decoding, Current
<1>3. CASE Steady /\ BeginDecode
  <2>1. /\ decoding = <<>> /\ decoding' # <<>> /\ decoding'[1].epoch = epoch
        /\ decoding'[1].no = made + 1 /\ made' = made + 1
        /\ UNCHANGED <<epoch, frame_queue, play_buf, heard>>
    BY <1>3, BeginMakes
  <2>2. Decoding = 0 /\ Decoding' = 1 /\ Queued' = Queued /\ Taken' = Taken
    BY <2>1 DEF Decoding, Queued, Taken, Current
  <2> QED  BY <1>1, <1>3, <1>n, <1>t, <2>1, <2>2 DEF NumberInv
<1>4. CASE Steady /\ PushFrame
  <2>1. /\ decoding # <<>> /\ decoding' = <<>>
        /\ UNCHANGED <<made, epoch, play_buf, heard>>
    BY <1>4 DEF PushFrame, seekVars, bufVars
  <2>2. /\ Len(frame_queue') = n + 1
        /\ \A i \in 1 .. n : frame_queue'[i] = frame_queue[i]
        /\ frame_queue'[n + 1] = decoding[1]
    BY <1>4, PushAdds
  <2>3. Decoding' = 0 /\ Taken' = Taken
    BY <2>1 DEF Decoding, Taken, Current
  <2>4. frame_queue' # <<>>
    BY <1>n, <2>2, EmptySeq
  <2>5. Taken \in Int /\ decoding[1].epoch \in Nat
    BY <1>0, <1>t, <2>1 DEF Shapes
  <2>6. CASE decoding[1].epoch = epoch
    <3>1. Decoding = 1 /\ decoding[1].no = made
      BY <1>4, <2>1, <2>6 DEF Decoding, NumberInv
    <3>2. Queued' = Queued + 1 /\ Queued \in Int
      <4>1. CASE n = 0
        BY <1>n, <2>1, <2>2, <2>4, <2>6, <4>1 DEF Queued
      <4>2. CASE n > 0
        <5>1. frame_queue'[1] = frame_queue[1] /\ frame_queue # <<>>
          BY <1>n, <2>2, <4>2
        <5> QED  BY <1>n, <2>1, <2>2, <2>4, <5>1 DEF Queued
      <4> QED  BY <1>n, <4>1, <4>2
    <3>3. made = Taken + Queued + 1
      BY <1>4, <3>1 DEF NumberInv
    <3>4. \A i \in 1 .. n : frame_queue[i].epoch = epoch => frame_queue[i].no = (made - 1) - (n - i)
      BY <1>4, <3>1 DEF NumberInv
    <3> HIDE DEF n
    <3>5. \A i \in 1 .. n + 1 : frame_queue'[i].epoch = epoch =>
             frame_queue'[i].no = (made - 0) - ((n + 1) - i)
      BY <1>n, <2>2, <3>1, <3>4
    <3> QED  BY <1>1, <1>n, <2>1, <2>2, <2>3, <2>5, <3>2, <3>3, <3>5 DEF NumberInv
  <2>7. CASE decoding[1].epoch # epoch
    <3>1. decoding[1].epoch < epoch
      BY <1>n, <2>1, <2>5, <2>7 DEF NewInv
    <3>2. n = 0 /\ Decoding = 0
      BY <1>n, <2>1, <3>1 DEF OldInv, Decoding
    <3>3. Queued = 0 /\ Queued' = 0
      BY <1>n, <2>1, <2>2, <2>4, <3>1, <3>2 DEF Queued
    <3>4. made = Taken
      BY <1>4, <2>5, <3>2, <3>3 DEF NumberInv
    <3>5. \A i \in 1 .. Len(frame_queue') : frame_queue'[i].epoch # epoch
      BY <2>2, <2>7, <3>2
    <3> QED  BY <1>1, <2>1, <2>3, <2>5, <3>3, <3>4, <3>5 DEF NumberInv
  <2> QED  BY <2>6, <2>7
<1>5. CASE Steady /\ CallbackPops /\ NoFrame
  <2>1. /\ cpc = "pop" /\ frame_queue = <<>> /\ play_buf' = <<>>
        /\ UNCHANGED <<made, epoch, decoding, frame_queue, heard>>
    BY <1>5 DEF CallbackPops, Callback, NoFrame, seekVars
  <2>2. Decoding' = Decoding /\ Queued' = Queued
    BY <2>1 DEF Decoding, Queued
  <2>3. HeardAll(Taken) /\ (Current => heard.epoch = epoch)
    BY <1>5, <2>1, TakenByPop
  <2>4. Taken' = Taken
    BY <2>1, <2>3 DEF Taken, Current, HeardAll
  <2> QED  BY <1>1, <1>5, <2>1, <2>2, <2>4 DEF NumberInv
<1>6. CASE Steady /\ CallbackPops /\ NextFrame
  <2>1. /\ n >= 1 /\ Len(frame_queue') = n - 1
        /\ \A i \in 1 .. n - 1 : frame_queue'[i] = frame_queue[i + 1] /\ i + 1 \in 2 .. n
        /\ play_buf' # <<>>
        /\ play_buf'[1].epoch = frame_queue[1].epoch /\ play_buf'[1].no = frame_queue[1].no
        /\ UNCHANGED <<made, epoch, decoding, heard>>
    BY <1>6, PopTakes
  <2>2. Decoding' = Decoding /\ Decoding \in Nat
    BY <2>1 DEF Decoding
  <2>3. Queued' = n - 1
    <3>1. CASE n = 1
      BY <1>6, <2>1, <3>1, PopTakes, EmptySeq DEF Queued
    <3>2. CASE n > 1
      <4>1. frame_queue'[1] = frame_queue[2] /\ 2 \in 1 .. n
        BY <1>n, <2>1, <3>2
      <4>2. ~(frame_queue'[1].epoch < epoch)
        BY <1>0, <1>n, <4>1 DEF OldInv, Shapes
      <4> QED  BY <2>1, <4>2 DEF Queued
    <3> QED  BY <1>n, <2>1, <3>1, <3>2
  <2>4. \A i \in 1 .. Len(frame_queue') : frame_queue'[i].epoch = epoch =>
           frame_queue'[i].no = (made - Decoding) - (Len(frame_queue') - i)
    <3> SUFFICES ASSUME NEW i \in 1 .. n - 1, frame_queue[i + 1].epoch = epoch
                 PROVE  frame_queue[i + 1].no = (made - Decoding) - ((n - 1) - i)
      BY <2>1
    <3>1. i + 1 \in 1 .. n
      BY <1>n, <2>1
    <3>2. frame_queue[i + 1].no = (made - Decoding) - (n - (i + 1))
      BY <1>6, <3>1 DEF NumberInv
    <3> QED  BY <1>n, <2>2, <3>2
  <2>5. made = Taken' + (n - 1) + Decoding
    <3>1. 1 \in 1 .. n /\ frame_queue # <<>>
      BY <1>n, <2>1
    <3>2. CASE frame_queue[1].epoch = epoch
      <4>1. Taken' = frame_queue[1].no
        BY <2>1, <3>2 DEF Taken, Current
      <4>2. frame_queue[1].no = (made - Decoding) - (n - 1)
        BY <1>6, <3>1, <3>2 DEF NumberInv
      <4> QED  BY <1>n, <2>2, <4>1, <4>2
    <3>3. CASE frame_queue[1].epoch # epoch
      <4>1. heard.epoch # epoch /\ ~Current
        BY <3>1, <3>3, AllCurrent
      <4>2. Taken = 0 /\ Taken' = 0
        BY <2>1, <3>3, <4>1 DEF Taken, Current
      <4>3. frame_queue[1].epoch < epoch
        BY <1>0, <3>1, <3>3 DEF NewInv, Shapes
      <4>4. Queued = n - 1
        BY <3>1, <4>3 DEF Queued
      <4> QED  BY <1>6, <4>2, <4>4 DEF NumberInv
    <3> QED  BY <3>2, <3>3
  <2>6. Decoding' = 1 => decoding'[1].no = made'
    BY <1>6, <2>1, <2>2 DEF NumberInv
  <2> HIDE DEF n
  <2> QED  BY <1>1, <2>1, <2>2, <2>3, <2>4, <2>5, <2>6 DEF NumberInv
<1>7. CASE Steady /\ CallbackCopies
  <2>1. UNCHANGED <<made, epoch, decoding, frame_queue, play_buf>>
    BY <1>7, CopyHears
  <2>2. Decoding' = Decoding /\ Queued' = Queued
    BY <2>1 DEF Decoding, Queued
  <2>3. Taken' = Taken
    <3>1. CASE heard' = heard \/ Current
      BY <2>1, <3>1 DEF Taken, Current
    <3>2. CASE heard' # heard /\ ~Current
      <4>1. play_buf # <<>> /\ heard'.epoch = play_buf[1].epoch
        BY <1>7, <3>2, CopyHears
      <4>2. heard.epoch # epoch /\ heard'.epoch # epoch
        BY <3>2, <4>1, AllCurrent DEF Current
      <4> QED  BY <2>1, <3>2, <4>2 DEF Taken, Current
    <3> QED  BY <3>1, <3>2
  <2> QED  BY <1>1, <1>7, <2>1, <2>2, <2>3 DEF NumberInv
<1>8. CASE (spc = "file" /\ SeekFile) \/ (~opened /\ AudioOpen)
  BY <1>1, <1>8, NewEpoch DEF NumberInv
<1>9. CASE ~Steady'
  BY <1>1, <1>9 DEF NumberInv
<1> QED
  BY <1>2, <1>3, <1>4, <1>5, <1>6, <1>7, <1>8, <1>9, SteadySteps

(* A step that moves no frame and hears nothing keeps what was heard.      *)
LEMMA SameHeard ==
  ASSUME UNCHANGED <<epoch, play_buf, heard>>
  PROVE  /\ Taken' = Taken /\ Current' = Current
         /\ HeardAll(Taken)' = HeardAll(Taken)
         /\ \A pos : HeardUpTo(pos)' = HeardUpTo(pos)
<1>1. Taken' = Taken /\ Current' = Current
  BY DEF Taken, Current
<1> QED
  BY <1>1 DEF HeardAll, HeardUpTo

(* The callback goes through the frame and what it hears follows.          *)
LEMMA PlaceStep ==
  ASSUME TypeOK, EpochInv, FrameInv, OldInv, NewInv, ClockInv, NumberInv, PlaceInv, [Next]_vars
  PROVE  PlaceInv'
<1>0. Shapes
  BY TypeGivesShapes
<1>1. cpc' \in {"pop", "setSize", "clock", "reset", "size", "index", "copy"} => len' > 0
  BY <1>0 DEF PlaceInv, Shapes, Next, vars, seekVars, bufVars, callVars, CallbackGoesOn,
     CallbackBegins, CallbackTests, CallbackPops, CallbackSetsSize, CallbackSetsClock,
     CallbackResetsIndex, CallbackReadsSize, CallbackReadsIndex, CallbackCopies, CallbackAdds,
     CallbackStores, Callback, BeginDecode, PushFrame, SeekBegins, SeekClears, SeekResets,
     SeekFile, SeekFlushes, SeekEnds, Seek, Stop, AudioClose, AudioOpen
<1>2. CASE ~Steady'
  BY <1>1, <1>2 DEF PlaceInv
<1>3. CASE (spc = "file" /\ SeekFile) \/ (~opened /\ AudioOpen)
  <2>1. ~Current' /\ heard'.epoch # epoch' /\ Taken' = 0
    BY <1>3, NewEpoch
  <2>2. HeardAll(Taken)'
    BY <2>1 DEF HeardAll
  <2> QED  BY <1>1, <2>1, <2>2 DEF PlaceInv
<1>4. ASSUME Steady, UNCHANGED <<epoch, play_buf, play_buf_size, play_buf_index, cpc, len,
                                 len1, reg, heard>>
      PROVE  PlaceInv'
  BY <1>1, <1>4, SameHeard DEF PlaceInv
<1> DEFINE size == play_buf[1].size
<1>5. Current => size \in Nat \ {0} /\ play_buf # <<>>
  BY <1>0 DEF Shapes, Current
<1> HIDE DEF size
<1>6. ASSUME Steady, CallbackTests
      PROVE  PlaceInv'
  <2>1. /\ UNCHANGED <<epoch, play_buf, play_buf_size, play_buf_index, len, len1, reg, heard>>
        /\ cpc = "test"
        /\ \/ cpc' = "idle"
           \/ cpc' = "pop" /\ play_buf_index >= play_buf_size
           \/ cpc' = "size" /\ ~(play_buf_index >= play_buf_size)
    BY <1>6 DEF CallbackTests, Callback, seekVars, bufVars
  <2>2. Current => /\ play_buf_size = size /\ play_buf_index \in 0 .. size
                   /\ HeardUpTo(play_buf_index)
    BY <1>5, <1>6, <2>1 DEF PlaceInv, FrameInv, size
  <2>3. Current /\ cpc' = "pop" => play_buf_index = play_buf_size
    BY <1>5, <2>1, <2>2
  <2>4. Current /\ cpc' = "size" => play_buf_index < play_buf_size
    BY <1>5, <2>1, <2>2
  <2> QED  BY <1>1, <1>6, <2>1, <2>2, <2>3, <2>4, SameHeard DEF PlaceInv, size
<1>7. ASSUME Steady, CallbackPops, NoFrame
      PROVE  PlaceInv'
  <2>1. /\ cpc = "pop" /\ play_buf' = <<>>
        /\ UNCHANGED <<epoch, heard>>
    BY <1>7 DEF CallbackPops, Callback, NoFrame, seekVars
  <2>2. HeardAll(Taken) /\ (Current => heard.epoch = epoch)
    BY <1>7, <2>1, TakenByPop
  <2>3. ~Current' /\ Taken' = Taken
    BY <2>1, <2>2 DEF Taken, Current, HeardAll
  <2>4. HeardAll(Taken)'
    BY <2>1, <2>2, <2>3 DEF HeardAll
  <2> QED  BY <1>1, <2>3, <2>4 DEF PlaceInv
<1>8. ASSUME Steady, CallbackPops, NextFrame
      PROVE  PlaceInv'
  <2>1. /\ cpc = "pop" /\ cpc' \in {"setSize", "crashed"}
        /\ frame_queue # <<>> /\ 1 \in 1 .. Len(frame_queue)
        /\ play_buf'[1].epoch = frame_queue[1].epoch /\ play_buf'[1].no = frame_queue[1].no
        /\ play_buf' # <<>>
        /\ UNCHANGED <<epoch, heard>>
    BY <1>0, <1>8, PopTakes DEF NextFrame, Shapes
  <2>2. HeardAll(Taken)
    BY <1>8, <2>1, TakenByPop
  <2>3. Taken \in Nat
    BY Numbers DEF Taken, Current, NumberInv
  <2>4. CASE frame_queue[1].epoch = epoch
    <3>1. play_buf'[1].no = Taken + 1
      BY <1>8, <2>1, <2>4, NextToTake
    <3>2. play_buf'[1].no - 1 = Taken
      BY <2>3, <3>1
    <3>3. Current' /\ HeardUpTo(0)'
      BY <2>1, <2>2, <2>4, <3>2 DEF Current, HeardUpTo, HeardAll
    <3> QED  BY <1>1, <2>1, <3>3 DEF PlaceInv
  <2>5. CASE frame_queue[1].epoch # epoch
    <3>1. heard.epoch # epoch
      BY <2>1, <2>5, AllCurrent
    <3>2. ~Current' /\ Taken' = 0
      BY <2>1, <2>5, <3>1 DEF Current, Taken
    <3>3. HeardAll(Taken)'
      BY <2>1, <3>1, <3>2 DEF HeardAll
    <3> QED  BY <1>1, <3>2, <3>3 DEF PlaceInv
  <2> QED  BY <2>4, <2>5
<1>9. ASSUME Steady, CallbackSetsSize
      PROVE  PlaceInv'
  <2>1. /\ UNCHANGED <<epoch, play_buf, play_buf_index, heard>>
        /\ cpc = "setSize" /\ cpc' \in {"reset", "clock"} /\ play_buf_size' = reg
    BY <1>9 DEF CallbackSetsSize, Callback, seekVars
  <2>2. Current => HeardUpTo(0) /\ reg = play_buf[1].size
    BY <1>5, <1>9, <2>1 DEF PlaceInv, FrameInv
  <2> QED  BY <1>1, <1>9, <2>1, <2>2, SameHeard DEF PlaceInv
<1>10. ASSUME Steady, CallbackSetsClock
       PROVE  PlaceInv'
  <2>1. /\ UNCHANGED <<epoch, play_buf, play_buf_size, play_buf_index, heard>>
        /\ cpc = "clock" /\ cpc' = "reset"
    BY <1>10 DEF CallbackSetsClock, Callback, seekVars, bufVars
  <2> QED  BY <1>1, <1>10, <2>1, SameHeard DEF PlaceInv
<1>11. ASSUME Steady, CallbackResetsIndex
       PROVE  PlaceInv'
  <2>1. /\ UNCHANGED <<epoch, play_buf, play_buf_size, heard>>
        /\ cpc = "reset" /\ cpc' = "size" /\ play_buf_index' = 0
    BY <1>11 DEF CallbackResetsIndex, Callback, seekVars
  <2>2. Current => HeardUpTo(0) /\ play_buf_size = size
    BY <1>11, <2>1 DEF PlaceInv, size
  <2>3. Current => 0 < play_buf_size
    BY <1>5, <2>2
  <2> QED  BY <1>1, <1>11, <2>1, <2>2, <2>3, SameHeard DEF PlaceInv, size
<1>12. ASSUME Steady, CallbackReadsSize
       PROVE  PlaceInv'
  <2>1. /\ UNCHANGED <<epoch, play_buf, play_buf_size, play_buf_index, heard>>
        /\ cpc = "size" /\ cpc' = "index" /\ reg' = play_buf_size
    BY <1>12 DEF CallbackReadsSize, Callback, seekVars, bufVars
  <2> QED  BY <1>1, <1>12, <2>1, SameHeard DEF PlaceInv
<1>13. ASSUME Steady, CallbackReadsIndex
       PROVE  PlaceInv'
  <2>1. /\ UNCHANGED <<epoch, play_buf, play_buf_size, play_buf_index, heard>>
        /\ cpc = "index" /\ cpc' = "copy"
        /\ len1' = IF reg - play_buf_index > len THEN len ELSE reg - play_buf_index
    BY <1>13 DEF CallbackReadsIndex, Callback, seekVars, bufVars
  <2>2. Current => reg = play_buf_size /\ play_buf_index < play_buf_size /\ len > 0
    BY <1>13, <2>1 DEF PlaceInv
  <2>3. play_buf_size \in Int /\ play_buf_index \in Int /\ len \in Int
    BY <1>0 DEF Shapes
  <2>4. Current => len1' > 0
    BY <2>1, <2>2, <2>3
  <2> QED  BY <1>1, <1>13, <2>1, <2>4, SameHeard DEF PlaceInv
<1>14. ASSUME Steady, CallbackCopies
       PROVE  PlaceInv'
  <2>1. /\ cpc = "copy" /\ cpc' \in {"crashed", "add"}
        /\ UNCHANGED <<epoch, play_buf, play_buf_size, play_buf_index, len1>>
        /\ cpc' = "crashed" <=> Outside
    BY <1>14, CopyHears
  <2>2. CASE Current
    <3>1. len1 > 0 /\ len1 \in Int /\ play_buf_index \in Nat /\ play_buf # <<>>
      BY <1>0, <1>5, <1>14, <2>1, <2>2 DEF PlaceInv, FrameInv, Shapes
    <3>2. CASE Outside
      BY <1>1, <2>1, <2>2, <3>2 DEF PlaceInv, Current
    <3>3. CASE ~Outside
      <4>1. /\ heard'.epoch = play_buf[1].epoch /\ heard'.no = play_buf[1].no
            /\ heard'.upto = play_buf_index + len1 /\ heard'.size = play_buf[1].size
        BY <1>14, <3>1, <3>3, CopyHears
      <4>2. play_buf_index + len1 # 0
        BY <3>1
      <4>3. HeardUpTo(play_buf_index + len1)'
        BY <2>1, <2>2, <4>1, <4>2 DEF HeardUpTo, Current
      <4>4. Current' /\ cpc' = "add" /\ play_buf_size' = play_buf'[1].size /\ len1' > 0
        BY <1>14, <2>1, <2>2, <3>1, <3>3 DEF Current, PlaceInv
      <4> QED  BY <1>1, <4>3, <4>4 DEF PlaceInv
    <3> QED  BY <3>2, <3>3
  <2>3. CASE ~Current
    <3>1. ~Current'
      BY <2>1, <2>3 DEF Current
    <3>2. CASE heard' = heard
      BY <1>1, <1>14, <2>1, <2>3, <3>1, <3>2, SameHeard DEF PlaceInv
    <3>3. CASE heard' # heard
      <4>1. play_buf # <<>> /\ heard'.epoch = play_buf[1].epoch
        BY <1>14, <3>3, CopyHears
      <4>2. heard'.epoch # epoch'
        BY <2>1, <2>3, <4>1 DEF Current
      <4>3. Taken' = 0 /\ HeardAll(Taken)'
        BY <3>1, <4>2 DEF Taken, HeardAll
      <4> QED  BY <1>1, <3>1, <4>3 DEF PlaceInv
    <3> QED  BY <3>2, <3>3
  <2> QED  BY <2>2, <2>3
<1>15. ASSUME Steady, CallbackAdds
       PROVE  PlaceInv'
  <2>1. /\ UNCHANGED <<epoch, play_buf, play_buf_size, play_buf_index, heard>>
        /\ cpc = "add" /\ cpc' = "store" /\ reg' = play_buf_index + len1
    BY <1>15 DEF CallbackAdds, Callback, seekVars, bufVars
  <2>2. Current => HeardUpTo(play_buf_index + len1) /\ play_buf_size = play_buf[1].size
    BY <1>15, <2>1 DEF PlaceInv
  <2> QED  BY <1>1, <1>15, <2>1, <2>2, SameHeard DEF PlaceInv
<1>16. ASSUME Steady, CallbackStores
       PROVE  PlaceInv'
  <2>1. /\ UNCHANGED <<epoch, play_buf, play_buf_size, heard>>
        /\ cpc = "store" /\ cpc' = "test" /\ play_buf_index' = reg
    BY <1>16 DEF CallbackStores, Callback, seekVars
  <2>2. Current => HeardUpTo(reg) /\ play_buf_size = play_buf[1].size
    BY <1>16, <2>1 DEF PlaceInv
  <2> QED  BY <1>1, <1>16, <2>1, <2>2, SameHeard DEF PlaceInv
<1>17. ASSUME Steady, CallbackBegins
       PROVE  PlaceInv'
  <2>1. /\ UNCHANGED <<epoch, play_buf, play_buf_size, play_buf_index, heard>>
        /\ cpc = "idle" /\ cpc' = "test"
    BY <1>17 DEF CallbackBegins, Callback, seekVars, bufVars
  <2> QED  BY <1>1, <1>17, <2>1, SameHeard DEF PlaceInv
<1>18. ASSUME Steady, \/ BeginDecode \/ PushFrame \/ SeekFlushes \/ SeekEnds
                      \/ Stop \/ UNCHANGED vars
       PROVE  PlaceInv'
  <2>1. UNCHANGED <<epoch, play_buf, play_buf_size, play_buf_index, cpc, len, len1, reg, heard>>
    BY <1>18 DEF BeginDecode, PushFrame, SeekFlushes, SeekEnds, Seek, Stop, vars, seekVars,
       bufVars, callVars
  <2> QED  BY <1>4, <1>18, <2>1
<1>19. CASE Steady' /\ ~((spc = "file" /\ SeekFile) \/ (~opened /\ AudioOpen))
  <2>1. Steady
    BY <1>19, SteadySteps
  <2>2. ~SeekFile /\ ~AudioOpen
    BY <1>19 DEF SeekFile, Seek, AudioOpen
  <2>3. ~(SeekBegins \/ SeekClears \/ SeekResets \/ AudioClose)
    BY <1>19 DEF SeekBegins, SeekClears, SeekResets, Seek, AudioClose, Steady
  <2>4. CallbackPops => NoFrame \/ NextFrame
    BY DEF CallbackPops
  <2>5. CallbackGoesOn =>
          \/ CallbackTests \/ CallbackPops \/ CallbackSetsSize \/ CallbackSetsClock
          \/ CallbackResetsIndex \/ CallbackReadsSize \/ CallbackReadsIndex
          \/ CallbackCopies \/ CallbackAdds \/ CallbackStores
    BY DEF CallbackGoesOn
  <2>6. CallbackGoesOn => PlaceInv'
    BY <1>6, <1>7, <1>8, <1>9, <1>10, <1>11, <1>12, <1>13, <1>14, <1>15, <1>16, <2>1, <2>4, <2>5
  <2> QED  BY <1>17, <1>18, <2>1, <2>2, <2>3, <2>6 DEF Next
<1> QED
  BY <1>2, <1>3, <1>19
-----------------------------------------------------------------------------
OrderInv == IndInv /\ SortInv /\ NumberInv /\ PlaceInv

LEMMA OrderInit == Init => OrderInv
<1> SUFFICES ASSUME Init PROVE OrderInv
  OBVIOUS
<1>1. IndInv
  BY InitInd
<1>2. heard.epoch = 0 /\ heard.no = 0 /\ epoch = 1
  BY DEF Init, NoChunk
<1>3. /\ play_buf = <<>> /\ frame_queue = <<>> /\ decoding = <<>> /\ made = 0 /\ cpc = "idle"
      /\ Len(frame_queue) = 0
  BY EmptySeq DEF Init
<1>4. ~Current /\ Taken = 0 /\ Queued = 0 /\ Decoding = 0
  BY <1>2, <1>3 DEF Current, Taken, Queued, Decoding
<1>5. SortInv
  BY <1>3 DEF SortInv
<1>6. NumberInv
  BY <1>2, <1>3, <1>4 DEF NumberInv
<1>7. PlaceInv
  BY <1>2, <1>3, <1>4 DEF PlaceInv, HeardAll
<1> QED
  BY <1>1, <1>5, <1>6, <1>7 DEF OrderInv

LEMMA OrderStep == OrderInv /\ [Next]_vars => OrderInv'
<1> SUFFICES ASSUME OrderInv, [Next]_vars PROVE OrderInv'
  OBVIOUS
<1>1. /\ IndInv /\ SortInv /\ NumberInv /\ PlaceInv
      /\ TypeOK /\ EpochInv /\ FrameInv /\ OldInv /\ NewInv /\ ClockInv
  BY DEF OrderInv, IndInv
<1>2. IndInv'
  BY <1>1, StepInd
<1>3. SortInv'
  BY <1>1, SortStep
<1>4. NumberInv'
  BY <1>1, NumberStep
<1>5. PlaceInv'
  BY <1>1, PlaceStep
<1> QED
  BY <1>2, <1>3, <1>4, <1>5 DEF OrderInv

(* What is heard next follows what was heard last.                         *)
LEMMA HeardStep ==
  ASSUME OrderInv, [Next]_vars, heard' # heard
  PROVE  /\ heard'.epoch >= heard.epoch
         /\ heard'.epoch = epoch /\ ~is_seeking => Follows(heard')
<1>0. /\ TypeOK /\ EpochInv /\ FrameInv /\ NewInv /\ SortInv /\ NumberInv /\ PlaceInv
  BY DEF OrderInv, IndInv
<1>1. CallbackCopies
  BY FramesMove, PopTakes, BeginMakes, <1>0
     DEF PushFrame, CallbackPops, SeekClears, Seek, AudioClose
<1>2. /\ cpc = "copy" /\ play_buf # <<>> /\ len1 # 0
      /\ heard'.epoch = play_buf[1].epoch /\ heard'.no = play_buf[1].no
      /\ heard'.from = play_buf_index
  BY <1>1, CopyHears
<1>3. heard.epoch \in Nat /\ heard.no \in Nat /\ play_buf[1].epoch \in Nat /\ play_buf[1].no \in Nat
  BY <1>0, <1>2, TypeGivesShapes, Numbers DEF Shapes, NewInv, NumberInv
<1>4. heard'.epoch >= heard.epoch
  BY <1>0, <1>2, <1>3 DEF SortInv
<1>5. ASSUME heard'.epoch = epoch, ~is_seeking
      PROVE  Follows(heard')
  <2>1. Steady /\ Current
    BY <1>0, <1>2, <1>5 DEF Steady, Current, EpochInv, TypeOK
  <2>2. HeardUpTo(play_buf_index)
    BY <1>0, <1>2, <2>1 DEF PlaceInv
  <2>3. CASE play_buf_index = 0
    <3>1. HeardAll(play_buf[1].no - 1)
      BY <2>2, <2>3 DEF HeardUpTo
    <3>2. CASE heard.epoch = epoch
      BY <1>2, <1>3, <1>5, <2>3, <3>1, <3>2 DEF HeardAll, Follows
    <3>3. CASE heard.epoch # epoch
      BY <1>2, <1>3, <1>5, <2>3, <3>1, <3>3 DEF HeardAll, Follows
    <3> QED  BY <3>2, <3>3
  <2>4. CASE play_buf_index # 0
    BY <1>2, <1>5, <2>2, <2>4 DEF HeardUpTo, Follows
  <2> QED  BY <2>3, <2>4
<1> QED
  BY <1>4, <1>5

(* In every run, between two seeks every byte that was decoded is heard    *)
(* once and in order, from the first frame on; and a byte of before a seek *)
(* is never heard after one of behind it.                                  *)
THEOREM HeardOnceAndInOrder == Spec => HeardOnceInOrder
<1>1. Spec => []OrderInv
  BY OrderInit, OrderStep, PTL DEF Spec
<1>2. OrderInv /\ [Next]_vars
        => [heard' # heard =>
              /\ heard'.epoch >= heard.epoch
              /\ heard'.epoch = epoch /\ ~is_seeking => Follows(heard')]_vars
  BY HeardStep
<1> QED
  BY <1>1, <1>2, PTL DEF Spec, HeardOnceInOrder
=============================================================================
