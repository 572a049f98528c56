------------------------------- MODULE AudioOut -------------------------------
(***************************************************************************)
(* The audio output of HFFPlayer: the audio thread pushes decoded frames,  *)
(* SDL's thread calls sdl_audio_callback whenever the device wants bytes,  *)
(* and the GUI thread's seek throws away what was decoded.                 *)
(*                                                                         *)
(* The queue of frames has a mutex.  The play buffer, its size and the     *)
(* index of its next byte have none: seek writes size and index while the  *)
(* callback computes with them.  Each access of the callback to one that   *)
(* seek also writes is a step of its own, in the order of the source.      *)
(*                                                                         *)
(* The play buffer holds one frame: its number in its epoch, its size, and *)
(* cap, the number of bytes the buffer was allocated with.  The epoch      *)
(* counts seeks and sessions: what is of an earlier epoch is old.  A frame *)
(* is of the epoch in which it is decoded; whether the packet it comes     *)
(* from was read before the seek is a question for Pipeline.               *)
(***************************************************************************)
EXTENDS Integers, Sequences

CONSTANTS
  Sizes,          \* the bytes a frame can have
  StreamLen,      \* the bytes the device wants in a call
  Silence,        \* what the callback takes for the size of no frame (512)
  BufferSize,     \* audio_.buffer_size
  MaxFrames,      \* frames in an epoch (bound)
  MaxEpochs       \* seeks and restarts (bound)

ASSUME AudioAssumption ==
  /\ Sizes \subseteq Nat \ {0}
  /\ StreamLen \in Nat \ {0} /\ Silence \in Nat \ {0}
  /\ BufferSize \in Nat /\ MaxFrames \in Nat /\ MaxEpochs \in Nat \ {0}

VARIABLES
  opened,         \* the device is open
  quit,
  is_seeking, spc,\* where seek is
  epoch,          \* history: seeks and sessions so far
  made,           \* history: frames begun in this epoch
  decoding,       \* the frame the audio thread decodes, in a sequence of at most one
  frame_queue,
  play_buf,       \* the play buffer, in a sequence of at most one (NULL)
  play_buf_size, play_buf_index,
  cpc,            \* where the callback is
  len, len1, reg, \* its len and len1, and the value it computes with; 0 when not in use
  audio_clock,    \* the epoch of the frame that set it, 0 when it was reset
  heard,          \* history: the chunk copied to the device last
  disturbed       \* history: seek has reset index or size during this call

seekVars == <<is_seeking, spc, epoch, made>>
bufVars == <<play_buf, play_buf_size, play_buf_index>>
callVars == <<cpc, len, len1, reg>>
vars == <<opened, quit, seekVars, decoding, frame_queue, bufVars, callVars,
          audio_clock, heard, disturbed>>

NoChunk == [epoch |-> 0, no |-> 0, from |-> 0, upto |-> 0, size |-> 0]

Init ==
  /\ opened = TRUE /\ quit = FALSE
  /\ is_seeking = FALSE /\ spc = "idle" /\ epoch = 1 /\ made = 0
  /\ decoding = <<>> /\ frame_queue = <<>>
  /\ play_buf = <<>> /\ play_buf_size = 0 /\ play_buf_index = 0
  /\ cpc = "idle" /\ len = 0 /\ len1 = 0 /\ reg = 0
  /\ audio_clock = 0 /\ heard = NoChunk /\ disturbed = FALSE
-----------------------------------------------------------------------------
(* processAudioPacket, in the audio thread. *)

(* With decoder_mutex locked and is_seeking looked at again. *)
BeginDecode ==
  /\ opened /\ ~quit /\ ~is_seeking
  /\ decoding = <<>>
  /\ made < MaxFrames
  /\ \E size \in Sizes :
       decoding' = <<[epoch |-> epoch, no |-> made + 1, size |-> size]>>
  /\ made' = made + 1
  /\ UNCHANGED <<opened, quit, is_seeking, spc, epoch, frame_queue, bufVars, callVars,
                 audio_clock, heard, disturbed>>

(* The frame goes to the queue, which has no limit, and the lock is free.  *)
PushFrame ==
  /\ decoding # <<>>
  /\ frame_queue' = frame_queue \o decoding
  /\ decoding' = <<>>
  /\ UNCHANGED <<opened, quit, seekVars, bufVars, callVars, audio_clock, heard, disturbed>>
-----------------------------------------------------------------------------
(* sdl_audio_callback. *)

Callback(from, to) ==
  /\ cpc = from
  /\ cpc' = to
  /\ UNCHANGED <<opened, quit, seekVars, decoding>>

(* The stream is silent, and stays so after quit and during a seek. *)
CallbackBegins ==
  /\ opened /\ ~quit /\ ~is_seeking
  /\ Callback("idle", "test")
  /\ len' = StreamLen
  /\ UNCHANGED <<len1, reg, frame_queue, bufVars, audio_clock, heard, disturbed>>

(* while (len > 0), and play_buf_index >= play_buf_size.  To read both at  *)
(* once gives the same: seek writes the index first, so the only new pair  *)
(* would be an old index and size 0, which the test takes for 0 and 0.     *)
CallbackTests ==
  /\ \/ /\ Callback("test", "idle") /\ len = 0
        /\ disturbed' = FALSE
     \/ /\ Callback("test", IF play_buf_index >= play_buf_size THEN "pop" ELSE "size")
        /\ len # 0
        /\ UNCHANGED disturbed
  /\ UNCHANGED <<len, len1, reg, frame_queue, bufVars, audio_clock, heard>>

(* Mutant of NoFrame: an empty queue has no bytes at all. *)
NoFrameNoBytes ==
  /\ frame_queue = <<>>
  /\ play_buf' = <<>>
  /\ reg' = 0
  /\ UNCHANGED frame_queue

(* audio_decode_frame returns -1: silence, and the buffer is forgotten. *)
NoFrame ==
  /\ frame_queue = <<>>
  /\ play_buf' = <<>>
  /\ reg' = Silence
  /\ UNCHANGED frame_queue

(* audio_decode_frame copies the first frame to the play buffer, which is  *)
(* allocated when there is none or the frame has twice the codec's size.   *)
NextFrame ==
  /\ frame_queue # <<>>
  /\ frame_queue' = Tail(frame_queue)
  /\ LET af == Head(frame_queue)
         cap == IF play_buf = <<>> \/ af.size > 2 * BufferSize THEN af.size ELSE play_buf[1].cap
     IN /\ play_buf' = <<[epoch |-> af.epoch, no |-> af.no, size |-> af.size, cap |-> cap]>>
        /\ reg' = af.size

(* A frame that is larger than the buffer was allocated for is copied to   *)
(* what lies behind it.                                                    *)
CallbackPops ==
  /\ NoFrame \/ NextFrame
  /\ Callback("pop", IF play_buf' = <<>> \/ play_buf'[1].size <= play_buf'[1].cap
                     THEN "setSize" ELSE "crashed")
  /\ UNCHANGED <<len, len1, play_buf_size, play_buf_index, audio_clock, heard, disturbed>>

CallbackSetsSize ==
  /\ Callback("setSize", IF play_buf = <<>> THEN "reset" ELSE "clock")
  /\ play_buf_size' = reg
  /\ reg' = 0
  /\ UNCHANGED <<len, len1, frame_queue, play_buf, play_buf_index, audio_clock, heard, disturbed>>

(* Mutant of CallbackSetsClock: only the first frame sets the clock. *)
CallbackSetsClockOnce ==
  /\ Callback("clock", "reset")
  /\ audio_clock' = IF audio_clock = 0 THEN play_buf[1].epoch ELSE audio_clock
  /\ UNCHANGED <<len, len1, reg, frame_queue, bufVars, heard, disturbed>>

CallbackSetsClock ==
  /\ Callback("clock", "reset")
  /\ audio_clock' = play_buf[1].epoch
  /\ UNCHANGED <<len, len1, reg, frame_queue, bufVars, heard, disturbed>>

(* Mutant of CallbackResetsIndex: the index of the last frame stays. *)
CallbackKeepsIndex ==
  /\ Callback("reset", "size")
  /\ UNCHANGED <<len, len1, reg, frame_queue, bufVars, audio_clock, heard, disturbed>>

CallbackResetsIndex ==
  /\ Callback("reset", "size")
  /\ play_buf_index' = 0
  /\ UNCHANGED <<len, len1, reg, frame_queue, play_buf, play_buf_size, audio_clock, heard, disturbed>>

(* len1 = play_buf_size - play_buf_index, at most len: the size ... *)
CallbackReadsSize ==
  /\ Callback("size", "index")
  /\ reg' = play_buf_size
  /\ UNCHANGED <<len, len1, frame_queue, bufVars, audio_clock, heard, disturbed>>

(* ... and the index. *)
CallbackReadsIndex ==
  /\ Callback("index", "copy")
  /\ len1' = IF reg - play_buf_index > len THEN len ELSE reg - play_buf_index
  /\ reg' = 0
  /\ UNCHANGED <<len, frame_queue, bufVars, audio_clock, heard, disturbed>>

(* memcpy takes a negative len1 for a very large one, and a len that grew  *)
(* means that stream is before its beginning.                              *)
Outside ==
  /\ play_buf # <<>>
  /\ \/ len1 < 0 \/ len > StreamLen
     \/ play_buf_index < 0 \/ play_buf_index + len1 > play_buf[1].cap

CallbackCopies ==
  /\ Callback("copy", IF Outside THEN "crashed" ELSE "add")
  /\ heard' = IF play_buf = <<>> \/ len1 = 0 \/ Outside THEN heard
              ELSE [epoch |-> play_buf[1].epoch, no |-> play_buf[1].no,
                    from |-> play_buf_index, upto |-> play_buf_index + len1,
                    size |-> play_buf[1].size]
  /\ UNCHANGED <<len, len1, reg, frame_queue, bufVars, audio_clock, disturbed>>

(* Mutant of CallbackAdds: the index is set to len1. *)
CallbackAddsNothing ==
  /\ Callback("add", "store")
  /\ reg' = len1
  /\ UNCHANGED <<len, len1, frame_queue, bufVars, audio_clock, heard, disturbed>>

(* play_buf_index += len1 reads ... *)
CallbackAdds ==
  /\ Callback("add", "store")
  /\ reg' = play_buf_index + len1
  /\ UNCHANGED <<len, len1, frame_queue, bufVars, audio_clock, heard, disturbed>>

(* ... and writes. *)
CallbackStores ==
  /\ Callback("store", "test")
  /\ play_buf_index' = reg
  /\ len' = len - len1
  /\ reg' = 0 /\ len1' = 0
  /\ UNCHANGED <<frame_queue, play_buf, play_buf_size, audio_clock, heard, disturbed>>

CallbackGoesOn ==
  \/ CallbackTests \/ CallbackPops \/ CallbackSetsSize \/ CallbackSetsClock
  \/ CallbackResetsIndex \/ CallbackReadsSize \/ CallbackReadsIndex
  \/ CallbackCopies \/ CallbackAdds \/ CallbackStores
-----------------------------------------------------------------------------
(* seek, in the GUI thread, as far as it touches the audio. *)

Seek(from, to) ==
  /\ spc = from
  /\ spc' = to
  /\ UNCHANGED <<opened, quit, decoding, play_buf, callVars, heard>>

SeekBegins ==
  /\ opened /\ ~quit
  /\ epoch < MaxEpochs
  /\ Seek("idle", "clear")
  /\ is_seeking' = TRUE
  /\ UNCHANGED <<epoch, made, frame_queue, play_buf_size, play_buf_index, audio_clock, disturbed>>

(* Mutant of SeekClears: the queue is kept. *)
SeekClearsNothing ==
  /\ Seek("clear", "index")
  /\ UNCHANGED <<is_seeking, epoch, made, frame_queue, play_buf_size, play_buf_index,
                 audio_clock, disturbed>>

SeekClears ==
  /\ Seek("clear", "index")
  /\ frame_queue' = <<>>
  /\ UNCHANGED <<is_seeking, epoch, made, play_buf_size, play_buf_index, audio_clock, disturbed>>

(* play_buf_index = 0, then play_buf_size = 0. *)
SeekResets ==
  /\ \/ Seek("index", "size") /\ play_buf_index' = 0 /\ UNCHANGED play_buf_size
     \/ Seek("size", "file") /\ play_buf_size' = 0 /\ UNCHANGED play_buf_index
  /\ disturbed' = (cpc # "idle")
  /\ UNCHANGED <<is_seeking, epoch, made, frame_queue, audio_clock>>

(* av_seek_frame, which may fail; from here on what is decoded is new. *)
SeekFile ==
  /\ \/ Seek("file", "codecs") /\ UNCHANGED is_seeking
     \/ Seek("file", "idle") /\ is_seeking' = FALSE
  /\ epoch' = epoch + 1 /\ made' = 0
  /\ UNCHANGED <<frame_queue, play_buf_size, play_buf_index, audio_clock, disturbed>>

(* flushDecoders, with decoder_mutex: it resets the clocks as well. *)
SeekFlushes ==
  /\ decoding = <<>>
  /\ Seek("codecs", "end")
  /\ audio_clock' = 0
  /\ UNCHANGED <<is_seeking, epoch, made, frame_queue, play_buf_size, play_buf_index,
                 disturbed>>

SeekEnds ==
  /\ Seek("end", "idle")
  /\ is_seeking' = FALSE
  /\ UNCHANGED <<epoch, made, frame_queue, play_buf_size, play_buf_index, audio_clock, disturbed>>
-----------------------------------------------------------------------------
(* stop() sets quit; the GUI thread then waits for the worker. *)
Stop ==
  /\ opened /\ ~quit
  /\ spc = "idle"
  /\ quit' = TRUE
  /\ UNCHANGED <<opened, seekVars, decoding, frame_queue, bufVars, callVars, audio_clock,
                 heard, disturbed>>

(* audio_close, after the audio thread was joined.  SDL_CloseAudioDevice   *)
(* returns when no callback runs.                                          *)
AudioClose ==
  /\ opened /\ quit
  /\ decoding = <<>>
  /\ cpc = "idle"
  /\ opened' = FALSE
  /\ frame_queue' = <<>>
  /\ play_buf' = <<>> /\ play_buf_size' = 0 /\ play_buf_index' = 0
  /\ UNCHANGED <<quit, seekVars, decoding, callVars, audio_clock, heard, disturbed>>

(* start, open and its audio_open. *)
AudioOpen ==
  /\ ~opened
  /\ epoch < MaxEpochs
  /\ opened' = TRUE /\ quit' = FALSE
  /\ epoch' = epoch + 1 /\ made' = 0
  /\ audio_clock' = 0
  /\ UNCHANGED <<is_seeking, spc, decoding, frame_queue, bufVars, callVars, heard, disturbed>>
-----------------------------------------------------------------------------
(* A crash ends the process. *)
Next ==
  /\ cpc # "crashed"
  /\ \/ BeginDecode \/ PushFrame
     \/ CallbackBegins \/ CallbackGoesOn
     \/ SeekBegins \/ SeekClears \/ SeekResets \/ SeekFile \/ SeekFlushes \/ SeekEnds
     \/ Stop \/ AudioClose \/ AudioOpen

Spec == Init /\ [][Next]_vars

(* SDL's thread is scheduled while it is in the callback. *)
FairSpec == Spec /\ WF_vars(CallbackGoesOn)
-----------------------------------------------------------------------------
Frame == [epoch : 1 .. MaxEpochs, no : 1 .. MaxFrames, size : Sizes]

(* Every variable has the shape the code gives it. *)
TypeOK ==
  /\ opened \in BOOLEAN /\ quit \in BOOLEAN /\ is_seeking \in BOOLEAN
  /\ spc \in {"idle", "clear", "index", "size", "file", "codecs", "end"}
  /\ epoch \in Nat \ {0} /\ made \in 0 .. MaxFrames
  /\ decoding \in Seq(Frame) /\ frame_queue \in Seq(Frame)
  /\ play_buf = <<>> \/ play_buf[1] \in [epoch : 1 .. MaxEpochs, no : 1 .. MaxFrames,
                                        size : Sizes, cap : Sizes]
  /\ play_buf_size \in Nat /\ play_buf_index \in Int
  /\ cpc \in {"idle", "test", "pop", "setSize", "clock", "reset", "size", "index",
              "copy", "add", "store", "crashed"}
  /\ len \in Nat /\ len1 \in Int /\ reg \in Int
  /\ audio_clock \in 0 .. MaxEpochs /\ disturbed \in BOOLEAN

(* There are two ways, and no third, to copy bytes from or to outside of   *)
(* the play buffer: a frame larger than the one it was allocated for, and  *)
(* a reset of index and size by a seek in the middle of the call.          *)
CrashesExplained ==
  cpc = "crashed" => disturbed \/ play_buf[1].size > play_buf[1].cap

(* In every state index, size and buffer have the types of the code, and   *)
(* are such that each copy is explained.                                   *)
BufferInv == TypeOK /\ CrashesExplained

(* MULTITHREADING_REFACTOR.md:377: the crashes of seek are fixed. *)
SeekIsSafe == cpc # "crashed"

(* Between seeks every byte that was decoded is heard once, in order, from *)
(* the first frame of the epoch on; and what is old is not heard after     *)
(* what is new.                                                            *)
Follows(chunk) ==
  \/ chunk.epoch = heard.epoch /\ chunk.no = heard.no /\ chunk.from = heard.upto
  \/ /\ chunk.from = 0
     /\ chunk.no = IF chunk.epoch = heard.epoch THEN heard.no + 1 ELSE 1
     /\ chunk.epoch = heard.epoch => heard.upto = heard.size

HeardOnceInOrder ==
  [][heard' # heard =>
       /\ heard'.epoch >= heard.epoch
       /\ heard'.epoch = epoch /\ ~is_seeking => Follows(heard')]_vars

(* After a seek the sound runs on a clock of its own: by the time a frame  *)
(* decoded after it is heard, the clock is no longer the one of before,    *)
(* whichever of the callback and flushDecoders set it last.                *)
ClockOfTheSound == heard.epoch = epoch => audio_clock = epoch

OldFrames == {i \in 1 .. Len(frame_queue) : frame_queue[i].epoch < epoch}

(* How much of the old position is left after a seek: one frame in the     *)
(* queue, and one that the callback had taken.                             *)
FewOldFrames ==
  spc = "idle" => OldFrames \subseteq {1}

(* The callback returns to SDL, with the queue empty, with seeks and after *)
(* quit: silence counts as bytes.                                          *)
CallbackReturns == cpc # "idle" ~> cpc \in {"idle", "crashed"}

=============================================================================
