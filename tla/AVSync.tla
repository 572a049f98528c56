-------------------------------- MODULE AVSync --------------------------------
(***************************************************************************)
(* How HFFPlayer times its frames: the video thread gives every frame a    *)
(* delay, corrects the delay by the difference of the two clocks when the  *)
(* audio is the master, adds it to frame_timer and sleeps until then.      *)
(*                                                                         *)
(* Times are in units of 10 ms, and relative, so that time may go on for   *)
(* ever: lead is frame_timer less the time, diff is the video clock less   *)
(* the audio clock.  Both clocks run with the time between two settings.   *)
(*                                                                         *)
(* What troubles the timing happens MaxTroubles times: a frame that takes  *)
(* long to come, an odd time stamp, an underrun of the audio, a seek.      *)
(***************************************************************************)
EXTENDS Integers

CONSTANTS
  Gaps, OddGaps,    \* from the time stamp of a frame to the next: the stream's, and odd ones
  Costs, Stalls,    \* the time to get and decode a frame: usual, and long
  AudioGaps,        \* how long the audio can have nothing to play
  Starts,           \* diff when both clocks are set for the first time
  Readings,         \* diff when one clock is set and the other is not
  FrameTime,        \* 1 / fps
  MaxTroubles,      \* bound on troubles
  MaxLead           \* bound on lead, for when nothing else bounds it

ASSUME SyncAssumption ==
  /\ Gaps \subseteq Nat \ {0} /\ OddGaps \subseteq Int
  /\ Costs \subseteq Nat \ {0} /\ Stalls \subseteq Nat /\ AudioGaps \subseteq Nat
  /\ Starts \subseteq Int /\ Readings \subseteq Int
  /\ FrameTime \in Nat \ {0} /\ MaxTroubles \in Nat /\ MaxLead \in Nat

ThresholdMin == 4   \* AV_SYNC_THRESHOLD_MIN
ThresholdMax == 10  \* AV_SYNC_THRESHOLD_MAX
FrameDup == 10      \* AV_SYNC_FRAMEDUP_THRESHOLD
NoSync == 1000      \* AV_NOSYNC_THRESHOLD
Second == 100       \* the longest delay and the longest sleep

VARIABLES
  audio_master,     \* av_sync_type, and there is audio
  first_frame,
  lead,
  clocks,           \* the clocks that are set
  diff,
  frame_last_delay,
  troubles          \* so far

vars == <<audio_master, first_frame, lead, clocks, diff, frame_last_delay, troubles>>

Init ==
  /\ audio_master \in BOOLEAN
  /\ first_frame = TRUE
  /\ lead = 0 /\ diff = 0
  /\ clocks = {}
  /\ frame_last_delay = 0
  /\ troubles = 0
-----------------------------------------------------------------------------
(* What get_clock makes of the clocks: one that is not set has pts_drift 0 *)
(* and so reads as the time.                                               *)
ClockDiffs ==
  IF clocks = {} THEN {0} ELSE IF clocks = {"video", "audio"} THEN {diff} ELSE Readings

(* The time from the last frame, if it makes sense. *)
FrameDelay(gap) ==
  IF gap > 0 /\ gap <= Second THEN gap
  ELSE IF frame_last_delay > 0 THEN frame_last_delay ELSE FrameTime

Threshold(delay) ==
  IF delay > ThresholdMax THEN ThresholdMax
  ELSE IF delay < ThresholdMin THEN ThresholdMin ELSE delay

(* Mutant of TargetDelay: every frame is prolonged by all of d. *)
TargetDelayFull(delay, d) ==
  CASE d \in (1 - NoSync) .. (-Threshold(delay)) -> IF delay + d < 0 THEN 0 ELSE delay + d
    [] d \in Threshold(delay) .. (NoSync - 1) -> delay + d
    [] OTHER -> delay

(* Mutant of TargetDelay: a late frame is shown as late as it was. *)
TargetDelayLate(delay, d) ==
  IF d \in Threshold(delay) .. (NoSync - 1)
  THEN IF delay > FrameDup THEN delay + d ELSE 2 * delay
  ELSE delay

(* compute_target_delay: d is how far the video is ahead. *)
TargetDelay(delay, d) ==
  CASE d \in (1 - NoSync) .. (-Threshold(delay)) -> IF delay + d < 0 THEN 0 ELSE delay + d
    [] d \in Threshold(delay) .. (NoSync - 1) ->
         IF delay > FrameDup THEN delay + d ELSE 2 * delay
    [] OTHER -> delay

(* Mutant of Sleep: less than two frames are not worth a sleep. *)
SleepLong(ahead) == IF ahead > 8 /\ ahead < Second THEN ahead ELSE 0

(* The sleep of a frame that is ahead of its time: none for a second and more. *)
Sleep(ahead) == IF ahead > 0 /\ ahead < Second THEN ahead ELSE 0

(* set_clock of the video clock, elapsed after it was set last. *)
SetVideoClock(gap, elapsed) ==
  /\ clocks' = clocks \cup {"video"}
  /\ CASE clocks = {"video", "audio"} -> diff' = diff + gap - elapsed
       [] clocks = {"audio"} -> diff' \in Starts
       [] OTHER -> UNCHANGED diff

(* processVideoPacket, from the decoded frame to push_frame. *)
ShowFrame(gap, cost) ==
  /\ lead <= MaxLead
  /\ frame_last_delay' = FrameDelay(gap)
  /\ first_frame' = FALSE
  /\ \/ /\ first_frame
        /\ lead' = 0
        /\ SetVideoClock(gap, cost)
     \/ /\ ~first_frame
        /\ \E delay \in IF audio_master
                        THEN {TargetDelay(frame_last_delay', d) : d \in ClockDiffs}
                        ELSE {frame_last_delay'} :
             LET ahead == lead - cost + delay
             IN /\ lead' = ahead - Sleep(ahead)
                /\ SetVideoClock(gap, cost + Sleep(ahead))
  /\ UNCHANGED audio_master

Frame ==
  /\ \E gap \in Gaps, cost \in Costs : ShowFrame(gap, cost)
  /\ UNCHANGED troubles

(* The time goes on while the packet is late ... *)
LateFrame == \E gap \in Gaps, cost \in Stalls : ShowFrame(gap, cost)

(* ... and a time stamp may be missing, repeat itself or jump. *)
OddFrame == \E gap \in OddGaps, cost \in Costs : ShowFrame(gap, cost)

(* The callback sets the audio clock.  As long as it has frames the clock  *)
(* runs with the time.                                                     *)
AudioStarts ==
  /\ "audio" \notin clocks
  /\ clocks' = clocks \cup {"audio"}
  /\ IF clocks = {"video"} THEN diff' \in Starts ELSE UNCHANGED diff
  /\ UNCHANGED <<audio_master, first_frame, lead, frame_last_delay, troubles>>

(* The clock ran on while there was nothing to hear, and is set back. *)
Underrun ==
  /\ clocks = {"video", "audio"}
  /\ \E gap \in AudioGaps : diff' = diff + gap
  /\ UNCHANGED <<audio_master, first_frame, lead, clocks, frame_last_delay>>

(* seek has flushDecoders reset the clocks, and leaves frame_timer alone. *)
Seek ==
  /\ clocks' = {} /\ diff' = 0
  /\ UNCHANGED <<audio_master, first_frame, lead, frame_last_delay>>

Trouble ==
  /\ troubles < MaxTroubles
  /\ troubles' = troubles + 1
  /\ LateFrame \/ OddFrame \/ Underrun \/ Seek

Next == Frame \/ AudioStarts \/ Trouble

(* Packets keep coming to the video thread.  Nothing is assumed of the     *)
(* audio: its thread waits for the mutex that the video thread holds while *)
(* it sleeps.                                                              *)
Spec == Init /\ [][Next]_vars /\ WF_vars(Frame)
-----------------------------------------------------------------------------
(* A schedule that is ahead by a second is never waited for again.  It     *)
(* takes a delay of more than 100 ms to get there: twice a shorter one is  *)
(* slept off before the next frame.                                        *)
RunsAheadOnlyByLongDelay ==
  [][lead <= 0 /\ frame_last_delay' <= FrameDup => lead' <= 0]_vars

LongDelay == frame_last_delay > FrameDup

(* With the audio as master, and if it is heard again after the last seek, *)
(* video and audio meet after a trouble, unless they end up further apart  *)
(* than compute_target_delay takes for real, with the video ahead or       *)
(* behind, and stay so, or a long delay lets the video run away.           *)
InStep ==
  /\ diff > -Threshold(frame_last_delay)
  /\ diff < Threshold(frame_last_delay)

MeetsAudio ==
  audio_master /\ <>[]("audio" \in clocks) =>
    \/ <>[]InStep
    \/ <>[](diff >= NoSync) \/ <>[](diff <= -NoSync)
    \/ <>LongDelay

(* Whoever is master, the video returns to its schedule: what a stall lost *)
(* is made up for, and each frame is shown at its time again.              *)
BackOnSchedule == <>[](lead = 0) \/ <>LongDelay

=============================================================================
