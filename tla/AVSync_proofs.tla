----------------------------- MODULE AVSync_proofs -----------------------------
(***************************************************************************)
(* How far compute_target_delay and the sleep let the schedule run ahead,  *)
(* for every stream, every cost of a frame, every reading of the clocks    *)
(* and any number of troubles.                                             *)
(***************************************************************************)
EXTENDS AVSync, TLAPS

(* What the arithmetic of the delays needs: the delay of a frame is never  *)
(* negative, and the times are numbers.                                    *)
DelayInv == lead \in Int /\ diff \in Int /\ frame_last_delay \in Nat

(* The delay a frame is given from the time stamps is never zero: a gap    *)
(* that makes no sense is replaced by the last delay or by the frame rate. *)
LEMMA DelayPositive ==
  ASSUME frame_last_delay \in Nat, NEW gap \in Int
  PROVE  FrameDelay(gap) \in Nat /\ FrameDelay(gap) > 0
BY SyncAssumption DEF FrameDelay

(* compute_target_delay never gives a negative delay, and prolongs one     *)
(* that is not above the threshold of repetition at most to twice itself.  *)
LEMMA TargetBounded ==
  ASSUME NEW delay \in Nat, NEW d \in Int
  PROVE  /\ TargetDelay(delay, d) \in Nat
         /\ delay <= FrameDup => TargetDelay(delay, d) <= 2 * delay
<1> DEFINE thr == Threshold(delay)
<1>1. thr \in Nat /\ thr > 0
  BY DEF Threshold, ThresholdMin, ThresholdMax
<1> HIDE DEF thr
<1>2. CASE d \in (1 - NoSync) .. (-thr)
  <2>1. d < 0 /\ d \notin thr .. (NoSync - 1)
    BY <1>1, <1>2 DEF NoSync
  <2>2. TargetDelay(delay, d) = IF delay + d < 0 THEN 0 ELSE delay + d
    BY <1>2, <2>1 DEF TargetDelay, thr
  <2>3. QED
    BY <2>1, <2>2
<1>3. CASE d \notin (1 - NoSync) .. (-thr) /\ d \in thr .. (NoSync - 1)
  <2>1. TargetDelay(delay, d) = IF delay > FrameDup THEN delay + d ELSE 2 * delay
    BY <1>3 DEF TargetDelay, thr
  <2>2. d >= 0
    BY <1>1, <1>3 DEF NoSync
  <2>3. QED
    BY <2>1, <2>2 DEF FrameDup
<1>4. CASE d \notin (1 - NoSync) .. (-thr) /\ d \notin thr .. (NoSync - 1)
  <2>1. TargetDelay(delay, d) = delay
    BY <1>4 DEF TargetDelay, thr
  <2>2. QED
    BY <2>1
<1>5. QED
  BY <1>2, <1>3, <1>4

(* After the sleep a frame that was less than a second ahead is on time or *)
(* late, and one that was late is no less late.                            *)
LEMMA SleptOff ==
  ASSUME NEW ahead \in Int
  PROVE  /\ Sleep(ahead) \in Nat
         /\ ahead - Sleep(ahead) \in Int
         /\ ahead < Second => ahead - Sleep(ahead) <= 0
BY DEF Sleep, Second

(* What get_clock makes of the clocks is a number. *)
LEMMA DiffsAreNumbers ==
  ASSUME diff \in Int
  PROVE  ClockDiffs \subseteq Int
BY SyncAssumption DEF ClockDiffs

(* Setting the video clock leaves a number. *)
LEMMA VideoClockSet ==
  ASSUME diff \in Int, NEW gap \in Int, NEW elapsed \in Int, SetVideoClock(gap, elapsed)
  PROVE  diff' \in Int
BY SyncAssumption DEF SetVideoClock

(* One frame: the delay it is given is a number, and the schedule it       *)
(* leaves is not ahead unless it was before or the delay is a long one.    *)
LEMMA FrameShown ==
  ASSUME DelayInv, NEW gap \in Int, NEW cost \in Nat, ShowFrame(gap, cost)
  PROVE  /\ DelayInv'
         /\ lead <= 0 /\ frame_last_delay' <= FrameDup => lead' <= 0
<1>1. frame_last_delay' \in Nat
  BY DelayPositive DEF ShowFrame, DelayInv
<1>2. CASE first_frame
  <2>1. lead' = 0 /\ SetVideoClock(gap, cost)
    BY <1>2 DEF ShowFrame
  <2>2. diff' \in Int
    BY <2>1, VideoClockSet DEF DelayInv
  <2>3. QED
    BY <1>1, <2>1, <2>2 DEF DelayInv
<1>3. CASE ~first_frame
  <2> DEFINE last == frame_last_delay'
             Delays == IF audio_master THEN {TargetDelay(last, d) : d \in ClockDiffs}
                       ELSE {last}
  <2>1. PICK delay \in Delays :
          LET ahead == lead - cost + delay
          IN /\ lead' = ahead - Sleep(ahead)
             /\ SetVideoClock(gap, cost + Sleep(ahead))
    BY <1>3 DEF ShowFrame
  <2>2. last \in Nat
    BY <1>1
  <2> HIDE DEF last
  <2>3. delay \in Nat /\ (last <= FrameDup => delay <= 2 * last)
    <3>1. CASE audio_master
      <4>1. PICK d \in ClockDiffs : delay = TargetDelay(last, d)
        BY <3>1
      <4> HIDE DEF Delays
      <4>2. d \in Int
        BY DiffsAreNumbers DEF DelayInv
      <4>3. QED
        BY <2>2, <4>1, <4>2, TargetBounded
    <3>2. CASE ~audio_master
      <4>1. delay = last
        BY <3>2
      <4> HIDE DEF Delays
      <4>2. QED
        BY <2>2, <4>1
    <3>3. QED
      BY <3>1, <3>2
  <2> DEFINE ahead == lead - cost + delay
  <2>4. lead' = ahead - Sleep(ahead) /\ SetVideoClock(gap, cost + Sleep(ahead))
    BY <2>1
  <2> HIDE DEF Delays
  <2>5. ahead \in Int /\ (lead <= 0 /\ last <= FrameDup => ahead < Second)
    BY <2>2, <2>3 DEF DelayInv, FrameDup, Second
  <2> HIDE DEF ahead
  <2>6. Sleep(ahead) \in Nat /\ lead' \in Int /\ (ahead < Second => lead' <= 0)
    BY <2>4, <2>5, SleptOff
  <2>7. diff' \in Int
    BY <2>4, <2>6, VideoClockSet DEF DelayInv
  <2>8. QED
    BY <1>1, <2>5, <2>6, <2>7 DEF DelayInv, last
<1>4. QED
  BY <1>2, <1>3

(* A step of any kind: only a frame moves the schedule. *)
LEMMA StepBounded ==
  ASSUME DelayInv, [Next]_vars
  PROVE  /\ DelayInv'
         /\ lead <= 0 /\ frame_last_delay' <= FrameDup => lead' <= 0
<1>1. CASE Frame
  <2>1. PICK gap \in Gaps, cost \in Costs : ShowFrame(gap, cost)
    BY <1>1 DEF Frame
  <2>2. gap \in Int /\ cost \in Nat
    BY SyncAssumption
  <2>3. QED
    BY <2>1, <2>2, FrameShown
<1>2. CASE LateFrame
  <2>1. PICK gap \in Gaps, cost \in Stalls : ShowFrame(gap, cost)
    BY <1>2 DEF LateFrame
  <2>2. gap \in Int /\ cost \in Nat
    BY SyncAssumption
  <2>3. QED
    BY <2>1, <2>2, FrameShown
<1>3. CASE OddFrame
  <2>1. PICK gap \in OddGaps, cost \in Costs : ShowFrame(gap, cost)
    BY <1>3 DEF OddFrame
  <2>2. gap \in Int /\ cost \in Nat
    BY SyncAssumption
  <2>3. QED
    BY <2>1, <2>2, FrameShown
<1>4. CASE AudioStarts
  <2>1. diff' \in Int
    BY <1>4, SyncAssumption DEF AudioStarts, DelayInv
  <2>2. QED
    BY <1>4, <2>1 DEF AudioStarts, DelayInv
<1>5. CASE Underrun
  <2>1. diff' \in Int
    BY <1>5, SyncAssumption DEF Underrun, DelayInv
  <2>2. QED
    BY <1>5, <2>1 DEF Underrun, DelayInv
<1>6. CASE Seek
  BY <1>6 DEF Seek, DelayInv
<1>7. CASE UNCHANGED vars
  BY <1>7 DEF vars, DelayInv
<1>8. QED
  BY <1>1, <1>2, <1>3, <1>4, <1>5, <1>6, <1>7 DEF Next, Trouble

LEMMA DelayInvAlways == Spec => []DelayInv
<1>1. Init => DelayInv
  BY DEF Init, DelayInv
<1>2. DelayInv /\ [Next]_vars => DelayInv'
  BY StepBounded
<1>3. QED
  BY <1>1, <1>2, PTL DEF Spec

(* Whatever the clocks read and however long frames take, a schedule that  *)
(* is not ahead of the time gets ahead only by a frame of more than        *)
(* 100 ms: compute_target_delay's repetition of shorter ones stays below   *)
(* the second from which on the video thread no longer sleeps.             *)
THEOREM AheadOnlyByLongDelay == Spec => RunsAheadOnlyByLongDelay
<1>1. DelayInv /\ [Next]_vars
        => [lead <= 0 /\ frame_last_delay' <= FrameDup => lead' <= 0]_vars
  BY StepBounded
<1>2. QED
  BY <1>1, DelayInvAlways, PTL DEF Spec, RunsAheadOnlyByLongDelay

=============================================================================
