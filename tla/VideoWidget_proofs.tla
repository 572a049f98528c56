-------------------------- MODULE VideoWidget_proofs --------------------------
(***************************************************************************)
(* Proofs about VideoWidget, for every retry interval and limit and any    *)
(* number of events, scheduled restarts and message boxes.                 *)
(***************************************************************************)
EXTENDS VideoWidget, SequenceTheorems, TLAPS

Scheduled == [left : Nat, stale : BOOLEAN]

(* What is left of a sequence without one of its elements. *)
LEMMA RemoveAtFields ==
  ASSUME NEW S, NEW s \in Seq(S), NEW k \in 1..Len(s)
  PROVE  /\ RemoveAt(s, k) \in Seq(S)
         /\ Len(RemoveAt(s, k)) = Len(s) - 1
         /\ \A i \in 1..Len(s) - 1 :
              RemoveAt(s, k)[i] = IF i < k THEN s[i] ELSE s[i + 1]
<1> DEFINE before == SubSeq(s, 1, k - 1)
           after == SubSeq(s, k + 1, Len(s))
<1>1. /\ before \in Seq(S) /\ Len(before) = k - 1
      /\ \A i \in 1..k - 1 : before[i] = s[i]
  OBVIOUS
<1>2. /\ after \in Seq(S) /\ Len(after) = Len(s) - k
      /\ \A i \in 1..Len(s) - k : after[i] = s[i + k]
  OBVIOUS
<1>3. RemoveAt(s, k) = before \o after
  BY DEF RemoveAt
<1> HIDE DEF before, after
<1>4. /\ RemoveAt(s, k) \in Seq(S)
      /\ Len(RemoveAt(s, k)) = Len(s) - 1
  BY <1>1, <1>2, <1>3
<1>5. ASSUME NEW i \in 1..Len(s) - 1
      PROVE  RemoveAt(s, k)[i] = IF i < k THEN s[i] ELSE s[i + 1]
  <2>1. CASE i < k
    <3>1. i \in 1..k - 1
      BY <2>1
    <3>2. (before \o after)[i] = before[i]
      BY <1>1, <1>2, <3>1
    <3>3. QED
      BY <1>1, <1>3, <2>1, <3>1, <3>2
  <2>2. CASE i >= k
    <3>1. i - (k - 1) \in 1..Len(s) - k /\ (i - (k - 1)) + k = i + 1
      BY <2>2
    <3>2. (before \o after)[i] = after[i - (k - 1)]
      BY <1>1, <1>2, <2>2
    <3>3. QED
      BY <1>2, <1>3, <2>2, <3>1, <3>2
  <2>3. QED
    BY <2>1, <2>2
<1>6. QED
  BY <1>4, <1>5

(* All that a step can do to the widget's status and its player. *)
PlayerStep ==
  \/ UNCHANGED playerVars
  \/ session' = "none" /\ status' = "STOP" /\ timer' = FALSE
  \/ session' = "opening" /\ session = "none" /\ status' = "PLAY" /\ timer' = TRUE
  \/ session # "none" /\ UNCHANGED <<status, timer>>
       /\ session' \in {"opening", "playing", "failed", "stopped"}
  \/ session # "none" /\ UNCHANGED session /\ status' = "PLAY" /\ timer' = TRUE
  \/ status = "PAUSE" /\ UNCHANGED session /\ status' = "PLAY" /\ timer' = TRUE
  \/ status = "PLAY" /\ UNCHANGED session /\ status' = "PAUSE" /\ timer' = FALSE

LEMMA RestartStep == Restart => PlayerStep
  BY DEF Restart, OpenSucceed, PlayerStep, playerVars

LEMMA StopStep == Stop => PlayerStep
  BY DEF Stop, PlayerStep

LEMMA StartStep == \A source : Start(source) => PlayerStep
  BY DEF Start, OpenSucceed, PlayerStep, playerVars

LEMMA RetryStep == Retry => PlayerStep
  BY RestartStep, StopStep DEF Retry, RetryNow, RetryLater, PlayerStep, playerVars

LEMMA EveryPlayerStep == [Next]_vars => PlayerStep
<1> SUFFICES ASSUME [Next]_vars PROVE PlayerStep
  OBVIOUS
<1>1. CASE User
  <2>1. CASE UserChooses
    BY <2>1 DEF UserChooses, PlayerStep
  <2>2. CASE UserOpens
    BY <2>2, StartStep DEF UserOpens, PlayerStep
  <2>3. CASE UserStarts
    BY <2>3, StartStep DEF UserStarts
  <2>4. CASE UserPauses
    BY <2>4 DEF UserPauses, PlayerStep
  <2>5. CASE UserStops
    BY <2>5, StopStep DEF UserStops
  <2>6. CASE UserConfirms
    BY <2>6, StopStep DEF UserConfirms
  <2>7. QED
    BY <1>1, <2>1, <2>2, <2>3, <2>4, <2>5, <2>6 DEF User
<1>2. CASE PlayerPosts
  BY <1>2 DEF PlayerPosts, PlayerStep, playerVars
<1>3. CASE EventLoop
  <2>1. CASE OnOpenSucceed
    BY <2>1 DEF OnOpenSucceed, OpenSucceed, PlayerStep
  <2>2. CASE OnOpenFailed
    BY <2>2, RetryStep DEF OnOpenFailed, PlayerStep
  <2>3. CASE OnPlayerEOF
    BY <2>3, RetryStep, RestartStep, StopStep DEF OnPlayerEOF
  <2>4. CASE OnPlayerError
    BY <2>4, RetryStep, StopStep DEF OnPlayerError
  <2>5. CASE ScheduledRestart
    BY <2>5, RestartStep DEF ScheduledRestart
  <2>6. QED
    BY <1>3, <2>1, <2>2, <2>3, <2>4, <2>5 DEF EventLoop
<1>4. CASE Tick
  BY <1>4 DEF Tick, PlayerStep
<1>5. CASE UNCHANGED vars
  BY <1>5 DEF vars, PlayerStep
<1>6. QED
  BY <1>1, <1>2, <1>3, <1>4, <1>5 DEF Next
-----------------------------------------------------------------------------
(* All that a step can do to the retries. *)
Restale == [i \in 1..Len(restarts) |-> [restarts[i] EXCEPT !.stale = TRUE]]
Aged == [i \in 1..Len(restarts) |->
           IF restarts[i].left > 0 THEN [restarts[i] EXCEPT !.left = @ - 1]
           ELSE restarts[i]]

Forget == retry_cnt' = 0 /\ timespan' = RetryInterval /\ restarts' = Restale

CountRetry == (RetryMax < 0 \/ retry_cnt < RetryMax) /\ retry_cnt' = retry_cnt + 1

Again ==
  /\ CountRetry
  /\ timespan >= RetryInterval /\ timespan' = 0
  /\ UNCHANGED restarts

Later ==
  /\ CountRetry
  /\ timespan < RetryInterval /\ timespan' = timespan - RetryInterval
  /\ restarts' = Append(restarts, [left |-> RetryInterval - timespan, stale |-> FALSE])

Fire ==
  /\ UNCHANGED <<retry_cnt, timespan>>
  /\ \E i \in 1..Len(restarts) :
       restarts[i].left = 0 /\ restarts' = RemoveAt(restarts, i)

Age ==
  /\ UNCHANGED retry_cnt
  /\ timespan' = IF timespan < RetryInterval THEN timespan + 1 ELSE timespan
  /\ restarts' = Aged

RetriesStep == Forget \/ Again \/ Later \/ Fire \/ Age \/ UNCHANGED retryVars

LEMMA StopForgets == Stop => RetriesStep
  BY DEF Stop, RetriesStep, Forget, Restale

LEMMA RetryCounts == Retry => RetriesStep
  BY StopForgets DEF Retry, RetryNow, RetryLater, RetriesStep, Again, Later, CountRetry

LEMMA StartKeeps == \A source : Start(source) => UNCHANGED retryVars
  BY DEF Start, retryVars

LEMMA EveryRetriesStep == [Next]_vars => RetriesStep
<1> SUFFICES ASSUME [Next]_vars PROVE RetriesStep
  OBVIOUS
<1>1. CASE User
  <2>1. CASE UserChooses
    BY <2>1 DEF UserChooses, RetriesStep
  <2>2. CASE UserOpens
    BY <2>2, StartKeeps DEF UserOpens, RetriesStep
  <2>3. CASE UserStarts
    BY <2>3, StartKeeps DEF UserStarts, RetriesStep
  <2>4. CASE UserPauses
    BY <2>4 DEF UserPauses, RetriesStep
  <2>5. CASE UserStops
    BY <2>5, StopForgets DEF UserStops
  <2>6. CASE UserConfirms
    BY <2>6, StopForgets DEF UserConfirms
  <2>7. QED
    BY <1>1, <2>1, <2>2, <2>3, <2>4, <2>5, <2>6 DEF User
<1>2. CASE PlayerPosts
  BY <1>2 DEF PlayerPosts, RetriesStep
<1>3. CASE EventLoop
  <2>1. CASE OnOpenSucceed
    BY <2>1 DEF OnOpenSucceed, RetriesStep
  <2>2. CASE OnOpenFailed
    BY <2>2, RetryCounts DEF OnOpenFailed, RetriesStep
  <2>3. CASE OnPlayerEOF
    BY <2>3, RetryCounts, StopForgets DEF OnPlayerEOF, RetriesStep
  <2>4. CASE OnPlayerError
    BY <2>4, RetryCounts, StopForgets DEF OnPlayerError
  <2>5. CASE ScheduledRestart
    BY <2>5 DEF ScheduledRestart, RetriesStep, Fire
  <2>6. QED
    BY <1>3, <2>1, <2>2, <2>3, <2>4, <2>5 DEF EventLoop
<1>4. CASE Tick
  BY <1>4 DEF Tick, RetriesStep, Age, Aged
<1>5. CASE UNCHANGED vars
  BY <1>5 DEF vars, RetriesStep
<1>6. QED
  BY <1>1, <1>2, <1>3, <1>4, <1>5 DEF Next
-----------------------------------------------------------------------------
(* TypeOK. *)

LEMMA TypeInit == Init => TypeOK
<1> SUFFICES ASSUME Init PROVE TypeOK
  OBVIOUS
<1> USE DEF Init
<1>1. PlayerOK
  BY DEF PlayerOK
<1>2. RetriesOK
  BY WidgetAssumption DEF RetriesOK
<1>3. posted \in Seq({"OPENED", "OPEN_FAILED", "EOF", "ERROR"}) /\ boxes \in Nat
  OBVIOUS
<1>4. choosing \in BOOLEAN /\ crashed \in BOOLEAN
  OBVIOUS
<1>5. QED
  BY <1>1, <1>2, <1>3, <1>4 DEF TypeOK, GuiOK

(* A function on 1..n is a sequence of length n. *)
LEMMA FunctionIsSeq ==
  ASSUME NEW S, NEW n \in Nat, NEW f \in [1..n -> S]
  PROVE  f \in Seq(S) /\ Len(f) = n
<1>1. f \in Seq(S)
  BY SeqDef
<1>2. Len(f) \in Nat /\ 1..Len(f) = 1..n
  BY <1>1, LenProperties
<1>3. QED
  BY <1>1, <1>2

LEMMA RestaleFields ==
  ASSUME restarts \in Seq(Scheduled)
  PROVE  /\ Restale \in Seq(Scheduled)
         /\ Len(Restale) = Len(restarts)
         /\ \A i \in 1..Len(restarts) : Restale[i].stale
<1> DEFINE f(r) == [r EXCEPT !.stale = TRUE]
<1>1. \A r \in Scheduled : f(r) \in Scheduled /\ f(r).stale
  BY DEF Scheduled
<1>2. Restale = [i \in 1..Len(restarts) |-> f(restarts[i])]
  BY DEF Restale
<1> HIDE DEF f
<1>3. \A i \in 1..Len(restarts) : restarts[i] \in Scheduled
  OBVIOUS
<1>4. Len(restarts) \in Nat
  OBVIOUS
<1>5. /\ Restale \in [1..Len(restarts) -> Scheduled]
      /\ \A i \in 1..Len(restarts) : Restale[i].stale
  BY <1>1, <1>2, <1>3
<1>6. QED
  BY <1>4, <1>5, FunctionIsSeq

LEMMA AgedFields ==
  ASSUME restarts \in Seq(Scheduled)
  PROVE  /\ Aged \in Seq(Scheduled)
         /\ Len(Aged) = Len(restarts)
         /\ \A i \in 1..Len(restarts) :
              /\ Aged[i].stale = restarts[i].stale
              /\ restarts[i].left > 0 => Aged[i].left = restarts[i].left - 1
              /\ restarts[i].left = 0 => Aged[i].left = 0
<1> DEFINE f(r) == IF r.left > 0 THEN [r EXCEPT !.left = @ - 1] ELSE r
<1>1. ASSUME NEW r \in Scheduled
      PROVE  /\ f(r) \in Scheduled
             /\ f(r).stale = r.stale
             /\ r.left > 0 => f(r).left = r.left - 1
             /\ r.left = 0 => f(r).left = 0
  BY DEF Scheduled
<1>2. Aged = [i \in 1..Len(restarts) |-> f(restarts[i])]
  BY DEF Aged
<1> HIDE DEF f
<1>3. \A i \in 1..Len(restarts) : restarts[i] \in Scheduled
  OBVIOUS
<1>4. Len(restarts) \in Nat
  OBVIOUS
<1>5. Aged \in [1..Len(restarts) -> Scheduled]
  BY <1>1, <1>2, <1>3
<1>6. \A i \in 1..Len(restarts) : Aged[i] = f(restarts[i])
  BY <1>2
<1>7. \A i \in 1..Len(restarts) :
        /\ Aged[i].stale = restarts[i].stale
        /\ restarts[i].left > 0 => Aged[i].left = restarts[i].left - 1
        /\ restarts[i].left = 0 => Aged[i].left = 0
  BY <1>1, <1>3, <1>6
<1>8. QED
  BY <1>4, <1>5, <1>7, FunctionIsSeq

(* All that a step can do to the rest of the widget: the media it has, the *)
(* events that wait, and the dialog and boxes that are open.               *)
Events == {"OPENED", "OPEN_FAILED", "EOF", "ERROR"}

GuiStep ==
  /\ media' \in Sources \cup {"none", media}
  /\ \/ UNCHANGED posted
     \/ \E e \in Events : posted' = Append(posted, e)
     \/ posted # <<>> /\ posted' = Tail(posted)
  /\ choosing' \in BOOLEAN \cup {choosing} /\ crashed' \in {TRUE, crashed}
  /\ boxes' \in {boxes, boxes + 1} \/ (boxes > 0 /\ boxes' = boxes - 1)

LEMMA EveryGuiStep == [Next]_vars => GuiStep
<1> SUFFICES ASSUME [Next]_vars PROVE GuiStep
  OBVIOUS
<1> USE DEF GuiStep, guiVars
<1>1. UNCHANGED vars \/ Tick => GuiStep
  BY DEF vars, Tick
<1>2. PlayerPosts => GuiStep
  BY DEF PlayerPosts, Events
<1>3. EventLoop => GuiStep
  BY DEF EventLoop, Handled, OnOpenSucceed, OnOpenFailed, OnPlayerEOF, OnPlayerError,
         ScheduledRestart
<1>4. User => GuiStep
  BY DEF User, UserChooses, UserOpens, UserStarts, UserPauses, UserStops, UserConfirms
<1> QED
  BY <1>1, <1>2, <1>3, <1>4 DEF Next

LEMMA PlayerTypes == PlayerOK /\ [Next]_vars => PlayerOK'
  BY EveryPlayerStep, EveryGuiStep DEF PlayerStep, GuiStep, PlayerOK, playerVars

LEMMA RetriesTypes == RetriesOK /\ [Next]_vars => RetriesOK'
<1> SUFFICES ASSUME RetriesOK, [Next]_vars PROVE RetriesOK'
  OBVIOUS
<1> USE WidgetAssumption DEF RetriesOK, Scheduled
<1>1. CASE Forget
  BY <1>1, RestaleFields DEF Forget
<1>2. CASE Again
  BY <1>2 DEF Again, CountRetry
<1>3. CASE Later
  BY <1>3 DEF Later, CountRetry
<1>4. CASE Fire
  BY <1>4, RemoveAtFields DEF Fire
<1>5. CASE Age
  BY <1>5, AgedFields DEF Age
<1>6. CASE UNCHANGED retryVars
  BY <1>6 DEF retryVars
<1>7. QED
  BY <1>1, <1>2, <1>3, <1>4, <1>5, <1>6, EveryRetriesStep DEF RetriesStep

LEMMA GuiTypes == GuiOK /\ [Next]_vars => GuiOK'
<1> SUFFICES ASSUME GuiOK, GuiStep PROVE GuiOK'
  BY EveryGuiStep
<1>1. posted \in Seq(Events) /\ choosing \in BOOLEAN /\ boxes \in Nat /\ crashed \in BOOLEAN
  BY DEF GuiOK, Events
<1>2. posted' \in Seq(Events)
  BY <1>1 DEF GuiStep
<1>3. boxes' \in Nat
  BY <1>1 DEF GuiStep
<1>4. choosing' \in BOOLEAN /\ crashed' \in BOOLEAN
  BY <1>1 DEF GuiStep
<1> QED
  BY <1>2, <1>3, <1>4 DEF GuiOK, Events

LEMMA TypeStep == TypeOK /\ [Next]_vars => TypeOK'
  BY PlayerTypes, RetriesTypes, GuiTypes DEF TypeOK

(* The widget's state always has the shape the code gives it.              *)
LEMMA TypeCorrect == Spec => []TypeOK
  BY TypeInit, TypeStep, PTL DEF Spec
-----------------------------------------------------------------------------
LEMMA StatusInit == Init => StatusFits
  BY DEF Init, StatusFits

LEMMA StatusStep == PlayerOK /\ StatusFits /\ [Next]_vars => StatusFits'
  BY EveryPlayerStep DEF PlayerOK, StatusFits, PlayerStep, playerVars

(* In every order of clicks, events, single shots and nested message boxes *)
(* a player exists unless the widget is stopped, and frames are fetched    *)
(* exactly while it plays.                                                 *)
THEOREM StatusAlwaysFits == Spec => []WidgetInv
<1>1. TypeOK /\ StatusFits /\ [Next]_vars => StatusFits'
  BY StatusStep DEF TypeOK
<1>2. WidgetInv <=> TypeOK /\ StatusFits
  BY DEF WidgetInv
<1>3. QED
  BY <1>1, <1>2, StatusInit, TypeCorrect, PTL DEF Spec
-----------------------------------------------------------------------------
LEMMA ApartInit == Init => RestartsApart
  BY DEF Init, RestartsApart

(* RestartsApart of the single shots r, counted to the time t. *)
Apart(r, t) ==
  \A i \in 1..Len(r) :
    ~r[i].stale /\ r[i].left > 0 =>
      r[i].left <= -t /\ \A j \in i + 1..Len(r) : r[j].left - r[i].left >= RetryInterval

LEMMA ApartStep == RetriesOK /\ RestartsApart /\ RetriesStep => RestartsApart'
<1> SUFFICES ASSUME RetriesOK, Apart(restarts, timespan), RetriesStep
             PROVE  Apart(restarts', timespan')
  BY DEF RestartsApart, Apart
<1> USE WidgetAssumption
<1>0. /\ timespan \in Int
      /\ restarts \in Seq(Scheduled)
      /\ Len(restarts) \in Nat
      /\ \A i \in 1..Len(restarts) : restarts[i] \in Scheduled
  <2>1. timespan \in Int /\ restarts \in Seq(Scheduled)
    BY DEF RetriesOK, Scheduled
  <2>2. QED
    BY <2>1, ElementOfSeq, LenProperties
<1>00. \A i \in 1..Len(restarts) : restarts[i].left \in Nat
  BY <1>0 DEF Scheduled
<1>1. CASE Forget
  BY <1>0, <1>1, RestaleFields DEF Forget, Apart
<1>2. CASE Again
  BY <1>0, <1>00, <1>2 DEF Again, Apart
<1>3. CASE Later
  <2> DEFINE new == [left |-> RetryInterval - timespan, stale |-> FALSE]
  <2>1. /\ new.left = RetryInterval - timespan
        /\ timespan' = timespan - RetryInterval
        /\ timespan < RetryInterval
        /\ restarts' = Append(restarts, new)
    BY <1>3 DEF Later
  <2> HIDE DEF new
  <2>2. /\ Len(restarts') = Len(restarts) + 1
        /\ \A i \in 1..Len(restarts) : restarts'[i] = restarts[i]
        /\ restarts'[Len(restarts) + 1] = new
    BY <1>0, <2>1
  <2>3. ASSUME NEW i \in 1..Len(restarts), ~restarts[i].stale, restarts[i].left > 0
        PROVE  /\ restarts[i].left <= -timespan'
               /\ new.left - restarts[i].left >= RetryInterval
    BY <1>0, <1>00, <2>1, <2>3 DEF Apart
  <2>4. ASSUME NEW i \in 1..Len(restarts'), ~restarts'[i].stale, restarts'[i].left > 0
        PROVE  /\ restarts'[i].left <= -timespan'
               /\ \A j \in i + 1..Len(restarts') :
                    restarts'[j].left - restarts'[i].left >= RetryInterval
    <3>1. CASE i \in 1..Len(restarts)
      <4>1. restarts'[i] = restarts[i] /\ restarts'[i].left <= -timespan'
        BY <2>2, <2>3, <2>4, <3>1
      <4>2. ASSUME NEW j \in i + 1..Len(restarts')
            PROVE  restarts'[j].left - restarts'[i].left >= RetryInterval
        <5>1. CASE j \in 1..Len(restarts)
          <6>1. restarts'[j] = restarts[j] /\ j \in i + 1..Len(restarts)
            BY <1>0, <2>2, <5>1
          <6>2. QED
            BY <2>4, <3>1, <4>1, <6>1 DEF Apart
        <5>2. CASE j = Len(restarts) + 1
          BY <2>2, <2>3, <2>4, <3>1, <4>1, <5>2
        <5>3. QED
          BY <1>0, <2>2, <3>1, <5>1, <5>2
      <4>3. QED
        BY <4>1, <4>2
    <3>2. CASE i = Len(restarts) + 1
      BY <1>0, <2>1, <2>2, <3>2
    <3>3. QED
      BY <1>0, <2>2, <3>1, <3>2
  <2>5. QED
    BY <2>4 DEF Apart
<1>4. CASE Fire
  <2>1. PICK k \in 1..Len(restarts) :
          restarts[k].left = 0 /\ restarts' = RemoveAt(restarts, k)
    BY <1>4 DEF Fire
  <2>2. /\ timespan' = timespan
        /\ Len(restarts') = Len(restarts) - 1
        /\ \A i \in 1..Len(restarts) - 1 :
             restarts'[i] = IF i < k THEN restarts[i] ELSE restarts[i + 1]
    BY <1>0, <1>4, <2>1, RemoveAtFields DEF Fire
  <2> DEFINE at(i) == IF i < k THEN i ELSE i + 1
  <2>3. ASSUME NEW i \in 1..Len(restarts'), NEW j \in i + 1..Len(restarts')
        PROVE  at(j) \in at(i) + 1..Len(restarts)
    BY <1>0, <2>2
  <2>4. ASSUME NEW i \in 1..Len(restarts')
        PROVE  at(i) \in 1..Len(restarts) /\ restarts'[i] = restarts[at(i)]
    BY <1>0, <2>2
  <2>5. \A i \in 1..Len(restarts') : \A j \in i + 1..Len(restarts') : j \in 1..Len(restarts')
    BY <1>0, <2>2
  <2> HIDE DEF at
  <2>6. QED
    BY <2>2, <2>3, <2>4, <2>5 DEF Apart
<1>5. CASE Age
  <2>1. /\ timespan' = IF timespan < RetryInterval THEN timespan + 1 ELSE timespan
        /\ Len(restarts') = Len(restarts)
        /\ \A i \in 1..Len(restarts) :
             /\ restarts'[i].stale = restarts[i].stale
             /\ restarts[i].left > 0 => restarts'[i].left = restarts[i].left - 1
             /\ restarts[i].left = 0 => restarts'[i].left = 0
    BY <1>0, <1>5, AgedFields DEF Age
  <2>2. ASSUME NEW i \in 1..Len(restarts'), ~restarts'[i].stale, restarts'[i].left > 0
        PROVE  /\ restarts'[i].left <= -timespan'
               /\ \A j \in i + 1..Len(restarts') :
                    restarts'[j].left - restarts'[i].left >= RetryInterval
    <3>1. restarts[i].left > 0
      BY <1>00, <2>1, <2>2
    <3>2. restarts'[i].left = restarts[i].left - 1
      BY <2>1, <3>1
    <3>3. /\ restarts[i].left <= -timespan
          /\ \A j \in i + 1..Len(restarts) :
               restarts[j].left - restarts[i].left >= RetryInterval
      BY <2>1, <2>2, <3>1 DEF Apart
    <3>4. restarts'[i].left <= -timespan'
      BY <1>0, <1>00, <2>1, <3>1, <3>2, <3>3
    <3>5. ASSUME NEW j \in i + 1..Len(restarts')
          PROVE  restarts'[j].left - restarts'[i].left >= RetryInterval
      <4>1. j \in 1..Len(restarts) /\ j \in i + 1..Len(restarts)
        BY <1>0, <2>1
      <4>2. restarts[j].left - restarts[i].left >= RetryInterval
        BY <3>3, <4>1
      <4>3. restarts[j].left > 0
        BY <1>00, <2>1, <3>1, <4>1, <4>2
      <4>4. restarts'[j].left = restarts[j].left - 1
        BY <2>1, <4>1, <4>3
      <4>5. QED
        BY <1>00, <2>1, <3>2, <4>1, <4>2, <4>4
    <3>6. QED
      BY <3>4, <3>5
  <2>3. QED
    BY <2>2 DEF Apart
<1>6. CASE UNCHANGED retryVars
  BY <1>6 DEF retryVars, Apart
<1>7. QED
  BY <1>1, <1>2, <1>3, <1>4, <1>5, <1>6 DEF RetriesStep

(* The restarts that retry schedules are never closer to each other than   *)
(* the interval, whatever the limit and however many events come at once.  *)
THEOREM RestartsAlwaysApart == Spec => []RestartsApart
<1>1. TypeOK /\ RestartsApart /\ [Next]_vars => RestartsApart'
  BY ApartStep, EveryRetriesStep DEF TypeOK
<1>2. QED
  BY <1>1, ApartInit, TypeCorrect, PTL DEF Spec
-----------------------------------------------------------------------------
(* What restart, retry and stop make of a widget that has neither media    *)
(* nor player.                                                             *)
LEMMA NothingToStart ==
  ASSUME media = "none", session = "none", status = "STOP",
         Restart \/ Retry \/ Stop \/ Start("none")
  PROVE  status' = "STOP"
BY DEF Restart, Retry, RetryNow, RetryLater, Stop, Start, playerVars

LEMMA ClosedStep ==
  ASSUME StatusFits, [Next]_vars, media = "none", status = "STOP", status' # "STOP"
  PROVE  UserOpens
<1>1. session = "none"
  BY DEF StatusFits
<1>2. ~(Restart \/ Retry \/ Stop \/ Start("none"))
  BY <1>1, NothingToStart
<1>3. ~(UserChooses \/ UserPauses \/ PlayerPosts \/ Tick)
  BY DEF UserChooses, UserPauses, PlayerPosts, Tick, playerVars
<1>4. ~(UserStarts \/ UserStops \/ UserConfirms)
  BY <1>2 DEF UserStarts, UserStops, UserConfirms
<1>5. ~OnOpenSucceed
  BY <1>1 DEF OnOpenSucceed, playerVars
<1>6. ~OnOpenFailed
  BY <1>2 DEF OnOpenFailed, playerVars
<1>7. ~OnPlayerEOF
  BY <1>2 DEF OnPlayerEOF
<1>8. ~OnPlayerError
  BY <1>2 DEF OnPlayerError
<1>9. ~ScheduledRestart
  BY <1>2 DEF ScheduledRestart
<1>10. ~UNCHANGED vars
  BY DEF vars, playerVars
<1>11. QED
  BY <1>3, <1>4, <1>5, <1>6, <1>7, <1>8, <1>9, <1>10 DEF Next, User, EventLoop

(* Whatever events and single shots a closed widget still gets, and in     *)
(* whatever order, it stays stopped until the user opens a media.          *)
THEOREM ClosedStays == Spec => ClosedStaysClosed
<1>1. StatusFits /\ [Next]_vars
        => [media = "none" /\ status = "STOP" /\ status' # "STOP" => UserOpens]_vars
  BY ClosedStep
<1>2. WidgetInv => StatusFits
  BY DEF WidgetInv
<1>3. QED
  BY <1>1, <1>2, StatusAlwaysFits, PTL DEF Spec, ClosedStaysClosed

=============================================================================
