--------------------------- MODULE BackoffProofs ---------------------------
(***************************************************************************)
(* Proofs about Backoff, for every length of the second, the intervals and *)
(* the bounds.                                                             *)
(***************************************************************************)
EXTENDS Backoff, TLAPS

\* The times of timers and intervals: numbers, of which a second is one.
LEMMA TimesType ==
  /\ AtLeast(SixHours, TenSeconds) \in Nat
  /\ Times \subseteq Nat /\ Never \notin Times
  /\ Second \in Times /\ TenSeconds \in Times
  /\ 0..SixHours \subseteq Times /\ 1..Second \subseteq Times
<1>1. AtLeast(SixHours, TenSeconds) \in Nat
  BY BackoffAssumption DEF AtLeast
<1>2. Times \subseteq Nat /\ Never \notin Times
  BY BackoffAssumption DEF Times
<1>3. 0..SixHours \subseteq Times /\ TenSeconds \in Times
  BY <1>1, BackoffAssumption DEF Times, AtLeast
<1>4. Second \in 0..SixHours /\ 1..Second \subseteq 0..SixHours
  BY BackoffAssumption
<1>5. QED
  BY <1>1, <1>2, <1>3, <1>4

\* The intervals are such as the timers of the queue are made for.
LEMMA IntervalType ==
  ASSUME BackoffTypeOK
  PROVE  /\ ErrorInterval \in Times
         /\ \A a \in Times, b \in Times : AtMost(a, b) \in Times
<1>1. ErrorInterval \in 0..SixHours
  <2>1. ASSUME NEW a \in Nat PROVE AtMost(2 * a, SixHours) \in 0..SixHours
    BY BackoffAssumption DEF AtMost
  <2>2. (IF status \in {"unset", "Success"} THEN Second ELSE age) \in Nat
    BY BackoffAssumption DEF BackoffTypeOK
  <2>3. QED
    BY <2>1, <2>2 DEF ErrorInterval
<1>2. \A a \in Times, b \in Times : AtMost(a, b) \in Times
  BY DEF AtMost
<1>3. QED
  BY <1>1, <1>2, TimesType

\* What the queue makes of a result: a timer that is no later than asked for.
LEMMA RequeueInTime ==
  ASSUME BackoffTypeOK, NEW ticks \in Times, RequeueAfter(ticks)
  PROVE  /\ interval' = ticks /\ interval' # Never
         /\ timer' \in Times /\ timer' # Never
         /\ timer' <= AtLeast(ticks, Second)
<1>1. /\ Times \subseteq Nat /\ Never \notin Times /\ Second \in Nat
      /\ 1..Second \subseteq Times
  BY TimesType, BackoffAssumption
<1>2. ASSUME NEW delay \in Times, AddAfter(delay)
      PROVE  timer' \in Times /\ timer' <= delay
  <2>1. CASE timer = Never
    BY <1>1, <1>2, <2>1 DEF AddAfter
  <2>2. CASE timer # Never
    <3>1. timer \in Times
      BY <2>2 DEF BackoffTypeOK
    <3>2. timer' = AtMost(timer, delay)
      BY <1>2, <2>2 DEF AddAfter
    <3>3. QED
      BY <1>1, <3>1, <3>2 DEF AtMost
  <2>3. QED
    BY <2>1, <2>2
<1>3. PICK delay \in Times : AddAfter(delay) /\ delay <= AtLeast(ticks, Second)
  <2>1. CASE ticks > 0
    BY <1>1, <2>1 DEF RequeueAfter, AtLeast
  <2>2. CASE ~(ticks > 0)
    <3>1. PICK delay \in 1..Second : AddAfter(delay)
      BY <2>2 DEF RequeueAfter
    <3>2. delay \in Times /\ delay <= AtLeast(ticks, Second)
      BY <1>1 DEF AtLeast
    <3>3. QED
      BY <3>1, <3>2
  <2>3. QED
    BY <2>1, <2>2
<1>4. timer' \in Times /\ timer' <= delay
  BY <1>2, <1>3
<1>5. timer' \in Nat /\ delay \in Nat /\ AtLeast(ticks, Second) \in Nat
  BY <1>1, <1>4 DEF AtLeast
<1>6. QED
  BY <1>1, <1>3, <1>4, <1>5 DEF RequeueAfter

LEMMA SpentType ==
  ASSUME BackoffTypeOK
  PROVE  LET spent == [wakes : 0..MaxWakes, faults : 0..MaxFaults,
                       troubles : 0..MaxTroubles]
         IN  /\ Use("wakes", MaxWakes) => used' \in spent
             /\ Use("faults", MaxFaults) => used' \in spent
             /\ Use("troubles", MaxTroubles) => used' \in spent
  BY BackoffAssumption DEF BackoffTypeOK, Use

\* The clock stays within its bounds.
LEMMA ClockType ==
  ASSUME BackoffTypeOK
  PROVE  /\ 0 \in 0..(Second - 1) /\ SixHours \in 0..SixHours
         /\ (phase + 1) % Second \in 0..(Second - 1)
         /\ AtMost(age + 1, SixHours) \in 0..SixHours
         /\ phase \in 0..SixHours
  BY BackoffAssumption DEF BackoffTypeOK, AtMost

-----------------------------------------------------------------------------
(***************************************************************************)
(* Each step keeps the types, and a retry for what is not done.            *)
(***************************************************************************)
LEMMA BackoffInit == Init => BackoffTypeOK /\ RetryInTime
<1> SUFFICES ASSUME Init PROVE BackoffTypeOK /\ RetryInTime
  OBVIOUS
<1>1. phase \in 0..(Second - 1) /\ age \in 0..SixHours
  BY BackoffAssumption DEF Init
<1>2. used \in [wakes : 0..MaxWakes, faults : 0..MaxFaults,
               troubles : 0..MaxTroubles]
  BY BackoffAssumption DEF Init
<1>3. QED
  BY <1>1, <1>2 DEF Init, BackoffTypeOK, RetryInTime

LEMMA BackoffStep ==
  ASSUME BackoffTypeOK, RetryInTime, [Next]_backoffVars
  PROVE  BackoffTypeOK' /\ RetryInTime'
<1> USE DEF clockVars
<1>1. CASE Start
  BY <1>1 DEF Start, BackoffTypeOK, RetryInTime
<1>2. CASE ManageError
  <2>1. ErrorInterval \in Times
    BY IntervalType
  <2>2. /\ interval' = ErrorInterval /\ interval' # Never
        /\ timer' \in Times /\ timer' # Never
        /\ timer' <= AtLeast(interval', Second)
    BY <1>2, <2>1, RequeueInTime DEF ManageError
  <2>3. RetryInTime'
    BY <2>2 DEF RetryInTime
  <2>4. BackoffTypeOK'
    BY <1>2, <2>1, <2>2, ClockType
       DEF ManageError, WriteStatus, BackoffTypeOK
  <2>5. QED
    BY <2>3, <2>4
<1>3. CASE ManageSuccess
  <2>1. CASE trouble = "RequeueEvent"
    <3>1. TenSeconds \in Times
      BY TimesType
    <3>2. /\ interval' = TenSeconds /\ interval' # Never
          /\ timer' \in Times /\ timer' # Never
          /\ timer' <= AtLeast(interval', Second)
      BY <1>3, <2>1, <3>1, RequeueInTime DEF ManageSuccess
    <3>3. RetryInTime'
      BY <3>2 DEF RetryInTime
    <3>4. BackoffTypeOK'
      BY <1>3, <3>1, <3>2, ClockType
         DEF ManageSuccess, WriteStatus, BackoffTypeOK
    <3>5. QED
      BY <3>3, <3>4
  <2>2. CASE trouble # "RequeueEvent"
    <3>1. status' = "True" /\ interval' = Never /\ timer' = timer
      BY <1>3, <2>2 DEF ManageSuccess, WriteStatus
    <3>2. BackoffTypeOK'
      BY <1>3, <3>1, ClockType DEF ManageSuccess, WriteStatus, BackoffTypeOK
    <3>3. QED
      BY <3>1, <3>2 DEF RetryInTime
  <2>3. QED
    BY <2>1, <2>2
<1>4. CASE WriteFails
  <2>1. Second \in Times
    BY TimesType
  <2>2. /\ interval' = Second /\ interval' # Never
        /\ timer' \in Times /\ timer' # Never
        /\ timer' <= AtLeast(interval', Second)
    BY <1>4, <2>1, RequeueInTime DEF WriteFails
  <2>3. RetryInTime'
    BY <2>2 DEF RetryInTime
  <2>4. BackoffTypeOK'
    BY <1>4, <2>1, <2>2, SpentType DEF WriteFails, BackoffTypeOK
  <2>5. QED
    BY <2>3, <2>4
<1>5. CASE FireTimer
  BY <1>5 DEF FireTimer, BackoffTypeOK, RetryInTime
<1>6. CASE Tick
  <2>1. /\ timer' \in Times \cup {Never} /\ (timer' = Never <=> timer = Never)
        /\ timer # Never => timer \in Nat /\ timer' \in Nat /\ timer' <= timer
    <3>1. Never \notin Nat /\ Times \subseteq Nat
      BY BackoffAssumption DEF Times
    <3>2. CASE timer \in {Never, 0}
      BY <1>6, <3>1, <3>2 DEF Tick, BackoffTypeOK
    <3>3. CASE timer \notin {Never, 0}
      <4>1. timer \in Times /\ timer' = timer - 1
        BY <1>6, <3>3 DEF Tick, BackoffTypeOK
      <4>2. timer - 1 \in Times
        BY <3>3, <4>1, TimesType DEF Times
      <4>3. QED
        BY <3>1, <4>1, <4>2
    <3>4. QED
      BY <3>2, <3>3
  <2>2. BackoffTypeOK'
    BY <1>6, <2>1, ClockType DEF Tick, BackoffTypeOK
  <2>3. RetryInTime'
    <3>1. interval # Never => AtLeast(interval, Second) \in Nat
      BY BackoffAssumption DEF BackoffTypeOK, Times, AtLeast
    <3>2. QED
      BY <1>6, <2>1, <3>1 DEF Tick, RetryInTime
  <2>4. QED
    BY <2>2, <2>3
<1>7. CASE Wake
  BY <1>7, SpentType DEF Wake, BackoffTypeOK, RetryInTime
<1>8. CASE Change
  BY <1>8, SpentType DEF Change, BackoffTypeOK, RetryInTime
<1>9. CASE UNCHANGED backoffVars
  BY <1>9 DEF backoffVars, BackoffTypeOK, RetryInTime
<1>10. QED
  BY <1>1, <1>2, <1>3, <1>4, <1>5, <1>6, <1>7, <1>8, <1>9 DEF Next

\* No interval and no timer is longer than six hours, whatever was doubled.
THEOREM BackoffTypeCorrect == Spec => []BackoffTypeOK
  BY BackoffInit, BackoffStep, PTL DEF Spec

\* Whatever a pass, a failed write or an event did to the timers before.
THEOREM RetryInTimeHolds == Spec => []RetryInTime
  BY BackoffInit, BackoffStep, PTL DEF Spec
=============================================================================
