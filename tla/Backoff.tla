------------------------------ MODULE Backoff ------------------------------
(***************************************************************************)
(* When the operator tries again (ManageError, ManageSuccess): the result  *)
(* a pass returns, the timer the work queue makes of it, and the time that *)
(* goes by.                                                                *)
(*                                                                         *)
(* The code keeps no interval: the next one is twice the time since the    *)
(* last status was written, which is a time stamp of whole seconds.  Time  *)
(* is counted in ticks, and an age beyond the longest interval is as good  *)
(* as that interval.  What a pass does is the matter of                    *)
(* AppServiceController; here it works, fails, or finds no ready pod.      *)
(***************************************************************************)
EXTENDS Naturals

CONSTANTS
  Second,       \* ticks in a second
  TenSeconds,   \* the interval after a pass that found no ready pod
  SixHours,     \* the longest interval after an error
  Never,        \* there is no such time
  MaxWakes,     \* bound on events that start a pass
  MaxFaults,    \* bound on writes of the status that fail
  MaxTroubles   \* bound on what goes wrong or right again

ASSUME BackoffAssumption ==
  /\ Second \in Nat \ {0}
  /\ TenSeconds \in Nat \ {0}
  /\ SixHours \in Nat /\ SixHours >= 2 * Second
  /\ Never \notin Nat
  /\ MaxWakes \in Nat /\ MaxFaults \in Nat /\ MaxTroubles \in Nat

VARIABLES
  phase,      \* ticks since the last whole second
  status,     \* status in the resource
  age,        \* ticks since lastUpdate, of which no more than SixHours count
  timer,      \* ticks until the key is added to the queue again
  dirty,      \* is the key in the queue?
  running,    \* is a pass under way?
  interval,   \* RequeueAfter of the last pass
  trouble,    \* what a pass will run into
  used        \* what is used of the bounds

clockVars == <<phase, age>>
backoffVars ==
  <<clockVars, status, timer, dirty, running, interval, trouble, used>>

AtMost(a, b) == IF a < b THEN a ELSE b
AtLeast(a, b) == IF a < b THEN b ELSE a
Times == 0..AtLeast(SixHours, TenSeconds)

BackoffTypeOK ==
  /\ phase \in 0..(Second - 1)
  /\ status \in {"unset", "True", "Failed"}
  /\ age \in 0..SixHours
  /\ timer \in Times \cup {Never}
  /\ dirty \in BOOLEAN /\ running \in BOOLEAN
  /\ interval \in Times \cup {Never}
  /\ trouble \in {"none", "Error", "RequeueEvent"}
  /\ used \in [wakes : 0..MaxWakes, faults : 0..MaxFaults,
               troubles : 0..MaxTroubles]

\* A new resource, or one that has been at rest for long.
Init ==
  /\ phase = 0
  /\ status \in {"unset", "True"}
  /\ age = SixHours
  /\ timer = Never /\ interval = Never
  /\ dirty = TRUE /\ running = FALSE
  /\ trouble \in {"none", "Error", "RequeueEvent"}
  /\ used = [wakes |-> 0, faults |-> 0, troubles |-> 0]

Use(kind, bound) == used[kind] < bound /\ used' = [used EXCEPT ![kind] = @ + 1]

-----------------------------------------------------------------------------
Start ==
  /\ dirty /\ ~running
  /\ dirty' = FALSE /\ running' = TRUE
  /\ UNCHANGED <<clockVars, status, timer, interval, trouble, used>>

\* A key that waits already is added at the earlier of the two times.
AddAfter(ticks) ==
  timer' = IF timer = Never THEN ticks ELSE AtMost(timer, ticks)

\* Without a positive RequeueAfter the rate limiter of the queue decides.
RequeueAfter(ticks) ==
  /\ interval' = ticks
  /\ IF ticks > 0 THEN AddAfter(ticks)
                  ELSE \E delay \in 1..Second : AddAfter(delay)

\* The time stamp is cut to whole seconds when it is stored.
WriteStatus(new) ==
  /\ status' = new
  /\ age' = phase
  /\ UNCHANGED <<phase, used>>

\* Mutant: the interval is not doubled.
ErrorIntervalUndoubled ==
  AtMost(IF status \in {"unset", "Success"} THEN Second ELSE age, SixHours)

\* Mutant: there is no longest interval.
ErrorIntervalUnbounded ==
  2 * (IF status \in {"unset", "Success"} THEN Second ELSE age)

\* Twice the time since the last status.  No status is ever "Success", so only
\* a resource without one starts at a second.
ErrorInterval ==
  LET retryInterval == IF status \in {"unset", "Success"} THEN Second ELSE age
  IN  AtMost(2 * retryInterval, SixHours)

ManageError ==
  /\ running /\ trouble = "Error"
  /\ running' = FALSE
  /\ WriteStatus("Failed")
  /\ RequeueAfter(ErrorInterval)
  /\ UNCHANGED <<dirty, trouble>>

ManageSuccess ==
  /\ running /\ trouble # "Error"
  /\ running' = FALSE
  /\ WriteStatus("True")
  /\ IF trouble = "RequeueEvent" THEN RequeueAfter(TenSeconds)
                                 ELSE interval' = Never /\ UNCHANGED timer
  /\ UNCHANGED <<dirty, trouble>>

\* Mutant: a status that cannot be written is not tried again.
WriteFailsForGood ==
  /\ running /\ Use("faults", MaxFaults)
  /\ running' = FALSE
  /\ interval' = Never
  /\ UNCHANGED <<clockVars, status, timer, dirty, trouble>>

\* The write of the status fails, in either function.
WriteFails ==
  /\ running /\ Use("faults", MaxFaults)
  /\ running' = FALSE
  /\ RequeueAfter(Second)
  /\ UNCHANGED <<clockVars, status, dirty, trouble>>

FireTimer ==
  /\ timer = 0
  /\ timer' = Never /\ dirty' = TRUE
  /\ UNCHANGED <<clockVars, status, running, interval, trouble, used>>

-----------------------------------------------------------------------------
\* Time goes by, under a pass and over a timer that is due too.
Tick ==
  /\ phase' = (phase + 1) % Second
  /\ age' = AtMost(age + 1, SixHours)
  /\ timer' = IF timer \in {Never, 0} THEN timer ELSE timer - 1
  /\ UNCHANGED <<status, dirty, running, interval, trouble, used>>

\* An edit, or an event of a Deployment.
Wake ==
  /\ Use("wakes", MaxWakes)
  /\ dirty' = TRUE
  /\ UNCHANGED <<clockVars, status, timer, running, interval, trouble>>

Change ==
  /\ Use("troubles", MaxTroubles)
  /\ trouble' \in {"none", "Error", "RequeueEvent"} \ {trouble}
  /\ UNCHANGED <<clockVars, status, timer, dirty, running, interval>>

Next ==
  \/ Start \/ ManageError \/ ManageSuccess \/ WriteFails \/ FireTimer
  \/ Tick \/ Wake \/ Change

\* The clock, the timers and the worker keep going.
Fairness ==
  /\ WF_backoffVars(Start)
  /\ WF_backoffVars(ManageError \/ ManageSuccess \/ WriteFails)
  /\ WF_backoffVars(FireTimer)
  /\ WF_backoffVars(Tick)

Spec == Init /\ [][Next]_backoffVars /\ Fairness

-----------------------------------------------------------------------------
\* What a pass left undone is tried again, no later than the pass asked for:
\* because the key is queued or under way, or by a timer, which the timers and
\* the passes before have not pushed back.  (Within a second where the interval
\* came out as nothing and the rate limiter of the queue decides.)
RetryInTime ==
  status # "True" \/ interval # Never =>
    \/ dirty \/ running
    \/ /\ interval # Never /\ timer # Never
       /\ timer <= AtLeast(interval, Second)

\* A resource that stays failed ends up being tried every six hours: intervals
\* double although no pass knows the one before, events in between shorten them
\* and failed writes leave lastUpdate as it was.
EventuallySixHours == <>[](status = "Failed") => <>[](interval = SixHours)

\* When what made the passes fail goes away, a pass finds out by its own timer,
\* however long the resource had been failing.
EventuallyTrue == <>[](trouble = "none") => <>[](status = "True")
=============================================================================
