-------------------------- MODULE OperatorsProofs --------------------------
(***************************************************************************)
(* However many operators there are, with or without leader election, and  *)
(* whatever becomes of the lease: the resource logs one success, and       *)
(* together they do what the abstract migration allows.                    *)
(*                                                                         *)
(* The argument: the log never shrinks, a pass that is about to run the    *)
(* script or has run it read a version without a success, and its write    *)
(* goes through only if that version is still the last one.                *)
(***************************************************************************)
EXTENDS Operators, TLAPS

LogGrows ==
  \A v, w \in 1..Len(log) : v <= w => log[v] <= log[w]

PassReads ==
  \A p \in Processes :
    pass[p].at # "idle" => pass[p].version \in 1..Len(log)

RunsWhenNeeded ==
  \A p \in Processes :
    \/ pass[p].at = "script"
    \/ pass[p].at = "record" /\ pass[p].ran
    => log[pass[p].version] = 0

OperatorsInv ==
  /\ OperatorsTypeOK
  /\ LogGrows /\ PassReads /\ RunsWhenNeeded
  /\ LoggedOnceByAll

\* The log after a step: what it was, or with one version more, which logs as
\* much as the last one or a success besides.
LogStep ==
  \/ UNCHANGED log
  \/ \E n \in {0, 1} : log' = Append(log, Logged + n)

-----------------------------------------------------------------------------
(***************************************************************************)
(* The parts of a step.                                                    *)
(***************************************************************************)
LEMMA Spending ==
  ASSUME OperatorsTypeOK, NEW kind, NEW bound,
         \/ kind = "faults" /\ bound = MaxFaults
         \/ kind = "pauses" /\ bound = MaxPauses
         \/ kind = "staleReads" /\ bound = MaxStaleReads
         \/ kind = "wakes" /\ bound = MaxWakes,
         Spend(kind, bound)
  PROVE  used' \in [faults : 0..MaxFaults, pauses : 0..MaxPauses,
                    staleReads : 0..MaxStaleReads, wakes : 0..MaxWakes]
<1>1. /\ used[kind] < bound
      /\ used' = [used EXCEPT ![kind] = used[kind] + 1]
  BY DEF Spend
<1>2. CASE kind = "faults"
  <2>1. used' = [faults |-> used.faults + 1, pauses |-> used.pauses,
                staleReads |-> used.staleReads, wakes |-> used.wakes]
    BY <1>1, <1>2 DEF OperatorsTypeOK
  <2>2. used.faults + 1 \in 0..MaxFaults
    BY <1>1, <1>2, OperatorsAssumption DEF OperatorsTypeOK
  <2>3. QED
    BY <2>1, <2>2 DEF OperatorsTypeOK
<1>3. CASE kind = "pauses"
  <2>1. used' = [faults |-> used.faults, pauses |-> used.pauses + 1,
                staleReads |-> used.staleReads, wakes |-> used.wakes]
    BY <1>1, <1>3 DEF OperatorsTypeOK
  <2>2. used.pauses + 1 \in 0..MaxPauses
    BY <1>1, <1>3, OperatorsAssumption DEF OperatorsTypeOK
  <2>3. QED
    BY <2>1, <2>2 DEF OperatorsTypeOK
<1>4. CASE kind = "staleReads"
  <2>1. used' = [faults |-> used.faults, pauses |-> used.pauses,
                staleReads |-> used.staleReads + 1, wakes |-> used.wakes]
    BY <1>1, <1>4 DEF OperatorsTypeOK
  <2>2. used.staleReads + 1 \in 0..MaxStaleReads
    BY <1>1, <1>4, OperatorsAssumption DEF OperatorsTypeOK
  <2>3. QED
    BY <2>1, <2>2 DEF OperatorsTypeOK
<1>5. CASE kind = "wakes"
  <2>1. used' = [faults |-> used.faults, pauses |-> used.pauses,
                staleReads |-> used.staleReads, wakes |-> used.wakes + 1]
    BY <1>1, <1>5 DEF OperatorsTypeOK
  <2>2. used.wakes + 1 \in 0..MaxWakes
    BY <1>1, <1>5, OperatorsAssumption DEF OperatorsTypeOK
  <2>3. QED
    BY <2>1, <2>2 DEF OperatorsTypeOK
<1>6. QED
  BY <1>2, <1>3, <1>4, <1>5

LEMMA LogStepIsTyped ==
  ASSUME OperatorsTypeOK, LogStep
  PROVE  /\ log' \in Seq(Nat) /\ log' # <<>>
         /\ Len(log) <= Len(log')
         /\ \A v \in 1..Len(log) : log'[v] = log[v]
<1>1. CASE UNCHANGED log
  BY <1>1 DEF OperatorsTypeOK
<1>2. ASSUME NEW n \in {0, 1}, log' = Append(log, Logged + n)
      PROVE  /\ log' \in Seq(Nat) /\ Len(log') = Len(log) + 1
             /\ \A v \in 1..Len(log) : log'[v] = log[v]
  <2>1. Len(log) \in Nat \ {0} /\ Logged + n \in Nat
    BY DEF OperatorsTypeOK, Logged
  <2>2. QED
    BY <1>2, <2>1 DEF OperatorsTypeOK
<1>3. QED
  BY <1>1, <1>2 DEF OperatorsTypeOK, LogStep

LEMMA LogStepGrows ==
  ASSUME OperatorsTypeOK, LogGrows, LogStep
  PROVE  LogGrows' /\ Logged <= Logged'
<1>1. CASE UNCHANGED log
  BY <1>1 DEF OperatorsTypeOK, LogGrows, Logged
<1>2. ASSUME NEW n \in {0, 1}, log' = Append(log, Logged + n)
      PROVE  LogGrows' /\ Logged <= Logged'
  <2>1. Len(log) \in Nat \ {0} /\ Logged \in Nat
    BY DEF OperatorsTypeOK, Logged
  <2>2. /\ Len(log') = Len(log) + 1
        /\ \A v \in 1..Len(log) : log'[v] = log[v]
        /\ log'[Len(log) + 1] = Logged + n
    BY <1>2, <2>1 DEF OperatorsTypeOK
  <2>3. \A v \in 1..Len(log) : log[v] \in Nat /\ log[v] <= Logged
    BY <2>1 DEF OperatorsTypeOK, LogGrows, Logged
  <2>4. LogGrows'
    BY <2>1, <2>2, <2>3 DEF LogGrows
  <2>5. QED
    BY <2>1, <2>2, <2>4 DEF Logged
<1>3. QED
  BY <1>1, <1>2 DEF LogStep

\* A step that leaves the passes alone, but for those it ends, keeps what is
\* said of passes.
LEMMA OldPasses ==
  ASSUME OperatorsInv, LogStep, NEW p \in Processes,
         pass'[p] = pass[p] \/ pass'[p] = NoPass
  PROVE  /\ pass'[p] \in Pass
         /\ pass'[p].at # "idle" => pass'[p].version \in 1..Len(log')
         /\ \/ pass'[p].at = "script"
            \/ pass'[p].at = "record" /\ pass'[p].ran
            => log'[pass'[p].version] = 0
<1>1. CASE pass'[p] = NoPass
  BY <1>1 DEF NoPass, Pass
<1>2. CASE pass'[p] = pass[p]
  <2>1. pass[p] \in Pass
    BY DEF OperatorsInv, OperatorsTypeOK
  <2>2. pass'[p].at # "idle" => pass'[p].version \in 1..Len(log)
    BY <1>2 DEF OperatorsInv, PassReads
  <2>3. 1..Len(log) \subseteq 1..Len(log')
    BY LogStepIsTyped DEF OperatorsInv, OperatorsTypeOK
  <2>4. pass'[p].at \in {"idle", "script", "record"}
    BY <1>2, <2>1 DEF Pass, NoPass
  <2>5. QED
    BY <1>2, <2>1, <2>2, <2>3, <2>4, LogStepIsTyped
       DEF OperatorsInv, RunsWhenNeeded
<1>3. QED
  BY <1>1, <1>2

LEMMA OldSeen ==
  ASSUME OperatorsTypeOK, LogStep, UNCHANGED seen
  PROVE  seen' \in [Processes -> 1..Len(log')]
<1>1. 1..Len(log) \subseteq 1..Len(log')
  BY LogStepIsTyped DEF OperatorsTypeOK
<1>2. QED
  BY <1>1 DEF OperatorsTypeOK

-----------------------------------------------------------------------------
(***************************************************************************)
(* Steps that write nothing and begin nothing.                             *)
(***************************************************************************)
LEMMA QuietInv ==
  ASSUME OperatorsInv, OperatorsTypeOK', UNCHANGED log,
         \A p \in Processes : pass'[p] = pass[p] \/ pass'[p] = NoPass
  PROVE  OperatorsInv'
<1>1. LogStep
  BY DEF LogStep
<1>2. PassReads' /\ RunsWhenNeeded'
  BY <1>1, OldPasses DEF PassReads, RunsWhenNeeded
<1>3. LogGrows' /\ LoggedOnceByAll'
  BY DEF OperatorsInv, LogGrows, LoggedOnceByAll, Logged
<1>4. QED
  BY <1>2, <1>3 DEF OperatorsInv

LEMMA StartKeepsInv ==
  ASSUME OperatorsInv, NEW p \in Processes, Start(p) \/ Acquire(p)
  PROVE  OperatorsInv'
<1>1. UNCHANGED <<log, applied, orphans, electing, pass, paused, used>>
  BY DEF Start, Acquire
<1>2. state' \in [Processes -> States] /\ queued' \in SUBSET Processes
  BY DEF Start, Acquire, BecomeActive, OperatorsInv, OperatorsTypeOK, States
<1>3. seen' \in [Processes -> 1..Len(log')]
  BY <1>1 DEF Start, Acquire, BecomeActive, OperatorsInv, OperatorsTypeOK
<1>4. lease' \in Processes \cup {Nobody}
  BY DEF Start, Acquire, OperatorsInv, OperatorsTypeOK
<1>5. OperatorsTypeOK'
  BY <1>1, <1>2, <1>3, <1>4 DEF OperatorsInv, OperatorsTypeOK
<1>6. QED
  BY <1>1, <1>5, QuietInv

LEMMA ExitKeepsInv ==
  ASSUME OperatorsInv, NEW p \in Processes, StepDown(p) \/ Crash(p)
  PROVE  OperatorsInv'
<1>1. UNCHANGED <<log, applied, electing, lease, seen>> /\ Exit(p)
  BY DEF StepDown, Crash
<1>2. used' \in [faults : 0..MaxFaults, pauses : 0..MaxPauses,
                 staleReads : 0..MaxStaleReads, wakes : 0..MaxWakes]
  BY Spending DEF StepDown, Crash, Fault, OperatorsInv, OperatorsTypeOK
<1>3. /\ state' \in [Processes -> States]
      /\ queued' \in SUBSET Processes /\ paused' \in SUBSET Processes
      /\ orphans' \in Nat
  BY <1>1 DEF Exit, OperatorsInv, OperatorsTypeOK, States
<1>4. /\ pass' \in [Processes -> Pass]
      /\ \A q \in Processes : pass'[q] = pass[q] \/ pass'[q] = NoPass
  BY <1>1 DEF Exit, OperatorsInv, OperatorsTypeOK, Pass
<1>5. OperatorsTypeOK'
  BY <1>1, <1>2, <1>3, <1>4 DEF OperatorsInv, OperatorsTypeOK
<1>6. QED
  BY <1>1, <1>4, <1>5, QuietInv

LEMMA OrphansKeepInv ==
  ASSUME OperatorsInv, OrphanCommits \/ OrphanDies
  PROVE  OperatorsInv'
<1>1. /\ UNCHANGED <<log, electing, lease, state, paused, seen, queued, pass,
                    used>>
      /\ applied' \in Nat /\ orphans' \in Nat
  BY DEF OrphanCommits, OrphanDies, processVars, OperatorsInv, OperatorsTypeOK
<1>2. OperatorsTypeOK'
  BY <1>1 DEF OperatorsInv, OperatorsTypeOK
<1>3. QED
  BY <1>1, <1>2, QuietInv

LEMMA OtherKeepsInv ==
  ASSUME OperatorsInv, NEW p \in Processes,
         \/ Expire \/ Pause(p) \/ Resume(p) \/ CatchUp(p) \/ Wake(p)
         \/ UNCHANGED operatorVars
  PROVE  OperatorsInv'
<1>1. UNCHANGED <<log, applied, orphans, electing, state, pass>>
  BY DEF Expire, Pause, Resume, CatchUp, Wake, operatorVars, processVars
<1>2. used' \in [faults : 0..MaxFaults, pauses : 0..MaxPauses,
                 staleReads : 0..MaxStaleReads, wakes : 0..MaxWakes]
  BY Spending
     DEF Expire, Pause, Resume, CatchUp, Wake, operatorVars, OperatorsInv,
         OperatorsTypeOK
<1>3. /\ lease' \in Processes \cup {Nobody}
      /\ paused' \in SUBSET Processes /\ queued' \in SUBSET Processes
  BY DEF Expire, Pause, Resume, CatchUp, Wake, Again, operatorVars,
         processVars, OperatorsInv, OperatorsTypeOK
<1>4. seen' \in [Processes -> 1..Len(log')]
  <2>1. CASE UNCHANGED seen
    BY <1>1, <2>1, OldSeen DEF LogStep, OperatorsInv
  <2>2. CASE CatchUp(p)
    <3>1. PICK version \in (seen[p] + 1)..Len(log) :
            seen' = [seen EXCEPT ![p] = version]
      BY <2>2 DEF CatchUp
    <3>2. seen[p] \in 1..Len(log) /\ Len(log) \in Nat
      BY DEF OperatorsInv, OperatorsTypeOK
    <3>3. version \in 1..Len(log)
      BY <3>1, <3>2
    <3>4. QED
      BY <1>1, <3>1, <3>3 DEF OperatorsInv, OperatorsTypeOK
  <2>3. QED
    BY <2>1, <2>2 DEF Expire, Pause, Resume, Wake, operatorVars
<1>5. OperatorsTypeOK'
  BY <1>1, <1>2, <1>3, <1>4 DEF OperatorsInv, OperatorsTypeOK
<1>6. QED
  BY <1>1, <1>5, QuietInv
-----------------------------------------------------------------------------
(***************************************************************************)
(* The steps of a pass.                                                    *)
(***************************************************************************)
LEMMA BeginKeepsInv ==
  ASSUME OperatorsInv, NEW p \in Processes, Begin(p)
  PROVE  OperatorsInv'
<1> DEFINE v == seen[p]
           next == IF log[v] = 0
                     THEN [at |-> "script", version |-> v]
                     ELSE [at |-> "record", version |-> v,
                           ran |-> FALSE, again |-> FALSE]
<1>1. /\ UNCHANGED <<log, applied, orphans, electing, lease, state, paused,
                    seen>>
      /\ pass' = [pass EXCEPT ![p] = next]
      /\ queued' \in SUBSET Processes
  BY DEF Begin, processVars, OperatorsInv, OperatorsTypeOK
<1>2. used' \in [faults : 0..MaxFaults, pauses : 0..MaxPauses,
                 staleReads : 0..MaxStaleReads, wakes : 0..MaxWakes]
  BY Spending DEF Begin, NoFault, OperatorsInv, OperatorsTypeOK
<1>3. v \in 1..Len(log) /\ v \in Nat
  BY DEF OperatorsInv, OperatorsTypeOK
<1>4. next \in Pass
  BY <1>3 DEF Pass
<1>5. pass' \in [Processes -> Pass]
  BY <1>1, <1>4 DEF OperatorsInv, OperatorsTypeOK
<1>6. OperatorsTypeOK'
  BY <1>1, <1>2, <1>5 DEF OperatorsInv, OperatorsTypeOK
<1>7. \A q \in Processes : pass'[q] = IF q = p THEN next ELSE pass[q]
  BY <1>1 DEF OperatorsInv, OperatorsTypeOK
<1>8. PassReads'
  BY <1>1, <1>3, <1>7 DEF OperatorsInv, PassReads
<1>9. RunsWhenNeeded'
  BY <1>1, <1>7 DEF OperatorsInv, RunsWhenNeeded
<1>10. LogGrows' /\ LoggedOnceByAll'
  BY <1>1 DEF OperatorsInv, LogGrows, LoggedOnceByAll, Logged
<1>11. QED
  BY <1>6, <1>8, <1>9, <1>10 DEF OperatorsInv

LEMMA RunScriptKeepsInv ==
  ASSUME OperatorsInv, NEW p \in Processes, RunScript(p)
  PROVE  OperatorsInv'
<1>1. PICK ran \in BOOLEAN, again \in BOOLEAN : Return(p, ran, again)
  BY DEF RunScript
<1> DEFINE next == [at |-> "record", version |-> pass[p].version,
                    ran |-> ran, again |-> again]
<1>2. /\ UNCHANGED <<log, electing, lease, state, paused, seen, queued>>
      /\ applied' \in Nat /\ orphans' \in Nat
      /\ pass' = [pass EXCEPT ![p] = next]
  BY <1>1 DEF RunScript, Return, processVars, OperatorsInv, OperatorsTypeOK
<1>3. used' \in [faults : 0..MaxFaults, pauses : 0..MaxPauses,
                 staleReads : 0..MaxStaleReads, wakes : 0..MaxWakes]
  BY Spending DEF RunScript, Fault, NoFault, OperatorsInv, OperatorsTypeOK
<1>4. /\ pass[p].at = "script"
      /\ pass[p].version \in 1..Len(log) /\ pass[p].version \in Nat
      /\ log[pass[p].version] = 0
  BY DEF RunScript, OperatorsInv, OperatorsTypeOK, PassReads, RunsWhenNeeded
<1>5. next \in Pass
  BY <1>4 DEF Pass
<1>6. pass' \in [Processes -> Pass]
  BY <1>2, <1>5 DEF OperatorsInv, OperatorsTypeOK
<1>7. OperatorsTypeOK'
  BY <1>2, <1>3, <1>6 DEF OperatorsInv, OperatorsTypeOK
<1>8. \A q \in Processes : pass'[q] = IF q = p THEN next ELSE pass[q]
  BY <1>2 DEF OperatorsInv, OperatorsTypeOK
<1>9. PassReads'
  BY <1>2, <1>4, <1>8 DEF OperatorsInv, PassReads
<1>10. RunsWhenNeeded'
  BY <1>2, <1>4, <1>8 DEF OperatorsInv, RunsWhenNeeded
<1>11. LogGrows' /\ LoggedOnceByAll'
  BY <1>2 DEF OperatorsInv, LogGrows, LoggedOnceByAll, Logged
<1>12. QED
  BY <1>7, <1>9, <1>10, <1>11 DEF OperatorsInv

\* What a status write does to the log: nothing, or it adds to the version
\* the pass read, which is the last.
LEMMA WriteIsLogStep ==
  ASSUME OperatorsInv, NEW p \in Processes, WriteStatus(p)
  PROVE  /\ LogStep
         /\ \/ UNCHANGED log
            \/ /\ ~pass[p].ran /\ log' = Append(log, Logged + 0)
            \/ /\ pass[p].ran /\ Logged = 0
               /\ log' = Append(log, Logged + 1)
<1>1. CASE UNCHANGED log
  BY <1>1 DEF LogStep
<1>2. CASE ~UNCHANGED log
  <2>1. /\ pass[p].at = "record" /\ pass[p].version = Len(log)
        /\ log' = Append(log, Logged + IF pass[p].ran THEN 1 ELSE 0)
    BY <1>2 DEF WriteStatus, Logged
  <2>2. CASE pass[p].ran
    BY <2>1, <2>2 DEF OperatorsInv, RunsWhenNeeded, LogStep, Logged
  <2>3. CASE ~pass[p].ran
    BY <2>1, <2>3 DEF LogStep
  <2>4. QED
    BY <2>2, <2>3
<1>3. QED
  BY <1>1, <1>2

LEMMA WriteStatusKeepsInv ==
  ASSUME OperatorsInv, NEW p \in Processes, WriteStatus(p)
  PROVE  OperatorsInv'
<1>1. LogStep
  BY WriteIsLogStep
<1>2. /\ UNCHANGED <<applied, orphans, electing, lease, state, paused, seen>>
      /\ pass' = [pass EXCEPT ![p] = NoPass]
      /\ queued' \in SUBSET Processes
  BY DEF WriteStatus, Again, processVars, OperatorsInv, OperatorsTypeOK
<1>3. used' \in [faults : 0..MaxFaults, pauses : 0..MaxPauses,
                 staleReads : 0..MaxStaleReads, wakes : 0..MaxWakes]
  BY Spending DEF WriteStatus, Fault, NoFault, OperatorsInv, OperatorsTypeOK
<1>4. \A q \in Processes : pass'[q] = pass[q] \/ pass'[q] = NoPass
  BY <1>2 DEF OperatorsInv, OperatorsTypeOK
<1>5. pass' \in [Processes -> Pass]
  BY <1>2 DEF OperatorsInv, OperatorsTypeOK, Pass
<1>6. OperatorsTypeOK'
  BY <1>1, <1>2, <1>3, <1>5, LogStepIsTyped, OldSeen
     DEF OperatorsInv, OperatorsTypeOK
<1>7. LogGrows'
  BY <1>1, LogStepGrows DEF OperatorsInv
<1>8. PassReads' /\ RunsWhenNeeded'
  BY <1>1, <1>4, OldPasses DEF PassReads, RunsWhenNeeded
<1>9. LoggedOnceByAll'
  <2>1. Len(log) \in Nat \ {0} /\ Logged \in Nat
    BY DEF OperatorsInv, OperatorsTypeOK, Logged
  <2>2. ASSUME NEW n \in {0, 1}, log' = Append(log, Logged + n)
        PROVE  Logged' = Logged + n
    BY <2>1, <2>2 DEF OperatorsInv, OperatorsTypeOK, Logged
  <2>3. QED
    BY <2>1, <2>2, WriteIsLogStep
       DEF OperatorsInv, LoggedOnceByAll, Logged
<1>10. QED
  BY <1>6, <1>7, <1>8, <1>9 DEF OperatorsInv

-----------------------------------------------------------------------------
LEMMA InitOperators ==
  ASSUME OperatorsInit
  PROVE  OperatorsInv
<1>1. OperatorsTypeOK
  BY OperatorsAssumption
     DEF OperatorsInit, OperatorsTypeOK, States, Pass
<1>2. QED
  BY <1>1 DEF OperatorsInit, OperatorsInv, LogGrows, PassReads,
              RunsWhenNeeded, LoggedOnceByAll, Logged, NoPass

LEMMA NextOperators ==
  ASSUME OperatorsInv, [OperatorsNext]_operatorVars
  PROVE  OperatorsInv'
<1>1. ASSUME NEW p \in Processes, ProcessStep(p)
      PROVE  OperatorsInv'
  <2>1. CASE Start(p) \/ Acquire(p)
    BY <2>1, StartKeepsInv
  <2>2. CASE StepDown(p) \/ Crash(p)
    BY <2>2, ExitKeepsInv
  <2>3. CASE Pause(p) \/ Resume(p) \/ CatchUp(p) \/ Wake(p)
    BY <2>3, OtherKeepsInv
  <2>4. CASE Begin(p)
    BY <2>4, BeginKeepsInv
  <2>5. CASE RunScript(p)
    BY <2>5, RunScriptKeepsInv
  <2>6. CASE WriteStatus(p)
    BY <2>6, WriteStatusKeepsInv
  <2>7. QED
    BY <1>1, <2>1, <2>2, <2>3, <2>4, <2>5, <2>6 DEF ProcessStep, PassStep
<1>2. CASE OrphanCommits \/ OrphanDies
  BY <1>2, OrphansKeepInv
<1>3. CASE Expire \/ UNCHANGED operatorVars
  <2>1. CASE Processes = {}
    BY <1>3, <2>1, OperatorsAssumption
       DEF Expire, OperatorsInv, OperatorsTypeOK, operatorVars, processVars,
           LogGrows, PassReads, RunsWhenNeeded, LoggedOnceByAll, Logged
  <2>2. QED
    BY <1>3, <2>1, OtherKeepsInv
<1>4. QED
  BY <1>1, <1>2, <1>3 DEF OperatorsNext

\* Every reachable state of any number of operators is type correct.
THEOREM OperatorsTypeCorrect == OperatorsSpec => []OperatorsTypeOK
<1>1. OperatorsInv => OperatorsTypeOK
  BY DEF OperatorsInv
<1>2. QED
  BY <1>1, InitOperators, NextOperators, PTL DEF OperatorsSpec

\* Any number of operators log one success between them: the status write under
\* the resourceVersion read (appservice_controller.go:283, 327) is all that is
\* needed, no election.
THEOREM OneSuccessLogged == OperatorsSpec => []LoggedOnceByAll
<1>1. OperatorsInv => LoggedOnceByAll
  BY DEF OperatorsInv
<1>2. QED
  BY <1>1, InitOperators, NextOperators, PTL DEF OperatorsSpec

-----------------------------------------------------------------------------
(***************************************************************************)
(* One active operator, of those that elect, if none stood still.          *)
(***************************************************************************)
ActiveHolds ==
  used.pauses = 0 =>
    /\ paused = {}
    /\ \A p \in electing : state[p] = "active" => lease = p

LEMMA NextActiveHolds ==
  ASSUME OperatorsTypeOK, ActiveHolds, [OperatorsNext]_operatorVars
  PROVE  ActiveHolds'
<1>1. CASE Expire
  BY <1>1 DEF Expire, ActiveHolds, Runs, OperatorsTypeOK
<1>2. CASE OrphanCommits \/ OrphanDies \/ UNCHANGED operatorVars
  BY <1>2 DEF OrphanCommits, OrphanDies, operatorVars, processVars, ActiveHolds
<1>3. ASSUME NEW p \in Processes, ProcessStep(p)
      PROVE  ActiveHolds'
  <2>1. CASE Start(p)
    BY <2>1 DEF Start, BecomeActive, ActiveHolds, OperatorsTypeOK
  <2>2. CASE Acquire(p)
    BY <2>2, OperatorsAssumption
       DEF Acquire, BecomeActive, ActiveHolds, OperatorsTypeOK
  <2>3. CASE StepDown(p)
    BY <2>3 DEF StepDown, Exit, ActiveHolds, OperatorsTypeOK
  <2>4. CASE Crash(p)
    <3>1. used'.pauses = used.pauses
      BY <2>4 DEF Crash, Fault, Spend, OperatorsTypeOK
    <3>2. QED
      BY <2>4, <3>1 DEF Crash, Exit, ActiveHolds, OperatorsTypeOK
  <2>5. CASE Pause(p)
    <3>1. used'.pauses # 0
      BY <2>5 DEF Pause, Spend, OperatorsTypeOK
    <3>2. QED
      BY <3>1 DEF ActiveHolds
  <2>6. CASE Resume(p)
    BY <2>6 DEF Resume, ActiveHolds
  <2>7. CASE PassStep(p) \/ CatchUp(p) \/ Wake(p)
    <3>1. UNCHANGED <<electing, lease, state, paused>>
      BY <2>7 DEF PassStep, Begin, RunScript, WriteStatus, CatchUp, Wake,
                  processVars
    <3>2. used'.pauses = used.pauses
      BY <2>7 DEF PassStep, Begin, RunScript, WriteStatus, CatchUp, Wake,
                  NoFault, Fault, Spend, OperatorsTypeOK
    <3>3. QED
      BY <3>1, <3>2 DEF ActiveHolds
  <2>8. QED
    BY <1>3, <2>1, <2>2, <2>3, <2>4, <2>5, <2>6, <2>7 DEF ProcessStep
<1>4. QED
  BY <1>1, <1>2, <1>3 DEF OperatorsNext

\* Of the operators with leader election one at most is active, as main.go:60
\* says, on the condition that none stood still for longer than its lease.
THEOREM OneActiveHolds == OperatorsSpec => []OneActive
<1>1. OperatorsInit => ActiveHolds
  BY DEF OperatorsInit, ActiveHolds
<1>2. OperatorsTypeOK /\ ActiveHolds /\ [OperatorsNext]_operatorVars
        => ActiveHolds'
  BY NextActiveHolds
<1>3. OperatorsTypeOK /\ ActiveHolds => OneActive
  BY DEF ActiveHolds, OneActive, Acts, OperatorsTypeOK
<1>4. QED
  BY <1>1, <1>2, <1>3, OperatorsTypeCorrect, PTL DEF OperatorsSpec

-----------------------------------------------------------------------------
(***************************************************************************)
(* The refinement.                                                         *)
(***************************************************************************)
Looking == {p \in Processes : pass[p].at = "script"}
Holding == {p \in Processes : pass[p].at = "record" /\ pass[p].ran}
Known == IsRecorded /\ Everybody

SharedStep == [SharedAbstract!MigrationNext]_SharedAbstract!migrationVars

\* Who has seen the success goes on seeing it.
LEMMA KnownStays ==
  ASSUME OperatorsInv, LogStep, Known,
         \A p \in Processes :
           state'[p] = "active" =>
             \/ state[p] = "active" /\ seen'[p] \in seen[p]..Len(log)
             \/ seen'[p] = Len(log)
  PROVE  Known'
<1>1. Len(log) \in Nat \ {0} /\ Logged \in Nat /\ Logged' \in Nat
  <2>1. log \in Seq(Nat) /\ log # <<>> /\ log' \in Seq(Nat) /\ log' # <<>>
    BY LogStepIsTyped DEF OperatorsInv, OperatorsTypeOK
  <2>2. QED
    BY <2>1 DEF Logged
<1>2. IsRecorded'
  BY <1>1, LogStepGrows DEF OperatorsInv, Known, IsRecorded
<1>3. ASSUME NEW p \in Processes, state'[p] = "active"
      PROVE  log'[seen'[p]] > 0
  <2>1. seen'[p] \in 1..Len(log) /\ log[seen'[p]] > 0
    <3>1. CASE seen'[p] = Len(log)
      BY <1>1, <3>1 DEF Known, IsRecorded, Logged
    <3>2. CASE state[p] = "active" /\ seen'[p] \in seen[p]..Len(log)
      <4>1. seen[p] \in 1..Len(log) /\ log[seen[p]] > 0
        BY <3>2 DEF Known, Everybody, OperatorsInv, OperatorsTypeOK
      <4>2. seen'[p] \in 1..Len(log) /\ log[seen[p]] <= log[seen'[p]]
        BY <1>1, <3>2, <4>1 DEF OperatorsInv, LogGrows
      <4>3. log[seen[p]] \in Nat /\ log[seen'[p]] \in Nat
        <5>1. log \in Seq(Nat)
          BY DEF OperatorsInv, OperatorsTypeOK
        <5>2. QED
          BY <4>1, <4>2, <5>1
      <4>4. QED
        BY <4>1, <4>2, <4>3
    <3>3. QED
      BY <1>3, <3>1, <3>2
  <2>2. QED
    BY <2>1, LogStepIsTyped DEF OperatorsInv
<1>4. QED
  BY <1>2, <1>3 DEF Known, Everybody

\* A step that runs and records nothing, and goes on with the passes but for
\* one that it may end.
LEMMA SharedQuietStep ==
  ASSUME UNCHANGED <<IsRecorded, orphans, applied>>, Known => Known',
         NEW p \in Processes,
         Looking' \in {Looking, Looking \ {p}},
         Holding' \in {Holding, Holding \ {p}},
         p \in Looking => p \notin Holding,
         p \in Looking /\ p \notin Looking' => p \notin Holding',
         p \in Holding /\ p \notin Holding' => p \notin Looking'
  PROVE  SharedStep
<1>1. SharedAbstract!KnownGrows
  BY DEF SharedAbstract!KnownGrows, Known, IsRecorded, Everybody
<1>2. CASE Looking' = Looking /\ Holding' = Holding
  <2>1. SharedAbstract!CatchUp
    BY <1>1, <1>2 DEF SharedAbstract!CatchUp, Looking, Holding
  <2>2. QED
    BY <2>1 DEF SharedStep, SharedAbstract!MigrationNext
<1>3. CASE ~(Looking' = Looking /\ Holding' = Holding)
  <2>1. /\ p \in Looking \cup Holding
        /\ Looking' = Looking \ {p} /\ Holding' = Holding \ {p}
    BY <1>3
  <2>2. SharedAbstract!Abandon(p)
    BY <1>1, <2>1 DEF SharedAbstract!Abandon, Looking, Holding
  <2>3. QED
    BY <2>2 DEF SharedStep, SharedAbstract!MigrationNext
<1>4. QED
  BY <1>2, <1>3

LEMMA PassesAreTyped ==
  ASSUME OperatorsTypeOK, NEW p \in Processes
  PROVE  /\ pass[p] \in Pass
         /\ pass[p].at = "record" => pass[p].ran \in BOOLEAN
BY DEF OperatorsTypeOK, Pass, NoPass

LEMMA ProcessRefines ==
  ASSUME OperatorsInv, NEW p \in Processes,
         \/ Start(p) \/ Acquire(p) \/ StepDown(p) \/ Crash(p)
         \/ Pause(p) \/ Resume(p) \/ CatchUp(p) \/ Wake(p)
  PROVE  SharedStep
<1>1. UNCHANGED <<log, applied>>
  BY DEF Start, Acquire, StepDown, Crash, Pause, Resume, CatchUp, Wake
<1>2. UNCHANGED IsRecorded
  BY <1>1 DEF IsRecorded, Logged
<1>3. Known => Known'
  <2>1. ASSUME NEW q \in Processes, state'[q] = "active"
        PROVE  \/ state[q] = "active" /\ seen'[q] \in seen[q]..Len(log)
               \/ seen'[q] = Len(log)
    <3>1. seen[q] \in 1..Len(log) /\ Len(log) \in Nat
      BY DEF OperatorsInv, OperatorsTypeOK
    <3>2. CASE Start(p) \/ Acquire(p)
      BY <2>1, <3>1, <3>2
         DEF Start, Acquire, BecomeActive, OperatorsInv, OperatorsTypeOK
    <3>3. CASE StepDown(p) \/ Crash(p)
      BY <2>1, <3>1, <3>3
         DEF StepDown, Crash, Exit, OperatorsInv, OperatorsTypeOK
    <3>4. CASE Pause(p) \/ Resume(p) \/ Wake(p)
      BY <2>1, <3>1, <3>4 DEF Pause, Resume, Wake, processVars
    <3>5. CASE CatchUp(p)
      BY <2>1, <3>1, <3>5
         DEF CatchUp, processVars, OperatorsInv, OperatorsTypeOK
    <3>6. QED
      BY <3>2, <3>3, <3>4, <3>5
  <2>2. QED
    BY <1>1, <2>1, KnownStays DEF LogStep
<1>4. \/ pass' = pass /\ UNCHANGED orphans
      \/ pass' = [pass EXCEPT ![p] = NoPass]
  <2>1. CASE StepDown(p) \/ Crash(p)
    BY <2>1 DEF StepDown, Crash, Exit
  <2>2. CASE \/ Start(p) \/ Acquire(p)
             \/ Pause(p) \/ Resume(p) \/ CatchUp(p) \/ Wake(p)
    BY <2>2 DEF Start, Acquire, Pause, Resume, CatchUp, Wake
  <2>3. QED
    BY <2>1, <2>2
<1>5. CASE pass' = pass /\ UNCHANGED orphans
  <2>1. Looking' = Looking /\ Holding' = Holding
    BY <1>5 DEF Looking, Holding
  <2>2. p \in Looking => p \notin Holding
    BY DEF Looking, Holding
  <2>3. QED
    BY <1>1, <1>2, <1>3, <1>5, <2>1, <2>2, SharedQuietStep
<1>6. CASE pass' = [pass EXCEPT ![p] = NoPass]
  <2>1. \A q \in Processes : pass'[q] = IF q = p THEN NoPass ELSE pass[q]
    BY <1>6 DEF OperatorsInv, OperatorsTypeOK
  <2>2. Looking' = Looking \ {p} /\ Holding' = Holding \ {p}
    BY <2>1 DEF Looking, Holding, NoPass
  <2>3. p \in Looking => p \notin Holding
    BY DEF Looking, Holding
  <2>4. CASE UNCHANGED orphans
    BY <1>1, <1>2, <1>3, <2>2, <2>3, <2>4, SharedQuietStep
  <2>5. CASE ~UNCHANGED orphans
    <3>1. p \in Looking /\ orphans' = orphans + 1
      BY <2>5 DEF Looking, Start, Acquire, StepDown, Crash, Pause, Resume,
                  CatchUp, Wake, Exit
    <3>2. Holding' = Holding
      BY <2>2, <2>3, <3>1
    <3>3. SharedAbstract!KnownGrows
      BY <1>2, <1>3
         DEF SharedAbstract!KnownGrows, Known, IsRecorded, Everybody
    <3>4. SharedAbstract!Detach(p)
      BY <1>1, <1>2, <2>2, <3>1, <3>2, <3>3
         DEF SharedAbstract!Detach, Looking, Holding
    <3>5. QED
      BY <3>4 DEF SharedStep, SharedAbstract!MigrationNext
  <2>6. QED
    BY <2>4, <2>5
<1>7. QED
  BY <1>4, <1>5, <1>6

LEMMA ExpireRefines ==
  ASSUME Expire \/ UNCHANGED operatorVars
  PROVE  SharedStep
<1>1. UNCHANGED <<log, applied, orphans, state, seen, pass>>
  BY DEF Expire, operatorVars, processVars
<1>2. UNCHANGED SharedAbstract!migrationVars
  BY <1>1 DEF SharedAbstract!migrationVars, IsRecorded, Everybody, Logged
<1>3. QED
  BY <1>2 DEF SharedStep

LEMMA OrphanRefines ==
  ASSUME OperatorsInv, OrphanCommits \/ OrphanDies
  PROVE  SharedStep
<1>1. /\ UNCHANGED <<log, state, seen, pass>>
      /\ orphans > 0 /\ orphans' = orphans - 1 /\ orphans \in Nat
  BY DEF OrphanCommits, OrphanDies, processVars, OperatorsInv, OperatorsTypeOK
<1>2. UNCHANGED <<IsRecorded, Everybody, Looking, Holding>>
  BY <1>1 DEF IsRecorded, Everybody, Looking, Holding, Logged
<1>3. CASE OrphanCommits
  <2>1. SharedAbstract!OrphanCommits
    BY <1>1, <1>2, <1>3
       DEF OrphanCommits, SharedAbstract!OrphanCommits, Looking, Holding
  <2>2. QED
    BY <2>1 DEF SharedStep, SharedAbstract!MigrationNext
<1>4. CASE OrphanDies
  <2>1. SharedAbstract!OrphansDie
    BY <1>1, <1>2, <1>4
       DEF OrphanDies, SharedAbstract!OrphansDie, Looking, Holding
  <2>2. QED
    BY <2>1 DEF SharedStep, SharedAbstract!MigrationNext
<1>5. QED
  BY <1>3, <1>4

LEMMA BeginRefines ==
  ASSUME OperatorsInv, NEW p \in Processes, Begin(p)
  PROVE  SharedStep
<1>1. /\ UNCHANGED <<log, applied, orphans, state, seen>>
      /\ state[p] = "active" /\ pass[p] = NoPass
  BY DEF Begin, processVars
<1>2. UNCHANGED <<IsRecorded, Everybody, Known>>
  BY <1>1 DEF IsRecorded, Everybody, Known, Logged
<1>3. CASE log[seen[p]] = 0
  <2>1. \A q \in Processes :
          pass'[q] = IF q = p THEN [at |-> "script", version |-> seen[p]]
                              ELSE pass[q]
    BY <1>3 DEF Begin, OperatorsInv, OperatorsTypeOK
  <2>2. /\ Looking' = Looking \cup {p} /\ Holding' = Holding
        /\ p \notin Looking \cup Holding
    BY <1>1, <2>1 DEF Looking, Holding, NoPass
  <2>3. ~Known
    BY <1>1, <1>3 DEF Known, Everybody
  <2>4. SharedAbstract!Look(p)
    BY <1>1, <1>2, <2>2, <2>3
       DEF SharedAbstract!Look, Looking, Holding, Known
  <2>5. QED
    BY <2>4 DEF SharedStep, SharedAbstract!MigrationNext
<1>4. CASE log[seen[p]] # 0
  <2>1. \A q \in Processes :
          pass'[q] = IF q = p THEN [at |-> "record", version |-> seen[p],
                                    ran |-> FALSE, again |-> FALSE]
                              ELSE pass[q]
    BY <1>4 DEF Begin, OperatorsInv, OperatorsTypeOK
  <2>2. Looking' = Looking /\ Holding' = Holding
    BY <1>1, <2>1 DEF Looking, Holding, NoPass
  <2>3. UNCHANGED SharedAbstract!migrationVars
    BY <1>1, <1>2, <2>2
       DEF SharedAbstract!migrationVars, Looking, Holding
  <2>4. QED
    BY <2>3 DEF SharedStep
<1>5. QED
  BY <1>3, <1>4

LEMMA RunScriptRefines ==
  ASSUME OperatorsInv, NEW p \in Processes, RunScript(p)
  PROVE  SharedStep
<1>1. UNCHANGED <<log, state, seen>> /\ pass[p].at = "script"
  BY DEF RunScript, processVars
<1>2. UNCHANGED <<IsRecorded, Everybody, Known>>
  BY <1>1 DEF IsRecorded, Everybody, Known, Logged
<1>3. ASSUME NEW ran \in BOOLEAN, NEW again \in BOOLEAN, Return(p, ran, again)
      PROVE  /\ Looking' = Looking \ {p} /\ p \in Looking
             /\ p \notin Holding
             /\ Holding' = IF ran THEN Holding \cup {p} ELSE Holding
  <2>1. \A q \in Processes :
          pass'[q] = IF q = p
                       THEN [at |-> "record", version |-> pass[p].version,
                             ran |-> ran, again |-> again]
                       ELSE pass[q]
    BY <1>3 DEF Return, OperatorsInv, OperatorsTypeOK
  <2>2. QED
    BY <1>1, <2>1 DEF Looking, Holding
<1>4. CASE /\ Return(p, TRUE, FALSE)
           /\ applied' = applied + 1 /\ UNCHANGED orphans
  <2>1. SharedAbstract!ApplyScript(p)
    BY <1>2, <1>3, <1>4
       DEF SharedAbstract!ApplyScript, Looking, Holding, Known
  <2>2. QED
    BY <2>1 DEF SharedStep, SharedAbstract!MigrationNext
<1>5. CASE Return(p, FALSE, TRUE) /\ UNCHANGED <<applied, orphans>>
  <2>1. /\ Looking' = Looking \ {p} /\ Holding' = Holding
        /\ p \notin Holding
    BY <1>3, <1>5
  <2>2. QED
    BY <1>2, <1>5, <2>1, SharedQuietStep
<1>6. CASE /\ Return(p, FALSE, TRUE)
           /\ orphans' = orphans + 1 /\ UNCHANGED applied
  <2>1. SharedAbstract!KnownGrows
    BY <1>2 DEF SharedAbstract!KnownGrows, Known, IsRecorded, Everybody
  <2>2. SharedAbstract!Detach(p)
    BY <1>2, <1>3, <1>6, <2>1
       DEF SharedAbstract!Detach, Looking, Holding
  <2>3. QED
    BY <2>2 DEF SharedStep, SharedAbstract!MigrationNext
<1>7. QED
  BY <1>4, <1>5, <1>6 DEF RunScript

LEMMA WriteStatusRefines ==
  ASSUME OperatorsInv, OperatorsInv', NEW p \in Processes, WriteStatus(p)
  PROVE  SharedStep
<1>1. /\ UNCHANGED <<applied, orphans, state, seen>> /\ pass[p].at = "record"
      /\ pass' = [pass EXCEPT ![p] = NoPass]
  BY DEF WriteStatus, processVars
<1>2. \A q \in Processes : pass'[q] = IF q = p THEN NoPass ELSE pass[q]
  BY <1>1 DEF OperatorsInv, OperatorsTypeOK
<1>3. Looking' = Looking \ {p} /\ Holding' = Holding \ {p} /\ p \notin Looking
  BY <1>1, <1>2 DEF Looking, Holding, NoPass
<1>4. LogStep
  BY WriteIsLogStep
<1>5. Known => Known'
  <2>1. \A q \in Processes : seen'[q] \in seen[q]..Len(log)
    BY <1>1 DEF OperatorsInv, OperatorsTypeOK
  <2>2. QED
    BY <1>1, <1>4, <2>1, KnownStays
<1>6. Len(log) \in Nat \ {0} /\ Logged \in Nat
  <2>1. log \in Seq(Nat) /\ log # <<>>
    BY DEF OperatorsInv, OperatorsTypeOK
  <2>2. QED
    BY <2>1 DEF Logged
<1>7. ASSUME NEW n \in {0, 1}, log' = Append(log, Logged + n)
      PROVE  Logged' = Logged + n
  BY <1>6, <1>7 DEF OperatorsInv, OperatorsTypeOK, Logged
<1>8. CASE UNCHANGED IsRecorded
  <2>1. Looking' = Looking
    BY <1>3
  <2>2. QED
    BY <1>1, <1>3, <1>5, <1>8, <2>1, SharedQuietStep
<1>9. CASE ~UNCHANGED IsRecorded
  <2>1. pass[p].ran /\ Logged = 0 /\ Logged' = 1
    BY <1>6, <1>7, <1>9, WriteIsLogStep DEF IsRecorded, Logged
  <2>2. SharedAbstract!KnownGrows
    BY <1>5 DEF SharedAbstract!KnownGrows, Known, IsRecorded, Everybody
  <2>3. SharedAbstract!Record(p)
    BY <1>1, <1>3, <2>1, <2>2
       DEF SharedAbstract!Record, IsRecorded, Looking, Holding
  <2>4. QED
    BY <2>3 DEF SharedStep, SharedAbstract!MigrationNext
<1>10. QED
  BY <1>8, <1>9

\* Any number of operators, elected or not, implement the abstract migration.
THEOREM SharedMigrationImplemented ==
  OperatorsSpec => OperatorsImplementMigration
<1>1. OperatorsInit => SharedAbstract!MigrationInit
  BY DEF OperatorsInit, SharedAbstract!MigrationInit, IsRecorded, Logged,
         Everybody, NoPass
<1>2. OperatorsInv /\ OperatorsInv' /\ [OperatorsNext]_operatorVars
        => SharedStep
  <2>1. SUFFICES ASSUME OperatorsInv, OperatorsInv',
                        [OperatorsNext]_operatorVars
                 PROVE  SharedStep
    OBVIOUS
  <2>2. CASE Expire \/ OrphanCommits \/ OrphanDies \/ UNCHANGED operatorVars
    BY <2>1, <2>2, ExpireRefines, OrphanRefines
  <2>3. ASSUME NEW p \in Processes, ProcessStep(p)
        PROVE  SharedStep
    <3>1. CASE Begin(p)
      BY <2>1, <3>1, BeginRefines
    <3>2. CASE RunScript(p)
      BY <2>1, <3>2, RunScriptRefines
    <3>3. CASE WriteStatus(p)
      BY <2>1, <3>3, WriteStatusRefines
    <3>4. CASE ~PassStep(p)
      BY <2>1, <2>3, <3>4, ProcessRefines DEF ProcessStep
    <3>5. QED
      BY <3>1, <3>2, <3>3, <3>4 DEF PassStep
  <2>4. QED
    BY <2>1, <2>2, <2>3 DEF OperatorsNext
<1>3. QED
  BY <1>1, <1>2, InitOperators, NextOperators, PTL
     DEF OperatorsSpec, OperatorsImplementMigration,
         SharedAbstract!MigrationSpec, SharedStep
=============================================================================
