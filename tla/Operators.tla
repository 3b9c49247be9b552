----------------------------- MODULE Operators -----------------------------
(***************************************************************************)
(* Several operators on one AppService (main.go): the replicas of the      *)
(* controller-manager, or the old and the new one in a rolling update.     *)
(* Each has an informer, a queue and a pass of its own; the API server,    *)
(* the database and, with leader election, the lease are shared.           *)
(*                                                                         *)
(* A pass is cut down to what concerns the update of the database: the log *)
(* it reads, the run of the script, the write of the status under the      *)
(* resourceVersion it read.                                                *)
(***************************************************************************)
EXTENDS Naturals, Sequences

CONSTANTS
  Processes,        \* the operators
  Nobody,           \* holds the lease
  MaxFaults,        \* bound on crashes and on calls that fail
  MaxPauses,        \* bound on processes that stand still beyond their lease
  MaxStaleReads,    \* bound on passes that start from an outdated resource
  MaxWakes          \* bound on events that start a pass again

ASSUME OperatorsAssumption ==
  /\ Nobody \notin Processes
  /\ MaxFaults \in Nat /\ MaxPauses \in Nat
  /\ MaxStaleReads \in Nat /\ MaxWakes \in Nat

VARIABLES
  log,       \* successes of the script that each version of the resource logs
  applied,   \* times the script took effect
  orphans,   \* runs of it that go on with no pass to wait for them
  electing,  \* processes that were given -enable-leader-election
  lease,     \* who holds it
  state,     \* what each process is
  paused,    \* processes that stand still
  seen,      \* version in the informer of each process
  queued,    \* processes with the resource in their queue, or delayed
  pass,      \* the pass of each process
  used       \* what is used of the bounds

processVars == <<electing, lease, state, paused>>
operatorVars ==
  <<log, applied, orphans, processVars, seen, queued, pass, used>>

States == {"down", "candidate", "active"}
NoPass == [at |-> "idle"]
Pass ==
  {NoPass}
    \cup [at : {"script"}, version : Nat]
    \cup [at : {"record"}, version : Nat, ran : BOOLEAN, again : BOOLEAN]

OperatorsTypeOK ==
  /\ log \in Seq(Nat) /\ log # <<>>
  /\ applied \in Nat /\ orphans \in Nat
  /\ electing \in SUBSET Processes
  /\ lease \in Processes \cup {Nobody}
  /\ state \in [Processes -> States]
  /\ paused \in SUBSET Processes
  /\ seen \in [Processes -> 1..Len(log)]
  /\ queued \in SUBSET Processes
  /\ pass \in [Processes -> Pass]
  /\ used \in [faults : 0..MaxFaults, pauses : 0..MaxPauses,
               staleReads : 0..MaxStaleReads, wakes : 0..MaxWakes]

OperatorsInit ==
  /\ log = <<0>> /\ applied = 0 /\ orphans = 0
  /\ electing \in SUBSET Processes
  /\ lease = Nobody
  /\ state = [p \in Processes |-> "down"]
  /\ paused = {}
  /\ seen = [p \in Processes |-> 1]
  /\ queued = {}
  /\ pass = [p \in Processes |-> NoPass]
  /\ used = [faults |-> 0, pauses |-> 0, staleReads |-> 0, wakes |-> 0]

-----------------------------------------------------------------------------
Spend(kind, bound) ==
  used[kind] < bound /\ used' = [used EXCEPT ![kind] = @ + 1]
Fault == Spend("faults", MaxFaults)
NoFault == UNCHANGED used

Runs(p) == p \notin paused

(***************************************************************************)
(* Processes and the lease.                                                *)
(***************************************************************************)
\* Mutant: the controller does not wait for its informers.
BecomeActiveUnsynced(p) ==
  /\ state' = [state EXCEPT ![p] = "active"]
  /\ seen' = [seen EXCEPT ![p] = 0]
  /\ queued' = queued \cup {p}

\* The controller starts: its informers list, and what they list is queued.
BecomeActive(p) ==
  /\ state' = [state EXCEPT ![p] = "active"]
  /\ seen' = [seen EXCEPT ![p] = Len(log)]
  /\ queued' = queued \cup {p}

\* Mutant: the flag is parsed and not handed to NewManager.
StartIgnoringFlag(p) ==
  /\ state[p] = "down"
  /\ BecomeActive(p)
  /\ UNCHANGED <<log, applied, orphans, electing, lease, paused, pass, used>>

\* main, up to mgr.Start.
Start(p) ==
  /\ state[p] = "down"
  /\ IF p \in electing
       THEN /\ state' = [state EXCEPT ![p] = "candidate"]
            /\ UNCHANGED <<seen, queued>>
       ELSE BecomeActive(p)
  /\ UNCHANGED <<log, applied, orphans, electing, lease, paused, pass, used>>

\* In mgr.Start, with leader election: the lease is free.
Acquire(p) ==
  /\ state[p] = "candidate" /\ Runs(p)
  /\ lease = Nobody
  /\ lease' = p
  /\ BecomeActive(p)
  /\ UNCHANGED <<log, applied, orphans, electing, paused, pass, used>>

\* A lease that is not renewed runs out.  Who cannot renew it for other reasons
\* than these exits before.
Expire ==
  /\ lease # Nobody
  /\ state[lease] # "active" \/ ~Runs(lease)
  /\ lease' = Nobody
  /\ UNCHANGED <<log, applied, orphans, electing, state, paused, seen, queued,
                 pass, used>>

\* Nothing stops a psql that the process has started.
Exit(p) ==
  /\ orphans' \in IF pass[p].at = "script" THEN {orphans, orphans + 1}
                                         ELSE {orphans}
  /\ state' = [state EXCEPT ![p] = "down"]
  /\ pass' = [pass EXCEPT ![p] = NoPass]
  /\ queued' = queued \ {p}
  /\ paused' = paused \ {p}

\* mgr.Start returns "leader election lost", and main exits.
StepDown(p) ==
  /\ p \in electing
  /\ state[p] = "active" /\ lease # p /\ Runs(p)
  /\ Exit(p)
  /\ UNCHANGED <<log, applied, electing, lease, seen, used>>

Crash(p) ==
  /\ state[p] # "down" /\ Fault
  /\ Exit(p)
  /\ UNCHANGED <<log, applied, electing, lease, seen>>

\* The process gets no processor time, or its node sleeps.
Pause(p) ==
  /\ state[p] = "active" /\ Runs(p) /\ Spend("pauses", MaxPauses)
  /\ paused' = paused \cup {p}
  /\ UNCHANGED <<log, applied, orphans, electing, lease, state, seen, queued,
                 pass>>

Resume(p) ==
  /\ p \in paused
  /\ paused' = paused \ {p}
  /\ UNCHANGED <<log, applied, orphans, electing, lease, state, seen, queued,
                 pass, used>>

(***************************************************************************)
(* A pass of Reconcile.                                                    *)
(***************************************************************************)
Again(p) == queued' = queued \cup {p}

\* Mutant: the log is not looked at.
BeginAnyway(p) ==
  /\ state[p] = "active" /\ Runs(p)
  /\ p \in queued /\ pass[p] = NoPass
  /\ queued' = queued \ {p}
  /\ pass' = [pass EXCEPT ![p] = [at |-> "script", version |-> seen[p]]]
  /\ IF seen[p] = Len(log) THEN NoFault
                           ELSE Spend("staleReads", MaxStaleReads)
  /\ UNCHANGED <<log, applied, orphans, processVars, seen>>

\* The resource is read from the informer; the log in it decides.
Begin(p) ==
  /\ state[p] = "active" /\ Runs(p)
  /\ p \in queued /\ pass[p] = NoPass
  /\ queued' = queued \ {p}
  /\ pass' = [pass EXCEPT ![p] =
                IF log[seen[p]] = 0
                  THEN [at |-> "script", version |-> seen[p]]
                  ELSE [at |-> "record", version |-> seen[p],
                        ran |-> FALSE, again |-> FALSE]]
  /\ IF seen[p] = Len(log) THEN NoFault
                           ELSE Spend("staleReads", MaxStaleReads)
  /\ UNCHANGED <<log, applied, orphans, processVars, seen>>

Return(p, ran, again) ==
  pass' = [pass EXCEPT ![p] = [at |-> "record", version |-> @.version,
                               ran |-> ran, again |-> again]]

\* The script runs in the pod of the database, whatever its process does.  A
\* stream that breaks ends the call, not the run.
RunScript(p) ==
  /\ pass[p].at = "script"
  /\ \/ /\ Return(p, TRUE, FALSE) /\ NoFault
        /\ applied' = applied + 1 /\ UNCHANGED orphans
     \/ /\ Return(p, FALSE, TRUE) /\ Fault
        /\ orphans' \in {orphans, orphans + 1} /\ UNCHANGED applied
  /\ UNCHANGED <<log, processVars, seen, queued>>

\* A run that no pass waits for takes effect, ...
OrphanCommits ==
  /\ orphans > 0
  /\ orphans' = orphans - 1 /\ applied' = applied + 1
  /\ UNCHANGED <<log, processVars, seen, queued, pass, used>>

\* ... or ends without.
OrphanDies ==
  /\ orphans > 0
  /\ orphans' = orphans - 1
  /\ UNCHANGED <<log, applied, processVars, seen, queued, pass, used>>

\* Mutant: the status is written over whatever version there is.
WriteStatusUnconditionally(p) ==
  /\ pass[p].at = "record" /\ Runs(p)
  /\ log' = Append(log, log[Len(log)] + IF pass[p].ran THEN 1 ELSE 0)
  /\ queued' = IF pass[p].again THEN queued \cup {p} ELSE queued
  /\ pass' = [pass EXCEPT ![p] = NoPass]
  /\ UNCHANGED <<applied, orphans, processVars, seen, used>>

\* Mutant: a write that failed is not tried again.
WriteStatusOnce(p) ==
  /\ pass[p].at = "record" /\ Runs(p)
  /\ log' = IF pass[p].version = Len(log)
              THEN Append(log, log[Len(log)] + IF pass[p].ran THEN 1 ELSE 0)
              ELSE log
  /\ queued' = IF pass[p].again THEN queued \cup {p} ELSE queued
  /\ pass' = [pass EXCEPT ![p] = NoPass]
  /\ UNCHANGED <<applied, orphans, processVars, seen, used>>

\* ManageError and ManageSuccess.
WriteStatus(p) ==
  /\ pass[p].at = "record" /\ Runs(p)
  /\ \/ /\ pass[p].version = Len(log)
        /\ log' = Append(log, log[Len(log)] + IF pass[p].ran THEN 1 ELSE 0)
        /\ \/ /\ NoFault
              /\ queued' = IF pass[p].again THEN queued \cup {p} ELSE queued
           \/ Fault /\ Again(p)            \* the response is lost
     \/ /\ IF pass[p].version = Len(log) THEN Fault ELSE NoFault
        /\ Again(p)
        /\ UNCHANGED log
  /\ pass' = [pass EXCEPT ![p] = NoPass]
  /\ UNCHANGED <<applied, orphans, processVars, seen>>

\* The informer; a version that differs in its status only is filtered.
CatchUp(p) ==
  /\ state[p] = "active" /\ Runs(p)
  /\ \E version \in (seen[p] + 1)..Len(log) :
       seen' = [seen EXCEPT ![p] = version]
  /\ UNCHANGED <<log, applied, orphans, processVars, queued, pass, used>>

\* An event of a Deployment.
Wake(p) ==
  /\ state[p] = "active" /\ Runs(p)
  /\ p \notin queued /\ Spend("wakes", MaxWakes)
  /\ Again(p)
  /\ UNCHANGED <<log, applied, orphans, processVars, seen, pass>>

PassStep(p) == Begin(p) \/ RunScript(p) \/ WriteStatus(p)

ProcessStep(p) ==
  \/ Start(p) \/ Acquire(p) \/ StepDown(p) \/ Crash(p)
  \/ Pause(p) \/ Resume(p)
  \/ PassStep(p) \/ CatchUp(p) \/ Wake(p)

OperatorsNext ==
  \/ Expire \/ OrphanCommits \/ OrphanDies
  \/ \E p \in Processes : ProcessStep(p)

\* The kubelet starts processes again, leases run out, and a process that runs
\* goes on with its election, its passes and its informer.
OperatorsFairness ==
  /\ WF_operatorVars(Expire)
  /\ \A p \in Processes :
       /\ WF_operatorVars(Start(p)) /\ WF_operatorVars(Resume(p))
       /\ WF_operatorVars(Acquire(p)) /\ WF_operatorVars(StepDown(p))
       /\ WF_operatorVars(PassStep(p)) /\ WF_operatorVars(CatchUp(p))

OperatorsSpec ==
  OperatorsInit /\ [][OperatorsNext]_operatorVars /\ OperatorsFairness

-----------------------------------------------------------------------------
(***************************************************************************)
(* Properties.                                                             *)
(***************************************************************************)
Logged == log[Len(log)]
IsRecorded == Logged > 0

\* However many operators take themselves for the only one, the resource logs
\* one success: the status write goes through for one of them.
LoggedOnceByAll == Logged <= 1

Acts(p) == state[p] = "active" /\ Runs(p)

\* main.go:60, "Enabling this will ensure there is only one active controller
\* manager": so it is among the processes with the flag, through crashes and
\* changes of leader, as long as none stood still for longer than its lease.
OneActive ==
  used.pauses = 0 =>
    \A p, q \in electing :
      Acts(p) /\ Acts(q) => p = q

\* Operators that crash, get in each other's way or lose the lease: one of them
\* gets the success into the log.
EventuallyLogged == <>[]IsRecorded

Everybody == \A p \in Processes : state[p] = "active" => log[seen[p]] > 0

SharedAbstract == INSTANCE Migration WITH
  Workers <- Processes,
  installed <- TRUE, recorded <- IsRecorded,
  known <- IsRecorded /\ Everybody,
  looking <- {p \in Processes : pass[p].at = "script"},
  holding <- {p \in Processes : pass[p].at = "record" /\ pass[p].ran},
  orphans <- orphans, applied <- applied

\* Any number of operators do together what one may do: the success is recorded
\* after the script took effect, once, and nobody who has seen the record runs
\* the script again.
OperatorsImplementMigration == SharedAbstract!MigrationSpec
=============================================================================
