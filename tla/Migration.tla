----------------------------- MODULE Migration -----------------------------
(***************************************************************************)
(* What the operator promises of the update of the events database of one  *)
(* AppService (controllers/appservice_controller.go, lines 156 to 192),    *)
(* whoever does it and however its work is cut into calls: a worker looks  *)
(* at the log in the status, runs the script if the log it read does not   *)
(* mention a success, and records the success.                             *)
(*                                                                         *)
(* The script takes effect at least once before a success is recorded, a   *)
(* success is recorded once and stays, and a worker that has caught up     *)
(* with the record does not start the script again.  The script may well   *)
(* take effect twice: whoever ran it can be gone before it records.  And   *)
(* it may take effect late: nothing stops a psql whose stream has broken   *)
(* or whose operator has died, so a run can outlive the pass that started  *)
(* it and commit after a later one was recorded.                           *)
(***************************************************************************)
EXTENDS Naturals

CONSTANT Workers    \* whoever may be in a pass of Reconcile

VARIABLES
  installed,  \* is there such a resource?
  recorded,   \* does the log in its status mention a success?
  known,      \* does every log that can still be read mention it?
  looking,    \* workers that have read a log which does not
  holding,    \* workers whose run succeeded and is not recorded yet
  orphans,    \* runs that go on with nobody waiting for them
  applied     \* times the script took effect

migrationVars ==
  <<installed, recorded, known, looking, holding, orphans, applied>>

MigrationTypeOK ==
  /\ installed \in BOOLEAN /\ recorded \in BOOLEAN /\ known \in BOOLEAN
  /\ looking \in SUBSET Workers /\ holding \in SUBSET Workers
  /\ orphans \in Nat /\ applied \in Nat

MigrationInit ==
  /\ installed = TRUE /\ recorded = FALSE /\ known = FALSE
  /\ looking = {} /\ holding = {}
  /\ orphans = 0 /\ applied = 0

-----------------------------------------------------------------------------
\* What can still be read changes for the better only, and mentions the
\* success of a resource that exists only if its status does.
KnownGrows ==
  /\ known' \in BOOLEAN
  /\ known => known'
  /\ known' => known \/ recorded' \/ ~installed'

\* Mutant: the log is not looked at.
LookAway(w) ==
  /\ w \in Workers \ (looking \cup holding)
  /\ looking' = looking \cup {w}
  /\ UNCHANGED <<installed, recorded, known, holding, orphans, applied>>

\* A worker begins a pass with a log that mentions no success.
Look(w) ==
  /\ ~known
  /\ w \in Workers \ (looking \cup holding)
  /\ looking' = looking \cup {w}
  /\ UNCHANGED <<installed, recorded, known, holding, orphans, applied>>

\* It runs the script and sees it succeed.
ApplyScript(w) ==
  /\ w \in looking
  /\ looking' = looking \ {w}
  /\ holding' = holding \cup {w}
  /\ applied' = applied + 1
  /\ UNCHANGED <<installed, recorded, known, orphans>>

\* It starts the script and does not get to know what becomes of it: the
\* stream breaks, or the worker is gone.
Detach(w) ==
  /\ w \in looking
  /\ looking' = looking \ {w}
  /\ orphans' = orphans + 1
  /\ UNCHANGED <<installed, recorded, holding, applied>>
  /\ KnownGrows

\* A run that nobody waits for takes effect, however late, ...
OrphanCommits ==
  /\ orphans > 0
  /\ orphans' = orphans - 1
  /\ applied' = applied + 1
  /\ UNCHANGED <<installed, recorded, known, looking, holding>>

\* ... or some of them end without, by an error or with their pod.
OrphansDie ==
  /\ \E n \in 0..orphans : n < orphans /\ orphans' = n
  /\ UNCHANGED <<installed, recorded, known, looking, holding, applied>>

\* Mutant: a run that failed is recorded as a success.
RecordAnyway(w) ==
  /\ w \in looking \cup holding
  /\ installed /\ ~recorded
  /\ recorded' = TRUE
  /\ looking' = looking \ {w}
  /\ holding' = holding \ {w}
  /\ UNCHANGED <<installed, orphans, applied>>
  /\ KnownGrows

\* It writes the success to the log, which must be the one it read.
Record(w) ==
  /\ w \in holding
  /\ installed /\ ~recorded
  /\ recorded' = TRUE
  /\ holding' = holding \ {w}
  /\ UNCHANGED <<installed, looking, orphans, applied>>
  /\ KnownGrows

\* It gives up: an error, a conflict, a crash.
Abandon(w) ==
  /\ w \in looking \cup holding
  /\ looking' = looking \ {w}
  /\ holding' = holding \ {w}
  /\ UNCHANGED <<installed, recorded, orphans, applied>>
  /\ KnownGrows

\* The informers get on.
CatchUp ==
  /\ UNCHANGED <<installed, recorded, looking, holding, orphans, applied>>
  /\ KnownGrows

\* The resource is deleted; later its database goes.
Remove ==
  /\ installed
  /\ installed' = FALSE /\ recorded' = FALSE
  /\ UNCHANGED <<known, looking, holding, orphans, applied>>

Collect ==
  /\ ~installed
  /\ orphans' = 0 /\ applied' = 0
  /\ UNCHANGED <<installed, recorded, known, looking, holding>>

MigrationNext ==
  \/ \E w \in Workers :
       \/ Look(w) \/ ApplyScript(w) \/ Detach(w)
       \/ Record(w) \/ Abandon(w)
  \/ OrphanCommits \/ OrphansDie
  \/ CatchUp \/ Remove \/ Collect

MigrationSpec == MigrationInit /\ [][MigrationNext]_migrationVars
=============================================================================
