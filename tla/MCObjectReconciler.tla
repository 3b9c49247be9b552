------------------------- MODULE MCObjectReconciler -------------------------
(***************************************************************************)
(* The objects of small instances of ObjectReconciler, in the order of     *)
(* addEvents.                                                              *)
(***************************************************************************)
EXTENDS ObjectReconciler

MCDomainNames == {Unset, DefaultDomainName}
MCAliases == {Unset, "Gramola"}

MCDatabase == <<VolumeClaim, DatabaseDeployment, DatabaseService>>
MCVolume == <<VolumeClaim, EventsDeployment>>
=============================================================================
