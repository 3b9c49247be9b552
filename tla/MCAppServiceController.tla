----------------------- MODULE MCAppServiceController -----------------------
(***************************************************************************)
(* Finite sets of specs for checking AppServiceController with TLC.        *)
(***************************************************************************)
EXTENDS AppServiceProperties

MCDomainNames == {Unset, DefaultDomainName}
MCAliases == {Unset, "Gramola"}

AnySpec ==
  [enabled |-> TRUE, initialized |-> FALSE, alias |-> "Gramola",
   platform |-> Unset, domainName |-> Unset]

\* As a user writes it: platform and domain are for the operator to fill in.
Minimal == AnySpec
MinimalOpenShift == [AnySpec EXCEPT !.platform = PlatformOpenShift]
\* The CRD admits a Kubernetes platform with no domain name.
WithoutDomain == [AnySpec EXCEPT !.platform = PlatformKubernetes]
Initialized == initialize(AnySpec)
OnOpenShift == [Initialized EXCEPT !.platform = PlatformOpenShift]
\* `kubectl patch' can remove a field from an initialized resource.
FieldsRemoved ==
  [Initialized EXCEPT !.platform = Unset, !.domainName = Unset]
Disabled == [Initialized EXCEPT !.enabled = FALSE]
DisabledNew == [AnySpec EXCEPT !.enabled = FALSE]

MCInstall == {Initialized}
MCSettling == {Minimal, WithoutDomain, DisabledNew}
MCPlatforms == {Initialized, OnOpenShift}
MCEdits ==
  {Minimal, MinimalOpenShift, WithoutDomain, Initialized, OnOpenShift,
   FieldsRemoved, Disabled, DisabledNew}
=============================================================================
