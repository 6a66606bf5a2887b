SPECIFICATION FairSpec
CONSTANTS
  e1 = e1
  e2 = e2
  w1 = w1
  Event = {e1, e2}
  Comparative = {e1}
  EventOrder <- MCEventOrder
  Instrument = {1, 2}
  Manifest = {1, 2}
  OwnerMembers = {1}
  Worker = {w1}
  MaxVersions = 3
  MaxCycle = 1
  CertValid = 2
  CertCheck = 1
  Retry = 1
  Lease = 1
  WarmValid = 2
  Promotion = 1
  BootWait = 1
  MaxDisturbances = 1
INVARIANT UniverseAgrees
PROPERTY VoidClaimNeverLands
PROPERTY ActivatedOnEvidence
PROPERTY SlotsAreHandedOn
