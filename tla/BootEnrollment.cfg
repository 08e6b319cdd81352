CONSTANTS
  MaxBlips = 2
  MaxCrashes = 2
  TornWrites = FALSE
SPECIFICATION FairSpec
INVARIANTS TypeOK EnrolledPairOnDisk KeyringUsable
PROPERTIES NeverOverwritten ApprovalBoots EnrollmentArrives RejectionEndsBoot
CHECK_DEADLOCK FALSE
