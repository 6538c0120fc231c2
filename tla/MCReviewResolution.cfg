CONSTANTS
  first = first
  second = second
  Requests <- MCRequests
  NoRequest = none
  Roles = {"analyst", "operator", "shift_lead", "admin"}
  Risks = {"medium", "high", "critical"}
  MaxReviews = 3
  ReviewLimit = 2
SPECIFICATION Spec
INVARIANTS
  TypeOK
  GatedByRole
  ReplayLinkIsLatest
  LostOnlyToNewerReviews
PROPERTIES
  ResolutionsEnd
  ImplementsLedger
CHECK_DEADLOCK FALSE
