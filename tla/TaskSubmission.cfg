SPECIFICATION Spec
CONSTANTS
  Caller = {c1, c2}
  MaxSends = 2
  Payload <- MCPayload
  Canonical <- MCCanonical
  Invalid = "invalid"
  None = None
CHECK_DEADLOCK FALSE
INVARIANTS
  TypeOK
  AnsweredTaskStands
  ConflictIsTrue
  AlwaysResolved
PROPERTIES
  TaskIsForGood
  RequestsEnd
  ImplementsCreate
