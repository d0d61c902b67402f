CONSTANTS
  None = None
  Jobs <- MCFirstJobs
SPECIFICATION Spec
INVARIANTS
  TypeOK
  RowsAreAsAsked
  StoredOnce
  NoMisread
  DoneIsStored
