CONSTANTS
  None = None
  Jobs <- MCSecondJobs
SPECIFICATION Spec
INVARIANTS
  RowsAreAsAsked
