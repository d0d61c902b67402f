CONSTANTS
  None = None
  One = 100
  z_tol = 10
  k_tol = 10
  params_tol = 10
  USE_RELATIVE_ERROR = 100
  range_tol = 1000
  Redshifts <- MCRedshifts
  Wavenumbers <- MCWavenumbers
  Blocks <- MCBlocks
  Spectra <- MCSpectra
  Jobs <- MCJobs
  Statements = 2
  MaxJobs = 3
  MaxEdits = 1
SPECIFICATION Spec
INVARIANTS
  TypeOK
  UsableIsComplete
  OnePipeline
  SameTokenAgain
  TokenStandsForValue
  GivenIsCommitted
  IndexSurvivesArchive
  GrowthAsAsked
  GrowthOnce
  FoundInStep
  NeverMisread
PROPERTY TokensByRequest
CHECK_DEADLOCK FALSE
