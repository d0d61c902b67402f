CONSTANTS
  None = None
  One = 100
  z_tol = 10
  k_tol = 10
  params_tol = 10
  USE_RELATIVE_ERROR = 100
  range_tol = 1000
  Redshifts <- MCRedshifts
  Wavenumbers <- MCWavenumbers
  Blocks <- MCBlocks
  Spectra <- MCSpectra
  Jobs <- MCGrownJobs
  Statements = 2
  MaxJobs = 2
  MaxEdits = 0
SPECIFICATION Spec
INVARIANT NormalisedAtEarliest
CHECK_DEADLOCK FALSE
