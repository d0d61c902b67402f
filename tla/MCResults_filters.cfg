CONSTANTS
  z1 = z1  z2 = z2  c1 = c1  c2 = c2  r1 = r1  r2 = r2
  k1 = k1  k2 = k2  p1 = p1  p2 = p2
  Redshifts <- MCRedshifts
  LoopConfigs = {c1}
  ResumScales = {r1}
  Wavenumbers <- MCWavenumbers
  FilterParams = {p1, p2}
  Kernels <- MCKernels
  Spectra <- MCSpectra
  Grids <- MCFilters
  Editable <- MCNoTables
  MaxEdits = 0
SPECIFICATION Spec
INVARIANTS
  ReadAtItsOwnWavenumber
