SPECIFICATION Spec
CONSTANTS
  ida = ida
  idb = idb
  idc = idc
  Procs <- MCProcs
  App = "app"
  Catalogs <- MCCatalogs
  Variants = {"base", "wide"}
  BaseVariant = "base"
  MaxOthers = 1
  MaxUpdates = 1
  MaxFaults = 1
  MaxGens = 2
SYMMETRY MCSymmetry
PROPERTIES
  OwnersAreExact
  AcceptsMonotonically
  AdmittedIsAccepted
CHECK_DEADLOCK FALSE
