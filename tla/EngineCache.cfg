\* Four models, of which one fits the caller in every way.
SPECIFICATION Spec
CONSTANTS
  wanted = wanted
  otherwise = otherwise
  doubled = doubled
  halved = halved
  Models <- FourModels
  Elements <- FourElements
  DataTypeSize <- FourTypes
  kElements <- OneEach
  kDataTypeSize = 4
  Nothing = nothing
INVARIANTS
  LoadedIsCurrent
  RejectsOnlyTornFiles
  HeaderIsWhole
  InferenceIsFed
