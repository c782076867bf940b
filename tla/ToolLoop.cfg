SPECIFICATION Spec
CONSTANTS
  MaxPerRun = 3
  MaxPerBatch = 3
  MaxConcurrent = 2
  Asks <- SomeAsks
  Texts <- SomeTexts
  Input = "input"
  Histories <- OtherInput
INVARIANTS
  EffectIsReported
  EffectIsApproved
  EffectsAreSerial
  ContextIsComplete
  ModelKnowsTheWorkspace
PROPERTIES
  DecidesOnce
  BatchEnds
CHECK_DEADLOCK FALSE
