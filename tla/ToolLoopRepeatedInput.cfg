SPECIFICATION Spec
CONSTANTS
  MaxPerRun = 1
  MaxPerBatch = 1
  MaxConcurrent = 1
  Asks <- OneAsk
  Texts <- SomeTexts
  Input = "input"
  Histories <- SameInput
INVARIANTS
  InputIsAsked
CHECK_DEADLOCK FALSE
