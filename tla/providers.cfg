\* Three priced calls and any number of free ones under one grant, one process each.
CONSTANTS
  EnvLevels = {"", "DEBUG"}
  Options <- MCOptions
  KeyText = "sk-key"
  Parts = 10
  Rates <- MCRates
  Tokens = {0, 1, 3}
  MaxCalls = 3
  Models <- MCModels
  CostTable <- MCCostTable
  MockRate <- MCMockRate
  Budget = 2
  Schemas <- MCSchemas
  Depth <- MCDepth
  Values <- MCValues
  Height <- MCHeight
  Outputs <- MCOutputs
  Topics = {"", "topic"}
SPECIFICATION AdapterSpec
INVARIANTS AdapterTypeOK DriftBounded QuantizeIsHalfEven MeteredCallsBounded PromptGated MockServesPlainSchemas RedactionComplete
