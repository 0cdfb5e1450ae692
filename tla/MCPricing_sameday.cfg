SPECIFICATION Spec
CONSTANTS
  None = None
  ZeroRated = ZeroRated
  NoRate = NoRate
  Unlisted = Unlisted
  Broken = Broken
  opus = opus
  synthetic = synthetic
  Names = {opus}
  Models = {opus, synthetic}
  TargetOf <- MCTargetOf
  Messages = {a}
  ClaudeBlocks <- MCClaudeBlocks
  PiBlocks <- MCPiBlocks
  Rates = {1}
  OncePerDay = FALSE
  MaxDay = 1
INVARIANT PricedAsItsVersion
