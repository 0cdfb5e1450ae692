SPECIFICATION Spec
CONSTANTS
  None = None
  ZeroRated = ZeroRated
  NoRate = NoRate
  Unlisted = Unlisted
  Broken = Broken
  opus = opus
  synthetic = synthetic
  Names = {opus}
  Models = {opus, synthetic}
  TargetOf <- MCTargetOf
  Messages = {a}
  ClaudeBlocks <- MCClaudeBlocks
  PiBlocks <- MCPiBlocks
  Rates = {1}
  OncePerDay = TRUE
  MaxDay = 2
INVARIANTS TypeOK PricedAsItsVersion ActiveIsComplete TokensAddUp EveryTokenCharged
PROPERTY NeverRepriced
