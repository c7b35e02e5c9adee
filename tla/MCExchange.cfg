CONSTANTS
  Prices <- MCPrices
  Quantities <- MCQuantities
  Agents = {"A"}
  OrderIds <- MCOrderIds
  ReferencePrice = 2
  BaselineLevels = 1
  LevelSpacing = 1
  BaseQuantity = 2
  BaselineAgent = "MM"
  EventHistoryCapacity = 2
  QuotesCarryContext = TRUE
  MaxTick = 1
  MaxEvents = 3
  Reference = 6
  BaseSize = 2
  WallOffset = 1
  StageAt <- Stages
  Traders = {"A"}
  Lots = {3}
  OrderNames <- Names
  MaxQuote = 2
  LastTick = 5
  MaxInputs = 3
  MaxRows = 5
  MaxStamp = 3
  RowsPerTick = 2
  Families = {"wall", "stuffing", "evaporation"}
  Duration = 2
  MaxTicks = 5
  MaxLaunches = 2
SPECIFICATION ExchangeSpec
INVARIANTS
    
    
    RowsExactlyOnce
    AttackRestsOnlyInsideLabel
    CompletedAttackIsOver
PROPERTIES
    MatchingIsFair
    ReplayEndsClean
CHECK_DEADLOCK FALSE
