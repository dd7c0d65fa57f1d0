SPECIFICATION FairSpec
CONSTANTS
  Buys = {"b1", "b2"}
  Sells = {"s1"}
  Quantity <- Pair
  Cap = 2
  MaxRuntimes = 2
  Scenarios <- TradingScenarios
 
PROPERTIES OverdueReleased
CHECK_DEADLOCK FALSE
