SPECIFICATION FlightSpec
CONSTANTS
  Clients = {c1}
  MaxVersion = 1
  MaxDrops = 0
PROPERTY ProfileRefreshes
CHECK_DEADLOCK FALSE
