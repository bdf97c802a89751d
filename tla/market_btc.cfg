SPECIFICATION Spec
CONSTANTS
  Parts = {"market"}
  Exchanges = {"bybit", "okx"}
  MinExchanges = 1
  Fetched = 4
  Required = 2
  Confirmations = 2
  MinEvaluated = 20
  Btc = "BTC"
  Universe = {"BTC", "DOGE"}
  Moods <- MCMoods
  Lags = {1, 3}
  MaxMoves = 1
  MaxFaults = 1
  Venues <- MCVenues
  Prices = {1, 2}
  Depth = 3
  Period = 2
  Horizon = 1
  Lookback = 3
  MaxMinutes = 5
  MaxRounds = 3
  MaxBroken = 1
  Signals <- MCMarketSignals
  Configurations <- MCConfigurations
  Equities = {1000}
  Trails <- MCTrails
  SymbolLimit = 10
  Records <- MCRecords
  OpenPositions <- MCPositions
  MarketViews <- MCViews
  Symbols = {"DOGE"}
  Advices <- MCAdvices
  MinTicks = 2
  MaxErrors = 1
  Notional = 12
  LeastNotional = 5
PROPERTY BtcSideIsConfirmed
CHECK_DEADLOCK FALSE
