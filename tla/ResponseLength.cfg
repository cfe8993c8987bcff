CONSTANTS
  NewCodes = {200}
  Codes = {404}
  Lengths = {0, 3, 5}
  MaxHeads = 2
  NoRoute = NoRoute
  NoTarget = NoTarget
  NoHeader = NoHeader
  Symbols <- MCSymbols
  Letters <- MCLetters
  MaxChars = 7
  RouteLines <- MCRouteLines
  MaxRoutes = 2
  Queries <- MCQueries
  RequestLines <- MCRequestLines
  HeaderLines <- MCHeaderLines
  MaxHeaders = 3
  Keys <- MCKeys
SPECIFICATION TextsSpec
INVARIANT RawLengthIsContentLength
CHECK_DEADLOCK FALSE
