CONSTANTS
  NewCodes = {200, 404}
  Codes = {200, 404, 999}
  Lengths = {0, 3, 5}
  MaxHeads = 2
  NoRoute = NoRoute
  NoTarget = NoTarget
  NoHeader = NoHeader
  Symbols <- MCSymbols
  Letters <- MCLetters
  MaxChars = 7
  RouteLines <- MCRouteLines
  MaxRoutes = 2
  Queries <- MCQueries
  RequestLines <- MCRequestLines
  HeaderLines <- MCHeaderLines
  MaxHeaders = 3
  Keys <- MCKeys
SPECIFICATION TextsSpec
INVARIANTS
  TextsTypeOK
  LengthAccounted
  CrashWasAnnounced
  ConfigReadAsWritten
  UnderreadOnlyForBlanks
  LastMatchDecides
  GoodFileGivesRouter
  RequestReadAsSent
  HeadersWereSent
  HeaderFound
CHECK_DEADLOCK FALSE
