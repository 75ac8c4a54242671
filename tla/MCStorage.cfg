SPECIFICATION MCSpec
CONSTANTS
  script = script
  api = api
  None = None
  Absent = Absent
  Callers <- MCCallers
  Requests <- MCRequests
  Names <- MCNames
  MaxCalls = 2
  Symbols <- MCSymbols
  MaxDay = 2
  MaxRuns = 2
  Outlooks <- MCOutlooks
INVARIANTS
  TypeOK
  ExitZeroIsStored
  SymbolsStayApart
  GreenIsStored
PROPERTIES
  CallsAndRunsEnd
CHECK_DEADLOCK FALSE
