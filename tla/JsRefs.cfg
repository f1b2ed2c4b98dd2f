SPECIFICATION FairSpec
CONSTANTS
  c1 = c1
  c2 = c2
  e1 = e1
  v1 = v1
  Calls <- MCCalls
  Exports <- MCExports
  Results <- MCResults
  MaxEngines <- MCMaxEngines
  MaxKept <- MCMaxKept
INVARIANTS
  TypeOK
  ReferencesLive
PROPERTIES
  AnswersFindTheirEngine
  CompletedCallsEnd
CHECK_DEADLOCK FALSE
