SPECIFICATION FairRetrySpec
CONSTANTS
  Publishers = {scheduled, postMerge}
  Identities = {runA, runB}
  Contexts = {firstTry, secondTry}
  Nothing = Nothing
  ReconciliationAttempts = 3
  MaxRuns = 2
INVARIANTS
  VerdictsAreRight
PROPERTIES
  ImplementsEvidenceStore
  CallEnds
CHECK_DEADLOCK FALSE
