SPECIFICATION Spec
CONSTANTS
  AuditRow <- CardRow
  Event <- CardEvent
  Want <- CardWant
  OneLimit = 3
  MaxFindings = 2
  CardLimit = 2
  MaxCopies = 2
INVARIANTS CardComplete CleanIsClean OutcomesShown OneFinds IInv
