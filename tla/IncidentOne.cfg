SPECIFICATION Spec
CONSTANTS
  AuditRow <- SocketRow
  Event = {}
  Want <- AnyPhase
  OneLimit = 8
  MaxFindings = 1
  CardLimit = 1
  MaxCopies = 1
INVARIANT OneAnswersRequest
