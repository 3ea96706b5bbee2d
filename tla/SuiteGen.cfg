SPECIFICATION Spec
CONSTANTS
  QT3Assertion <- MCQT3Assertion
  XSLTAssertion <- MCXSLTAssertion
  StrmUnlockLimit = 1
  Sources <- MCSources
  Overlay <- MCOverlay
  Outcomes <- MCOutcomes
INVARIANTS
  TypeOK
  RunnableCasesFindFiles
  CountsMatchTables
  VerdictsFollowCatalog
  RiskMeansCannotFail
  RowsFollowCatalog
  XSD10ReadsSameCases
CHECK_DEADLOCK FALSE
