SPECIFICATION Spec
CONSTANTS
  QT3Assertion <- MCQT3Assertion
  XSLTAssertion <- MCXSLTAssertion
  StrmUnlockLimit = 1
  Sources <- MCSources
  Overlay <- MCOverlay
  Outcomes <- MCOutcomes
INVARIANT UnmarkedCasesCanFail
CHECK_DEADLOCK FALSE
