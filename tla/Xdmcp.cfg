CONSTANTS
  MaxId = 2
  MaxKeys = 2
  MaxAnswers = 2
  MaxQuestions = 2
  MaxInFlight = 3
  MaxCopies = 1
  MaxCrashes = 1
  XDM_RTX_LIMIT = 2
  XDM_KA_RTX_LIMIT = 2
SPECIFICATION Spec
PROPERTIES
  NothingLiveIsDropped
  FailureIsNoticed
CHECK_DEADLOCK FALSE
