CONSTANTS
  Exchanges = {x1, x2, x3}
  Given = given
  Plain = plain
  NotText = notText
  None = none
  Bodies <- MCBodies
  ChatRequests <- MCChatRequests
  Default = 1
  Capacities = {none, 0, 2}

SYMMETRY MCSymmetry

SPECIFICATION Spec

INVARIANTS
  TypeOK
  WindowOfRecent
  RecordedAsHappened
  ModelKnowsConversation
  AnsweredIsInHistory

PROPERTY
  ChatAnsweredHasEnded

CHECK_DEADLOCK FALSE
