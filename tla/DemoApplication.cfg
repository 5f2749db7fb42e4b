SPECIFICATION FairSpec
CONSTANTS
  NetMay = {"close", "reset", "refuse", "misbehave"}
  MaxRx = 2
INVARIANTS
  TypeOK
  SocketsFree
  HandshakeCanBeSent
PROPERTIES
  ListensAgain
  OpeningProgresses
CHECK_DEADLOCK FALSE
