SPECIFICATION FairSpec
CONSTANTS
  None = None
  Roles = {0, 1}
  InitBal = 1
  Amount = 1
  UserMay = {"update", "close", "force_close", "hasty", "overdraw"}
  PeerMay = {"update", "close", "reject_proposal", "reject_update", "dispute"}
  WatchReply = {"Ack", "StartWatchingResp"}
  RegisterReply = {"DisputeAck", "RegisterResp"}
  MaxVersion = 2
  MaxInFlight = 3
INVARIANTS
  TypeOK
  Agreement
  OpenMeansFundedAndWatched
  ClosedForAReason
PROPERTIES
  OnlyKnownPanics
  PeerUpdateAnswered
  OpeningCompletes
  UpdateConcludes
CHECK_DEADLOCK FALSE
