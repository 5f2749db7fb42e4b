\* Messages that fit the ring, messages the ring cannot hold, and messages the
\* prefix cannot express, sent faster than they are read.
CONSTANTS
  Base = 3
  TxCap = 12
  RxCap = 7
  MAX_MESSAGE_SIZE = 5
  Sizes = {0, 2, 3, 5, 6, 9}
  MaxSent = 4
SPECIFICATION FairSpec
INVARIANTS
  WholeMessagesInOrder
  NeverTooLarge
PROPERTIES
  Delivered
CHECK_DEADLOCK FALSE
