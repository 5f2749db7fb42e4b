\* Messages of every kind in both formats of assets, whole and malformed.
CONSTANTS
  Base = 4
  AddressLen = 3
  HashLen = 2
  SignatureLen = 4
  ASSETS = 1
  PARTICIPANTS = 2
  Messages <- AllMessages
  Damaged <- AllDamaged
SPECIFICATION Spec
INVARIANTS
  MessageKept
  ReadExactly
CHECK_DEADLOCK FALSE
