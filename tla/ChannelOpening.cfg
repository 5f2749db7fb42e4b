SPECIFICATION Spec
CONSTANTS
  None = None
  p0 = p0
  p3 = p3
  usd = usd
  ProposalIds = {p0, p1, p2, p3}
  Nonces = {n1, n2, n3}
  Assets = {usd}
  Proposal <- MCProposal
  MaxU256 = 1
  MaxVersion = 0
  MaxUpdates = 0
  AppMay = {"reaccept", "abandon", "reject"}
SYMMETRY NonceSymmetry
INVARIANTS
  TypeOK
  FullySigned
  SameChannel
  Conservation
CHECK_DEADLOCK FALSE
