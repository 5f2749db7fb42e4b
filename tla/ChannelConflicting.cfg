SPECIFICATION Spec
CONSTANTS
  None = None
  p0 = p0
  p3 = p3
  usd = usd
  ProposalIds = {p1}
  Nonces = {n1}
  Assets = {usd}
  Proposal <- MCProposal
  MaxU256 = 1
  MaxVersion = 2
  MaxUpdates = 1
  AppMay = {"conflicting"}
INVARIANTS
  NoFork
CHECK_DEADLOCK FALSE
