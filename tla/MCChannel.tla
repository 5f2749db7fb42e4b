----------------------------- MODULE MCChannel -----------------------------
(***************************************************************************)
(* Channel on small instances for TLC.                                     *)
(***************************************************************************)
EXTENDS Channel, TLC

CONSTANTS p0, p3, usd

\* Every proposal locks one unit, owned by the proposer. Where they are used,
\* p0 has no challenge duration and p3 only one peer: check_valid_proposal must refuse
\* both.
MCProposal ==
  [p \in ProposalIds |->
     [challenge_duration |-> IF p = p0 THEN 0 ELSE 1,
      peers |-> IF p = p3 THEN 1 ELSE 2,
      asset |-> usd, bal |-> [k \in Idx |-> 1 - k]]]

NonceSymmetry == Permutations(Nonces)
=============================================================================
