---------------------------- MODULE PaymentState ----------------------------
(***************************************************************************)
(* The data a two-party, one-asset payment channel is made of: channel     *)
(* states, what may follow a state, and signatures on states               *)
(* (channel/fixed_size_payment.rs, the checks of channel/active.rs, sig/). *)
(*                                                                         *)
(* Hashes are injective and a signature can be made only by its key: a     *)
(* hash is modelled by what it hashes, a signature by who signed what.     *)
(* The two participants are taken to have different keys, the situation    *)
(* the comment in agreed_upon.rs:158-167 asks for.                         *)
(***************************************************************************)
EXTENDS Integers

CONSTANTS
  ProposalIds,     \* random 32-byte proposal ids (with their proposer nonce share)
  Nonces,          \* nonce shares the accepting participant draws
  Assets,          \* asset holders an allocation may name
  Proposal,        \* ProposalIds -> [challenge_duration, peers, asset, bal]
  MaxU256,         \* largest U256: the sum in total_assets panics beyond it
  MaxVersion,      \* bound: no state beyond this version (a u64 in the code)
  None             \* Option::None

Idx == {0, 1}

Other(i) == 1 - i

Balances == [Idx -> 0..MaxU256]

\* Params hashes the nonce share of either side; everything else in it
\* (challenge duration, addresses) comes with the proposal.
ChannelIds == [proposal: ProposalIds, nonce: Nonces]

State == [id: ChannelIds, version: 0..MaxVersion, asset: Assets,
          bal: Balances, is_final: BOOLEAN]

\* peers: how many addresses the vector of that name holds
Proposals == [challenge_duration: Nat, peers: Nat, asset: Assets, bal: Balances]

ASSUME ConstantsAssumption ==
  /\ MaxU256 \in Nat
  /\ MaxVersion \in Nat
  /\ Proposal \in [ProposalIds -> Proposals]
  /\ None \notin Idx

-----------------------------------------------------------------------------
\* State::new on the Params built from a proposal and the accepting side's share
NewState(proposal_id, nonce_share) ==
  [id       |-> [proposal |-> proposal_id, nonce |-> nonce_share],
   version  |-> 0,
   asset    |-> Proposal[proposal_id].asset,
   bal      |-> Proposal[proposal_id].bal,
   is_final |-> FALSE]

make_next_state(s) == [s EXCEPT !.version = @ + 1]

total_assets(s) == s.bal[0] + s.bal[1]

\* What a forgotten is_final test, and a forgotten comparison of the totals,
\* would make of check_valid_transition
check_without_final(cur, new) ==
  /\ new.id = cur.id
  /\ cur.version < MaxVersion
  /\ new.version = cur.version + 1
  /\ new.asset = cur.asset
  /\ total_assets(new) = total_assets(cur)

check_without_total(cur, new) ==
  /\ new.id = cur.id
  /\ ~ cur.is_final
  /\ cur.version < MaxVersion
  /\ new.version = cur.version + 1
  /\ new.asset = cur.asset

\* TRUE when check_valid_transition returns Ok
check_valid_transition(cur, new) ==
  /\ new.id = cur.id
  /\ ~ cur.is_final
  /\ cur.version < MaxVersion
  /\ new.version = cur.version + 1
  /\ new.asset = cur.asset
  /\ total_assets(new) <= MaxU256
  /\ total_assets(new) = total_assets(cur)

\* TRUE when it panics: it gets as far as a sum that does not fit U256.
transition_panics(cur, new) ==
  /\ new.id = cur.id
  /\ ~ cur.is_final
  /\ new.version = cur.version + 1
  /\ new.asset = cur.asset
  /\ total_assets(new) > MaxU256 \/ total_assets(cur) > MaxU256

\* The check as handle_proposal has it: commented out
check_nothing(p) == TRUE

\* TRUE when check_valid_proposal returns Ok; the balances are an array of two.
check_valid_proposal(p) == p.challenge_duration # 0 /\ p.peers = 2

-----------------------------------------------------------------------------
Signatures == [by: Idx, on: State]

\* Option::None is not a Some of anything.
ASSUME NoneAssumption == None \notin Nonces /\ None \notin State /\ None \notin Signatures

sign_eth(i, s) == [by |-> i, on |-> s]

\* Recovering over another hash than the signed one yields an unrelated address.
recover_signer(s, sig) == IF sig.on = s THEN sig.by ELSE None

NoSignatures == [k \in Idx |-> None]

\* The signatures array with one entry, as ChannelUpdate::new builds it
OneSignature(k, sig) == [NoSignatures EXCEPT ![k] = sig]

AllSigned(sigs) == \A k \in Idx : sigs[k] # None
=============================================================================
