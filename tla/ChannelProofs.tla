--------------------------- MODULE ChannelProofs ----------------------------
(***************************************************************************)
(* What the library guarantees for all proposals, amounts, versions and    *)
(* applications: the inductive invariant of Channel, that every operation  *)
(* preserves it, and what follows from it.                                 *)
(***************************************************************************)
EXTENDS Channel, TLAPS

\* Typestates that hold a state
Stateful == Open \cup {"AgreedUpon"}

\* A proposal with a challenge duration and a peer for each participant
Proper(p) == p.challenge_duration # 0 /\ p.peers = 2

\* What a signer signs belongs to the channel: same asset and same total as the
\* proposal, and no version after the initial one before the channel is open.
ConservedState(s) ==
  /\ Proper(Proposal[s.id.proposal])
  /\ s.asset = Proposal[s.id.proposal].asset
  /\ total_assets(s) = Proposal[s.id.proposal].bal[0] + Proposal[s.id.proposal].bal[1]

\* The fields of the channel object fit its typestate.
PhaseInv ==
  \A i \in Idx :
    /\ phase[i] = "Proposed" => prop[i] \in ProposalIds
    /\ phase[i] \in Stateful => state[i] \in State /\ ConservedState(state[i])
    /\ phase[i] = "AgreedUpon" => state[i].version = 0
    /\ phase[i] \in Open => AllSigned(sigs[i])

\* Only such proposals are ever held or sent.
ProposalInv ==
  /\ \A i \in Idx : phase[i] = "Proposed" => Proper(Proposal[prop[i]])
  /\ \A m \in msgs : m.type = "ChannelProposal" => Proper(Proposal[m.proposal_id])

\* A stored signature is the valid signature of its slot's participant.
ValidSlots(ss, s) ==
  \A k \in Idx : ss[k] # None => ss[k] = sign_eth(k, s) /\ s \in signed[k]

SlotInv ==
  \A i \in Idx :
    /\ phase[i] \in Stateful => ValidSlots(sigs[i], state[i])
    /\ \A u \in pending[i] : ValidSlots(u.sigs, u.state) /\ ConservedState(u.state)

\* Messages carry signatures their sender really made.
MessageInv ==
  \A m \in msgs :
    /\ m.type = "ChannelUpdate" =>
         /\ m.sig = sign_eth(m.actor_idx, m.state)
         /\ m.state \in signed[m.actor_idx]
    /\ m.type = "ChannelUpdateAccepted" =>
         /\ m.sig.by = Other(m.to)
         /\ m.sig.on \in signed[m.sig.by]
         /\ m.channel = m.sig.on.id
         /\ m.version = m.sig.on.version

\* A participant signs at most one version ahead of the state it holds, and
\* nothing on top of a final state.
SignedInv ==
  \A i \in Idx : \A s \in signed[i] :
    /\ phase[i] \notin Open => s.version = 0
    /\ phase[i] \in Open =>
         /\ s.version <= state[i].version + 1
         /\ s.version = state[i].version + 1 => ~ state[i].is_final

\* The same for the updates an application holds: they were made from the
\* present state or are outdated.
PendingInv ==
  \A i \in Idx : \A u \in pending[i] :
    /\ phase[i] \in Open
    /\ u.state.version > 0
    /\ u.state.version <= state[i].version + 1
    /\ u.state.version = state[i].version + 1 => ~ state[i].is_final

\* Both participants really signed what is submitted.
Valid(r) == \A k \in Idx : r.sigs[k] = sign_eth(k, r.state)

\* The watcher has the held state and nothing newer; what watcher and funder
\* have, except the funding request, is fully signed.
RequestInv ==
  \A i \in Idx :
    /\ phase[i] \notin Open => watcher[i] = {}
    /\ phase[i] \in Open => [state |-> state[i], sigs |-> sigs[i]] \in watcher[i]
    /\ \A r \in watcher[i] : r.state.version <= state[i].version /\ Valid(r)
    /\ \A r \in funder[i] : r.type # "FundReq" => Valid(r)

IInv ==
  /\ TypeOK /\ PhaseInv /\ ProposalInv /\ SlotInv
  /\ MessageInv /\ SignedInv /\ PendingInv /\ RequestInv

-----------------------------------------------------------------------------
(***************************************************************************)
(* Typing of the operators                                                 *)
(***************************************************************************)
\* A state's fields
LEMMA StateFields ==
  ASSUME NEW s \in State
  PROVE  /\ s.id \in ChannelIds
         /\ s.version \in 0..MaxVersion
         /\ s.version \in Nat
         /\ s.asset \in Assets
         /\ s.bal \in Balances
         /\ s.is_final \in BOOLEAN
BY ConstantsAssumption DEF State

\* State::new builds the initial state of the channel both nonce shares determine.
LEMMA NewStateType ==
  ASSUME NEW p \in ProposalIds, NEW n \in Nonces
  PROVE  /\ NewState(p, n) \in State
         /\ NewState(p, n).version = 0
         /\ NewState(p, n).id.proposal = p
         /\ NewState(p, n).id.nonce = n
         /\ NewState(p, n).asset = Proposal[p].asset
         /\ NewState(p, n).bal = Proposal[p].bal
BY ConstantsAssumption DEF NewState, State, ChannelIds, Proposals

\* A signature is a value of its type.
LEMMA SignatureType ==
  ASSUME NEW i \in Idx, NEW s \in State
  PROVE  /\ sign_eth(i, s) \in Signatures
         /\ sign_eth(i, s).by = i
         /\ sign_eth(i, s).on = s
BY DEF sign_eth, Signatures

\* Signature arrays
LEMMA ArrayType ==
  ASSUME NEW k \in Idx, NEW g \in Signatures
  PROVE  /\ NoSignatures \in OptSignatures
         /\ OneSignature(k, g) \in OptSignatures
         /\ OneSignature(k, g)[k] = g
         /\ \A l \in Idx : l # k => OneSignature(k, g)[l] = None
         /\ \A a \in OptSignatures : [a EXCEPT ![k] = g] \in OptSignatures
BY DEF NoSignatures, OneSignature, OptSignatures

\* A ChannelUpdate is also what force_update sends to the watcher.
LEMMA UpdateType ==
  ASSUME NEW s \in State, NEW a \in OptSignatures
  PROVE  /\ [state |-> s, sigs |-> a] \in Updates
         /\ [state |-> s, sigs |-> a] \in WatchRequests
         /\ \A t \in {"FundReq", "RegisterReq", "WithdrawReq"} :
              [type |-> t, state |-> s, sigs |-> a] \in FunderRequests
BY DEF Updates, WatchRequests, FunderRequests

\* The fields of a ChannelUpdate
LEMMA UpdateFields ==
  ASSUME NEW u \in Updates
  PROVE  /\ u.state \in State
         /\ u.sigs \in OptSignatures
         /\ u = [state |-> u.state, sigs |-> u.sigs]
BY DEF Updates

\* Messages the operations send
LEMMA MessageType ==
  ASSUME NEW i \in Idx
  PROVE  /\ \A p \in ProposalIds :
              /\ [type |-> "ChannelProposal", to |-> Other(i), proposal_id |-> p] \in Messages
              /\ [type |-> "ProposalRejected", to |-> Other(i), proposal_id |-> p] \in Messages
              /\ \A n \in Nonces :
                   [type |-> "ProposalAccepted", to |-> Other(i),
                    proposal_id |-> p, nonce_share |-> n] \in Messages
         /\ \A s \in State :
              /\ [type |-> "ChannelUpdate", to |-> Other(i), state |-> s,
                  actor_idx |-> i, sig |-> sign_eth(i, s)] \in Messages
              /\ [type |-> "ChannelUpdateAccepted", to |-> Other(i), channel |-> s.id,
                  version |-> s.version, sig |-> sign_eth(i, s)] \in Messages
              /\ [type |-> "ChannelUpdateRejected", to |-> Other(i),
                  id |-> s.id, version |-> s.version] \in Messages
<1>1. Other(i) \in Idx
  BY DEF Other, Idx
<1>2. \A s \in State : sign_eth(i, s) \in Signatures /\ s.id \in ChannelIds /\ s.version \in 0..MaxVersion
  BY SignatureType, StateFields
<1>. QED
  BY <1>1, <1>2 DEF Messages

\* Messages the handlers receive
LEMMA MessageFields ==
  ASSUME NEW m \in Messages
  PROVE  /\ m.to \in Idx
         /\ m.type = "ChannelProposal" => m.proposal_id \in ProposalIds
         /\ m.type = "ProposalAccepted" => m.proposal_id \in ProposalIds /\ m.nonce_share \in Nonces
         /\ m.type = "ChannelUpdate" =>
              m.state \in State /\ m.actor_idx \in Idx /\ m.sig \in Signatures
         /\ m.type = "ChannelUpdateAccepted" =>
              m.channel \in ChannelIds /\ m.version \in 0..MaxVersion /\ m.sig \in Signatures
BY DEF Messages

-----------------------------------------------------------------------------
(***************************************************************************)
(* Every operation up to the funded channel preserves the invariant.       *)
(***************************************************************************)
\* ProposeChannel preserves the inductive invariant.
LEMMA ProposeChannelStep ==
  ASSUME IInv, NEW i \in Idx, NEW p \in ProposalIds, ProposeChannel(i, p)
  PROVE  IInv'
<1>1. TypeOK'
  BY Zenon, MessageType DEF IInv, TypeOK, ProposeChannel, Broadcast, Phases
<1>2. PhaseInv'
  BY DEF IInv, TypeOK, PhaseInv, Stateful, Open, ProposeChannel, Broadcast
<1>3. ProposalInv'
  BY DEF IInv, TypeOK, ProposalInv, ProposeChannel, Broadcast, check_valid_proposal, Proper
<1>4. SlotInv'
  BY Zenon DEF IInv, TypeOK, SlotInv, ValidSlots, Stateful, Open, ProposeChannel, Broadcast
<1>5. MessageInv'
  BY DEF IInv, TypeOK, MessageInv, ProposeChannel, Broadcast
<1>6. SignedInv'
  BY DEF IInv, TypeOK, SignedInv, Open, ProposeChannel, Broadcast
<1>7. PendingInv'
  BY Zenon DEF IInv, TypeOK, PendingInv, Open, ProposeChannel, Broadcast
<1>8. RequestInv'
  BY Zenon DEF IInv, TypeOK, RequestInv, Valid, Open, ProposeChannel, Broadcast
<1>. QED
  BY <1>1, <1>2, <1>3, <1>4, <1>5, <1>6, <1>7, <1>8 DEF IInv

\* HandleProposal preserves the inductive invariant.
LEMMA HandleProposalStep ==
  ASSUME IInv, NEW i \in Idx, NEW m \in Received(i, "ChannelProposal"), HandleProposal(i, m)
  PROVE  IInv'
<1>1. TypeOK'
  BY MessageFields DEF IInv, TypeOK, HandleProposal, Received, Phases
<1>2. PhaseInv'
  BY MessageFields DEF IInv, TypeOK, PhaseInv, Stateful, Open, HandleProposal, Received
<1>3. ProposalInv'
  BY DEF IInv, TypeOK, ProposalInv, HandleProposal, Received
<1>4. SlotInv'
  BY Zenon DEF IInv, TypeOK, SlotInv, ValidSlots, Stateful, Open, HandleProposal
<1>5. MessageInv'
  BY DEF IInv, TypeOK, MessageInv, HandleProposal
<1>6. SignedInv'
  BY Zenon DEF IInv, TypeOK, SignedInv, Open, HandleProposal
<1>7. PendingInv'
  BY Zenon DEF IInv, TypeOK, PendingInv, Open, HandleProposal
<1>8. RequestInv'
  BY Zenon DEF IInv, TypeOK, RequestInv, Valid, Open, HandleProposal
<1>. QED
  BY <1>1, <1>2, <1>3, <1>4, <1>5, <1>6, <1>7, <1>8 DEF IInv

\* ProposedAccept preserves the inductive invariant.
LEMMA ProposedAcceptStep ==
  ASSUME IInv, NEW i \in Idx, NEW n \in Nonces, ProposedAccept(i, n)
  PROVE  IInv'
<1>1. TypeOK'
  <2>1. prop[i] \in ProposalIds
    BY DEF IInv, PhaseInv, ProposedAccept
  <2>. QED
    BY Zenon, <2>1, MessageType DEF IInv, TypeOK, ProposedAccept, Broadcast
<1>2. PhaseInv'
  BY DEF IInv, TypeOK, PhaseInv, Stateful, Open, ProposedAccept, Broadcast
<1>3. ProposalInv'
  BY DEF IInv, TypeOK, ProposalInv, ProposedAccept, Broadcast
<1>4. SlotInv'
  BY DEF IInv, TypeOK, SlotInv, ValidSlots, Stateful, Open, ProposedAccept, Broadcast
<1>5. MessageInv'
  BY DEF IInv, TypeOK, MessageInv, ProposedAccept, Broadcast
<1>6. SignedInv'
  BY DEF IInv, TypeOK, SignedInv, Open, ProposedAccept, Broadcast
<1>7. PendingInv'
  BY Zenon DEF IInv, TypeOK, PendingInv, Open, ProposedAccept, Broadcast
<1>8. RequestInv'
  BY Zenon DEF IInv, TypeOK, RequestInv, Valid, Open, ProposedAccept, Broadcast
<1>. QED
  BY <1>1, <1>2, <1>3, <1>4, <1>5, <1>6, <1>7, <1>8 DEF IInv

\* ProposedAcceptOwn preserves the inductive invariant.
LEMMA ProposedAcceptOwnStep ==
  ASSUME IInv, NEW i \in Idx, ProposedAcceptOwn(i)
  PROVE  IInv'
<1>1. TypeOK'
  BY DEF IInv, TypeOK, ProposedAcceptOwn, Phases
<1>2. PhaseInv'
  BY DEF IInv, TypeOK, PhaseInv, Stateful, Open, ProposedAcceptOwn
<1>3. ProposalInv'
  BY DEF IInv, TypeOK, ProposalInv, ProposedAcceptOwn
<1>4. SlotInv'
  BY DEF IInv, TypeOK, SlotInv, ValidSlots, Stateful, Open, ProposedAcceptOwn
<1>5. MessageInv'
  BY DEF IInv, TypeOK, MessageInv, ProposedAcceptOwn
<1>6. SignedInv'
  BY DEF IInv, TypeOK, SignedInv, Open, ProposedAcceptOwn
<1>7. PendingInv'
  BY Zenon DEF IInv, TypeOK, PendingInv, Open, ProposedAcceptOwn
<1>8. RequestInv'
  BY DEF IInv, TypeOK, RequestInv, Valid, Open, ProposedAcceptOwn
<1>. QED
  BY <1>1, <1>2, <1>3, <1>4, <1>5, <1>6, <1>7, <1>8 DEF IInv

\* ProposedReject preserves the inductive invariant.
LEMMA ProposedRejectStep ==
  ASSUME IInv, NEW i \in Idx, ProposedReject(i)
  PROVE  IInv'
<1>1. TypeOK'
  <2>1. prop[i] \in ProposalIds
    BY DEF IInv, PhaseInv, ProposedReject
  <2>2. msgs' \subseteq Messages
    BY Zenon, <2>1, MessageType DEF IInv, TypeOK, ProposedReject, Broadcast
  <2>. QED
    BY <2>2 DEF IInv, TypeOK, ProposedReject, Forget, Phases, NoSignatures,
       OptSignatures
<1>2. PhaseInv'
  BY DEF IInv, TypeOK, PhaseInv, Stateful, Open, ProposedReject, Forget, Broadcast
<1>3. ProposalInv'
  BY DEF IInv, TypeOK, ProposalInv, ProposedReject, Forget, Broadcast
<1>4. SlotInv'
  BY DEF IInv, TypeOK, SlotInv, ValidSlots, Stateful, Open, ProposedReject, Forget,
     Broadcast
<1>5. MessageInv'
  BY DEF IInv, TypeOK, MessageInv, ProposedReject, Forget, Broadcast
<1>6. SignedInv'
  BY DEF IInv, TypeOK, SignedInv, Open, ProposedReject, Forget, Broadcast
<1>7. PendingInv'
  BY DEF IInv, TypeOK, PendingInv, Open, ProposedReject, Forget, Broadcast
<1>8. RequestInv'
  BY Zenon DEF IInv, TypeOK, RequestInv, Valid, Open, ProposedReject, Forget, Broadcast
<1>. QED
  BY <1>1, <1>2, <1>3, <1>4, <1>5, <1>6, <1>7, <1>8 DEF IInv

\* ProposedParticipantAccepted preserves the inductive invariant.
LEMMA ProposedParticipantAcceptedStep ==
  ASSUME IInv, NEW i \in Idx, NEW m \in Received(i, "ProposalAccepted"), ProposedParticipantAccepted(i, m)
  PROVE  IInv'
<1>1. TypeOK'
  BY MessageFields DEF IInv, TypeOK, ProposedParticipantAccepted, Received
<1>2. PhaseInv'
  BY DEF IInv, TypeOK, PhaseInv, Stateful, Open, ProposedParticipantAccepted
<1>3. ProposalInv'
  BY DEF IInv, TypeOK, ProposalInv, ProposedParticipantAccepted
<1>4. SlotInv'
  BY DEF IInv, TypeOK, SlotInv, ValidSlots, Stateful, Open, ProposedParticipantAccepted
<1>5. MessageInv'
  BY DEF IInv, TypeOK, MessageInv, ProposedParticipantAccepted
<1>6. SignedInv'
  BY DEF IInv, TypeOK, SignedInv, Open, ProposedParticipantAccepted
<1>7. PendingInv'
  BY DEF IInv, TypeOK, PendingInv, Open, ProposedParticipantAccepted
<1>8. RequestInv'
  BY Zenon DEF IInv, TypeOK, RequestInv, Valid, Open, ProposedParticipantAccepted
<1>. QED
  BY <1>1, <1>2, <1>3, <1>4, <1>5, <1>6, <1>7, <1>8 DEF IInv

\* ProposedBuild preserves the inductive invariant.
LEMMA ProposedBuildStep ==
  ASSUME IInv, NEW i \in Idx, ProposedBuild(i)
  PROVE  IInv'
<1>a. /\ prop[i] \in ProposalIds
      /\ resp[i] \in Nonces
      /\ NewState(prop[i], resp[i]) \in State
  BY NewStateType DEF IInv, TypeOK, PhaseInv, ProposedBuild
<1>1. TypeOK'
  BY <1>a DEF IInv, TypeOK, ProposedBuild, Phases, NoSignatures, OptSignatures
<1>2. PhaseInv'
  <2>1. ConservedState(NewState(prop[i], resp[i]))
    <3>1. Proper(Proposal[prop[i]])
      BY DEF IInv, ProposalInv, ProposedBuild
    <3>2. /\ NewState(prop[i], resp[i]).id.proposal = prop[i]
          /\ NewState(prop[i], resp[i]).asset = Proposal[prop[i]].asset
          /\ NewState(prop[i], resp[i]).bal = Proposal[prop[i]].bal
      BY <1>a, NewStateType
    <3>. QED
      BY <3>1, <3>2, Zenon DEF ConservedState, total_assets
  <2>2. NewState(prop[i], resp[i]).version = 0
    BY <1>a, NewStateType
  <2>. QED
    BY <1>a, <2>1, <2>2 DEF IInv, TypeOK, PhaseInv, Stateful, Open, ProposedBuild
<1>3. ProposalInv'
  BY DEF IInv, TypeOK, ProposalInv, ProposedBuild
<1>4. SlotInv'
  BY DEF IInv, TypeOK, SlotInv, ValidSlots, Stateful, Open, ProposedBuild, NoSignatures
<1>5. MessageInv'
  BY DEF IInv, TypeOK, MessageInv, ProposedBuild
<1>6. SignedInv'
  BY DEF IInv, TypeOK, SignedInv, Open, ProposedBuild
<1>7. PendingInv'
  BY DEF IInv, TypeOK, PendingInv, Open, ProposedBuild
<1>8. RequestInv'
  BY DEF IInv, TypeOK, RequestInv, Valid, Open, ProposedBuild
<1>. QED
  BY <1>1, <1>2, <1>3, <1>4, <1>5, <1>6, <1>7, <1>8 DEF IInv

\* AgreedSign preserves the inductive invariant.
LEMMA AgreedSignStep ==
  ASSUME IInv, NEW i \in Idx, AgreedSign(i)
  PROVE  IInv'
<1>a. state[i] \in State /\ state[i].version = 0 /\ sign_eth(i, state[i]) \in Signatures
  BY SignatureType DEF IInv, PhaseInv, Stateful, AgreedSign
<1>1. TypeOK'
  <2>1. msgs' \subseteq Messages
    BY Zenon, <1>a, MessageType DEF IInv, TypeOK, AgreedSign, Broadcast
  <2>2. sigs' \in [Idx -> OptSignatures]
    BY <1>a DEF IInv, TypeOK, AgreedSign, OptSignatures
  <2>. QED
    BY <1>a, <2>1, <2>2 DEF IInv, TypeOK, AgreedSign
<1>2. PhaseInv'
  BY DEF IInv, TypeOK, PhaseInv, Stateful, Open, AgreedSign, Broadcast
<1>3. ProposalInv'
  BY DEF IInv, TypeOK, ProposalInv, AgreedSign, Broadcast
<1>4. SlotInv'
  BY DEF IInv, TypeOK, SlotInv, ValidSlots, Stateful, Open, AgreedSign, Broadcast
<1>5. MessageInv'
  BY <1>a, SignatureType DEF IInv, TypeOK, MessageInv, AgreedSign, Broadcast, Other, Idx
<1>6. SignedInv'
  BY <1>a DEF IInv, TypeOK, SignedInv, Open, AgreedSign
<1>7. PendingInv'
  BY DEF IInv, TypeOK, PendingInv, Open, AgreedSign, Broadcast
<1>8. RequestInv'
  BY Zenon DEF IInv, TypeOK, RequestInv, Valid, Open, AgreedSign, Broadcast
<1>. QED
  BY <1>1, <1>2, <1>3, <1>4, <1>5, <1>6, <1>7, <1>8 DEF IInv

\* AgreedAddSignature preserves the inductive invariant.
LEMMA AgreedAddSignatureStep ==
  ASSUME IInv, NEW i \in Idx, NEW m \in Received(i, "ChannelUpdateAccepted"), AgreedAddSignature(i, m)
  PROVE  IInv'
<1>a. m \in msgs /\ m.type = "ChannelUpdateAccepted" /\ m.sig \in Signatures
  BY MessageFields DEF IInv, TypeOK, Received
<1>1. TypeOK'
  <2>1. sigs' \in [Idx -> OptSignatures]
    BY <1>a DEF IInv, TypeOK, AgreedAddSignature, OptSignatures
  <2>. QED
    BY <2>1 DEF IInv, TypeOK, AgreedAddSignature
<1>2. PhaseInv'
  BY DEF IInv, TypeOK, PhaseInv, Stateful, Open, AgreedAddSignature
<1>3. ProposalInv'
  BY DEF IInv, TypeOK, ProposalInv, AgreedAddSignature
<1>4. SlotInv'
  <2>1. PICK k \in Idx : recover_signer(state[i], m.sig) = k /\ sigs' = [sigs EXCEPT ![i][k] = m.sig]
    BY Zenon DEF AgreedAddSignature
  <2>2. m.sig = sign_eth(k, state[i]) /\ state[i] \in signed[k]
    BY Zenon, <1>a, <2>1, ConstantsAssumption DEF IInv, MessageInv, recover_signer, sign_eth,
       Signatures
  <2>. QED
    BY <2>1, <2>2 DEF IInv, TypeOK, SlotInv, ValidSlots, Stateful, Open,
       AgreedAddSignature, OptSignatures
<1>5. MessageInv'
  BY DEF IInv, TypeOK, MessageInv, AgreedAddSignature
<1>6. SignedInv'
  BY DEF IInv, TypeOK, SignedInv, Open, AgreedAddSignature
<1>7. PendingInv'
  BY DEF IInv, TypeOK, PendingInv, Open, AgreedAddSignature
<1>8. RequestInv'
  BY Zenon DEF IInv, TypeOK, RequestInv, Valid, Open, AgreedAddSignature
<1>. QED
  BY <1>1, <1>2, <1>3, <1>4, <1>5, <1>6, <1>7, <1>8 DEF IInv

\* AgreedBuild preserves the inductive invariant.
LEMMA AgreedBuildStep ==
  ASSUME IInv, NEW i \in Idx, AgreedBuild(i)
  PROVE  IInv'
<1>a. state[i] \in State /\ state[i].version = 0
  BY DEF IInv, PhaseInv, Stateful, AgreedBuild
<1>b. \A k \in Idx : sigs[i][k] = sign_eth(k, state[i]) /\ state[i] \in signed[k]
  BY DEF IInv, SlotInv, ValidSlots, Stateful, AgreedBuild, AllSigned
<1>1. TypeOK'
  <2>1. /\ [state |-> state[i], sigs |-> sigs[i]] \in WatchRequests
        /\ [type |-> "FundReq", state |-> state[i], sigs |-> NoSignatures] \in FunderRequests
    BY Zenon, <1>a, UpdateType DEF IInv, TypeOK, NoSignatures, OptSignatures
  <2>. QED
    BY <2>1 DEF IInv, TypeOK, AgreedBuild, Phases
<1>2. PhaseInv'
  BY DEF IInv, TypeOK, PhaseInv, Stateful, Open, AgreedBuild
<1>3. ProposalInv'
  BY DEF IInv, TypeOK, ProposalInv, AgreedBuild
<1>4. SlotInv'
  BY DEF IInv, TypeOK, SlotInv, ValidSlots, Stateful, Open, AgreedBuild
<1>5. MessageInv'
  BY DEF IInv, TypeOK, MessageInv, AgreedBuild
<1>6. SignedInv'
  BY <1>a DEF IInv, TypeOK, SignedInv, Open, AgreedBuild
<1>7. PendingInv'
  BY DEF IInv, TypeOK, PendingInv, Open, AgreedBuild
<1>8. RequestInv'
  <2>1. Valid([state |-> state[i], sigs |-> sigs[i]])
    BY <1>b DEF Valid
  <2>2. watcher'[i] = {[state |-> state[i], sigs |-> sigs[i]]} /\ state'[i] = state[i] /\ sigs'[i] = sigs[i]
    BY Zenon DEF IInv, TypeOK, RequestInv, Open, AgreedBuild
  <2>3. phase'[i] \in Open
    BY DEF IInv, TypeOK, Open, AgreedBuild
  <2>4. \A r \in watcher'[i] : r.state.version <= state'[i].version /\ Valid(r)
    BY <1>a, <2>1, <2>2
  <2>5. \A r \in funder'[i] : r \in funder[i] \/ r.type = "FundReq"
    BY DEF IInv, TypeOK, AgreedBuild
  <2>6. \A r \in funder'[i] : r.type # "FundReq" => Valid(r)
    BY Zenon, <2>5 DEF IInv, RequestInv
  <2>7. \A j \in Idx : j # i => /\ phase'[j] = phase[j] /\ watcher'[j] = watcher[j]
                               /\ funder'[j] = funder[j] /\ state'[j] = state[j] /\ sigs'[j] = sigs[j]
    BY DEF IInv, TypeOK, AgreedBuild
  <2>. QED
    BY Zenon, <2>2, <2>3, <2>4, <2>6, <2>7 DEF IInv, RequestInv
<1>. QED
  BY <1>1, <1>2, <1>3, <1>4, <1>5, <1>6, <1>7, <1>8 DEF IInv

\* MarkFunded preserves the inductive invariant.
LEMMA MarkFundedStep ==
  ASSUME IInv, NEW i \in Idx, MarkFunded(i)
  PROVE  IInv'
<1>1. TypeOK'
  BY DEF IInv, TypeOK, MarkFunded, Phases
<1>2. PhaseInv'
  BY DEF IInv, TypeOK, PhaseInv, Stateful, Open, MarkFunded
<1>3. ProposalInv'
  BY DEF IInv, TypeOK, ProposalInv, MarkFunded
<1>4. SlotInv'
  BY DEF IInv, TypeOK, SlotInv, ValidSlots, Stateful, Open, MarkFunded
<1>5. MessageInv'
  BY DEF IInv, TypeOK, MessageInv, MarkFunded
<1>6. SignedInv'
  BY DEF IInv, TypeOK, SignedInv, Open, MarkFunded
<1>7. PendingInv'
  BY DEF IInv, TypeOK, PendingInv, Open, MarkFunded
<1>8. RequestInv'
  BY DEF IInv, TypeOK, RequestInv, Valid, Open, MarkFunded
<1>. QED
  BY <1>1, <1>2, <1>3, <1>4, <1>5, <1>6, <1>7, <1>8 DEF IInv

\* AbandonChannel preserves the inductive invariant.
LEMMA AbandonChannelStep ==
  ASSUME IInv, NEW i \in Idx, AbandonChannel(i)
  PROVE  IInv'
<1>1. TypeOK'
  BY DEF IInv, TypeOK, AbandonChannel, Forget, Phases, NoSignatures, OptSignatures
<1>2. PhaseInv'
  BY DEF IInv, TypeOK, PhaseInv, Stateful, Open, AbandonChannel, Forget
<1>3. ProposalInv'
  BY DEF IInv, TypeOK, ProposalInv, AbandonChannel, Forget
<1>4. SlotInv'
  BY DEF IInv, TypeOK, SlotInv, ValidSlots, Stateful, Open, AbandonChannel, Forget
<1>5. MessageInv'
  BY DEF IInv, TypeOK, MessageInv, AbandonChannel, Forget
<1>6. SignedInv'
  BY DEF IInv, TypeOK, SignedInv, Open, AbandonChannel, Forget
<1>7. PendingInv'
  BY DEF IInv, TypeOK, PendingInv, Open, AbandonChannel, Forget
<1>8. RequestInv'
  BY Zenon DEF IInv, TypeOK, RequestInv, Valid, Open, AbandonChannel, Forget
<1>. QED
  BY <1>1, <1>2, <1>3, <1>4, <1>5, <1>6, <1>7, <1>8 DEF IInv

\* So does any of them.
LEMMA OpeningInv ==
  ASSUME IInv, NEW i \in Idx, Opening(i)
  PROVE  IInv'
BY ProposeChannelStep, HandleProposalStep, ProposedAcceptStep,
   ProposedAcceptOwnStep, ProposedRejectStep, ProposedParticipantAcceptedStep,
   ProposedBuildStep, AgreedSignStep, AgreedAddSignatureStep, AgreedBuildStep,
   MarkFundedStep, AbandonChannelStep DEF Opening

-----------------------------------------------------------------------------
(***************************************************************************)
(* Every operation of an active channel and of its updates preserves the   *)
(* invariant.                                                              *)
(***************************************************************************)
\* Update preserves the inductive invariant.
LEMMA UpdateStep ==
  ASSUME IInv, NEW i \in Idx, NEW new \in State, Update(i, new)
  PROVE  IInv'
<1>a. state[i] \in State /\ ConservedState(new)
  BY Zenon DEF IInv, PhaseInv, Stateful, Open, Update, check_valid_transition, ConservedState
<1>1. TypeOK'
  <2>1. [state |-> new, sigs |-> OneSignature(i, sign_eth(i, new))] \in Updates
    BY Zenon, SignatureType, ArrayType, UpdateType
  <2>2. msgs' \subseteq Messages
    BY Zenon, MessageType DEF IInv, TypeOK, Update, Broadcast
  <2>. QED
    BY <2>1, <2>2 DEF IInv, TypeOK, Update
<1>2. PhaseInv'
  BY DEF IInv, TypeOK, PhaseInv, Stateful, Open, Update, Broadcast
<1>3. ProposalInv'
  <2>1. \A m \in msgs' : m.type = "ChannelProposal" => m \in msgs
    BY DEF Update, Broadcast
  <2>2. phase' = phase /\ prop' = prop
    BY DEF Update
  <2>. QED
    BY <2>1, <2>2 DEF IInv, ProposalInv
<1>4. SlotInv'
  <2>0. new \in signed'[i]
    BY DEF IInv, TypeOK, Update
  <2>1. ValidSlots(OneSignature(i, sign_eth(i, new)), new)'
    BY <2>0, SignatureType, ArrayType DEF ValidSlots
  <2>2. \A ss, s : ValidSlots(ss, s) => ValidSlots(ss, s)'
    BY DEF IInv, TypeOK, ValidSlots, Update
  <2>3. \A j \in Idx : \A u \in pending'[j] :
          \/ u \in pending[j]
          \/ u.state = new /\ u.sigs = OneSignature(i, sign_eth(i, new))
    BY DEF IInv, TypeOK, Update
  <2>. QED
    BY <1>a, <2>1, <2>2, <2>3 DEF IInv, SlotInv, Stateful, Open, Update
<1>5. MessageInv'
  <2>1. \A k \in Idx : signed[k] \subseteq signed'[k]
    BY DEF IInv, TypeOK, Update
  <2>2. new \in signed'[i]
    BY DEF IInv, TypeOK, Update
  <2>3. \A m \in msgs : m.type = "ChannelUpdate" => m.actor_idx \in Idx
    BY MessageFields DEF IInv, TypeOK
  <2>4. \A m \in msgs : m.type = "ChannelUpdateAccepted" => m.sig.by \in Idx
    BY MessageFields DEF IInv, TypeOK, Signatures
  <2>5. \A m \in msgs' :
          \/ m \in msgs
          \/ /\ m.type = "ChannelUpdate" /\ m.actor_idx = i
             /\ m.state = new /\ m.sig = sign_eth(i, new)
    <3>1. msgs' = msgs \cup {[type |-> "ChannelUpdate", to |-> Other(i), state |-> new,
                             actor_idx |-> i, sig |-> sign_eth(i, new)]}
      BY DEF Update, Broadcast
    <3>. QED
      BY <3>1
  <2>. QED
    BY <2>1, <2>2, <2>3, <2>4, <2>5 DEF IInv, MessageInv
<1>6. SignedInv'
  BY <1>a, StateFields DEF IInv, TypeOK, SignedInv, Open, Update, check_valid_transition
<1>7. PendingInv'
  <2>1. /\ phase[i] \in Open /\ ~ state[i].is_final
        /\ new.version = state[i].version + 1
    BY Zenon DEF Update, Open, check_valid_transition
  <2>2. new.version > 0 /\ new.version <= state[i].version + 1
    BY <1>a, <2>1, StateFields
  <2>3. \A j \in Idx : \A u \in pending'[j] :
          u \in pending[j] \/ (j = i /\ u.state = new)
    BY DEF IInv, TypeOK, Update
  <2>4. phase' = phase /\ state' = state
    BY DEF Update
  <2>. QED
    BY <2>1, <2>2, <2>3, <2>4 DEF IInv, PendingInv
<1>8. RequestInv'
  BY Zenon DEF IInv, TypeOK, RequestInv, Valid, Open, Update, Broadcast
<1>. QED
  BY <1>1, <1>2, <1>3, <1>4, <1>5, <1>6, <1>7, <1>8 DEF IInv

\* HandleUpdate preserves the inductive invariant.
LEMMA HandleUpdateStep ==
  ASSUME IInv, NEW i \in Idx, NEW m \in Received(i, "ChannelUpdate"), HandleUpdate(i, m)
  PROVE  IInv'
<1>a. /\ m \in msgs
      /\ m.type = "ChannelUpdate"
      /\ m.state \in State
      /\ m.actor_idx \in Idx
      /\ m.sig \in Signatures
  BY MessageFields DEF IInv, TypeOK, Received
<1>b. state[i] \in State /\ ConservedState(m.state)
  BY DEF IInv, PhaseInv, Stateful, Open, HandleUpdate, check_valid_transition,
     ConservedState
<1>1. TypeOK'
  <2>1. [state |-> m.state, sigs |-> OneSignature(m.actor_idx, m.sig)] \in Updates
    BY Zenon, <1>a, ArrayType, UpdateType
  <2>. QED
    BY <2>1 DEF IInv, TypeOK, HandleUpdate
<1>2. PhaseInv'
  BY DEF IInv, TypeOK, PhaseInv, Stateful, Open, HandleUpdate
<1>3. ProposalInv'
  BY DEF IInv, TypeOK, ProposalInv, HandleUpdate
<1>4. SlotInv'
  <2>1. m.sig = sign_eth(m.actor_idx, m.state) /\ m.state \in signed[m.actor_idx]
    BY <1>a DEF IInv, MessageInv
  <2>2. ValidSlots(OneSignature(m.actor_idx, m.sig), m.state)
    BY <1>a, <2>1, ArrayType DEF ValidSlots
  <2>3. \A ss, s : ValidSlots(ss, s) => ValidSlots(ss, s)'
    BY Zenon DEF ValidSlots, HandleUpdate
  <2>4. \A j \in Idx : \A u \in pending'[j] :
          \/ u \in pending[j]
          \/ u.state = m.state /\ u.sigs = OneSignature(m.actor_idx, m.sig)
    BY DEF IInv, TypeOK, HandleUpdate
  <2>. QED
    BY <1>b, <2>2, <2>3, <2>4 DEF IInv, SlotInv, Stateful, Open, HandleUpdate
<1>5. MessageInv'
  BY Zenon DEF IInv, TypeOK, MessageInv, HandleUpdate
<1>6. SignedInv'
  BY DEF IInv, TypeOK, SignedInv, Open, HandleUpdate
<1>7. PendingInv'
  <2>1. /\ phase[i] \in Open /\ ~ state[i].is_final
        /\ m.state.version = state[i].version + 1
    BY Zenon DEF HandleUpdate, Open, check_valid_transition
  <2>2. m.state.version > 0 /\ m.state.version <= state[i].version + 1
    BY <1>b, <2>1, StateFields
  <2>3. \A j \in Idx : \A u \in pending'[j] :
          u \in pending[j] \/ (j = i /\ u.state = m.state)
    BY DEF IInv, TypeOK, HandleUpdate
  <2>4. phase' = phase /\ state' = state
    BY DEF HandleUpdate
  <2>. QED
    BY <2>1, <2>2, <2>3, <2>4 DEF IInv, PendingInv
<1>8. RequestInv'
  BY Zenon DEF IInv, TypeOK, RequestInv, Valid, Open, HandleUpdate
<1>. QED
  BY <1>1, <1>2, <1>3, <1>4, <1>5, <1>6, <1>7, <1>8 DEF IInv

\* UpdateAccept preserves the inductive invariant.
LEMMA UpdateAcceptStep ==
  ASSUME IInv, NEW i \in Idx, NEW u \in pending[i], UpdateAccept(i, u)
  PROVE  IInv'
<1>a. u \in Updates /\ u.state \in State /\ u.sigs \in OptSignatures /\ sign_eth(i, u.state) \in Signatures
  BY UpdateFields, SignatureType DEF IInv, TypeOK
<1>1. TypeOK'
  <2>1. [u EXCEPT !.sigs[i] = sign_eth(i, u.state)] \in Updates
    BY <1>a DEF Updates, OptSignatures
  <2>2. msgs' \subseteq Messages
    BY Zenon, <1>a, MessageType DEF IInv, TypeOK, UpdateAccept, Broadcast
  <2>. QED
    BY <1>a, <2>1, <2>2 DEF IInv, TypeOK, UpdateAccept
<1>2. PhaseInv'
  BY DEF IInv, TypeOK, PhaseInv, Stateful, Open, UpdateAccept, Broadcast
<1>3. ProposalInv'
  BY DEF IInv, TypeOK, ProposalInv, UpdateAccept, Broadcast
<1>4. SlotInv'
  <2>1. ValidSlots(u.sigs, u.state) /\ ConservedState(u.state)
    BY Zenon DEF IInv, SlotInv
  <2>2. \A k \in Idx : signed[k] \subseteq signed'[k] /\ u.state \in signed'[i]
    BY DEF IInv, TypeOK, UpdateAccept
  <2>3. ValidSlots([u EXCEPT !.sigs[i] = sign_eth(i, u.state)].sigs, u.state)'
    BY <1>a, <2>1, <2>2 DEF ValidSlots, OptSignatures, Updates
  <2>4. \A ss, s : ValidSlots(ss, s) => ValidSlots(ss, s)'
    BY <2>2 DEF ValidSlots
  <2>5. [u EXCEPT !.sigs[i] = sign_eth(i, u.state)].state = u.state
    BY <1>a DEF Updates
  <2>. QED
    BY Zenon, <2>1, <2>3, <2>4, <2>5 DEF IInv, TypeOK, SlotInv, Stateful, Open, UpdateAccept
<1>5. MessageInv'
  BY <1>a, SignatureType DEF IInv, TypeOK, MessageInv, UpdateAccept, Broadcast, Other,
     Idx
<1>6. SignedInv'
  BY <1>a DEF IInv, TypeOK, SignedInv, PendingInv, Open, UpdateAccept
<1>7. PendingInv'
  BY <1>a DEF IInv, TypeOK, PendingInv, Open, UpdateAccept, Updates
<1>8. RequestInv'
  BY Zenon DEF IInv, TypeOK, RequestInv, Valid, Open, UpdateAccept, Broadcast
<1>. QED
  BY <1>1, <1>2, <1>3, <1>4, <1>5, <1>6, <1>7, <1>8 DEF IInv

\* UpdateReject preserves the inductive invariant.
LEMMA UpdateRejectStep ==
  ASSUME IInv, NEW i \in Idx, NEW u \in pending[i], UpdateReject(i, u)
  PROVE  IInv'
<1>a. u.state \in State
  BY UpdateFields DEF IInv, TypeOK
<1>1. TypeOK'
  <2>1. CASE UNCHANGED msgs
    BY <2>1 DEF IInv, TypeOK, UpdateReject
  <2>2. CASE Broadcast([type |-> "ChannelUpdateRejected", to |-> Other(i),
                        id |-> u.state.id, version |-> u.state.version])
    <3>1. msgs' \subseteq Messages
      BY Zenon, <1>a, <2>2, MessageType DEF IInv, TypeOK, Broadcast
    <3>. QED
      BY <3>1 DEF IInv, TypeOK, UpdateReject
  <2>. QED
    BY <2>1, <2>2 DEF UpdateReject
<1>2. PhaseInv'
  BY DEF IInv, TypeOK, PhaseInv, Stateful, Open, UpdateReject, Broadcast
<1>3. ProposalInv'
  <2> DEFINE r == [type |-> "ChannelUpdateRejected", to |-> Other(i),
                   id |-> u.state.id, version |-> u.state.version]
  <2>1. msgs' \subseteq msgs \cup {r} /\ r.type # "ChannelProposal"
    <3>1. r.type # "ChannelProposal"
      OBVIOUS
    <3>. QED
      BY Zenon, <3>1 DEF UpdateReject, Broadcast
  <2> HIDE DEF r
  <2>2. \A m \in msgs' : m.type = "ChannelProposal" => m \in msgs
    BY Zenon, <2>1
  <2>. QED
    BY Zenon, <2>2 DEF IInv, ProposalInv, UpdateReject
<1>4. SlotInv'
  <2>1. \A ss, s : ValidSlots(ss, s) => ValidSlots(ss, s)'
    BY DEF ValidSlots, UpdateReject
  <2>. QED
    BY <2>1 DEF IInv, TypeOK, SlotInv, Stateful, Open, UpdateReject
<1>5. MessageInv'
  <2> DEFINE r == [type |-> "ChannelUpdateRejected", to |-> Other(i),
                   id |-> u.state.id, version |-> u.state.version]
  <2>0. msgs' \subseteq msgs \cup {r} /\ r.type = "ChannelUpdateRejected"
    <3>1. r.type = "ChannelUpdateRejected"
      OBVIOUS
    <3>. QED
      BY Zenon, <3>1 DEF UpdateReject, Broadcast
  <2> HIDE DEF r
  <2>1. \A m \in msgs' : m \in msgs \/ m.type = "ChannelUpdateRejected"
    BY Zenon, <2>0
  <2>2. \A m \in msgs' :
          m.type \in {"ChannelUpdate", "ChannelUpdateAccepted"} => m \in msgs
    BY <2>1
  <2>3. signed' = signed
    BY DEF UpdateReject
  <2>. QED
    BY <2>2, <2>3 DEF IInv, MessageInv
<1>6. SignedInv'
  BY DEF IInv, TypeOK, SignedInv, Open, UpdateReject, Broadcast
<1>7. PendingInv'
  BY DEF IInv, TypeOK, PendingInv, Open, UpdateReject, Broadcast
<1>8. RequestInv'
  BY Zenon DEF IInv, TypeOK, RequestInv, Valid, Open, UpdateReject, Broadcast
<1>. QED
  BY <1>1, <1>2, <1>3, <1>4, <1>5, <1>6, <1>7, <1>8 DEF IInv

\* UpdateParticipantAccepted preserves the inductive invariant.
LEMMA UpdateParticipantAcceptedStep ==
  ASSUME IInv, NEW i \in Idx, NEW u \in pending[i], NEW m \in Received(i, "ChannelUpdateAccepted"), UpdateParticipantAccepted(i, u, m)
  PROVE  IInv'
<1>a. m \in msgs /\ m.type = "ChannelUpdateAccepted" /\ m.sig \in Signatures
  BY MessageFields DEF IInv, TypeOK, Received
<1>b. u \in Updates /\ u.state \in State /\ u.sigs \in OptSignatures
  BY UpdateFields DEF IInv, TypeOK
<1>c. Other(i) \in Idx /\ m.sig.on = u.state /\ m.sig.by = Other(i)
  BY ConstantsAssumption DEF UpdateParticipantAccepted, recover_signer, Other, Idx
<1>d. m.sig = sign_eth(Other(i), u.state) /\ u.state \in signed[Other(i)]
  BY Zenon, <1>a, <1>c DEF IInv, MessageInv, sign_eth, Signatures
<1>1. TypeOK'
  <2>1. [u EXCEPT !.sigs[Other(i)] = m.sig] \in Updates
    BY <1>a, <1>b DEF Updates, OptSignatures, Other, Idx
  <2>. QED
    BY <2>1 DEF IInv, TypeOK, UpdateParticipantAccepted
<1>2. PhaseInv'
  BY DEF IInv, TypeOK, PhaseInv, Stateful, Open, UpdateParticipantAccepted
<1>3. ProposalInv'
  BY DEF IInv, TypeOK, ProposalInv, UpdateParticipantAccepted
<1>4. SlotInv'
  <2>1. ValidSlots(u.sigs, u.state) /\ ConservedState(u.state)
    BY DEF IInv, SlotInv
  <2>2. ValidSlots([u EXCEPT !.sigs[Other(i)] = m.sig].sigs, u.state)
    BY <1>b, <1>c, <1>d, <2>1 DEF ValidSlots, OptSignatures, Updates
  <2>3. \A ss, s : ValidSlots(ss, s) => ValidSlots(ss, s)'
    BY Zenon DEF ValidSlots, UpdateParticipantAccepted
  <2>4. phase' = phase /\ state' = state /\ sigs' = sigs
    BY DEF UpdateParticipantAccepted
  <2>5. [u EXCEPT !.sigs[Other(i)] = m.sig].state = u.state
    BY <1>b DEF Updates
  <2>6. \A j \in Idx : \A v \in pending'[j] :
          \/ v \in pending[j]
          \/ ValidSlots(v.sigs, v.state)' /\ ConservedState(v.state)
    <3>0. PICK w : w = [u EXCEPT !.sigs[Other(i)] = m.sig]
      OBVIOUS
    <3>1. ValidSlots(w.sigs, w.state)' /\ ConservedState(w.state)
      BY <2>1, <2>2, <2>3, <2>5, <3>0, Zenon
    <3>2. \A j \in Idx : \A v \in pending'[j] : v \in pending[j] \/ v = w
      BY <3>0 DEF IInv, TypeOK, UpdateParticipantAccepted
    <3>. QED
      BY <3>1, <3>2, Zenon
  <2>. QED
    BY <2>1, <2>3, <2>4, <2>5, <2>6 DEF IInv, SlotInv
<1>5. MessageInv'
  BY DEF IInv, TypeOK, MessageInv, UpdateParticipantAccepted
<1>6. SignedInv'
  BY DEF IInv, TypeOK, SignedInv, Open, UpdateParticipantAccepted
<1>7. PendingInv'
  BY <1>b DEF IInv, TypeOK, PendingInv, Open, UpdateParticipantAccepted, Updates
<1>8. RequestInv'
  BY Zenon DEF IInv, TypeOK, RequestInv, Valid, Open, UpdateParticipantAccepted
<1>. QED
  BY Zenon, <1>1, <1>2, <1>3, <1>4, <1>5, <1>6, <1>7, <1>8 DEF IInv

\* UpdateApply preserves the inductive invariant.
LEMMA UpdateApplyStep ==
  ASSUME IInv, NEW i \in Idx, NEW u \in pending[i], UpdateApply(i, u)
  PROVE  IInv'
<1>a. u.state \in State /\ u.sigs \in OptSignatures /\ u = [state |-> u.state, sigs |-> u.sigs]
  BY UpdateFields DEF IInv, TypeOK
<1>b. state[i] \in State /\ state[i].version \in Nat /\ u.state.version = state[i].version + 1
  BY StateFields DEF IInv, PhaseInv, Stateful, Open, UpdateApply, ensure_valid_channel
<1>c. \A k \in Idx : u.sigs[k] = sign_eth(k, u.state) /\ u.state \in signed[k]
  BY DEF IInv, SlotInv, ValidSlots, UpdateApply, AllSigned
<1>1. TypeOK'
  BY Zenon, <1>a, UpdateType DEF IInv, TypeOK, UpdateApply
<1>2. PhaseInv'
  BY <1>a DEF IInv, TypeOK, PhaseInv, SlotInv, Stateful, Open, UpdateApply
<1>3. ProposalInv'
  BY DEF IInv, TypeOK, ProposalInv, UpdateApply
<1>4. SlotInv'
  BY Zenon DEF IInv, TypeOK, SlotInv, ValidSlots, Stateful, Open, UpdateApply
<1>5. MessageInv'
  BY DEF IInv, TypeOK, MessageInv, UpdateApply
<1>6. SignedInv'
  BY <1>a, <1>b, StateFields DEF IInv, TypeOK, SignedInv, Open, UpdateApply
<1>7. PendingInv'
  <2>1. /\ phase' = phase /\ pending' = pending /\ state'[i] = u.state
        /\ \A j \in Idx : j # i => state'[j] = state[j]
    BY DEF IInv, TypeOK, UpdateApply
  <2>2. ASSUME NEW v \in pending[i]
        PROVE  /\ phase[i] \in Open /\ v.state.version > 0
               /\ v.state.version <= u.state.version
               /\ v.state.version # u.state.version + 1
    <3>1. /\ phase[i] \in Open /\ v.state.version > 0
          /\ v.state.version <= state[i].version + 1
      BY DEF IInv, PendingInv
    <3>2. v.state.version \in Nat /\ u.state.version \in Nat
      BY <1>a, StateFields, UpdateFields DEF IInv, TypeOK
    <3>. QED
      BY <1>b, <3>1, <3>2
  <2>3. u.state.version \in Nat
    BY <1>a, StateFields
  <2>4. ASSUME NEW v \in pending[i]
        PROVE  v.state.version <= u.state.version + 1
    <3>1. v.state.version \in Nat
      BY StateFields, UpdateFields DEF IInv, TypeOK
    <3>. QED
      BY <2>2, <2>3, <3>1
  <2>. QED
    BY <2>1, <2>2, <2>4, Zenon DEF IInv, PendingInv
<1>8. RequestInv'
  <2>1. Valid(u)
    BY <1>c DEF Valid
  <2>2. \A r \in watcher[i] : r.state.version <= u.state.version
    <3>1. \A r \in watcher[i] : r.state.version \in Nat
      BY StateFields DEF IInv, TypeOK, WatchRequests
    <3>2. \A r \in watcher[i] : r.state.version <= state[i].version
      BY Zenon DEF IInv, RequestInv
    <3>. QED
      BY <1>b, <3>1, <3>2
  <2>3. u.state.version <= u.state.version
    BY <1>b
  <2>. QED
    BY Zenon, <1>a, <2>1, <2>2, <2>3 DEF IInv, TypeOK, RequestInv, Open, UpdateApply
<1>. QED
  BY <1>1, <1>2, <1>3, <1>4, <1>5, <1>6, <1>7, <1>8 DEF IInv

\* AbandonUpdate preserves the inductive invariant.
LEMMA AbandonUpdateStep ==
  ASSUME IInv, NEW i \in Idx, NEW u \in pending[i], AbandonUpdate(i, u)
  PROVE  IInv'
<1>1. TypeOK'
  BY DEF IInv, TypeOK, AbandonUpdate
<1>2. PhaseInv'
  BY DEF IInv, TypeOK, PhaseInv, Stateful, Open, AbandonUpdate
<1>3. ProposalInv'
  BY DEF IInv, TypeOK, ProposalInv, AbandonUpdate
<1>4. SlotInv'
  BY DEF IInv, TypeOK, SlotInv, ValidSlots, Stateful, Open, AbandonUpdate
<1>5. MessageInv'
  BY Zenon DEF IInv, TypeOK, MessageInv, AbandonUpdate
<1>6. SignedInv'
  BY DEF IInv, TypeOK, SignedInv, Open, AbandonUpdate
<1>7. PendingInv'
  BY DEF IInv, TypeOK, PendingInv, Open, AbandonUpdate
<1>8. RequestInv'
  BY Zenon DEF IInv, TypeOK, RequestInv, Valid, Open, AbandonUpdate
<1>. QED
  BY <1>1, <1>2, <1>3, <1>4, <1>5, <1>6, <1>7, <1>8 DEF IInv

\* SendCurrentStateToWatcher preserves the inductive invariant.
LEMMA SendCurrentStateToWatcherStep ==
  ASSUME IInv, NEW i \in Idx, SendCurrentStateToWatcher(i)
  PROVE  IInv'
<1>a. state[i] \in State /\ \A k \in Idx : sigs[i][k] = sign_eth(k, state[i])
  BY DEF IInv, PhaseInv, SlotInv, ValidSlots, Stateful, Open, AllSigned,
     SendCurrentStateToWatcher
<1>1. TypeOK'
  <2>1. [state |-> state[i], sigs |-> sigs[i]] \in WatchRequests
    BY Zenon, <1>a, UpdateType DEF IInv, TypeOK
  <2>. QED
    BY <2>1 DEF IInv, TypeOK, SendCurrentStateToWatcher
<1>2. PhaseInv'
  BY DEF IInv, TypeOK, PhaseInv, Stateful, Open, SendCurrentStateToWatcher
<1>3. ProposalInv'
  BY Zenon DEF IInv, TypeOK, ProposalInv, SendCurrentStateToWatcher
<1>4. SlotInv'
  BY Zenon DEF IInv, TypeOK, SlotInv, ValidSlots, Stateful, Open, SendCurrentStateToWatcher
<1>5. MessageInv'
  BY DEF IInv, TypeOK, MessageInv, SendCurrentStateToWatcher
<1>6. SignedInv'
  BY DEF IInv, TypeOK, SignedInv, Open, SendCurrentStateToWatcher
<1>7. PendingInv'
  BY DEF IInv, TypeOK, PendingInv, Open, SendCurrentStateToWatcher
<1>8. RequestInv'
  BY Zenon, <1>a DEF IInv, TypeOK, RequestInv, Valid, Open, SendCurrentStateToWatcher
<1>. QED
  BY <1>1, <1>2, <1>3, <1>4, <1>5, <1>6, <1>7, <1>8 DEF IInv

\* ForceClose preserves the inductive invariant.
LEMMA ForceCloseStep ==
  ASSUME IInv, NEW i \in Idx, ForceClose(i)
  PROVE  IInv'
<1>a. state[i] \in State /\ \A k \in Idx : sigs[i][k] = sign_eth(k, state[i])
  BY DEF IInv, PhaseInv, SlotInv, ValidSlots, Stateful, Open, AllSigned, ForceClose,
     Adjudicate
<1>1. TypeOK'
  <2>1. [type |-> "RegisterReq", state |-> state[i], sigs |-> sigs[i]] \in FunderRequests
    BY Zenon, <1>a, UpdateType DEF IInv, TypeOK
  <2>. QED
    BY <2>1 DEF IInv, TypeOK, ForceClose, Adjudicate
<1>2. PhaseInv'
  BY DEF IInv, TypeOK, PhaseInv, Stateful, Open, ForceClose, Adjudicate
<1>3. ProposalInv'
  BY DEF IInv, TypeOK, ProposalInv, ForceClose, Adjudicate
<1>4. SlotInv'
  BY DEF IInv, TypeOK, SlotInv, ValidSlots, Stateful, Open, ForceClose, Adjudicate
<1>5. MessageInv'
  BY Zenon DEF IInv, TypeOK, MessageInv, ForceClose, Adjudicate
<1>6. SignedInv'
  BY DEF IInv, TypeOK, SignedInv, Open, ForceClose, Adjudicate
<1>7. PendingInv'
  BY DEF IInv, TypeOK, PendingInv, Open, ForceClose, Adjudicate
<1>8. RequestInv'
  <2>1. Valid([type |-> "RegisterReq", state |-> state[i], sigs |-> sigs[i]])
    BY <1>a DEF Valid
  <2>. QED
    BY Zenon, <2>1 DEF IInv, TypeOK, RequestInv, Open, ForceClose, Adjudicate
<1>. QED
  BY <1>1, <1>2, <1>3, <1>4, <1>5, <1>6, <1>7, <1>8 DEF IInv

\* Withdraw preserves the inductive invariant.
LEMMA WithdrawStep ==
  ASSUME IInv, NEW i \in Idx, Withdraw(i)
  PROVE  IInv'
<1>a. state[i] \in State /\ \A k \in Idx : sigs[i][k] = sign_eth(k, state[i])
  BY DEF IInv, PhaseInv, SlotInv, ValidSlots, Stateful, Open, AllSigned, Withdraw,
     Adjudicate
<1>1. TypeOK'
  <2>1. [type |-> "WithdrawReq", state |-> state[i], sigs |-> sigs[i]] \in FunderRequests
    BY Zenon, <1>a, UpdateType DEF IInv, TypeOK
  <2>. QED
    BY <2>1 DEF IInv, TypeOK, Withdraw, Adjudicate
<1>2. PhaseInv'
  BY DEF IInv, TypeOK, PhaseInv, Stateful, Open, Withdraw, Adjudicate
<1>3. ProposalInv'
  BY DEF IInv, TypeOK, ProposalInv, Withdraw, Adjudicate
<1>4. SlotInv'
  BY DEF IInv, TypeOK, SlotInv, ValidSlots, Stateful, Open, Withdraw, Adjudicate
<1>5. MessageInv'
  BY Zenon DEF IInv, TypeOK, MessageInv, Withdraw, Adjudicate
<1>6. SignedInv'
  BY DEF IInv, TypeOK, SignedInv, Open, Withdraw, Adjudicate
<1>7. PendingInv'
  BY DEF IInv, TypeOK, PendingInv, Open, Withdraw, Adjudicate
<1>8. RequestInv'
  <2>1. Valid([type |-> "WithdrawReq", state |-> state[i], sigs |-> sigs[i]])
    BY <1>a DEF Valid
  <2>. QED
    BY Zenon, <2>1 DEF IInv, TypeOK, RequestInv, Open, Withdraw, Adjudicate
<1>. QED
  BY <1>1, <1>2, <1>3, <1>4, <1>5, <1>6, <1>7, <1>8 DEF IInv

\* HandleDispute preserves the inductive invariant.
LEMMA HandleDisputeStep ==
  ASSUME IInv, NEW i \in Idx, HandleDispute(i)
  PROVE  IInv'
<1>1. TypeOK'
  BY DEF IInv, TypeOK, HandleDispute, Phases
<1>2. PhaseInv'
  BY DEF IInv, TypeOK, PhaseInv, Stateful, Open, HandleDispute
<1>3. ProposalInv'
  BY DEF IInv, TypeOK, ProposalInv, HandleDispute
<1>4. SlotInv'
  BY DEF IInv, TypeOK, SlotInv, ValidSlots, Stateful, Open, HandleDispute
<1>5. MessageInv'
  BY Zenon DEF IInv, TypeOK, MessageInv, HandleDispute
<1>6. SignedInv'
  BY DEF IInv, TypeOK, SignedInv, Open, HandleDispute
<1>7. PendingInv'
  BY DEF IInv, TypeOK, PendingInv, Open, HandleDispute
<1>8. RequestInv'
  BY DEF IInv, TypeOK, RequestInv, Valid, Open, HandleDispute
<1>. QED
  BY <1>1, <1>2, <1>3, <1>4, <1>5, <1>6, <1>7, <1>8 DEF IInv

\* UpdatePanics preserves the inductive invariant.
LEMMA UpdatePanicsStep ==
  ASSUME IInv, NEW i \in Idx, NEW new, UpdatePanics(i, new)
  PROVE  IInv'
<1>1. TypeOK'
  BY DEF IInv, TypeOK, UpdatePanics, Phases
<1>2. PhaseInv'
  BY DEF IInv, TypeOK, PhaseInv, Stateful, Open, UpdatePanics
<1>3. ProposalInv'
  BY DEF IInv, TypeOK, ProposalInv, UpdatePanics
<1>4. SlotInv'
  BY DEF IInv, TypeOK, SlotInv, ValidSlots, Stateful, Open, UpdatePanics
<1>5. MessageInv'
  BY Zenon DEF IInv, TypeOK, MessageInv, UpdatePanics
<1>6. SignedInv'
  BY DEF IInv, TypeOK, SignedInv, Open, UpdatePanics
<1>7. PendingInv'
  BY DEF IInv, TypeOK, PendingInv, Open, UpdatePanics
<1>8. RequestInv'
  BY DEF IInv, TypeOK, RequestInv, Valid, Open, UpdatePanics
<1>. QED
  BY <1>1, <1>2, <1>3, <1>4, <1>5, <1>6, <1>7, <1>8 DEF IInv

\* make_next_state and the application's choice of outcome and finality give a
\* state while the version counter has room.
LEMMA NextStateType ==
  ASSUME NEW s \in State, s.version < MaxVersion
  PROVE  /\ [make_next_state(s) EXCEPT !.is_final = TRUE] \in State
         /\ \A a \in Assets, b \in Balances, f \in BOOLEAN :
              [make_next_state(s) EXCEPT !.asset = a, !.bal = b, !.is_final = f] \in State
<1>1. s.version + 1 \in 0..MaxVersion
  BY StateFields, ConstantsAssumption
<1>2. make_next_state(s) \in State
  BY <1>1 DEF State, make_next_state
<1>3. \A t \in State : [t EXCEPT !.is_final = TRUE] \in State
  BY Zenon DEF State
<1>4. \A t \in State : \A a \in Assets, b \in Balances, f \in BOOLEAN :
        [t EXCEPT !.asset = a, !.bal = b, !.is_final = f] \in State
  BY Zenon DEF State
<1>. QED
  BY Zenon, <1>2, <1>3, <1>4

\* An application's own next state is a state, as Update has checked it.
LEMMA UpdateNextStep ==
  ASSUME IInv, NEW i \in Idx, NEW a \in Assets, NEW b \in Balances, NEW f \in BOOLEAN,
         Update(i, NextState(i, a, b, f))
  PROVE  IInv'
<1>1. phase[i] = "Active" /\ state[i].version < MaxVersion
  BY DEF Update, check_valid_transition
<1>2. state[i] \in State
  BY <1>1 DEF IInv, PhaseInv, Stateful, Open
<1>3. NextState(i, a, b, f) \in State
  BY Zenon, <1>1, <1>2, NextStateType DEF NextState
<1>. QED
  BY <1>3, UpdateStep

\* So is the final state close_normal proposes.
LEMMA CloseNormalStep ==
  ASSUME IInv, NEW i \in Idx, CloseNormal(i)
  PROVE  IInv'
<1>1. phase[i] = "Active" /\ state[i].version < MaxVersion
  BY DEF CloseNormal, Update, check_valid_transition
<1>2. state[i] \in State
  BY <1>1 DEF IInv, PhaseInv, Stateful, Open
<1>3. [make_next_state(state[i]) EXCEPT !.is_final = TRUE] \in State
  BY Zenon, <1>1, <1>2, NextStateType
<1>. QED
  BY <1>3, UpdateStep DEF CloseNormal

\* Any of them preserves the invariant.
LEMMA UpdatingInv ==
  ASSUME IInv, NEW i \in Idx, Updating(i)
  PROVE  IInv'
<1>1. ASSUME NEW u \in pending[i],
             \/ UpdateAccept(i, u)
             \/ UpdateReject(i, u)
             \/ \E m \in Received(i, "ChannelUpdateAccepted") :
                  UpdateParticipantAccepted(i, u, m)
             \/ UpdateApply(i, u)
             \/ AbandonUpdate(i, u)
      PROVE  IInv'
  BY <1>1, UpdateAcceptStep, UpdateRejectStep, UpdateParticipantAcceptedStep,
     UpdateApplyStep, AbandonUpdateStep
<1>. QED
  BY <1>1, UpdateNextStep, CloseNormalStep, HandleUpdateStep,
     SendCurrentStateToWatcherStep, ForceCloseStep, WithdrawStep, HandleDisputeStep,
     UpdatePanicsStep
     DEF Updating

-----------------------------------------------------------------------------
(***************************************************************************)
(* The invariant holds initially and after every step                      *)
(***************************************************************************)
\* Nothing is held, signed or sent before the first operation.
LEMMA InitInv == Init => IInv
<1> SUFFICES ASSUME Init PROVE IInv
  OBVIOUS
<1>1. TypeOK
  BY DEF Init, TypeOK, Phases, NoSignatures, OptSignatures
<1>. QED
  BY Zenon, <1>1 DEF Init, IInv, PhaseInv, ProposalInv, SlotInv, MessageInv, SignedInv,
     PendingInv, RequestInv, Stateful, Open

\* Every step preserves the invariant.
LEMMA NextInv == IInv /\ [Next]_vars => IInv'
<1> SUFFICES ASSUME IInv, [Next]_vars PROVE IInv'
  OBVIOUS
<1>1. CASE UNCHANGED vars
  <2>. USE <1>1 DEF vars
  <2>1. TypeOK' /\ PhaseInv' /\ ProposalInv' /\ MessageInv'
    BY Zenon DEF IInv, TypeOK, PhaseInv, ProposalInv, MessageInv
  <2>2. SlotInv' /\ SignedInv' /\ PendingInv' /\ RequestInv'
    BY Zenon DEF IInv, SlotInv, ValidSlots, SignedInv, PendingInv, RequestInv
  <2>. QED
    BY <2>1, <2>2 DEF IInv
<1>. QED
  BY <1>1, OpeningInv, UpdatingInv DEF Next

\* IInv is an invariant of the library, whatever the applications do.
THEOREM Invariant == Spec => []IInv
<1>. QED
  BY InitInv, NextInv, PTL DEF Spec

-----------------------------------------------------------------------------
(***************************************************************************)
(* Consequences                                                            *)
(***************************************************************************)
\* The fields of a channel object and all messages keep their types.
THEOREM TypeCorrect == Spec => []TypeOK
<1>1. IInv => TypeOK
  BY DEF IInv
<1>. QED
  BY <1>1, Invariant, PTL

\* The state of a signed channel: a state, with a valid signature of everyone.
LEMMA HeldState ==
  ASSUME IInv, NEW i \in Idx, phase[i] \in Open
  PROVE  /\ state[i] \in State
         /\ ConservedState(state[i])
         /\ \A k \in Idx : sigs[i][k] = sign_eth(k, state[i]) /\ state[i] \in signed[k]
<1>1. phase[i] \in Stateful
  BY DEF Stateful
<1>2. state[i] \in State /\ ConservedState(state[i]) /\ AllSigned(sigs[i])
  BY <1>1 DEF IInv, PhaseInv
<1>. QED
  BY <1>1, <1>2 DEF IInv, SlotInv, ValidSlots, AllSigned

\* A signed channel always carries both participants' signatures on exactly the
\* state it holds, however proposals, updates and answers were interleaved.
THEOREM AlwaysFullySigned == Spec => []FullySigned
<1>1. IInv => FullySigned
  BY HeldState DEF FullySigned
<1>. QED
  BY <1>1, Invariant, PTL

\* The participants' versions differ by at most one.
THEOREM AlwaysVersionGap == Spec => []VersionGap
<1>1. ASSUME IInv, NEW i \in Idx, phase[i] \in Open, phase[Other(i)] \in Open
      PROVE  state[i].version <= state[Other(i)].version + 1
  <2>1. Other(i) \in Idx
    BY DEF Other, Idx
  <2>2. state[i] \in signed[Other(i)]
    BY <1>1, <2>1, HeldState
  <2>. QED
    BY <1>1, <2>1, <2>2 DEF IInv, SignedInv
<1>2. IInv => VersionGap
  BY <1>1 DEF VersionGap
<1>. QED
  BY <1>2, Invariant, PTL

\* Nobody gets past a final state the other one holds.
THEOREM AlwaysNothingAfterFinal == Spec => []NothingAfterFinal
<1>1. ASSUME IInv, NEW i \in Idx, phase[i] \in Open, phase[Other(i)] \in Open,
             state[i].is_final
      PROVE  state[Other(i)].version <= state[i].version
  <2>1. Other(i) \in Idx
    BY DEF Other, Idx
  <2>2. state[Other(i)] \in signed[i]
    BY <1>1, <2>1, HeldState
  <2>3. state[i].version \in Nat /\ state[Other(i)].version \in Nat
    BY <1>1, <2>1, HeldState, StateFields
  <2>4. /\ state[Other(i)].version <= state[i].version + 1
        /\ state[Other(i)].version # state[i].version + 1
    BY <1>1, <2>2 DEF IInv, SignedInv
  <2>. QED
    BY <2>3, <2>4
<1>2. IInv => NothingAfterFinal
  BY <1>1 DEF NothingAfterFinal
<1>. QED
  BY <1>2, Invariant, PTL

\* Asset and total are those of the proposal.
THEOREM AlwaysConserved == Spec => []Conservation
<1>1. IInv => Conservation
  BY HeldState DEF Conservation, ConservedState, Proper
<1>. QED
  BY <1>1, Invariant, PTL

\* The watcher has the held state, and nothing newer.
THEOREM AlwaysWatcherCurrent == Spec => []WatcherCurrent
<1>1. IInv => WatcherCurrent
  BY DEF IInv, RequestInv, WatcherCurrent
<1>. QED
  BY <1>1, Invariant, PTL

\* What is submitted on-chain is fully signed.
THEOREM AlwaysSubmittedSigned == Spec => []SubmittedSigned
<1>1. ASSUME IInv, NEW i \in Idx, NEW r \in Submitted(i)
      PROVE  Valid(r)
  <2>1. CASE r \in watcher[i]
    BY Zenon, <1>1, <2>1 DEF IInv, RequestInv
  <2>2. CASE \E q \in funder[i] : q.type # "FundReq" /\ r = [state |-> q.state, sigs |-> q.sigs]
    <3>1. PICK q \in funder[i] : q.type # "FundReq" /\ r = [state |-> q.state, sigs |-> q.sigs]
      BY <2>2
    <3>2. Valid(q)
      BY Zenon, <1>1, <3>1 DEF IInv, RequestInv
    <3>. QED
      BY <3>1, <3>2 DEF Valid
  <2>. QED
    BY <2>1, <2>2 DEF Submitted
<1>2. IInv => SubmittedSigned
  BY <1>1 DEF SubmittedSigned, Valid
<1>. QED
  BY <1>2, Invariant, PTL

\* UpdateApply is the only operation that replaces the state of an open channel.
LEMMA StateChange ==
  ASSUME IInv, NEW i \in Idx, Opening(i) \/ Updating(i),
         NEW j \in Idx, phase[j] \in Open, state'[j] # state[j]
  PROVE  i = j /\ \E u \in pending[i] : UpdateApply(i, u)
<1>. USE DEF Open
<1>1. CASE UNCHANGED state
  BY <1>1
<1>2. CASE ProposedReject(i) \/ ProposedBuild(i) \/ AbandonChannel(i)
  BY <1>2 DEF IInv, TypeOK, ProposedReject, ProposedBuild, AbandonChannel, Forget
<1>3. CASE \E u \in pending[i] : UpdateApply(i, u)
  BY Zenon, <1>3 DEF IInv, TypeOK, UpdateApply
<1>4. CASE Opening(i)
  BY Zenon, <1>1, <1>2, <1>4 DEF Opening, ProposeChannel, HandleProposal, ProposedAccept,
     ProposedAcceptOwn, ProposedParticipantAccepted, AgreedSign, AgreedAddSignature,
     AgreedBuild, MarkFunded
<1>5. CASE Updating(i)
  BY Zenon, <1>1, <1>3, <1>5 DEF Updating, Update, UpdatePanics, CloseNormal, HandleUpdate, UpdateAccept,
     UpdateReject, UpdateParticipantAccepted, AbandonUpdate,
     SendCurrentStateToWatcher, ForceClose, Withdraw, Adjudicate, HandleDispute
<1>. QED
  BY <1>4, <1>5

\* An open channel moves one version at a time, and never from a final state.
THEOREM AlwaysForward == Spec => OnlyForward
<1>1. ASSUME IInv, [Next]_vars, NEW j \in Idx, phase[j] \in Open, state'[j] # state[j]
      PROVE  state'[j].version = state[j].version + 1 /\ ~ state[j].is_final
  <2>1. CASE UNCHANGED vars
    BY <1>1, <2>1 DEF vars
  <2>2. CASE Next
    <3>1. PICK u \in pending[j] : UpdateApply(j, u)
      BY <1>1, <2>2, StateChange DEF Next
    <3>2. state'[j] = u.state /\ u.state.version = state[j].version + 1
      BY <1>1, <3>1 DEF IInv, TypeOK, UpdateApply, ensure_valid_channel
    <3>. QED
      BY <1>1, <3>2 DEF IInv, PendingInv
  <2>. QED
    BY <1>1, <2>1, <2>2
<1>2. IInv /\ [Next]_vars =>
        [\A i \in Idx : phase[i] \in Open /\ state'[i] # state[i] =>
           /\ state'[i].version = state[i].version + 1
           /\ ~ state[i].is_final]_vars
  BY <1>1
<1>. QED
  BY <1>2, Invariant, PTL DEF Spec, OnlyForward
=============================================================================
