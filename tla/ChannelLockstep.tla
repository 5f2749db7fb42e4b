-------------------------- MODULE ChannelLockstep ---------------------------
(***************************************************************************)
(* Applications that never accept two states of one version cannot fork    *)
(* the channel, and the library then implements LockstepChannel.  What is  *)
(* fully signed was accepted by somebody, and an acceptance is a second    *)
(* signature: whoever would accept another state of that version has       *)
(* signed the first one already.                                           *)
(***************************************************************************)
EXTENDS ChannelProofs

(***************************************************************************)
(* Where channel ids come from: what each side signs goes back to an       *)
(* answered proposal, and a channel one side has given up cannot come back *)
(* on the other side.  This is why two signed channel objects belong to    *)
(* one channel, although openings are abandoned and messages delayed.      *)
(***************************************************************************)
\* Typestates with a channel object that is still in use
Live == Stateful \cup {"Proposed"}

ProposalSent(p) == \E m \in msgs : m.type = "ChannelProposal" /\ m.proposal_id = p

AnswerSent(p, n) ==
  \E m \in msgs : m.type = "ProposalAccepted" /\ m.proposal_id = p /\ m.nonce_share = n

\* Participant 1 answers, and only what was proposed.
AnswerInv ==
  \A m \in msgs : m.type = "ProposalAccepted" => m.to = 0 /\ ProposalSent(m.proposal_id)

\* A channel object belongs to the proposal and the answer it was made from.
ObjectInv ==
  \A i \in Idx :
    /\ phase[i] = "None" => resp[i] = None
    /\ phase[i] \in Live => prop[i] \in ProposalIds /\ ProposalSent(prop[i])
    /\ phase[i] \in Live /\ resp[i] # None => AnswerSent(prop[i], resp[i])
    /\ phase[i] \in Stateful => /\ resp[i] \in Nonces
                                /\ state[i].id = [proposal |-> prop[i], nonce |-> resp[i]]
    /\ phase[i] = "AgreedUpon" => state[i] = NewState(prop[i], resp[i])

\* Everything signed is in a channel participant 1 has answered to.
SignedIdInv == \A i \in Idx : \A s \in signed[i] : AnswerSent(s.id.proposal, s.id.nonce)

\* The proposer takes one answer to a proposal. A state it signed for an earlier
\* proposal is not in the channel participant 1 is in, once that one has answered
\* the proposer's present proposal.
ProposerInv ==
  phase[0] \in Live =>
    \A s \in signed[0] :
      /\ s.id.proposal = prop[0] => s.id.nonce = resp[0]
      /\ s.id.proposal # prop[0] /\ phase[1] \in Live /\ s.id.nonce = resp[1] =>
           \A n \in Nonces : ~ AnswerSent(prop[0], n)

OriginInv == AnswerInv /\ ObjectInv /\ SignedIdInv /\ ProposerInv

-----------------------------------------------------------------------------
\* Messages are never taken back.
LEMMA SentStays ==
  ASSUME msgs \subseteq msgs'
  PROVE  /\ \A p : ProposalSent(p) => ProposalSent(p)'
         /\ \A p, n : AnswerSent(p, n) => AnswerSent(p, n)'
BY DEF ProposalSent, AnswerSent

\* A state's id is determined by its proposal and its nonce share.
LEMMA IdFields ==
  ASSUME NEW s \in State
  PROVE  /\ s.id.proposal \in ProposalIds
         /\ s.id.nonce \in Nonces
         /\ s.id = [proposal |-> s.id.proposal, nonce |-> s.id.nonce]
BY DEF State, ChannelIds

\* A channel object is in the channel of its proposal and answer.
LEMMA ObjectIds ==
  ASSUME ObjectInv, NEW j \in Idx, phase[j] \in Stateful
  PROVE  /\ phase[j] \in Live /\ resp[j] \in Nonces
         /\ state[j].id.proposal = prop[j] /\ state[j].id.nonce = resp[j]
         /\ AnswerSent(prop[j], resp[j])
<1>1. phase[j] \in Live
  BY DEF Live
<1>2. resp[j] \in Nonces /\ state[j].id = [proposal |-> prop[j], nonce |-> resp[j]]
  BY DEF ObjectInv
<1>3. resp[j] # None
  BY <1>2, NoneAssumption
<1>4. AnswerSent(prop[j], resp[j])
  BY <1>1, <1>3 DEF ObjectInv
<1>. QED
  BY <1>1, <1>2, <1>4

\* Steps that answer no proposal, start no channel object and sign only states of
\* the channel the signer is in: everything from AgreedUponChannel on.
LEMMA QuietStep ==
  ASSUME OriginInv, UNCHANGED <<prop, resp>>, msgs \subseteq msgs',
         \A m \in msgs' : m.type = "ProposalAccepted" => m \in msgs,
         \A j \in Idx :
           /\ phase'[j] = "None" => phase[j] = "None"
           /\ phase'[j] \in Live => phase[j] \in Live
           /\ phase'[j] \in Stateful => phase[j] \in Stateful /\ state'[j].id = state[j].id
           /\ phase'[j] = "AgreedUpon" => phase[j] = "AgreedUpon" /\ state'[j] = state[j]
           /\ \A s \in signed'[j] : s \in signed[j] \/ (phase[j] \in Stateful /\ s.id = state[j].id)
  PROVE  OriginInv'
<1>. USE DEF OriginInv
<1>1. /\ \A p : ProposalSent(p) => ProposalSent(p)'
      /\ \A p, n : AnswerSent(p, n) => AnswerSent(p, n)'
  BY SentStays
<1>2. \A p, n : AnswerSent(p, n)' => AnswerSent(p, n)
  BY DEF AnswerSent
<1>3. \A j \in Idx : phase[j] \in Stateful =>
        /\ phase[j] \in Live /\ resp[j] \in Nonces
        /\ state[j].id.proposal = prop[j] /\ state[j].id.nonce = resp[j]
        /\ AnswerSent(prop[j], resp[j])
  BY ObjectIds
<1>4. AnswerInv'
  BY <1>1 DEF AnswerInv
<1>5. ObjectInv'
  BY <1>1 DEF ObjectInv
<1>6. SignedIdInv'
  BY <1>1, <1>3 DEF SignedIdInv
<1>7. ProposerInv'
  <2>. SUFFICES ASSUME phase'[0] \in Live, NEW s \in signed'[0]
       PROVE  /\ s.id.proposal = prop[0] => s.id.nonce = resp[0]
              /\ s.id.proposal # prop[0] /\ phase'[1] \in Live /\ s.id.nonce = resp[1] =>
                   \A n \in Nonces : ~ AnswerSent(prop[0], n)
    BY <1>2 DEF ProposerInv
  <2>1. 0 \in Idx /\ 1 \in Idx
    BY DEF Idx
  <2>2. CASE s \in signed[0]
    BY <2>1, <2>2 DEF ProposerInv
  <2>3. CASE phase[0] \in Stateful /\ s.id = state[0].id
    BY <1>3, <2>1, <2>3
  <2>. QED
    BY <2>1, <2>2, <2>3
<1>. QED
  BY <1>4, <1>5, <1>6, <1>7

\* A fresh proposal: nothing was answered or signed for it.
LEMMA ProposeChannelOrigin ==
  ASSUME IInv, OriginInv, NEW i \in Idx, NEW p \in ProposalIds, ProposeChannel(i, p)
  PROVE  OriginInv'
<1>. USE DEF OriginInv
<1>. DEFINE new == [type |-> "ChannelProposal", to |-> Other(i), proposal_id |-> p]
<1>a. /\ i = 0 /\ phase[0] = "None" /\ 0 \in Idx
      /\ ~ ProposalSent(p)
      /\ phase'[0] = "Proposed" /\ prop'[0] = p
      /\ phase'[1] = phase[1] /\ prop'[1] = prop[1]
      /\ UNCHANGED <<resp, state, signed>>
  BY DEF IInv, TypeOK, ProposeChannel, ProposalSent, Idx
<1>b. /\ msgs \subseteq msgs' /\ ProposalSent(p)'
      /\ \A m \in msgs' : m.type = "ProposalAccepted" => m \in msgs
  <2>1. msgs' = msgs \cup {new}
    BY <1>a DEF ProposeChannel, Broadcast
  <2>2. new \in msgs' /\ new.type = "ChannelProposal" /\ new.proposal_id = p
    BY <2>1
  <2>. QED
    BY <2>1, <2>2 DEF ProposalSent
<1>1. /\ \A q : ProposalSent(q) => ProposalSent(q)'
      /\ \A q, n : AnswerSent(q, n) => AnswerSent(q, n)'
  BY <1>b, SentStays
<1>2. \A q, n : AnswerSent(q, n)' => AnswerSent(q, n)
  BY <1>b DEF AnswerSent
<1>3. \A n : ~ AnswerSent(p, n)
  BY <1>a DEF AnswerInv, AnswerSent
<1>4. AnswerInv'
  BY <1>b, <1>1 DEF AnswerInv
<1>5. ObjectInv'
  BY <1>a, <1>b, <1>1 DEF ObjectInv, Live, Stateful, Open, Idx
<1>6. SignedIdInv'
  BY <1>a, <1>1 DEF SignedIdInv
<1>7. ProposerInv'
  BY <1>a, <1>2, <1>3 DEF ProposerInv, SignedIdInv
<1>. QED
  BY <1>4, <1>5, <1>6, <1>7

\* A received proposal: the new object has no answer yet.
LEMMA HandleProposalOrigin ==
  ASSUME IInv, OriginInv, NEW i \in Idx, NEW m \in Received(i, "ChannelProposal"),
         HandleProposal(i, m)
  PROVE  OriginInv'
<1>. USE DEF OriginInv
<1>a. /\ i = 1 /\ phase[1] = "None" /\ 1 \in Idx
      /\ m \in msgs /\ m.type = "ChannelProposal"
      /\ phase'[1] = "Proposed" /\ prop'[1] = m.proposal_id
      /\ phase'[0] = phase[0] /\ prop'[0] = prop[0]
      /\ UNCHANGED <<resp, state, signed, msgs>>
  BY DEF IInv, TypeOK, HandleProposal, Received, Idx
<1>b. m.proposal_id \in ProposalIds
  BY <1>a, MessageFields DEF IInv, TypeOK
<1>1. /\ \A q : ProposalSent(q)' <=> ProposalSent(q)
      /\ \A q, n : AnswerSent(q, n)' <=> AnswerSent(q, n)
  BY <1>a DEF ProposalSent, AnswerSent
<1>2. ProposalSent(m.proposal_id)
  BY <1>a DEF ProposalSent
<1>3. resp[1] = None
  BY <1>a DEF ObjectInv
<1>4. AnswerInv'
  BY <1>a, <1>1 DEF AnswerInv
<1>5. ObjectInv'
  BY <1>a, <1>b, <1>1, <1>2, <1>3 DEF ObjectInv, Live, Stateful, Open, Idx
<1>6. SignedIdInv'
  BY <1>a, <1>1 DEF SignedIdInv
<1>7. ProposerInv'
  <2>1. \A s \in signed[0] : s.id.nonce # None
    BY IdFields, NoneAssumption DEF IInv, TypeOK, Idx
  <2>. QED
    BY <1>a, <1>1, <1>3, <2>1 DEF ProposerInv
<1>. QED
  BY <1>4, <1>5, <1>6, <1>7

\* An answer draws a fresh nonce share: nothing was signed for it.
LEMMA ProposedAcceptOrigin ==
  ASSUME IInv, OriginInv, NEW i \in Idx, NEW n \in Nonces, ProposedAccept(i, n)
  PROVE  OriginInv'
<1>. USE DEF OriginInv
<1>. DEFINE new == [type |-> "ProposalAccepted", to |-> Other(i),
                    proposal_id |-> prop[i], nonce_share |-> n]
<1>a. /\ i = 1 /\ phase[1] = "Proposed" /\ 1 \in Idx
      /\ resp'[1] = n /\ resp'[0] = resp[0]
      /\ UNCHANGED <<phase, prop, state, signed>>
  BY DEF IInv, TypeOK, ProposedAccept, Idx
<1>b. \A q : ~ AnswerSent(q, n)
  BY DEF ProposedAccept, AnswerSent
<1>c. msgs' = msgs \cup {new} /\ Other(i) = 0
  BY <1>a DEF ProposedAccept, Broadcast, Other
<1>1. /\ \A q : ProposalSent(q) => ProposalSent(q)'
      /\ \A q, k : AnswerSent(q, k) => AnswerSent(q, k)'
  BY <1>c, SentStays
<1>2. AnswerSent(prop[1], n)' /\ \A q, k : AnswerSent(q, k)' => AnswerSent(q, k) \/ k = n
  <2>1. /\ new \in msgs' /\ new.type = "ProposalAccepted"
        /\ new.proposal_id = prop[1] /\ new.nonce_share = n
    BY <1>a, <1>c
  <2>2. AnswerSent(prop[1], n)'
    BY <1>a, <2>1 DEF AnswerSent
  <2>3. \A m \in msgs' : m \in msgs \/ m.nonce_share = n
    BY <1>c
  <2>4. \A q, k : AnswerSent(q, k)' => AnswerSent(q, k) \/ k = n
    BY <2>3 DEF AnswerSent
  <2>. QED
    BY <2>2, <2>4
<1>3. ProposalSent(prop[1])
  BY <1>a DEF ObjectInv, Live
<1>4. AnswerInv'
  BY <1>a, <1>c, <1>1, <1>3 DEF AnswerInv
<1>5. ObjectInv'
  BY <1>a, <1>1, <1>2 DEF ObjectInv, Live, Stateful, Open, Idx
<1>6. SignedIdInv'
  BY <1>a, <1>1 DEF SignedIdInv
<1>7. ProposerInv'
  <2>1. \A s \in signed[0] : s.id.nonce # n
    BY <1>b DEF SignedIdInv, Idx
  <2>. QED
    BY <1>a, <2>1 DEF ProposerInv
<1>. QED
  BY <1>4, <1>5, <1>6, <1>7

\* A channel object that is given up: what was signed for it stays.
LEMMA ForgetOrigin ==
  ASSUME IInv, OriginInv, NEW i \in Idx, Forget(i), msgs \subseteq msgs',
         \A m \in msgs' : m.type = "ProposalAccepted" => m \in msgs
  PROVE  OriginInv'
<1>. USE DEF OriginInv
<1>a. /\ phase'[i] = "None" /\ resp'[i] = None
      /\ \A j \in Idx : j # i =>
           phase'[j] = phase[j] /\ prop'[j] = prop[j] /\ resp'[j] = resp[j] /\ state'[j] = state[j]
      /\ UNCHANGED signed
  BY DEF IInv, TypeOK, Forget
<1>b. phase'[i] \notin Live /\ phase'[i] \notin Stateful
  BY <1>a DEF Live, Stateful, Open
<1>1. /\ \A q : ProposalSent(q) => ProposalSent(q)'
      /\ \A q, n : AnswerSent(q, n) => AnswerSent(q, n)'
  BY SentStays
<1>2. \A q, n : AnswerSent(q, n)' => AnswerSent(q, n)
  BY DEF AnswerSent
<1>3. AnswerInv'
  BY <1>1 DEF AnswerInv
<1>4. ObjectInv'
  BY <1>a, <1>b, <1>1 DEF ObjectInv
<1>5. SignedIdInv'
  BY <1>a, <1>1 DEF SignedIdInv
<1>6. ProposerInv'
  BY <1>a, <1>b, <1>2 DEF ProposerInv, Idx
<1>. QED
  BY <1>3, <1>4, <1>5, <1>6

\* The proposer stores the first answer: it has signed nothing for the proposal.
LEMMA ProposedParticipantAcceptedOrigin ==
  ASSUME IInv, OriginInv, NEW i \in Idx, NEW m \in Received(i, "ProposalAccepted"),
         ProposedParticipantAccepted(i, m)
  PROVE  OriginInv'
<1>. USE DEF OriginInv
<1>a. m \in msgs /\ m.type = "ProposalAccepted" /\ m.to = i /\ i = 0
  BY DEF Received, AnswerInv
<1>b. /\ phase[0] = "Proposed" /\ m.proposal_id = prop[0] /\ resp[0] = None
      /\ resp'[0] = m.nonce_share /\ resp'[1] = resp[1]
      /\ UNCHANGED <<phase, prop, state, signed, msgs>>
  BY <1>a DEF IInv, TypeOK, ProposedParticipantAccepted, Idx
<1>1. /\ \A q : ProposalSent(q)' <=> ProposalSent(q)
      /\ \A q, n : AnswerSent(q, n)' <=> AnswerSent(q, n)
  BY <1>b DEF ProposalSent, AnswerSent
<1>2. AnswerSent(prop[0], m.nonce_share)
  BY <1>a, <1>b DEF AnswerSent
<1>3. AnswerInv'
  BY <1>b, <1>1 DEF AnswerInv
<1>4. ObjectInv'
  BY <1>b, <1>1, <1>2 DEF ObjectInv, Live, Stateful, Open, Idx
<1>5. SignedIdInv'
  BY <1>b, <1>1 DEF SignedIdInv
<1>6. ProposerInv'
  <2>1. \A s \in signed[0] : s.id.nonce # None
    BY IdFields, NoneAssumption DEF IInv, TypeOK, Idx
  <2>2. \A s \in signed[0] : s.id.proposal # prop[0]
    BY <1>b, <2>1 DEF ProposerInv, Live
  <2>. QED
    BY <1>b, <1>1, <2>2 DEF ProposerInv
<1>. QED
  BY <1>3, <1>4, <1>5, <1>6

\* The initial state is that of the proposal and its answer.
LEMMA ProposedBuildOrigin ==
  ASSUME IInv, OriginInv, NEW i \in Idx, ProposedBuild(i)
  PROVE  OriginInv'
<1>. USE DEF OriginInv
<1>a. /\ phase[i] = "Proposed" /\ phase'[i] = "AgreedUpon"
      /\ resp[i] \in Nonces /\ prop[i] \in ProposalIds
      /\ state'[i] = NewState(prop[i], resp[i])
      /\ \A j \in Idx : j # i => phase'[j] = phase[j] /\ state'[j] = state[j]
      /\ UNCHANGED <<prop, resp, signed, msgs>>
  BY DEF IInv, TypeOK, PhaseInv, ProposedBuild
<1>b. state'[i].id = [proposal |-> prop[i], nonce |-> resp[i]]
  BY <1>a DEF NewState
<1>1. /\ \A q : ProposalSent(q)' <=> ProposalSent(q)
      /\ \A q, n : AnswerSent(q, n)' <=> AnswerSent(q, n)
  BY <1>a DEF ProposalSent, AnswerSent
<1>2. \A j \in Idx : phase'[j] \in Live <=> phase[j] \in Live
  BY <1>a DEF Live, Stateful
<1>3. AnswerInv'
  BY <1>a, <1>1 DEF AnswerInv
<1>4. ObjectInv'
  <2>. SUFFICES ASSUME NEW j \in Idx
       PROVE  /\ phase'[j] = "None" => resp[j] = None
              /\ phase'[j] \in Live => prop[j] \in ProposalIds /\ ProposalSent(prop[j])
              /\ phase'[j] \in Live /\ resp[j] # None => AnswerSent(prop[j], resp[j])
              /\ phase'[j] \in Stateful => /\ resp[j] \in Nonces
                                          /\ state'[j].id = [proposal |-> prop[j], nonce |-> resp[j]]
              /\ phase'[j] = "AgreedUpon" => state'[j] = NewState(prop[j], resp[j])
    BY <1>a, <1>1 DEF ObjectInv, NewState
  <2>1. CASE j = i
    BY <1>a, <1>b, <1>2, <2>1 DEF ObjectInv
  <2>2. CASE j # i
    BY <1>a, <2>2 DEF ObjectInv
  <2>. QED
    BY <2>1, <2>2
<1>5. SignedIdInv'
  BY <1>a, <1>1 DEF SignedIdInv
<1>6. ProposerInv'
  BY <1>a, <1>1, <1>2 DEF ProposerInv, Idx
<1>. QED
  BY <1>3, <1>4, <1>5, <1>6

-----------------------------------------------------------------------------
\* Every operation up to the funded channel preserves the invariant.
LEMMA OpeningOrigin ==
  ASSUME IInv, OriginInv, NEW i \in Idx, Opening(i)
  PROVE  OriginInv'
<1>. USE DEF Live, Stateful, Open
<1>1. CASE ProposedAcceptOwn(i)
  BY <1>1, QuietStep DEF IInv, TypeOK, ProposedAcceptOwn
<1>2. CASE AgreedSign(i)
  <2>1. \A m \in msgs' : m.type = "ProposalAccepted" => m \in msgs
    BY <1>2 DEF AgreedSign, Broadcast
  <2>2. \A j \in Idx : \A s \in signed'[j] :
          s \in signed[j] \/ (phase[j] \in Stateful /\ s.id = state[j].id)
    BY <1>2 DEF IInv, TypeOK, AgreedSign
  <2>3. msgs \subseteq msgs' /\ UNCHANGED <<phase, prop, resp, state>>
    BY <1>2 DEF AgreedSign, Broadcast
  <2>. QED
    BY <2>1, <2>2, <2>3, QuietStep
<1>3. CASE \E m \in Received(i, "ChannelUpdateAccepted") : AgreedAddSignature(i, m)
  BY <1>3, QuietStep DEF AgreedAddSignature
<1>4. CASE AgreedBuild(i) \/ MarkFunded(i)
  BY <1>4, QuietStep DEF IInv, TypeOK, AgreedBuild, MarkFunded
<1>5. CASE ProposedReject(i)
  <2>1. \A m \in msgs' : m.type = "ProposalAccepted" => m \in msgs
    BY <1>5 DEF ProposedReject, Broadcast
  <2>. QED
    BY <1>5, <2>1, ForgetOrigin DEF ProposedReject, Broadcast
<1>6. CASE AbandonChannel(i)
  BY <1>6, ForgetOrigin DEF AbandonChannel
<1>. QED
  BY <1>1, <1>2, <1>3, <1>4, <1>5, <1>6, ProposeChannelOrigin, HandleProposalOrigin,
     ProposedAcceptOrigin, ProposedParticipantAcceptedOrigin, ProposedBuildOrigin
     DEF Opening

\* update signs a state of the channel it is called on.
LEMMA UpdateOrigin ==
  ASSUME IInv, OriginInv, NEW i \in Idx, NEW new, Update(i, new)
  PROVE  OriginInv'
<1>1. \A m \in msgs' : m.type = "ProposalAccepted" => m \in msgs
  BY DEF Update, Broadcast
<1>2. \A j \in Idx : \A s \in signed'[j] :
        s \in signed[j] \/ (phase[j] \in Stateful /\ s.id = state[j].id)
  BY DEF IInv, TypeOK, Update, check_valid_transition, Stateful, Open
<1>3. msgs \subseteq msgs' /\ UNCHANGED <<phase, prop, resp, state>>
  BY DEF Update, Broadcast
<1>. QED
  BY <1>1, <1>2, <1>3, QuietStep

\* So do the operations of a ChannelUpdate, which check its channel id.
LEMMA ChannelUpdateOrigin ==
  ASSUME IInv, OriginInv, NEW i \in Idx, NEW u \in pending[i],
         \/ UpdateAccept(i, u)
         \/ UpdateReject(i, u)
         \/ \E m \in Received(i, "ChannelUpdateAccepted") : UpdateParticipantAccepted(i, u, m)
         \/ UpdateApply(i, u)
         \/ AbandonUpdate(i, u)
  PROVE  OriginInv'
<1>. USE DEF Stateful, Open
<1>1. CASE UpdateAccept(i, u)
  <2>1. \A m \in msgs' : m.type = "ProposalAccepted" => m \in msgs
    BY <1>1 DEF UpdateAccept, Broadcast
  <2>2. \A j \in Idx : \A s \in signed'[j] :
          s \in signed[j] \/ (phase[j] \in Stateful /\ s.id = state[j].id)
    BY <1>1 DEF IInv, TypeOK, UpdateAccept, ensure_valid_channel
  <2>3. msgs \subseteq msgs' /\ UNCHANGED <<phase, prop, resp, state>>
    BY <1>1 DEF UpdateAccept, Broadcast
  <2>. QED
    BY <2>1, <2>2, <2>3, QuietStep
<1>2. CASE UpdateReject(i, u)
  <2>1. \A m \in msgs' : m.type = "ProposalAccepted" => m \in msgs
    BY <1>2 DEF UpdateReject, Broadcast
  <2>2. msgs \subseteq msgs' /\ UNCHANGED <<phase, prop, resp, state, signed>>
    BY <1>2 DEF UpdateReject, Broadcast
  <2>. QED
    BY <2>1, <2>2, QuietStep
<1>3. CASE \E m \in Received(i, "ChannelUpdateAccepted") : UpdateParticipantAccepted(i, u, m)
  BY <1>3, QuietStep DEF UpdateParticipantAccepted
<1>4. CASE UpdateApply(i, u)
  <2>1. /\ phase[i] = "Active" /\ \A j \in Idx : state'[j].id = state[j].id
        /\ \A j \in Idx : j # i => state'[j] = state[j]
        /\ UNCHANGED <<phase, prop, resp, signed, msgs>>
    BY <1>4 DEF IInv, TypeOK, UpdateApply, ensure_valid_channel
  <2>. QED
    BY <2>1, QuietStep
<1>5. CASE AbandonUpdate(i, u)
  BY <1>5, QuietStep DEF AbandonUpdate
<1>. QED
  BY <1>1, <1>2, <1>3, <1>4, <1>5

\* Every operation of an active channel preserves the invariant.
LEMMA UpdatingOrigin ==
  ASSUME IInv, OriginInv, NEW i \in Idx, Updating(i)
  PROVE  OriginInv'
<1>. USE DEF Live, Stateful, Open
<1>1. ASSUME NEW new, UpdatePanics(i, new)
      PROVE  OriginInv'
  BY <1>1, QuietStep DEF IInv, TypeOK, UpdatePanics
<1>2. CASE HandleDispute(i)
  BY <1>2, QuietStep DEF IInv, TypeOK, HandleDispute
<1>3. CASE \E m \in Received(i, "ChannelUpdate") : HandleUpdate(i, m)
  BY <1>3, QuietStep DEF HandleUpdate
<1>4. CASE SendCurrentStateToWatcher(i) \/ ForceClose(i) \/ Withdraw(i)
  BY <1>4, QuietStep DEF SendCurrentStateToWatcher, ForceClose, Withdraw, Adjudicate
<1>. QED
  BY <1>1, <1>2, <1>3, <1>4, UpdateOrigin, ChannelUpdateOrigin DEF Updating, CloseNormal

\* OriginInv is an invariant of the library, whatever the applications do.
THEOREM Origins == Spec => []OriginInv
<1>1. Init => OriginInv
  BY DEF Init, OriginInv, AnswerInv, ObjectInv, SignedIdInv, ProposerInv, Live, Stateful, Open, Idx
<1>2. IInv /\ OriginInv /\ [Next]_vars => OriginInv'
  <2>. SUFFICES ASSUME IInv, OriginInv, [Next]_vars PROVE OriginInv'
    OBVIOUS
  <2>1. CASE UNCHANGED vars
    BY <2>1, QuietStep DEF vars
  <2>. QED
    BY <2>1, OpeningOrigin, UpdatingOrigin DEF Next
<1>. QED
  BY <1>1, <1>2, Invariant, PTL DEF Spec

\* Two objects whose states the proposer has signed are in one channel.
LEMMA OneChannel ==
  ASSUME IInv, OriginInv, phase[0] \in Stateful, phase[1] \in Stateful,
         state[0] \in signed[0], state[1] \in signed[0]
  PROVE  state[0].id = state[1].id
<1>1. 0 \in Idx /\ 1 \in Idx
  BY DEF Idx
<1>2. /\ phase[0] \in Live /\ resp[0] \in Nonces /\ AnswerSent(prop[0], resp[0])
      /\ phase[1] \in Live /\ state[1].id.proposal = prop[1] /\ state[1].id.nonce = resp[1]
      /\ state[0].id = [proposal |-> prop[0], nonce |-> resp[0]]
      /\ state[1].id = [proposal |-> prop[1], nonce |-> resp[1]]
  BY <1>1, ObjectIds DEF OriginInv, ObjectInv
<1>3. prop[1] = prop[0]
  BY <1>2 DEF OriginInv, ProposerInv
<1>4. resp[1] = resp[0]
  BY <1>2, <1>3 DEF OriginInv, ProposerInv
<1>. QED
  BY <1>2, <1>3, <1>4

\* Two signed channel objects belong to one channel, however often openings were
\* abandoned, answered twice, or messages of earlier ones delivered late.
THEOREM AlwaysSameChannel == Spec => []SameChannel
<1>1. IInv /\ OriginInv => SameChannel
  BY OneChannel, HeldState DEF SameChannel, Stateful, Idx
<1>. QED
  BY <1>1, Invariant, Origins, PTL

-----------------------------------------------------------------------------
(***************************************************************************)
(* No fork, and the refinement of LockstepChannel                          *)
(***************************************************************************)
Acceptances == {m \in msgs : m.type = "ChannelUpdateAccepted"}

Initial(s) == s = NewState(s.id.proposal, s.id.nonce)

\* Initial states are accepted by building them.
Accepted(s) == Initial(s) \/ \E m \in Acceptances : m.sig.on = s

\* An accepted state is an initial one, or has both signatures.
AcceptedBothInv ==
  \A m \in Acceptances :
    \/ Initial(m.sig.on)
    \/ m.version > 0 /\ m.sig.on \in signed[0] /\ m.sig.on \in signed[1]

\* One accepted state for each channel and version
AcceptedOneInv ==
  \A m, n \in Acceptances : m.channel = n.channel /\ m.version = n.version => m.sig.on = n.sig.on

\* A ChannelUpdate is signed by its maker, has passed check_valid_transition, and
\* has its second signature from an acceptance.
SoundUpdate(u) ==
  /\ \E k \in Idx : u.sigs[k] # None
  /\ total_assets(u.state) <= MaxU256
  /\ AllSigned(u.sigs) => Accepted(u.state)

\* What is held or submitted was accepted.
HeldAcceptedInv ==
  \A i \in Idx :
    /\ \A u \in pending[i] : SoundUpdate(u)
    /\ phase[i] \in Open => Accepted(state[i])
    /\ \A r \in watcher[i] : Accepted(r.state)
    /\ \A r \in funder[i] : r.type # "FundReq" => Accepted(r.state)

ForkInv == AcceptedBothInv /\ AcceptedOneInv /\ HeldAcceptedInv

-----------------------------------------------------------------------------
\* Acceptances are never taken back.
LEMMA AcceptedStays ==
  ASSUME msgs \subseteq msgs'
  PROVE  /\ \A s : Accepted(s) => Accepted(s)'
         /\ \A u : SoundUpdate(u) => SoundUpdate(u)'
<1>1. \A s : Accepted(s) => Accepted(s)'
  BY DEF Accepted, Acceptances, Initial, NewState
<1>. QED
  BY <1>1 DEF SoundUpdate, AllSigned, total_assets

\* Steps that send no acceptance
LEMMA NoAcceptance ==
  ASSUME AcceptedBothInv, AcceptedOneInv,
         \A m \in msgs' : m.type = "ChannelUpdateAccepted" => m \in msgs,
         \A k \in Idx : signed[k] \subseteq signed'[k]
  PROVE  AcceptedBothInv' /\ AcceptedOneInv'
<1>1. \A m \in Acceptances' : m \in Acceptances
  BY DEF Acceptances
<1>2. AcceptedBothInv'
  BY <1>1 DEF AcceptedBothInv, Initial, NewState, Idx
<1>3. AcceptedOneInv'
  BY <1>1 DEF AcceptedOneInv
<1>. QED
  BY <1>2, <1>3

\* Steps that send one, for a state all earlier ones of the version agree with
LEMMA OneAcceptance ==
  ASSUME AcceptedBothInv, AcceptedOneInv, NEW a, NEW s,
         \A m \in msgs' : m \in msgs \/ m = a,
         a.channel = s.id, a.version = s.version, a.sig.on = s,
         Initial(s) \/ (s.version > 0 /\ s \in signed'[0] /\ s \in signed'[1]),
         \A m \in Acceptances : m.channel = s.id /\ m.version = s.version => m.sig.on = s,
         \A k \in Idx : signed[k] \subseteq signed'[k]
  PROVE  AcceptedBothInv' /\ AcceptedOneInv'
<1>1. \A m \in Acceptances' : m \in Acceptances \/ m = a
  BY DEF Acceptances
<1>2. AcceptedBothInv'
  BY <1>1 DEF AcceptedBothInv, Initial, NewState, Idx
<1>3. AcceptedOneInv'
  BY <1>1 DEF AcceptedOneInv
<1>. QED
  BY <1>2, <1>3

\* Whatever a step adds to what is held or submitted was accepted.
LEMMA HeldStep ==
  ASSUME HeldAcceptedInv, msgs \subseteq msgs',
         \A j \in Idx :
           /\ \A u \in pending'[j] : u \in pending[j] \/ SoundUpdate(u)'
           /\ phase'[j] \in Open =>
                (phase[j] \in Open /\ state'[j] = state[j]) \/ Accepted(state[j])'
           /\ \A r \in watcher'[j] : r \in watcher[j] \/ Accepted(r.state)'
           /\ \A r \in funder'[j] : r.type # "FundReq" => r \in funder[j] \/ Accepted(r.state)'
  PROVE  HeldAcceptedInv'
<1>1. /\ \A s : Accepted(s) => Accepted(s)'
      /\ \A u : SoundUpdate(u) => SoundUpdate(u)'
  BY AcceptedStays
<1>. QED
  BY <1>1 DEF HeldAcceptedInv

\* Initial states of one channel are equal, and have version 0.
LEMMA InitialState ==
  /\ \A s, t : Initial(s) /\ Initial(t) /\ s.id = t.id => s = t
  /\ \A s : Initial(s) => s.version = 0
<1>1. \A p, n : NewState(p, n).version = 0
  BY DEF NewState
<1>. QED
  BY <1>1 DEF Initial

\* An agreed-upon channel is in its initial state.
LEMMA AgreedInitial ==
  ASSUME OriginInv, NEW i \in Idx, phase[i] = "AgreedUpon"
  PROVE  Initial(state[i])
<1>1. state[i] = NewState(prop[i], resp[i])
  BY DEF OriginInv, ObjectInv
<1>2. state[i].id.proposal = prop[i] /\ state[i].id.nonce = resp[i]
  BY <1>1 DEF NewState
<1>. QED
  BY <1>1, <1>2 DEF Initial

\* A signature is not None.
LEMMA SignatureSome ==
  ASSUME NEW k \in Idx, NEW s \in State
  PROVE  sign_eth(k, s) # None
BY SignatureType, NoneAssumption

\* An update with one signature is not fully signed yet.
LEMMA OneSignatureSound ==
  ASSUME NEW k \in Idx, NEW s \in State, total_assets(s) <= MaxU256
  PROVE  SoundUpdate([state |-> s, sigs |-> OneSignature(k, sign_eth(k, s))])'
BY SignatureSome, SignatureType, ArrayType DEF SoundUpdate, AllSigned, total_assets, Idx

\* What an acceptance is about
LEMMA AcceptanceFields ==
  ASSUME IInv, NEW m \in Acceptances
  PROVE  /\ m.sig.on \in State
         /\ m.channel = m.sig.on.id
         /\ m.version = m.sig.on.version
<1>1. m \in msgs /\ m.type = "ChannelUpdateAccepted"
  BY DEF Acceptances
<1>2. m.sig \in Signatures
  BY <1>1, MessageFields DEF IInv, TypeOK
<1>. QED
  BY <1>1, <1>2 DEF IInv, MessageInv, Signatures

\* Signing the initial state: all acceptances of version 0 are of initial states.
LEMMA AgreedSignFork ==
  ASSUME IInv, OriginInv, ForkInv, NEW i \in Idx, AgreedSign(i)
  PROVE  ForkInv'
<1>. DEFINE a == [type |-> "ChannelUpdateAccepted", to |-> Other(i), channel |-> state[i].id,
                  version |-> state[i].version, sig |-> sign_eth(i, state[i])]
<1>1. Initial(state[i])
  BY AgreedInitial DEF AgreedSign
<1>2. /\ a.channel = state[i].id /\ a.version = state[i].version /\ a.sig.on = state[i]
      /\ msgs' = msgs \cup {a}
  BY DEF AgreedSign, Broadcast, sign_eth
<1>3. \A m \in Acceptances :
        m.channel = state[i].id /\ m.version = state[i].version => m.sig.on = state[i]
  <2>. SUFFICES ASSUME NEW m \in Acceptances, m.channel = state[i].id,
                       m.version = state[i].version
       PROVE  m.sig.on = state[i]
    OBVIOUS
  <2>1. state[i].version = 0
    BY <1>1, InitialState
  <2>2. Initial(m.sig.on)
    BY <2>1 DEF ForkInv, AcceptedBothInv
  <2>. QED
    BY <1>1, <2>2, InitialState, AcceptanceFields
<1>4. \A k \in Idx : signed[k] \subseteq signed'[k]
  BY DEF IInv, TypeOK, AgreedSign
<1>5. AcceptedBothInv' /\ AcceptedOneInv'
  <2>. HIDE DEF a
  <2>. QED
    BY <1>1, <1>2, <1>3, <1>4, OneAcceptance DEF ForkInv
<1>6. HeldAcceptedInv'
  BY <1>2, HeldStep DEF ForkInv, AgreedSign
<1>. QED
  BY <1>5, <1>6 DEF ForkInv

\* Every operation up to the funded channel preserves the invariant.
LEMMA OpeningFork ==
  ASSUME IInv, OriginInv, ForkInv, NEW i \in Idx, Opening(i)
  PROVE  ForkInv'
<1>1. CASE AgreedBuild(i)
  <2>1. Accepted(state[i])
    BY <1>1, AgreedInitial DEF AgreedBuild, Accepted
  <2>2. /\ UNCHANGED <<state, pending, signed, msgs>>
        /\ \A j \in Idx : j # i => phase'[j] = phase[j]
        /\ \A j \in Idx : \A r \in watcher'[j] : r \in watcher[j] \/ r.state = state[i]
        /\ \A j \in Idx : \A r \in funder'[j] : r \in funder[j] \/ r.type = "FundReq"
    BY <1>1 DEF IInv, TypeOK, AgreedBuild
  <2>3. Accepted(state[i])'
    BY <2>1, <2>2 DEF Accepted, Acceptances, Initial, NewState
  <2>4. HeldAcceptedInv'
    BY <2>2, <2>3, HeldStep DEF ForkInv
  <2>. QED
    BY <2>2, <2>4, NoAcceptance DEF ForkInv
<1>2. CASE /\ UNCHANGED <<pending, signed, watcher, funder>> /\ msgs \subseteq msgs'
           /\ \A m \in msgs' : m.type = "ChannelUpdateAccepted" => m \in msgs
           /\ \A j \in Idx : phase'[j] \in Open => phase[j] \in Open /\ state'[j] = state[j]
  BY <1>2, NoAcceptance, HeldStep DEF ForkInv
<1>3. CASE ProposedReject(i) \/ AbandonChannel(i)
  <2>1. \A m \in msgs' : m.type = "ChannelUpdateAccepted" => m \in msgs
    BY <1>3 DEF ProposedReject, AbandonChannel, Broadcast
  <2>2. msgs \subseteq msgs' /\ Forget(i)
    BY <1>3 DEF ProposedReject, AbandonChannel, Broadcast
  <2>3. \A j \in Idx : phase'[j] \in Open => phase[j] \in Open /\ state'[j] = state[j]
    BY <2>2 DEF IInv, TypeOK, Forget, Open
  <2>. QED
    BY <1>2, <2>1, <2>2, <2>3 DEF Forget
<1>4. ASSUME NEW p \in ProposalIds, ProposeChannel(i, p)
      PROVE  ForkInv'
  <2>1. \A m \in msgs' : m.type = "ChannelUpdateAccepted" => m \in msgs
    BY <1>4 DEF ProposeChannel, Broadcast
  <2>2. \A j \in Idx : phase'[j] \in Open => phase[j] \in Open /\ state'[j] = state[j]
    BY <1>4 DEF IInv, TypeOK, ProposeChannel, Open
  <2>. QED
    BY <1>2, <1>4, <2>1, <2>2 DEF ProposeChannel, Broadcast
<1>5. ASSUME NEW n \in Nonces, ProposedAccept(i, n)
      PROVE  ForkInv'
  <2>1. \A m \in msgs' : m.type = "ChannelUpdateAccepted" => m \in msgs
    BY <1>5 DEF ProposedAccept, Broadcast
  <2>. QED
    BY <1>2, <1>5, <2>1 DEF ProposedAccept, Broadcast
<1>6. CASE ProposedAcceptOwn(i) \/ ProposedBuild(i) \/ MarkFunded(i)
  BY <1>2, <1>6 DEF IInv, TypeOK, Open, ProposedAcceptOwn, ProposedBuild, MarkFunded
<1>7. ASSUME NEW m, \/ HandleProposal(i, m)
                    \/ ProposedParticipantAccepted(i, m)
                    \/ AgreedAddSignature(i, m)
      PROVE  ForkInv'
  BY <1>2, <1>7 DEF IInv, TypeOK, Open, HandleProposal, ProposedParticipantAccepted,
     AgreedAddSignature
<1>. QED
  BY <1>1, <1>3, <1>4, <1>5, <1>6, <1>7, AgreedSignFork DEF Opening

-----------------------------------------------------------------------------
\* update adds an update with one signature, on a state that passed the check.
LEMMA UpdateFork ==
  ASSUME IInv, ForkInv, NEW i \in Idx, NEW new \in State, Update(i, new)
  PROVE  ForkInv'
<1>. DEFINE u == [state |-> new, sigs |-> OneSignature(i, sign_eth(i, new))]
<1>1. SoundUpdate(u)'
  BY OneSignatureSound DEF Update, check_valid_transition
<1>2. \A m \in msgs' : m.type = "ChannelUpdateAccepted" => m \in msgs
  <2>. DEFINE a == [type |-> "ChannelUpdate", to |-> Other(i), state |-> new,
                    actor_idx |-> i, sig |-> sign_eth(i, new)]
  <2>1. msgs' = msgs \cup {a}
    BY Zenon DEF Update, Broadcast
  <2>2. a.type # "ChannelUpdateAccepted"
    OBVIOUS
  <2>. HIDE DEF a
  <2>. QED
    BY <2>1, <2>2, Zenon
<1>3. /\ msgs \subseteq msgs'
      /\ \A k \in Idx : signed[k] \subseteq signed'[k]
      /\ \A j \in Idx : \A v \in pending'[j] : v \in pending[j] \/ v = u
      /\ UNCHANGED <<phase, state, watcher, funder>>
  BY DEF IInv, TypeOK, Update, Broadcast
<1>4. HeldAcceptedInv'
  <2>. HIDE DEF u
  <2>. QED
    BY <1>1, <1>3, HeldStep DEF ForkInv
<1>. QED
  BY <1>2, <1>3, <1>4, NoAcceptance DEF ForkInv

\* So does handle_update.
LEMMA HandleUpdateFork ==
  ASSUME IInv, ForkInv, NEW i \in Idx, NEW m \in Received(i, "ChannelUpdate"), HandleUpdate(i, m)
  PROVE  ForkInv'
<1>. DEFINE u == [state |-> m.state, sigs |-> OneSignature(m.actor_idx, m.sig)]
<1>1. m.actor_idx \in Idx /\ m.sig = sign_eth(m.actor_idx, m.state) /\ m.state \in State
  BY MessageFields DEF IInv, TypeOK, MessageInv, Received
<1>2. SoundUpdate(u)'
  BY <1>1, OneSignatureSound DEF HandleUpdate, check_valid_transition
<1>3. /\ \A j \in Idx : \A v \in pending'[j] : v \in pending[j] \/ v = u
      /\ UNCHANGED <<phase, state, signed, msgs, watcher, funder>>
  BY DEF IInv, TypeOK, HandleUpdate
<1>4. HeldAcceptedInv'
  <2>. HIDE DEF u
  <2>. QED
    BY <1>2, <1>3, HeldStep DEF ForkInv
<1>. QED
  BY <1>3, <1>4, NoAcceptance DEF ForkInv

\* accept: the state has the proposer's signature already. An acceptance of the
\* same version has this participant's, so it is of the same state.
LEMMA UpdateAcceptFork ==
  ASSUME IInv, ForkInv, "conflicting" \notin AppMay, NEW i \in Idx, NEW u \in pending[i],
         UpdateAccept(i, u)
  PROVE  ForkInv'
<1>. DEFINE a == [type |-> "ChannelUpdateAccepted", to |-> Other(i), channel |-> u.state.id,
                  version |-> u.state.version, sig |-> sign_eth(i, u.state)]
            w == [u EXCEPT !.sigs[i] = sign_eth(i, u.state)]
<1>1. /\ a.type = "ChannelUpdateAccepted" /\ a.sig.on = u.state
      /\ a.channel = u.state.id /\ a.version = u.state.version
      /\ msgs' = msgs \cup {a}
  BY DEF UpdateAccept, Broadcast, sign_eth
<1>2. u.state \in State /\ u.state.version > 0 /\ SoundUpdate(u)
  BY UpdateFields DEF IInv, TypeOK, PendingInv, ForkInv, HeldAcceptedInv
<1>3. u.state \in signed'[0] /\ u.state \in signed'[1]
  <2>1. u.sigs[Other(i)] # None
    BY <1>2 DEF SoundUpdate, UpdateAccept, Other, Idx
  <2>2. u.state \in signed[Other(i)]
    <3>1. ValidSlots(u.sigs, u.state)
      BY Zenon DEF IInv, SlotInv
    <3>2. Other(i) \in Idx
      BY DEF Other, Idx
    <3>. QED
      BY Zenon, <2>1, <3>1, <3>2 DEF ValidSlots
  <2>3. u.state \in signed'[i] /\ u.state \in signed'[Other(i)]
    BY <2>2 DEF IInv, TypeOK, UpdateAccept, Other, Idx
  <2>. QED
    BY <2>3 DEF Other, Idx
<1>4. \A m \in Acceptances :
        m.channel = u.state.id /\ m.version = u.state.version => m.sig.on = u.state
  <2>. SUFFICES ASSUME NEW m \in Acceptances, m.channel = u.state.id,
                       m.version = u.state.version
       PROVE  m.sig.on = u.state
    OBVIOUS
  <2>1. m.sig.on.id = u.state.id /\ m.sig.on.version = u.state.version
    BY AcceptanceFields
  <2>2. ~ Initial(m.sig.on)
    BY <1>2, <2>1, InitialState
  <2>3. m.sig.on \in signed[i]
    BY <2>2 DEF ForkInv, AcceptedBothInv, Idx
  <2>. QED
    BY <2>1, <2>3 DEF UpdateAccept, Unconflicted
<1>5. \A k \in Idx : signed[k] \subseteq signed'[k]
  BY DEF IInv, TypeOK, UpdateAccept
<1>6. AcceptedBothInv' /\ AcceptedOneInv'
  <2>. HIDE DEF a
  <2>. QED
    BY <1>1, <1>2, <1>3, <1>4, <1>5, OneAcceptance DEF ForkInv
<1>7. SoundUpdate(w)'
  <2>1. w.state = u.state /\ w.sigs[i] # None
    BY <1>2, UpdateFields, SignatureSome DEF IInv, TypeOK, OptSignatures
  <2>2. Accepted(u.state)'
    <3>. HIDE DEF a
    <3>. QED
      BY <1>1 DEF Accepted, Acceptances
  <2>3. total_assets(u.state) <= MaxU256
    BY <1>2 DEF SoundUpdate
  <2>. HIDE DEF w
  <2>. QED
    BY <2>1, <2>2, <2>3 DEF SoundUpdate, total_assets
<1>8. HeldAcceptedInv'
  <2>1. /\ \A j \in Idx : \A v \in pending'[j] : v \in pending[j] \/ v = w
        /\ UNCHANGED <<phase, state, watcher, funder>>
    BY DEF IInv, TypeOK, UpdateAccept
  <2>. HIDE DEF a, w
  <2>. QED
    BY <1>1, <1>7, <2>1, HeldStep DEF ForkInv
<1>. QED
  BY <1>6, <1>8 DEF ForkInv

\* participant_accepted: the second signature comes from an acceptance.
LEMMA UpdateParticipantAcceptedFork ==
  ASSUME IInv, ForkInv, NEW i \in Idx, NEW u \in pending[i],
         NEW m \in Received(i, "ChannelUpdateAccepted"), UpdateParticipantAccepted(i, u, m)
  PROVE  ForkInv'
<1>. DEFINE w == [u EXCEPT !.sigs[Other(i)] = m.sig]
<1>1. m \in Acceptances /\ Other(i) \in Idx
  BY DEF Received, Acceptances, Other, Idx
<1>2. m.sig.on = u.state
  BY <1>1, ConstantsAssumption DEF UpdateParticipantAccepted, recover_signer
<1>3. SoundUpdate(u) /\ Accepted(u.state)
  BY <1>1, <1>2 DEF ForkInv, HeldAcceptedInv, Accepted
<1>4. w.state = u.state /\ w.sigs[Other(i)] # None
  <2>1. m.sig \in Signatures
    BY <1>1, MessageFields DEF IInv, TypeOK, Acceptances
  <2>. QED
    BY <1>1, <2>1, UpdateFields, NoneAssumption DEF IInv, TypeOK, OptSignatures
<1>5. /\ \A j \in Idx : \A v \in pending'[j] : v \in pending[j] \/ v = w
      /\ UNCHANGED <<phase, state, signed, msgs, watcher, funder>>
  BY DEF IInv, TypeOK, UpdateParticipantAccepted
<1>. HIDE DEF w
<1>6. SoundUpdate(w)
  BY <1>1, <1>3, <1>4 DEF SoundUpdate, total_assets
<1>7. SoundUpdate(w)'
  BY <1>4, <1>5, <1>6, AcceptedStays
<1>8. HeldAcceptedInv'
  BY <1>5, <1>7, HeldStep DEF ForkInv
<1>. QED
  BY <1>5, <1>8, NoAcceptance DEF ForkInv

\* apply installs what was accepted.
LEMMA UpdateApplyFork ==
  ASSUME IInv, ForkInv, NEW i \in Idx, NEW u \in pending[i], UpdateApply(i, u)
  PROVE  ForkInv'
<1>1. Accepted(u.state)
  BY DEF UpdateApply, ForkInv, HeldAcceptedInv, SoundUpdate
<1>2. /\ state'[i] = u.state /\ \A j \in Idx : j # i => state'[j] = state[j]
      /\ \A j \in Idx : \A r \in watcher'[j] : r \in watcher[j] \/ r.state = u.state
      /\ UNCHANGED <<phase, pending, signed, msgs, funder>>
  BY DEF IInv, TypeOK, UpdateApply
<1>3. Accepted(u.state)' /\ Accepted(state[i])'
  BY <1>1, <1>2 DEF Accepted, Acceptances, Initial, NewState
<1>4. HeldAcceptedInv'
  BY <1>2, <1>3, HeldStep DEF ForkInv
<1>. QED
  BY <1>2, <1>4, NoAcceptance DEF ForkInv

\* Every operation of an active channel preserves the invariant.
LEMMA UpdatingFork ==
  ASSUME IInv, ForkInv, "conflicting" \notin AppMay, NEW i \in Idx, Updating(i)
  PROVE  ForkInv'
<1>1. ASSUME phase[i] = "Active", state[i].version < MaxVersion
      PROVE  /\ \A a \in Assets, b \in Balances, f \in BOOLEAN : NextState(i, a, b, f) \in State
             /\ [make_next_state(state[i]) EXCEPT !.is_final = TRUE] \in State
  <2>1. state[i] \in State
    BY <1>1 DEF IInv, PhaseInv, Stateful, Open
  <2>. QED
    BY Zenon, <1>1, <2>1, NextStateType DEF NextState
<1>2. CASE \E a \in Assets, b \in Balances, f \in BOOLEAN : Update(i, NextState(i, a, b, f))
  <2>1. PICK a \in Assets, b \in Balances, f \in BOOLEAN : Update(i, NextState(i, a, b, f))
    BY <1>2
  <2>2. phase[i] = "Active" /\ state[i].version < MaxVersion
    BY <2>1 DEF Update, check_valid_transition
  <2>. QED
    BY <1>1, <2>1, <2>2, UpdateFork
<1>3. CASE CloseNormal(i)
  BY <1>1, <1>3, UpdateFork DEF CloseNormal, Update, check_valid_transition
<1>4. CASE /\ UNCHANGED <<state, signed, watcher>> /\ msgs \subseteq msgs'
           /\ \A m \in msgs' : m.type = "ChannelUpdateAccepted" => m \in msgs
           /\ \A j \in Idx : /\ phase'[j] \in Open => phase[j] \in Open
                             /\ pending'[j] \subseteq pending[j]
                             /\ \A r \in funder'[j] : r \in funder[j] \/ Accepted(r.state)
  <2>1. \A s : Accepted(s) => Accepted(s)'
    BY <1>4, AcceptedStays
  <2>2. HeldAcceptedInv'
    BY <1>4, <2>1, HeldStep DEF ForkInv
  <2>. QED
    BY <1>4, <2>2, NoAcceptance DEF ForkInv
<1>5. ASSUME NEW new, UpdatePanics(i, new)
      PROVE  ForkInv'
  BY <1>4, <1>5 DEF IInv, TypeOK, UpdatePanics, Open
<1>6. CASE HandleDispute(i)
  BY <1>4, <1>6 DEF IInv, TypeOK, HandleDispute, Open
<1>7. ASSUME NEW u \in pending[i], UpdateReject(i, u) \/ AbandonUpdate(i, u)
      PROVE  ForkInv'
  <2>1. \A m \in msgs' : m.type = "ChannelUpdateAccepted" => m \in msgs
    BY <1>7 DEF UpdateReject, AbandonUpdate, Broadcast
  <2>. QED
    BY <1>4, <1>7, <2>1 DEF IInv, TypeOK, UpdateReject, AbandonUpdate, Broadcast
<1>8. CASE ForceClose(i) \/ Withdraw(i)
  <2>1. Accepted(state[i])
    BY <1>8 DEF ForceClose, Withdraw, Adjudicate, ForkInv, HeldAcceptedInv, Open
  <2>. QED
    BY <1>4, <1>8, <2>1 DEF IInv, TypeOK, ForceClose, Withdraw, Adjudicate
<1>9. CASE SendCurrentStateToWatcher(i)
  <2>1. Accepted(state[i])
    BY <1>9 DEF SendCurrentStateToWatcher, ForkInv, HeldAcceptedInv, Open
  <2>2. /\ \A j \in Idx : \A r \in watcher'[j] : r \in watcher[j] \/ r.state = state[i]
        /\ UNCHANGED <<phase, state, pending, signed, msgs, funder>>
    BY <1>9 DEF IInv, TypeOK, SendCurrentStateToWatcher
  <2>3. \A s : Accepted(s) => Accepted(s)'
    BY <2>2, AcceptedStays
  <2>4. HeldAcceptedInv'
    BY <2>1, <2>2, <2>3, HeldStep DEF ForkInv
  <2>. QED
    BY <2>2, <2>4, NoAcceptance DEF ForkInv
<1>. QED
  BY <1>2, <1>3, <1>5, <1>6, <1>7, <1>8, <1>9, HandleUpdateFork, UpdateAcceptFork,
     UpdateParticipantAcceptedFork, UpdateApplyFork DEF Updating

-----------------------------------------------------------------------------
\* ForkInv is an invariant when no application accepts conflicting updates.
THEOREM AcceptedOnly ==
  ASSUME "conflicting" \notin AppMay
  PROVE  Spec => []ForkInv
<1>1. Init => ForkInv
  BY DEF Init, ForkInv, AcceptedBothInv, AcceptedOneInv, HeldAcceptedInv, Acceptances, Open
<1>2. IInv /\ OriginInv /\ ForkInv /\ [Next]_vars => ForkInv'
  <2>. SUFFICES ASSUME IInv, OriginInv, ForkInv, [Next]_vars PROVE ForkInv'
    OBVIOUS
  <2>1. CASE UNCHANGED vars
    BY <2>1, NoAcceptance, HeldStep DEF vars, ForkInv
  <2>. QED
    BY <2>1, OpeningFork, UpdatingFork DEF Next
<1>. QED
  BY <1>1, <1>2, Invariant, Origins, PTL DEF Spec

\* There is one accepted state of a version.
LEMMA AcceptedUnique ==
  ASSUME IInv, ForkInv, NEW s, NEW t, Accepted(s), Accepted(t),
         s.id = t.id, s.version = t.version
  PROVE  s = t
<1>1. \A m \in Acceptances : m.sig.on.version = 0 => Initial(m.sig.on)
  BY AcceptanceFields DEF ForkInv, AcceptedBothInv
<1>2. CASE Initial(s) \/ Initial(t)
  BY <1>1, <1>2, InitialState DEF Accepted
<1>3. CASE ~ Initial(s) /\ ~ Initial(t)
  <2>1. PICK m \in Acceptances, n \in Acceptances : m.sig.on = s /\ n.sig.on = t
    BY <1>3 DEF Accepted
  <2>. QED
    BY <2>1, AcceptanceFields DEF ForkInv, AcceptedOneInv
<1>. QED
  BY <1>2, <1>3

\* No two different states of one version are ever submitted, if no application
\* accepts two states of one version.
THEOREM NeverForks ==
  ASSUME "conflicting" \notin AppMay
  PROVE  Spec => []NoFork
<1>1. ASSUME IInv, ForkInv, NEW i \in Idx, NEW r \in Submitted(i)
      PROVE  Accepted(r.state)
  <2>1. CASE r \in watcher[i]
    BY <1>1, <2>1 DEF ForkInv, HeldAcceptedInv
  <2>2. CASE \E q \in funder[i] : q.type # "FundReq" /\ r = [state |-> q.state, sigs |-> q.sigs]
    BY <1>1, <2>2 DEF ForkInv, HeldAcceptedInv
  <2>. QED
    BY <1>1, <2>1, <2>2 DEF Submitted
<1>2. IInv /\ ForkInv => NoFork
  BY <1>1, AcceptedUnique DEF NoFork
<1>. QED
  BY <1>2, Invariant, AcceptedOnly, PTL

(***************************************************************************)
(* Refinement                                                              *)
(***************************************************************************)
Held == [i \in Idx |-> IF phase[i] \in Open THEN state[i] ELSE None]

\* AgreedUponChannel::build opens the channel, in the state the other side has if
\* it is open already.
LEMMA BuildOpens ==
  ASSUME IInv, OriginInv, ForkInv, NEW i \in Idx, AgreedBuild(i)
  PROVE  Lockstep!LOpen(i)
<1>1. /\ phase[i] = "AgreedUpon" /\ AllSigned(sigs[i]) /\ i \in Idx /\ Other(i) \in Idx
      /\ phase'[i] = "Signed" /\ state' = state
      /\ \A j \in Idx : j # i => phase'[j] = phase[j]
  <2>1. /\ phase[i] = "AgreedUpon" /\ AllSigned(sigs[i])
        /\ phase' = [phase EXCEPT ![i] = "Signed"] /\ state' = state
    BY DEF AgreedBuild
  <2>2. phase \in [Idx -> Phases]
    BY DEF IInv, TypeOK
  <2>3. Other(i) \in Idx
    BY DEF Other, Idx
  <2>. QED
    BY <2>1, <2>2, <2>3
<1>2. prop[i] \in ProposalIds /\ resp[i] \in Nonces /\ state[i] = NewState(prop[i], resp[i])
  BY <1>1 DEF OriginInv, ObjectInv, Live, Stateful
<1>3. phase[Other(i)] \in Open => state[Other(i)] = state[i]
  <2>. SUFFICES ASSUME phase[Other(i)] \in Open PROVE state[Other(i)] = state[i]
    OBVIOUS
  <2>1. \A k \in Idx : state[i] \in signed[k] /\ state[Other(i)] \in signed[k]
    BY <1>1, HeldState DEF IInv, SlotInv, ValidSlots, AllSigned, Stateful
  <2>2. state[0].id = state[1].id
    <3>1. \A j \in Idx : phase[j] \in Stateful /\ state[j] \in signed[0]
      BY <1>1, <2>1 DEF Stateful, Other, Idx
    <3>. QED
      BY <3>1, OneChannel DEF Idx
  <2>3. state[i].id = state[Other(i)].id
    BY <2>2 DEF Other, Idx
  <2>4. state[i].version = 0 /\ state[Other(i)].version = 0
    BY <1>1, <2>1 DEF IInv, SignedInv, Open
  <2>5. Accepted(state[i]) /\ Accepted(state[Other(i)])
    BY <1>1, AgreedInitial DEF Accepted, ForkInv, HeldAcceptedInv
  <2>. QED
    BY <2>3, <2>4, <2>5, AcceptedUnique
<1>4. /\ Held[i] = None /\ Held[Other(i)] \in {None, NewState(prop[i], resp[i])}
      /\ Held' = [Held EXCEPT ![i] = NewState(prop[i], resp[i])]
  BY <1>1, <1>2, <1>3 DEF Held, Open, Other, Idx
<1>. QED
  BY <1>2, <1>4 DEF Lockstep!LOpen, Lockstep!NewState, Lockstep!Other, Lockstep!Idx, NewState, Other, Idx, Held

\* apply is a step from the common state, or to the state the other side has.
LEMMA ApplyAdvances ==
  ASSUME IInv, OriginInv, ForkInv, NEW i \in Idx, NEW u \in pending[i], UpdateApply(i, u)
  PROVE  Lockstep!LAdvance(i) \/ Lockstep!LCatchUp(i)
<1>. DEFINE o == Other(i)
<1>1. /\ phase[i] \in Open /\ o \in Idx /\ o # i /\ AllSigned(u.sigs)
      /\ u.state.id = state[i].id /\ u.state.version = state[i].version + 1
      /\ phase' = phase /\ state'[i] = u.state /\ state'[o] = state[o]
  BY DEF IInv, TypeOK, UpdateApply, ensure_valid_channel, Open, Other, Idx
<1>2. u.state \in State /\ state[i] \in State /\ ConservedState(state[i])
  BY <1>1, HeldState, UpdateFields DEF IInv, TypeOK
<1>3. /\ \A k \in Idx : u.state \in signed[k]
      /\ ConservedState(u.state)
      /\ ~ state[i].is_final /\ u.state.version > 0
      /\ total_assets(u.state) <= MaxU256 /\ Accepted(u.state)
  BY <1>1 DEF IInv, SlotInv, ValidSlots, AllSigned, PendingInv, ForkInv, HeldAcceptedInv,
     SoundUpdate
<1>4. check_valid_transition(state[i], u.state)
  <2>1. state[i].version < MaxVersion
    <3>1. u.state.version \in 0..MaxVersion /\ state[i].version \in 0..MaxVersion
      BY <1>2, StateFields
    <3>. QED
      BY <1>1, <3>1, ConstantsAssumption
  <2>2. u.state.asset = state[i].asset /\ total_assets(u.state) = total_assets(state[i])
    BY <1>1, <1>2, <1>3 DEF ConservedState
  <2>. QED
    BY <1>1, <1>3, <2>1, <2>2 DEF check_valid_transition
<1>5. /\ phase[o] \in Open /\ u.state.version <= state[o].version + 1
  <2>1. u.state.version # 0
    BY <1>2, <1>3, StateFields
  <2>. QED
    BY <1>1, <1>3, <2>1 DEF IInv, SignedInv
<1>6. state[o] \in State /\ Accepted(state[o]) /\ Accepted(state[i])
  BY <1>1, <1>5, HeldState DEF ForkInv, HeldAcceptedInv
<1>7. state[o].id = state[i].id
  <2>1. \A k \in Idx : state[i] \in signed[k] /\ state[o] \in signed[k]
    BY <1>1, <1>5, HeldState
  <2>2. state[0].id = state[1].id
    <3>1. \A j \in Idx : phase[j] \in Stateful /\ state[j] \in signed[0]
      BY <1>1, <1>5, <2>1 DEF Stateful, Other, Idx
    <3>. QED
      BY <3>1, OneChannel DEF Idx
  <2>. QED
    BY <2>2 DEF Other, Idx
<1>8. state[o].version <= state[i].version + 1
  <2>1. state[o] \in signed[i]
    BY <1>1, <1>5, HeldState
  <2>. QED
    BY <1>1, <2>1 DEF IInv, SignedInv
<1>9. state[o].version = state[i].version \/ state[o].version = state[i].version + 1
  <2>1. state[o].version \in Nat /\ state[i].version \in Nat
    BY <1>2, <1>6, StateFields
  <2>2. state[i].version + 1 <= state[o].version + 1
    BY <1>1, <1>5
  <2>. QED
    BY <1>8, <2>1, <2>2
<1>10. /\ Held[i] = state[i] /\ Held[o] = state[o] /\ state[i] # None /\ state[o] # None
       /\ Held' = [Held EXCEPT ![i] = u.state]
  <2>1. state[i] # None /\ state[o] # None
    BY <1>2, <1>6, NoneAssumption
  <2>2. \A j \in Idx : j = i \/ j = o
    BY DEF Other, Idx
  <2>. HIDE DEF o
  <2>. QED
    BY <1>1, <1>5, <2>1, <2>2 DEF Held
<1>11. CASE state[o].version = state[i].version
  <2>1. state[o] = state[i]
    BY <1>6, <1>7, <1>11, AcceptedUnique
  <2>. QED
    BY <1>2, <1>4, <1>10, <2>1 DEF Lockstep!LAdvance, Lockstep!check_valid_transition,
       Lockstep!total_assets, Lockstep!Other, Lockstep!Idx, Lockstep!State, Lockstep!ChannelIds,
       Lockstep!Balances, check_valid_transition, total_assets, Other, Idx, Held, State,
       ChannelIds, Balances
<1>12. CASE state[o].version = state[i].version + 1
  <2>1. state[o] = u.state
    BY <1>1, <1>3, <1>6, <1>7, <1>12, AcceptedUnique
  <2>. QED
    BY <1>4, <1>10, <2>1 DEF Lockstep!LCatchUp, Lockstep!check_valid_transition,
       Lockstep!total_assets, Lockstep!Other, Lockstep!Idx, check_valid_transition,
       total_assets, Other, Idx, Held
<1>. QED
  BY <1>9, <1>11, <1>12

\* All other operations leave what a participant can enforce as it is.
LEMMA OthersStutter ==
  ASSUME IInv, NEW i \in Idx, Opening(i) \/ Updating(i), ~ AgreedBuild(i),
         \A u \in pending[i] : ~ UpdateApply(i, u)
  PROVE  Held' = Held
<1>1. \A j \in Idx : phase[j] \in Open => state'[j] = state[j]
  BY StateChange
<1>2. \A j \in Idx : phase'[j] \in Open <=> phase[j] \in Open
  <2>1. CASE UNCHANGED phase
    BY <2>1
  <2>2. CASE ProposedReject(i) \/ AbandonChannel(i) \/ ProposedAcceptOwn(i) \/ ProposedBuild(i)
             \/ MarkFunded(i) \/ HandleDispute(i)
    BY <2>2 DEF IInv, TypeOK, Open, ProposedReject, AbandonChannel, Forget, ProposedAcceptOwn,
       ProposedBuild, MarkFunded, HandleDispute
  <2>3. ASSUME NEW x, ProposeChannel(i, x) \/ HandleProposal(i, x) \/ UpdatePanics(i, x)
        PROVE  \A j \in Idx : phase'[j] \in Open <=> phase[j] \in Open
    BY <2>3 DEF IInv, TypeOK, Open, ProposeChannel, HandleProposal, UpdatePanics
  <2>4. CASE Opening(i)
    BY Zenon, <2>1, <2>2, <2>3, <2>4 DEF Opening, ProposedAccept, ProposedParticipantAccepted,
       AgreedSign, AgreedAddSignature
  <2>5. CASE Updating(i)
    BY Zenon, <2>1, <2>2, <2>3, <2>5 DEF Updating, Update, CloseNormal, HandleUpdate, UpdateAccept,
       UpdateReject, UpdateParticipantAccepted, AbandonUpdate, SendCurrentStateToWatcher,
       ForceClose, Withdraw, Adjudicate
  <2>. QED
    BY <2>4, <2>5
<1>. QED
  BY <1>1, <1>2 DEF Held

\* The library implements the lockstep channel, if no application accepts two
\* states of one version: both sides hold states of one history, and the one that
\* is ahead is ahead by one valid transition.
THEOREM Implements ==
  ASSUME "conflicting" \notin AppMay
  PROVE  Spec => ImplementsLockstep
<1>1. Init => Lockstep!LInit
  BY DEF Init, Lockstep!LInit, Lockstep!Idx, Idx, Open
<1>2. IInv /\ OriginInv /\ ForkInv /\ [Next]_vars => [Lockstep!LNext]_Held
  <2>. SUFFICES ASSUME IInv, OriginInv, ForkInv, [Next]_vars
       PROVE  Lockstep!LNext \/ Held' = Held
    OBVIOUS
  <2>1. CASE UNCHANGED vars
    BY <2>1 DEF vars, Held
  <2>2. ASSUME NEW i \in Idx, Opening(i) \/ Updating(i)
        PROVE  Lockstep!LNext \/ Held' = Held
    BY <2>2, BuildOpens, ApplyAdvances, OthersStutter
       DEF Lockstep!LNext, Lockstep!Idx, Idx, Held
  <2>. QED
    BY <2>1, <2>2 DEF Next
<1>. QED
  BY <1>1, <1>2, Invariant, Origins, AcceptedOnly, PTL
     DEF Spec, ImplementsLockstep, Lockstep!LSpec, Held
=============================================================================
