------------------------------ MODULE Channel ------------------------------
(***************************************************************************)
(* The perun-rs library: two PerunClients that open one channel and update *)
(* it (client.rs and channel/{proposal,agreed_upon,signed,active,          *)
(* channel_update}.rs).                                                    *)
(*                                                                         *)
(* Each participant's application calls any operation its typestate        *)
(* offers, at any time, with any message addressed to it.  The MessageBus  *)
(* promises nothing: msgs is the set of messages ever sent, a handler may  *)
(* see one late, never, twice or out of order.  An operation that returns  *)
(* Err changes nothing and is a stuttering step.                           *)
(***************************************************************************)
EXTENDS PaymentState, FiniteSets

CONSTANT
  AppMay,          \* which optional things the applications do, see AppBehaviours
  MaxUpdates       \* bound: ChannelUpdate messages a participant sends

\* "reaccept":    call ProposedChannel::accept again, or on an own proposal
\* "abandon":     drop a channel that is not signed yet, drop a ChannelUpdate
\* "reject":      answer with a rejection
\* "dispute":     force_close, withdraw, handle_dispute
\* "overflow":    propose balances whose sum does not fit U256
\* "conflicting": accept an update although another state of the same version
\*                was already signed
AppBehaviours == {"reaccept", "abandon", "reject", "dispute", "overflow", "conflicting"}

ASSUME AppAssumption == AppMay \subseteq AppBehaviours /\ MaxUpdates \in Nat

VARIABLES
  phase,     \* which typestate participant i's channel object has
  prop,      \* proposal (id) of the channel object, None without one
  resp,      \* nonce share of the stored accept response, None without one
  state,     \* init_state / state of the channel object
  sigs,      \* signatures of the channel object
  pending,   \* ChannelUpdate objects in the application's hands
  signed,    \* history: states participant i's signer has signed
  msgs,      \* messages sent to the other participant
  watcher,   \* WatchRequests sent to participant i's watcher
  funder     \* requests sent to participant i's funder

vars == <<phase, prop, resp, state, sigs, pending, signed, msgs, watcher, funder>>

Phases == {"None", "Proposed", "AgreedUpon", "Signed", "Active", "Dropped", "Panicked"}

\* Typestates that hold a state signed by both participants
Open == {"Signed", "Active", "Dropped"}

OptSignatures == [Idx -> Signatures \cup {None}]

Updates == [state: State, sigs: OptSignatures]

Messages ==
  [type: {"ChannelProposal"}, to: Idx, proposal_id: ProposalIds]
  \cup [type: {"ProposalAccepted"}, to: Idx, proposal_id: ProposalIds, nonce_share: Nonces]
  \cup [type: {"ProposalRejected"}, to: Idx, proposal_id: ProposalIds]
  \cup [type: {"ChannelUpdate"}, to: Idx, state: State, actor_idx: Idx, sig: Signatures]
  \cup [type: {"ChannelUpdateAccepted"}, to: Idx, channel: ChannelIds,
        version: 0..MaxVersion, sig: Signatures]
  \cup [type: {"ChannelUpdateRejected"}, to: Idx, id: ChannelIds, version: 0..MaxVersion]

WatchRequests == [state: State, sigs: OptSignatures]

FunderRequests == [type: {"FundReq", "RegisterReq", "WithdrawReq"},
                   state: State, sigs: OptSignatures]

TypeOK ==
  /\ phase \in [Idx -> Phases]
  /\ prop \in [Idx -> ProposalIds \cup {None}]
  /\ resp \in [Idx -> Nonces \cup {None}]
  /\ state \in [Idx -> State \cup {None}]
  /\ sigs \in [Idx -> OptSignatures]
  /\ pending \in [Idx -> SUBSET Updates]
  /\ signed \in [Idx -> SUBSET State]
  /\ msgs \subseteq Messages
  /\ watcher \in [Idx -> SUBSET WatchRequests]
  /\ funder \in [Idx -> SUBSET FunderRequests]

Init ==
  /\ phase = [i \in Idx |-> "None"]
  /\ prop = [i \in Idx |-> None]
  /\ resp = [i \in Idx |-> None]
  /\ state = [i \in Idx |-> None]
  /\ sigs = [i \in Idx |-> NoSignatures]
  /\ pending = [i \in Idx |-> {}]
  /\ signed = [i \in Idx |-> {}]
  /\ msgs = {}
  /\ watcher = [i \in Idx |-> {}]
  /\ funder = [i \in Idx |-> {}]

-----------------------------------------------------------------------------
\* broadcast_to_participants: with two participants, one message to the other
Broadcast(m) == msgs' = msgs \cup {m}

Received(i, type) == {m \in msgs : m.to = i /\ m.type = type}

\* The channel object of participant i is dropped; what was signed or sent stays
Forget(i) ==
  /\ phase' = [phase EXCEPT ![i] = "None"]
  /\ prop' = [prop EXCEPT ![i] = None]
  /\ resp' = [resp EXCEPT ![i] = None]
  /\ state' = [state EXCEPT ![i] = None]
  /\ sigs' = [sigs EXCEPT ![i] = NoSignatures]
  /\ UNCHANGED <<pending, signed, watcher, funder>>

(***************************************************************************)
(* PerunClient and ProposedChannel                                         *)
(***************************************************************************)
\* Variant: the proposal id is the same each time.
ProposeChannelAgain(i, p) ==
  /\ i = 0
  /\ phase[i] = "None"
  /\ check_valid_proposal(Proposal[p])
  /\ phase' = [phase EXCEPT ![i] = "Proposed"]
  /\ prop' = [prop EXCEPT ![i] = p]
  /\ Broadcast([type |-> "ChannelProposal", to |-> Other(i), proposal_id |-> p])
  /\ UNCHANGED <<resp, state, sigs, pending, signed, watcher, funder>>

\* The proposal id is drawn at random: it was not used before.
ProposeChannel(i, p) ==
  /\ i = 0
  /\ phase[i] = "None"
  /\ \A m \in msgs : m.type = "ChannelProposal" => m.proposal_id # p
  /\ check_valid_proposal(Proposal[p])
  /\ phase' = [phase EXCEPT ![i] = "Proposed"]
  /\ prop' = [prop EXCEPT ![i] = p]
  /\ Broadcast([type |-> "ChannelProposal", to |-> Other(i), proposal_id |-> p])
  /\ UNCHANGED <<resp, state, sigs, pending, signed, watcher, funder>>

\* The call to check_valid_proposal is commented out in the code.
HandleProposal(i, m) ==
  /\ i = 1
  /\ phase[i] = "None"
  /\ phase' = [phase EXCEPT ![i] = "Proposed"]
  /\ prop' = [prop EXCEPT ![i] = m.proposal_id]
  /\ UNCHANGED <<resp, state, sigs, pending, signed, msgs, watcher, funder>>

\* ProposedChannel::accept with a freshly drawn nonce share. Its guard against
\* an own or an answered proposal is commented out, so a second call replaces
\* the response and sends another one.
ProposedAccept(i, n) ==
  /\ i = 1
  /\ phase[i] = "Proposed"
  /\ resp[i] # None => "reaccept" \in AppMay
  /\ \A m \in msgs : m.type = "ProposalAccepted" => m.nonce_share # n
  /\ resp' = [resp EXCEPT ![i] = n]
  /\ Broadcast([type |-> "ProposalAccepted", to |-> Other(i),
                proposal_id |-> prop[i], nonce_share |-> n])
  /\ UNCHANGED <<phase, prop, state, sigs, pending, signed, watcher, funder>>

\* The same call by the proposer: the index part_idx - 1 underflows.
ProposedAcceptOwn(i) ==
  /\ "reaccept" \in AppMay
  /\ i = 0
  /\ phase[i] = "Proposed"
  /\ phase' = [phase EXCEPT ![i] = "Panicked"]
  /\ UNCHANGED <<prop, resp, state, sigs, pending, signed, msgs, watcher, funder>>

ProposedReject(i) ==
  /\ "reject" \in AppMay
  /\ phase[i] = "Proposed"
  /\ Broadcast([type |-> "ProposalRejected", to |-> Other(i), proposal_id |-> prop[i]])
  /\ Forget(i)

ProposedParticipantAccepted(i, m) ==
  /\ phase[i] = "Proposed"
  /\ m.proposal_id = prop[i]
  /\ resp[i] = None
  /\ resp' = [resp EXCEPT ![i] = m.nonce_share]
  /\ UNCHANGED <<phase, prop, state, sigs, pending, signed, msgs, watcher, funder>>

\* Variant: build does not wait for the response.
ProposedBuildEarly(i) ==
  /\ phase[i] = "Proposed"
  /\ phase' = [phase EXCEPT ![i] = "AgreedUpon"]
  /\ state' = [state EXCEPT ![i] = NewState(prop[i], resp[i])]
  /\ sigs' = [sigs EXCEPT ![i] = NoSignatures]
  /\ UNCHANGED <<prop, resp, pending, signed, msgs, watcher, funder>>

ProposedBuild(i) ==
  /\ phase[i] = "Proposed"
  /\ resp[i] # None
  /\ phase' = [phase EXCEPT ![i] = "AgreedUpon"]
  /\ state' = [state EXCEPT ![i] = NewState(prop[i], resp[i])]
  /\ sigs' = [sigs EXCEPT ![i] = NoSignatures]
  /\ UNCHANGED <<prop, resp, pending, signed, msgs, watcher, funder>>

(***************************************************************************)
(* AgreedUponChannel and SignedChannel                                     *)
(***************************************************************************)
AgreedSign(i) ==
  /\ phase[i] = "AgreedUpon"
  /\ sigs[i][i] = None
  /\ sigs' = [sigs EXCEPT ![i][i] = sign_eth(i, state[i])]
  /\ signed' = [signed EXCEPT ![i] = @ \cup {state[i]}]
  /\ Broadcast([type |-> "ChannelUpdateAccepted", to |-> Other(i), channel |-> state[i].id,
                version |-> state[i].version, sig |-> sign_eth(i, state[i])])
  /\ UNCHANGED <<phase, prop, resp, state, pending, watcher, funder>>

AgreedAddSignature(i, m) ==
  /\ phase[i] = "AgreedUpon"
  /\ m.channel = state[i].id
  /\ m.version = 0
  /\ \E k \in Idx :
       /\ recover_signer(state[i], m.sig) = k
       /\ sigs[i][k] = None
       /\ sigs' = [sigs EXCEPT ![i][k] = m.sig]
  /\ UNCHANGED <<phase, prop, resp, state, pending, signed, msgs, watcher, funder>>

\* Variant: build does not look for missing signatures.
AgreedBuildEarly(i) ==
  /\ phase[i] = "AgreedUpon"
  /\ phase' = [phase EXCEPT ![i] = "Signed"]
  /\ watcher' = [watcher EXCEPT ![i] = @ \cup {[state |-> state[i], sigs |-> sigs[i]]}]
  /\ funder' = [funder EXCEPT ![i] =
                  @ \cup {[type |-> "FundReq", state |-> state[i], sigs |-> NoSignatures]}]
  /\ UNCHANGED <<prop, resp, state, sigs, pending, signed, msgs>>

AgreedBuild(i) ==
  /\ phase[i] = "AgreedUpon"
  /\ AllSigned(sigs[i])
  /\ phase' = [phase EXCEPT ![i] = "Signed"]
  /\ watcher' = [watcher EXCEPT ![i] = @ \cup {[state |-> state[i], sigs |-> sigs[i]]}]
  /\ funder' = [funder EXCEPT ![i] =
                  @ \cup {[type |-> "FundReq", state |-> state[i], sigs |-> NoSignatures]}]
  /\ UNCHANGED <<prop, resp, state, sigs, pending, signed, msgs>>

\* The application decides when funding is complete.
MarkFunded(i) ==
  /\ phase[i] = "Signed"
  /\ phase' = [phase EXCEPT ![i] = "Active"]
  /\ UNCHANGED <<prop, resp, state, sigs, pending, signed, msgs, watcher, funder>>

(***************************************************************************)
(* ActiveChannel                                                           *)
(***************************************************************************)
HasRoom(i) == Cardinality(Received(Other(i), "ChannelUpdate")) < MaxUpdates

\* new is any state the application makes from make_next_state by writing the
\* public fields outcome and is_final.
Update(i, new) ==
  /\ phase[i] = "Active"
  /\ HasRoom(i)
  /\ check_valid_transition(state[i], new)
  /\ signed' = [signed EXCEPT ![i] = @ \cup {new}]
  /\ Broadcast([type |-> "ChannelUpdate", to |-> Other(i), state |-> new,
                actor_idx |-> i, sig |-> sign_eth(i, new)])
  /\ pending' = [pending EXCEPT ![i] =
                   @ \cup {[state |-> new, sigs |-> OneSignature(i, sign_eth(i, new))]}]
  /\ UNCHANGED <<phase, prop, resp, state, sigs, watcher, funder>>

\* The panic in check_valid_transition takes the application down.
UpdatePanics(i, new) ==
  /\ "overflow" \in AppMay
  /\ phase[i] = "Active"
  /\ transition_panics(state[i], new)
  /\ phase' = [phase EXCEPT ![i] = "Dropped"]
  /\ UNCHANGED <<prop, resp, state, sigs, pending, signed, msgs, watcher, funder>>

NextState(i, a, b, f) == [make_next_state(state[i]) EXCEPT !.asset = a, !.bal = b, !.is_final = f]

CloseNormal(i) == Update(i, [make_next_state(state[i]) EXCEPT !.is_final = TRUE])

HandleUpdate(i, m) ==
  /\ phase[i] = "Active"
  /\ check_valid_transition(state[i], m.state)
  /\ recover_signer(m.state, m.sig) = m.actor_idx
  /\ pending' = [pending EXCEPT ![i] =
                   @ \cup {[state |-> m.state, sigs |-> OneSignature(m.actor_idx, m.sig)]}]
  /\ UNCHANGED <<phase, prop, resp, state, sigs, signed, msgs, watcher, funder>>

\* Fully signed current state to the funder; the channel object is handed back.
Adjudicate(i, type) ==
  /\ "dispute" \in AppMay
  /\ phase[i] = "Active"
  /\ funder' = [funder EXCEPT ![i] =
                  @ \cup {[type |-> type, state |-> state[i], sigs |-> sigs[i]]}]
  /\ UNCHANGED <<phase, prop, resp, state, sigs, pending, signed, msgs, watcher>>

ForceClose(i) == Adjudicate(i, "RegisterReq")

Withdraw(i) == Adjudicate(i, "WithdrawReq")

HandleDispute(i) ==
  /\ "dispute" \in AppMay
  /\ phase[i] = "Active"
  /\ phase' = [phase EXCEPT ![i] = "Dropped"]
  /\ UNCHANGED <<prop, resp, state, sigs, pending, signed, msgs, watcher, funder>>

\* Repeats what force_update or AgreedUponChannel::build already sent
SendCurrentStateToWatcher(i) ==
  /\ phase[i] = "Active"
  /\ watcher' = [watcher EXCEPT ![i] = @ \cup {[state |-> state[i], sigs |-> sigs[i]]}]
  /\ UNCHANGED <<phase, prop, resp, state, sigs, pending, signed, msgs, funder>>

(***************************************************************************)
(* ChannelUpdate                                                           *)
(***************************************************************************)
ensure_valid_channel(i, u) ==
  /\ u.state.version = state[i].version + 1
  /\ u.state.id = state[i].id

\* An application that never accepts two states of one version
Unconflicted(i, s) ==
  "conflicting" \in AppMay
  \/ \A t \in signed[i] : t.id = s.id /\ t.version = s.version => t = s

UpdateAccept(i, u) ==
  /\ phase[i] = "Active"
  /\ ensure_valid_channel(i, u)
  /\ u.sigs[i] = None
  /\ Unconflicted(i, u.state)
  /\ signed' = [signed EXCEPT ![i] = @ \cup {u.state}]
  /\ pending' = [pending EXCEPT ![i] =
                   (@ \ {u}) \cup {[u EXCEPT !.sigs[i] = sign_eth(i, u.state)]}]
  /\ Broadcast([type |-> "ChannelUpdateAccepted", to |-> Other(i), channel |-> u.state.id,
                version |-> u.state.version, sig |-> sign_eth(i, u.state)])
  /\ UNCHANGED <<phase, prop, resp, state, sigs, watcher, funder>>

\* reject consumes the ChannelUpdate, also when it returns Err.
UpdateReject(i, u) ==
  /\ "reject" \in AppMay
  /\ phase[i] = "Active"
  /\ pending' = [pending EXCEPT ![i] = @ \ {u}]
  /\ \/ /\ ensure_valid_channel(i, u)
        /\ Broadcast([type |-> "ChannelUpdateRejected", to |-> Other(i),
                      id |-> u.state.id, version |-> u.state.version])
     \/ ~ ensure_valid_channel(i, u) /\ UNCHANGED msgs
  /\ UNCHANGED <<phase, prop, resp, state, sigs, signed, watcher, funder>>

\* Variant: the signature is not checked against the state.
UpdateParticipantTrusted(i, u, m) ==
  /\ phase[i] = "Active"
  /\ ensure_valid_channel(i, u)
  /\ m.channel = u.state.id
  /\ m.version = u.state.version
  /\ u.sigs[Other(i)] = None
  /\ pending' = [pending EXCEPT ![i] = (@ \ {u}) \cup {[u EXCEPT !.sigs[Other(i)] = m.sig]}]
  /\ UNCHANGED <<phase, prop, resp, state, sigs, signed, msgs, watcher, funder>>

\* ChannelUpdate::participant_accepted, called with the sender's index
UpdateParticipantAccepted(i, u, m) ==
  /\ phase[i] = "Active"
  /\ ensure_valid_channel(i, u)
  /\ m.channel = u.state.id
  /\ m.version = u.state.version
  /\ recover_signer(u.state, m.sig) = Other(i)
  /\ u.sigs[Other(i)] = None
  /\ pending' = [pending EXCEPT ![i] = (@ \ {u}) \cup {[u EXCEPT !.sigs[Other(i)] = m.sig]}]
  /\ UNCHANGED <<phase, prop, resp, state, sigs, signed, msgs, watcher, funder>>

\* Variants of apply: missing signatures go unnoticed, an outdated update is
\* not refused, force_update forgets the signatures, or the watcher.
UpdateApplyUnsigned(i, u) ==
  /\ phase[i] = "Active"
  /\ ensure_valid_channel(i, u)
  /\ state' = [state EXCEPT ![i] = u.state]
  /\ sigs' = [sigs EXCEPT ![i] = u.sigs]
  /\ watcher' = [watcher EXCEPT ![i] = @ \cup {u}]
  /\ UNCHANGED <<phase, prop, resp, pending, signed, msgs, funder>>

UpdateApplyOutdated(i, u) ==
  /\ phase[i] = "Active"
  /\ AllSigned(u.sigs)
  /\ state' = [state EXCEPT ![i] = u.state]
  /\ sigs' = [sigs EXCEPT ![i] = u.sigs]
  /\ watcher' = [watcher EXCEPT ![i] = @ \cup {u}]
  /\ UNCHANGED <<phase, prop, resp, pending, signed, msgs, funder>>

UpdateApplyOldSigs(i, u) ==
  /\ phase[i] = "Active"
  /\ ensure_valid_channel(i, u)
  /\ AllSigned(u.sigs)
  /\ state' = [state EXCEPT ![i] = u.state]
  /\ watcher' = [watcher EXCEPT ![i] = @ \cup {[state |-> u.state, sigs |-> sigs[i]]}]
  /\ UNCHANGED <<phase, prop, resp, sigs, pending, signed, msgs, funder>>

UpdateApplyUnwatched(i, u) ==
  /\ phase[i] = "Active"
  /\ ensure_valid_channel(i, u)
  /\ AllSigned(u.sigs)
  /\ state' = [state EXCEPT ![i] = u.state]
  /\ sigs' = [sigs EXCEPT ![i] = u.sigs]
  /\ UNCHANGED <<phase, prop, resp, pending, signed, msgs, watcher, funder>>

\* apply and the force_update it calls: state and signatures are replaced and
\* the watcher is told (which cannot fail, so there is nothing to roll back).
\* The ChannelUpdate object survives; every later use of it is an Err.
UpdateApply(i, u) ==
  /\ phase[i] = "Active"
  /\ ensure_valid_channel(i, u)
  /\ AllSigned(u.sigs)
  /\ state' = [state EXCEPT ![i] = u.state]
  /\ sigs' = [sigs EXCEPT ![i] = u.sigs]
  /\ watcher' = [watcher EXCEPT ![i] = @ \cup {u}]
  /\ UNCHANGED <<phase, prop, resp, pending, signed, msgs, funder>>

(***************************************************************************)
(* Rust values going out of scope                                          *)
(***************************************************************************)
AbandonChannel(i) ==
  /\ "abandon" \in AppMay
  /\ phase[i] \in {"Proposed", "AgreedUpon"}
  /\ Forget(i)
  /\ UNCHANGED msgs

AbandonUpdate(i, u) ==
  /\ "abandon" \in AppMay
  /\ pending' = [pending EXCEPT ![i] = @ \ {u}]
  /\ UNCHANGED <<phase, prop, resp, state, sigs, signed, msgs, watcher, funder>>

Opening(i) ==
  \/ \E p \in ProposalIds : ProposeChannel(i, p)
  \/ \E m \in Received(i, "ChannelProposal") : HandleProposal(i, m)
  \/ \E n \in Nonces : ProposedAccept(i, n)
  \/ ProposedAcceptOwn(i)
  \/ ProposedReject(i)
  \/ \E m \in Received(i, "ProposalAccepted") : ProposedParticipantAccepted(i, m)
  \/ ProposedBuild(i)
  \/ AgreedSign(i)
  \/ \E m \in Received(i, "ChannelUpdateAccepted") : AgreedAddSignature(i, m)
  \/ AgreedBuild(i)
  \/ MarkFunded(i)
  \/ AbandonChannel(i)

Updating(i) ==
  \/ /\ phase[i] = "Active"
     /\ \E a \in Assets, b \in Balances, f \in BOOLEAN :
          Update(i, NextState(i, a, b, f)) \/ UpdatePanics(i, NextState(i, a, b, f))
  \/ CloseNormal(i)
  \/ \E m \in Received(i, "ChannelUpdate") : HandleUpdate(i, m)
  \/ \E u \in pending[i] :
       \/ UpdateAccept(i, u)
       \/ UpdateReject(i, u)
       \/ \E m \in Received(i, "ChannelUpdateAccepted") : UpdateParticipantAccepted(i, u, m)
       \/ UpdateApply(i, u)
       \/ AbandonUpdate(i, u)
  \/ SendCurrentStateToWatcher(i)
  \/ ForceClose(i)
  \/ Withdraw(i)
  \/ HandleDispute(i)

Next == \E i \in Idx : Opening(i) \/ Updating(i)

Spec == Init /\ [][Next]_vars
-----------------------------------------------------------------------------
(***************************************************************************)
(* Properties                                                              *)
(***************************************************************************)
\* A channel object from SignedChannel on carries a signature of each
\* participant on exactly the state it holds, whatever updates were pending,
\* answered late or mixed up before (agreed_upon.rs build, force_update).
FullySigned ==
  \A i \in Idx : phase[i] \in Open =>
    \A k \in Idx : sigs[i][k] = sign_eth(k, state[i]) /\ state[i] \in signed[k]

\* Two participants that both have a signed channel are in the same channel,
\* although proposals are abandoned, repeated, and delivered late or twice.
SameChannel ==
  phase[0] \in Open /\ phase[1] \in Open => state[0].id = state[1].id

\* Neither participant gets more than one version ahead of the other: a version
\* needs a signature the other only gives at the version before.
VersionGap ==
  \A i \in Idx : phase[i] \in Open /\ phase[Other(i)] \in Open =>
    state[i].version <= state[Other(i)].version + 1

\* Once one participant holds a final state the other cannot hold a newer one.
NothingAfterFinal ==
  \A i \in Idx : phase[i] \in Open /\ phase[Other(i)] \in Open /\ state[i].is_final =>
    state[Other(i)].version <= state[i].version

\* The asset and the total locked in the channel are those of the proposal both
\* participants agreed on, which had a challenge duration and as many peers as
\* participants.
Conservation ==
  \A i \in Idx : phase[i] \in Open =>
    LET p == Proposal[state[i].id.proposal]
    IN  /\ p.challenge_duration # 0 /\ p.peers = 2
        /\ state[i].asset = p.asset
        /\ total_assets(state[i]) = p.bal[0] + p.bal[1]

\* A participant's watcher knows the state the participant holds, and nothing
\* newer: force_update tells it in the step that installs the state.
WatcherCurrent ==
  \A i \in Idx : phase[i] \in Open =>
    /\ [state |-> state[i], sigs |-> sigs[i]] \in watcher[i]
    /\ \A r \in watcher[i] : r.state.version <= state[i].version

\* Whatever a participant hands to its watcher, or to the funder in a
\* RegisterReq or WithdrawReq.
Submitted(i) ==
  watcher[i] \cup {[state |-> r.state, sigs |-> r.sigs] :
                     r \in {q \in funder[i] : q.type # "FundReq"}}

\* Everything submitted on-chain carries both participants' valid signatures.
SubmittedSigned ==
  \A i \in Idx : \A r \in Submitted(i) : \A k \in Idx : r.sigs[k] = sign_eth(k, r.state)

\* There are never two different fully signed states of one channel and version
\* in the hands of the watchers and funders of the two participants.
NoFork ==
  \A i, j \in Idx : \A r \in Submitted(i), q \in Submitted(j) :
    r.state.id = q.state.id /\ r.state.version = q.state.version => r.state = q.state

\* A signed channel only moves to the next version of a state that is not final
\* (channel_update.rs: an outdated update "will now result in a runtime error").
OnlyForward ==
  [][\A i \in Idx : phase[i] \in Open /\ state'[i] # state[i] =>
       /\ state'[i].version = state[i].version + 1
       /\ ~ state[i].is_final]_vars

\* The library, used by applications that never accept two states of one
\* version, implements the lockstep channel: what a participant can enforce is
\* the state of its signed channel object.
Lockstep == INSTANCE LockstepChannel
              WITH held <- [i \in Idx |-> IF phase[i] \in Open THEN state[i] ELSE None]

ImplementsLockstep == Lockstep!LSpec

=============================================================================
