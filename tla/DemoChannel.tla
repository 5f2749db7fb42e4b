---------------------------- MODULE DemoChannel ----------------------------
(***************************************************************************)
(* The channel of the embedded demo (cortex-m-demo/src/channel.rs) while   *)
(* the application is in its Active state: the enum ChannelInner on top of *)
(* the library's typestates, the polling that forwards messages to it      *)
(* (application.rs), and the buttons (main.rs).                            *)
(*                                                                         *)
(* The device talks to a go-perun peer and to the watcher and funder       *)
(* service, one TCP connection each: what is sent arrives in order.  The   *)
(* service answers requests in any order.  Peer, service and chain are     *)
(* external and modelled from how the demo uses them.                      *)
(*                                                                         *)
(* main unwraps the result of poll: an Err of a forwarded message stops    *)
(* the device.  The Err of a button only toggles an LED and is a           *)
(* stuttering step.  Signatures are ideal: an acceptance carries the state *)
(* that was signed.                                                        *)
(***************************************************************************)
EXTENDS Integers, Sequences

CONSTANTS
  None,
  Roles,           \* indices the device may have: 0 when it proposed the channel
  InitBal,         \* what each participant locks (100_000 in the code)
  Amount,          \* what the update button sends (100 in the code)
  UserMay, PeerMay,
  WatchReply,      \* how the service may answer a StartWatchingLedgerChannelReq
  RegisterReply,   \* how the service may answer a RegisterReq
  MaxVersion,      \* bound: highest version of the channel
  MaxInFlight      \* bound: messages between device and peer when a button is pressed

\* "hasty": press a button again before the last update was answered
\* "overdraw": send although the own balance is too small
UserBehaviours == {"update", "close", "force_close", "hasty", "overdraw"}

PeerBehaviours == {"update", "close", "reject_proposal", "reject_update", "dispute"}

Idx == {0, 1}

ASSUME DemoAssumption ==
  /\ Roles \subseteq Idx
  /\ InitBal \in Nat /\ Amount \in Nat /\ MaxVersion \in Nat /\ MaxInFlight \in Nat
  /\ UserMay \subseteq UserBehaviours
  /\ PeerMay \subseteq PeerBehaviours
  /\ WatchReply \subseteq {"Ack", "StartWatchingResp"}
  /\ RegisterReply \subseteq {"DisputeAck", "RegisterResp"}

VARIABLES
  part_idx,           \* index of the device
  inner,              \* variant of ChannelInner
  watching, funded,   \* the two flags of ChannelInner::Signed
  ch,                 \* state of the library's channel object
  update,             \* the update of ChannelInner::Active, None without one
  panic,              \* "no", or what the device was doing when it panicked
  toPeer, toDevice,   \* the connection to the other participant
  requests,           \* requests the service has not answered yet
  replies,            \* replies of the service on their way to the device
  watched,            \* versions the watcher has taken note of
  chain,              \* the ledger: is the channel funded, registered, notified
  peer                \* the other participant

device == <<inner, watching, funded, ch, update, panic>>
service == <<requests, replies, watched, chain>>
vars == <<part_idx, device, toPeer, toDevice, service, peer>>

\* TemporaryInvalidState only exists inside progress.
ChannelInner == {"Proposed", "AgreedUpon", "Signed", "Active", "Closing", "ForceClosing", "Closed"}

State == [version: 0..MaxVersion, bal: [Idx -> 0..2 * InitBal], is_final: BOOLEAN]

ASSUME NoneAssumption == None \notin State

InitState == [version |-> 0, bal |-> [i \in Idx |-> InitBal], is_final |-> FALSE]

ProposalMsg == [type |-> "ChannelProposal"]
ProposalAcceptedMsg == [type |-> "ProposalAccepted"]
ProposalRejectedMsg == [type |-> "ProposalRejected"]
UpdateMsg(s) == [type |-> "ChannelUpdate", state |-> s]
AcceptedMsg(s) == [type |-> "ChannelUpdateAccepted", version |-> s.version, sig |-> s]
RejectedMsg(s) == [type |-> "ChannelUpdateRejected", version |-> s.version]

Messages ==
  {ProposalMsg, ProposalAcceptedMsg, ProposalRejectedMsg}
  \cup [type: {"ChannelUpdate"}, state: State]
  \cup [type: {"ChannelUpdateAccepted"}, version: 0..MaxVersion, sig: State]
  \cup [type: {"ChannelUpdateRejected"}, version: 0..MaxVersion]

WatchRequest(s) == [type |-> "WatchRequest", state |-> s]
FundReq == [type |-> "FundReq"]
RegisterReq == [type |-> "RegisterReq"]

Ack(v) == [type |-> "Ack", version |-> v]
Reply(t) == [type |-> t]

Requests == [type: {"WatchRequest"}, state: State] \cup {FundReq, RegisterReq}

Replies ==
  {Ack(v) : v \in 0..MaxVersion}
  \cup {Reply(t) : t \in {"Funded", "DisputeAck", "RegisterResp", "StartWatchingResp",
                          "DisputeNotification"}}

TypeOK ==
  /\ part_idx \in Idx
  /\ inner \in ChannelInner
  /\ watching \in BOOLEAN /\ funded \in BOOLEAN
  /\ ch \in State
  /\ update \in State \cup {None}
  /\ panic \in {"no", "poll", "button"}
  /\ toPeer \in Seq(Messages) /\ toDevice \in Seq(Messages)
  /\ requests \subseteq Requests
  /\ replies \in Seq(Replies)
  /\ watched \subseteq 0..MaxVersion
  /\ chain \in [funded: BOOLEAN, registered: BOOLEAN, notified: BOOLEAN]
  /\ peer \in [phase: {"Idle", "Agreed", "Funding", "Active", "Done"},
               state: State, update: State \cup {None}]

\* Channel::new after the proposal was sent, or Channel::new_agreed_upon after
\* the peer's proposal was accepted, built and signed.
Init ==
  /\ part_idx \in Roles
  /\ inner = IF part_idx = 0 THEN "Proposed" ELSE "AgreedUpon"
  /\ watching = FALSE /\ funded = FALSE
  /\ ch = InitState /\ update = None /\ panic = "no"
  /\ toPeer = IF part_idx = 0 THEN <<ProposalMsg>>
                              ELSE <<ProposalAcceptedMsg, AcceptedMsg(InitState)>>
  /\ toDevice = <<>>
  /\ requests = {} /\ replies = <<>> /\ watched = {}
  /\ chain = [funded |-> FALSE, registered |-> FALSE, notified |-> FALSE]
  /\ peer = [phase |-> "Idle", state |-> InitState, update |-> None]

-----------------------------------------------------------------------------
\* ActiveChannel::check_valid_transition for states of this channel
ValidTransition(s, t) ==
  /\ ~s.is_final
  /\ t.version = s.version + 1
  /\ t.bal[0] + t.bal[1] = s.bal[0] + s.bal[1]

\* State::make_next_state with amount moved away from participant i
Pay(s, i, amount, final) ==
  [version |-> s.version + 1,
   bal |-> [s.bal EXCEPT ![1 - i] = @ + amount, ![i] = @ - amount],
   is_final |-> final]

Running == panic = "no" /\ inner # "Closed"

\* An Err leaves inner as it was.
Panics(what) ==
  /\ panic' = what
  /\ UNCHANGED <<part_idx, inner, watching, funded, ch, update>>

(***************************************************************************)
(* Buttons                                                                 *)
(***************************************************************************)
Solvent(amount) == ch.bal[part_idx] >= amount

Pressable(what) ==
  /\ Running /\ inner = "Active"
  /\ what \in UserMay
  /\ "hasty" \in UserMay \/ update = None
  /\ ch.version < MaxVersion /\ Len(toPeer \o toDevice) < MaxInFlight

\* Variant: the subtraction is not checked.
ChannelUpdateUnchecked(amount, final) ==
  /\ ch.bal[1] >= amount
  /\ LET next == Pay(ch, part_idx, amount, final) IN
       /\ update' = next
       /\ toPeer' = Append(toPeer, UpdateMsg(next))
  /\ UNCHANGED <<part_idx, inner, watching, funded, ch, panic, toDevice, service, peer>>

\* Channel::update. The check for NotEnoughFunds reads index 1 whoever the
\* device is, then the own balance is reduced: U256 panics below zero. An
\* update that is still pending is replaced.
ChannelUpdate(amount, final) ==
  /\ ch.bal[1] >= amount
  /\ \/ /\ Solvent(amount)
        /\ LET next == Pay(ch, part_idx, amount, final) IN
             /\ update' = next
             /\ toPeer' = Append(toPeer, UpdateMsg(next))
        /\ UNCHANGED <<part_idx, inner, watching, funded, ch, panic, toDevice, service, peer>>
     \/ /\ ~Solvent(amount)
        /\ Panics("button")
        /\ UNCHANGED <<toPeer, toDevice, service, peer>>

PressUpdate ==
  /\ Pressable("update")
  /\ Solvent(Amount) \/ "overdraw" \in UserMay
  /\ ChannelUpdate(Amount, FALSE)

PressNormalClose ==
  /\ Pressable("close")
  /\ ChannelUpdate(0, TRUE)

\* ActiveChannel::force_close sends a RegisterReq to the funder.
PressForceClose ==
  /\ Running /\ inner = "Active" /\ "force_close" \in UserMay
  /\ inner' = "ForceClosing"
  /\ requests' = requests \cup {RegisterReq}
  /\ UNCHANGED <<part_idx, watching, funded, ch, update, panic, toPeer, toDevice,
                 replies, watched, chain, peer>>

(***************************************************************************)
(* forward_messages_to_channel takes one message of the peer or, when none *)
(* has arrived, one of the service: any order, as messages travel.         *)
(***************************************************************************)
FromPeer(type) ==
  /\ Running
  /\ toDevice # <<>> /\ Head(toDevice).type = type

FromService(type) ==
  /\ Running
  /\ replies # <<>> /\ Head(replies).type = type

ForwardProposalAccepted ==
  /\ FromPeer("ProposalAccepted") /\ inner = "Proposed"
  /\ toDevice' = Tail(toDevice)
  /\ inner' = "AgreedUpon"
  /\ toPeer' = Append(toPeer, AcceptedMsg(ch))
  /\ UNCHANGED <<part_idx, watching, funded, ch, update, panic, service, peer>>

ForwardInitialSignature ==
  /\ FromPeer("ChannelUpdateAccepted") /\ inner = "AgreedUpon"
  /\ Head(toDevice).version = 0 /\ Head(toDevice).sig = ch
  /\ toDevice' = Tail(toDevice)
  /\ inner' = "Signed"
  /\ requests' = requests \cup {WatchRequest(ch), FundReq}
  /\ UNCHANGED <<part_idx, watching, funded, ch, update, panic, toPeer, replies, watched,
                 chain, peer>>

\* ChannelUpdate::apply: the new state is also sent to the watcher
Apply(s) ==
  /\ ch' = s
  /\ update' = None
  /\ inner' = IF s.is_final THEN "Closing" ELSE "Active"
  /\ requests' = requests \cup {WatchRequest(s)}

\* Variant: the update is applied without telling the peer.
ForwardUpdateSilent ==
  /\ FromPeer("ChannelUpdate") /\ inner = "Active" /\ update = None
  /\ ValidTransition(ch, Head(toDevice).state)
  /\ Apply(Head(toDevice).state)
  /\ toDevice' = Tail(toDevice)
  /\ UNCHANGED <<part_idx, watching, funded, panic, toPeer, replies, watched, chain, peer>>

\* handle_update, accept and apply in one go
ForwardUpdate ==
  /\ FromPeer("ChannelUpdate") /\ inner = "Active" /\ update = None
  /\ LET s == Head(toDevice).state IN
       /\ ValidTransition(ch, s)
       /\ toPeer' = Append(toPeer, AcceptedMsg(s))
       /\ Apply(s)
  /\ toDevice' = Tail(toDevice)
  /\ UNCHANGED <<part_idx, watching, funded, panic, replies, watched, chain, peer>>

\* Variant: the signature of the acceptance is not compared with the update.
ForwardAcceptedUnchecked ==
  /\ FromPeer("ChannelUpdateAccepted") /\ inner = "Active" /\ update # None
  /\ Head(toDevice).version = update.version
  /\ Apply(update)
  /\ toDevice' = Tail(toDevice)
  /\ UNCHANGED <<part_idx, watching, funded, panic, toPeer, replies, watched, chain, peer>>

ForwardUpdateAccepted ==
  /\ FromPeer("ChannelUpdateAccepted") /\ inner = "Active" /\ update # None
  /\ Head(toDevice).version = update.version /\ Head(toDevice).sig = update
  /\ Apply(update)
  /\ toDevice' = Tail(toDevice)
  /\ UNCHANGED <<part_idx, watching, funded, panic, toPeer, replies, watched, chain, peer>>

\* Variant: a rejected update stays pending.
ForwardRejectedIgnored ==
  /\ FromPeer("ChannelUpdateRejected") /\ inner = "Active" /\ update # None
  /\ toDevice' = Tail(toDevice)
  /\ UNCHANGED <<part_idx, device, toPeer, service, peer>>

\* Neither the channel id nor the version of the rejection is looked at.
ForwardUpdateRejected ==
  /\ FromPeer("ChannelUpdateRejected") /\ inner = "Active" /\ update # None
  /\ update' = None
  /\ toDevice' = Tail(toDevice)
  /\ UNCHANGED <<part_idx, inner, watching, funded, ch, panic, toPeer, service, peer>>

\* Every other pair of state and message is an Err.
ForwardParticipantErr ==
  /\ Running /\ toDevice # <<>>
  /\ LET m == Head(toDevice) IN
       ~ \/ inner = "Proposed" /\ m.type = "ProposalAccepted"
         \/ inner = "AgreedUpon" /\ m.type = "ChannelUpdateAccepted" /\ m.sig = ch
         \/ inner = "Active" /\ update = None /\ m.type = "ChannelUpdate"
              /\ ValidTransition(ch, m.state)
         \/ inner = "Active" /\ update # None /\ m.type = "ChannelUpdateAccepted"
              /\ m.sig = update
         \/ inner = "Active" /\ update # None /\ m.type = "ChannelUpdateRejected"
  /\ toDevice' = Tail(toDevice)
  /\ Panics("poll")
  /\ UNCHANGED <<toPeer, service, peer>>

\* Variant: one reply is enough.
ForwardAckActive ==
  /\ FromService("Ack") /\ inner = "Signed"
  /\ inner' = "Active" /\ watching' = TRUE
  /\ replies' = Tail(replies)
  /\ UNCHANGED <<part_idx, funded, ch, update, panic, toPeer, toDevice, requests, watched,
                 chain, peer>>

\* Signed becomes Active with the later of the two replies.
ForwardAckSigned ==
  /\ FromService("Ack") /\ inner = "Signed"
  /\ inner' = IF funded THEN "Active" ELSE "Signed"
  /\ watching' = TRUE
  /\ replies' = Tail(replies)
  /\ UNCHANGED <<part_idx, funded, ch, update, panic, toPeer, toDevice, requests, watched,
                 chain, peer>>

\* Variant: the earlier acknowledgement of the watcher is forgotten.
ForwardFundedAlone ==
  /\ FromService("Funded") /\ inner = "Signed"
  /\ inner' = "Signed" /\ funded' = TRUE
  /\ replies' = Tail(replies)
  /\ UNCHANGED <<part_idx, watching, ch, update, panic, toPeer, toDevice, requests, watched,
                 chain, peer>>

ForwardFunded ==
  /\ FromService("Funded") /\ inner = "Signed"
  /\ inner' = IF watching THEN "Active" ELSE "Signed"
  /\ funded' = TRUE
  /\ replies' = Tail(replies)
  /\ UNCHANGED <<part_idx, watching, ch, update, panic, toPeer, toDevice, requests, watched,
                 chain, peer>>

\* Variant: an acknowledgement also closes an Active channel.
ForwardAckCloses ==
  /\ FromService("Ack") /\ inner \in {"Active", "Closing"}
  /\ inner' = "Closed"
  /\ replies' = Tail(replies)
  /\ UNCHANGED <<part_idx, watching, funded, ch, update, panic, toPeer, toDevice, requests,
                 watched, chain, peer>>

\* An Ack is ignored in Active; in Closing the first one closes the channel,
\* whatever version it is for.
ForwardAck ==
  /\ FromService("Ack") /\ inner \in {"Active", "Closing"}
  /\ inner' = IF inner = "Closing" THEN "Closed" ELSE inner
  /\ replies' = Tail(replies)
  /\ UNCHANGED <<part_idx, watching, funded, ch, update, panic, toPeer, toDevice, requests,
                 watched, chain, peer>>

ForwardDisputeNotification ==
  /\ FromService("DisputeNotification") /\ inner \in {"Active", "Closing", "ForceClosing"}
  /\ inner' = IF inner = "ForceClosing" THEN inner ELSE "Closed"
  /\ replies' = Tail(replies)
  /\ UNCHANGED <<part_idx, watching, funded, ch, update, panic, toPeer, toDevice, requests,
                 watched, chain, peer>>

ForwardDisputeAck ==
  /\ FromService("DisputeAck") /\ inner = "ForceClosing"
  /\ inner' = "Closed"
  /\ replies' = Tail(replies)
  /\ UNCHANGED <<part_idx, watching, funded, ch, update, panic, toPeer, toDevice, requests,
                 watched, chain, peer>>

\* Every other pair is an Err; RegisterResp and StartWatchingLedgerChannelResp are
\* unimplemented in try_recv_service_msg.
ForwardServiceErr ==
  /\ Running /\ replies # <<>>
  /\ LET m == Head(replies) IN
       ~ \/ m.type = "Ack" /\ inner \in {"Signed", "Active", "Closing"}
         \/ m.type = "Funded" /\ inner = "Signed"
         \/ m.type = "DisputeNotification" /\ inner \in {"Active", "Closing", "ForceClosing"}
         \/ m.type = "DisputeAck" /\ inner = "ForceClosing"
  /\ replies' = Tail(replies)
  /\ Panics("poll")
  /\ UNCHANGED <<toPeer, toDevice, requests, watched, chain, peer>>

PollPeer ==
  \/ ForwardProposalAccepted \/ ForwardInitialSignature \/ ForwardUpdate
  \/ ForwardUpdateAccepted \/ ForwardUpdateRejected \/ ForwardParticipantErr

PollService ==
  \/ ForwardAckSigned \/ ForwardFunded \/ ForwardAck
  \/ ForwardDisputeNotification \/ ForwardDisputeAck \/ ForwardServiceErr

(***************************************************************************)
(* External: the watcher and funder service                                *)
(***************************************************************************)
\* A final state is registered on the ledger before the request is answered.
ServiceWatch(r, answer) ==
  /\ r.type = "WatchRequest"
  /\ requests' = requests \ {r}
  /\ replies' = Append(replies, IF answer = "Ack" THEN Ack(r.state.version) ELSE Reply(answer))
  /\ watched' = watched \cup {r.state.version}
  /\ chain' = [chain EXCEPT !.registered = @ \/ r.state.is_final]
  /\ UNCHANGED <<part_idx, device, toPeer, toDevice, peer>>

\* The channel is funded once both participants have asked for it.
ServiceFund ==
  /\ FundReq \in requests /\ peer.phase = "Funding"
  /\ requests' = requests \ {FundReq}
  /\ replies' = Append(replies, Reply("Funded"))
  /\ chain' = [chain EXCEPT !.funded = TRUE]
  /\ UNCHANGED <<part_idx, device, toPeer, toDevice, watched, peer>>

ServiceRegister(answer) ==
  /\ RegisterReq \in requests
  /\ requests' = requests \ {RegisterReq}
  /\ replies' = Append(replies, Reply(answer))
  /\ chain' = [chain EXCEPT !.registered = TRUE]
  /\ UNCHANGED <<part_idx, device, toPeer, toDevice, watched, peer>>

\* Only a channel that is watched is notified of.
ServiceNotify ==
  /\ chain.registered /\ ~chain.notified /\ watched # {}
  /\ replies' = Append(replies, Reply("DisputeNotification"))
  /\ chain' = [chain EXCEPT !.notified = TRUE]
  /\ UNCHANGED <<part_idx, device, toPeer, toDevice, requests, watched, peer>>

ServiceAnswers ==
  \/ \E r \in requests, answer \in WatchReply : ServiceWatch(r, answer)
  \/ ServiceFund
  \/ \E answer \in RegisterReply : ServiceRegister(answer)
  \/ ServiceNotify

(***************************************************************************)
(* External: the go-perun peer, which has at most one update in progress   *)
(***************************************************************************)
ToPeer(type) == toPeer # <<>> /\ Head(toPeer).type = type

\* The queue q without its k-th message
RemoveAt(q, k) == SubSeq(q, 1, k - 1) \o SubSeq(q, k + 1, Len(q))

PeerSends(ms) ==
  /\ toDevice' = toDevice \o ms
  /\ UNCHANGED <<part_idx, device, service>>

PeerHandleProposal ==
  /\ ToPeer("ChannelProposal")
  /\ toPeer' = Tail(toPeer)
  /\ \/ /\ peer' = [peer EXCEPT !.phase = "Agreed"]
        /\ PeerSends(<<ProposalAcceptedMsg, AcceptedMsg(peer.state)>>)
     \/ /\ "reject_proposal" \in PeerMay
        /\ peer' = [peer EXCEPT !.phase = "Done"]
        /\ PeerSends(<<ProposalRejectedMsg>>)

PeerHandleProposalAccepted ==
  /\ ToPeer("ProposalAccepted")
  /\ toPeer' = Tail(toPeer)
  /\ peer' = [peer EXCEPT !.phase = "Agreed"]
  /\ PeerSends(<<AcceptedMsg(peer.state)>>)

PeerHandleSignature ==
  /\ ToPeer("ChannelUpdateAccepted") /\ peer.phase = "Agreed"
  /\ toPeer' = Tail(toPeer)
  /\ peer' = [peer EXCEPT !.phase = "Funding"]
  /\ PeerSends(<<>>)

PeerFunded ==
  /\ peer.phase = "Funding" /\ chain.funded
  /\ peer' = [peer EXCEPT !.phase = "Active"]
  /\ UNCHANGED <<part_idx, device, toPeer, toDevice, service>>

PeerPropose(amount, final) ==
  /\ peer.phase = "Active" /\ peer.update = None
  /\ ~peer.state.is_final /\ peer.state.version < MaxVersion
  /\ peer.state.bal[1 - part_idx] >= amount
  /\ LET s == Pay(peer.state, 1 - part_idx, amount, final) IN
       /\ peer' = [peer EXCEPT !.update = s]
       /\ PeerSends(<<UpdateMsg(s)>>)
  /\ UNCHANGED toPeer

\* Blocks while an own update is in progress; an invalid update is ignored.
PeerHandleUpdate ==
  /\ ToPeer("ChannelUpdate") /\ peer.phase = "Active" /\ peer.update = None
  /\ toPeer' = Tail(toPeer)
  /\ LET s == Head(toPeer).state IN
       \/ /\ ValidTransition(peer.state, s)
          /\ peer' = [peer EXCEPT !.state = s]
          /\ PeerSends(<<AcceptedMsg(s)>>)
       \/ /\ ValidTransition(peer.state, s) /\ "reject_update" \in PeerMay
          /\ peer' = peer
          /\ PeerSends(<<RejectedMsg(s)>>)
       \/ /\ ~ValidTransition(peer.state, s)
          /\ peer' = peer
          /\ PeerSends(<<>>)

\* The acceptance of an own update does not wait behind updates that wait for it.
PeerHandleUpdateAccepted ==
  /\ peer.phase = "Active" /\ peer.update # None
  /\ \E k \in 1 .. Len(toPeer) :
       /\ \A j \in 1 .. k - 1 : toPeer[j].type = "ChannelUpdate"
       /\ toPeer[k] = AcceptedMsg(peer.update)
       /\ toPeer' = RemoveAt(toPeer, k)
  /\ peer' = [peer EXCEPT !.state = peer.update, !.update = None]
  /\ PeerSends(<<>>)

\* The peer disputes, or its own watcher registers the final state.
PeerRegisters ==
  /\ peer.phase = "Active" /\ ~chain.registered
  /\ "dispute" \in PeerMay \/ peer.state.is_final
  /\ chain' = [chain EXCEPT !.registered = TRUE]
  /\ UNCHANGED <<part_idx, device, toPeer, toDevice, requests, replies, watched, peer>>

PeerAnswers ==
  \/ PeerHandleProposal \/ PeerHandleProposalAccepted \/ PeerHandleSignature
  \/ PeerFunded \/ PeerHandleUpdate \/ PeerHandleUpdateAccepted

-----------------------------------------------------------------------------
Next ==
  \/ PressUpdate \/ PressNormalClose \/ PressForceClose
  \/ PollPeer \/ PollService
  \/ ServiceAnswers
  \/ PeerAnswers \/ PeerRegisters
  \/ "update" \in PeerMay /\ PeerPropose(Amount, FALSE)
  \/ "close" \in PeerMay /\ PeerPropose(0, TRUE)

Spec == Init /\ [][Next]_vars

\* The main loop polls for ever; peer and service answer what they are asked.
\* Nobody has to press a button, to propose or to dispute.
FairSpec ==
  /\ Spec
  /\ WF_vars(PollPeer) /\ WF_vars(PollService)
  /\ WF_vars(ServiceAnswers) /\ WF_vars(PeerAnswers)

(***************************************************************************)
(* Properties                                                              *)
(***************************************************************************)
\* Device and peer never hold different states of one version, and neither is
\* ever more than one version ahead, whatever buttons are pressed while an
\* answer is on its way (process_participant_msg with participant_accepted).
Agreement ==
  /\ ch.version = peer.state.version => ch = peer.state
  /\ ch.version \in peer.state.version - 1 .. peer.state.version + 1

\* The device only treats the channel as open once the ledger is funded and the
\* watcher knows the initial state, in whichever order the two replies come
\* (ChannelInner::Signed).
OpenMeansFundedAndWatched ==
  inner \in {"Active", "Closing", "ForceClosing"} => chain.funded /\ 0 \in watched

\* The device gives the channel up only if a state was registered on the ledger or
\* the service has been handed the final state, which it registers: also when the
\* Ack that closes the channel is a late one for an older version
\* (ChannelInner::Closed, ChannelUpdate::apply).
ClosedForAReason ==
  inner = "Closed" => \/ chain.registered
                      \/ ch.is_final /\ WatchRequest(ch) \in requests

\* How the device may come to stop: the peer rejects the proposal; an update
\* arrives before the service has answered both requests ("nothing is valid
\* until we receive a response"), or while an own update is pending; a dispute is
\* notified before the service has answered both requests; an answer arrives for
\* an update that a later button press replaced; anything of the peer arrives
\* after the device closed the channel, or an Ack after it asked for force_close;
\* a reply that try_recv_service_msg leaves unimplemented; participant 0 sends
\* more than it has.
KnownPanic ==
  \/ toDevice' # toDevice /\
       LET m == Head(toDevice) IN
       \/ inner = "Proposed" /\ m.type = "ProposalRejected"
       \/ inner = "Signed" /\ m.type = "ChannelUpdate"
       \/ inner = "Active" /\ update # None /\ m.type = "ChannelUpdate"
       \/ inner = "Active" /\ m.type # "ChannelUpdate" /\ "hasty" \in UserMay
       \/ inner \in {"Closing", "ForceClosing"}
  \/ replies' # replies /\
       \/ Head(replies).type \in {"RegisterResp", "StartWatchingResp"}
       \/ inner = "Signed" /\ Head(replies).type = "DisputeNotification"
       \/ inner = "ForceClosing" /\ Head(replies).type = "Ack"
  \/ panic' = "button" /\ part_idx = 0 /\ ch.bal[0] < Amount

\* The device stops only in the cases of KnownPanic, in whatever order buttons,
\* messages of the peer and replies of the service come.
OnlyKnownPanics == [][panic' # panic => KnownPanic]_vars

\* Every update of the peer is answered by a device that has not panicked.
PeerUpdateAnswered ==
  peer.update # None ~> (peer.update = None \/ panic # "no" \/ inner = "Closed")

\* An opening that both sides agreed on ends with an Active channel: neither of
\* the two service replies can be overlooked (ChannelInner::Signed).
OpeningCompletes == inner = "AgreedUpon" ~> (inner = "Active" \/ panic # "no")

\* An own update does not stay pending for ever, and a close that was agreed on
\* reaches Closed.
UpdateConcludes ==
  /\ (inner = "Active" /\ update # None) ~> (update = None \/ inner # "Active" \/ panic # "no")
  /\ inner = "Closing" ~> (inner = "Closed" \/ panic # "no")
=============================================================================
