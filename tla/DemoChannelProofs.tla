------------------------- MODULE DemoChannelProofs --------------------------
(***************************************************************************)
(* The safety properties of the demo's channel, for any versions, balances *)
(* and number of messages under way, whatever the user, the peer and the   *)
(* service do; and that the device stops only in the cases that            *)
(* OnlyKnownPanics lists (the second half).                                *)
(***************************************************************************)
EXTENDS DemoChannel, SequenceTheorems, TLAPS

\* States of this channel: nothing is created or lost.
ChannelStates == {s \in State : s.bal[0] + s.bal[1] = 2 * InitBal}

\* Messages that only carry such states as updates
ChannelMessages == {m \in Messages : m.type = "ChannelUpdate" => m.state \in ChannelStates}

Ledgers == [funded: BOOLEAN, registered: BOOLEAN, notified: BOOLEAN]

Peers == [phase: {"Idle", "Agreed", "Funding", "Active", "Done"},
          state: ChannelStates, update: ChannelStates \cup {None}]

\* TypeOK is not inductive: that no balance leaves its range is because the
\* total stays the same in every state that anybody holds or has sent.
DeviceTypes ==
  /\ part_idx \in Idx
  /\ inner \in ChannelInner
  /\ watching \in BOOLEAN /\ funded \in BOOLEAN
  /\ ch \in ChannelStates
  /\ update \in ChannelStates \cup {None}
  /\ panic \in {"no", "poll", "button"}

QueueTypes == toPeer \in Seq(ChannelMessages) /\ toDevice \in Seq(ChannelMessages)

ServiceTypes ==
  /\ requests \subseteq Requests
  /\ replies \in Seq(Replies)
  /\ watched \subseteq 0..MaxVersion
  /\ chain \in Ledgers

TypeInv == DeviceTypes /\ QueueTypes /\ ServiceTypes /\ peer \in Peers

\* At most one message of q has a type of T, or none has.
AtMostOne(q, T) == \A i, j \in 1 .. Len(q) : q[i].type \in T /\ q[j].type \in T => i = j

Without(q, T) == \A m \in Range(q) : m.type \notin T

OneUpdate(q) == AtMostOne(q, {"ChannelUpdate"})

NoUpdate(q) == Without(q, {"ChannelUpdate"})

\* What is under way to the peer comes from the state of the device.
ToPeerInv ==
  \A m \in Range(toPeer) :
    /\ m.type = "ChannelUpdate" => m.state.version <= ch.version + 1
    /\ m.type = "ChannelUpdateAccepted" => m.sig.version <= ch.version

\* What is under way to the device comes from the state of the peer: an update
\* is the one in progress, and an acceptance that is not too old is of the
\* peer's state.
ToDeviceInv ==
  /\ \A m \in Range(toDevice) :
       /\ m.type = "ChannelUpdate" => m.state = peer.update /\ ch.version <= peer.state.version
       /\ m.type = "ChannelUpdateAccepted" =>
            m.sig.version <= peer.state.version /\ (m.sig.version > ch.version => m.sig = peer.state)
  /\ OneUpdate(toDevice)

\* A pending update is of the next version; the device is ahead only by the
\* update the peer is waiting for.
PendingInv ==
  /\ update # None => update.version = ch.version + 1
  /\ peer.update # None => peer.update.version = peer.state.version + 1
  /\ ch.version > peer.state.version => ch = peer.update

AgreementInv == PendingInv /\ ToPeerInv /\ ToDeviceInv /\ Agreement

\* Until both replies are there, the service has only heard of version 0.
OpenInv ==
  /\ funded => chain.funded
  /\ watching => 0 \in watched
  /\ \A m \in Range(replies) : m.type = "Funded" => chain.funded
  /\ inner \in {"Proposed", "AgreedUpon", "Signed"} =>
       /\ ch.version = 0
       /\ \A r \in requests : r.type = "WatchRequest" => r.state.version = 0
       /\ \A m \in Range(replies) : m.type = "Ack" => 0 \in watched
  /\ OpenMeansFundedAndWatched

CloseInv ==
  /\ inner = "Closing" => ch.is_final /\ (chain.registered \/ WatchRequest(ch) \in requests)
  /\ \A m \in Range(replies) : m.type \in {"DisputeNotification", "DisputeAck"} => chain.registered
  /\ ClosedForAReason

-----------------------------------------------------------------------------
(***************************************************************************)
(* Queues                                                                  *)
(***************************************************************************)
\* Taking the first message leaves only messages that were there
\* (FromPeer, FromService).
LEMMA Taken ==
  ASSUME NEW S, NEW q \in Seq(S), q # <<>>
  PROVE  /\ Tail(q) \in Seq(S)
         /\ Head(q) \in S /\ Head(q) \in Range(q)
         /\ Range(Tail(q)) \subseteq Range(q)
<1>1. /\ Head(q) \in S /\ Tail(q) \in Seq(S)
      /\ Len(Tail(q)) = Len(q) - 1
      /\ \A i \in 1 .. Len(Tail(q)) : Tail(q)[i] = q[i + 1]
  BY HeadTailProperties, Zenon
<1>2. Len(q) \in Nat \ {0}
  BY EmptySeq, Zenon
<1>3. DOMAIN q = 1 .. Len(q) /\ DOMAIN Tail(q) = 1 .. Len(Tail(q))
  BY <1>1, LenProperties, Zenon
<1>4. Head(q) \in Range(q)
  <2>1. Head(q) = q[1]
    OBVIOUS
  <2>2. 1 \in 1 .. Len(q)
    BY <1>2
  <2> QED BY <2>1, <2>2, <1>3 DEF Range
<1>5. ASSUME NEW x \in Range(Tail(q)) PROVE x \in Range(q)
  <2>1. PICK i \in 1 .. Len(Tail(q)) : x = Tail(q)[i]
    BY <1>5, <1>3, Zenon DEF Range
  <2>2. i + 1 \in 1 .. Len(q)
    BY <1>1, <1>2
  <2> QED BY <2>1, <2>2, <1>1, <1>3, Zenon DEF Range
<1> QED BY <1>1, <1>4, <1>5, Zenon

\* What one queue holds after another has been appended to it (PeerSends).
LEMMA Joined ==
  ASSUME NEW S, NEW q \in Seq(S), NEW ms \in Seq(S)
  PROVE  /\ q \o ms \in Seq(S)
         /\ Range(q \o ms) \subseteq Range(q) \cup Range(ms)
<1>1. /\ q \o ms \in Seq(S)
      /\ Len(q \o ms) = Len(q) + Len(ms)
      /\ \A i \in 1 .. Len(q) + Len(ms) :
           (q \o ms)[i] = IF i <= Len(q) THEN q[i] ELSE ms[i - Len(q)]
  BY ConcatProperties, Zenon
<1>2. /\ DOMAIN q = 1 .. Len(q) /\ DOMAIN ms = 1 .. Len(ms)
      /\ DOMAIN (q \o ms) = 1 .. Len(q \o ms)
      /\ Len(q) \in Nat /\ Len(ms) \in Nat
  BY <1>1, LenProperties, Zenon
<1>3. ASSUME NEW x \in Range(q \o ms) PROVE x \in Range(q) \cup Range(ms)
  <2>1. PICK i \in 1 .. Len(q) + Len(ms) : x = (q \o ms)[i]
    BY <1>1, <1>2, <1>3, Zenon DEF Range
  <2>2. CASE i <= Len(q)
    <3>1. i \in 1 .. Len(q) /\ x = q[i]
      BY <2>1, <2>2, <1>1, <1>2
    <3> QED BY <3>1, <1>2, Zenon DEF Range
  <2>3. CASE ~(i <= Len(q))
    <3>1. i - Len(q) \in 1 .. Len(ms) /\ x = ms[i - Len(q)]
      BY <2>1, <2>3, <1>1, <1>2
    <3> QED BY <3>1, <1>2, Zenon DEF Range
  <2> QED BY <2>2, <2>3, Zenon
<1> QED BY <1>1, <1>3, Zenon

\* Queues of up to two messages
LEMMA Nothing ==
  ASSUME NEW S
  PROVE  <<>> \in Seq(S) /\ Range(<<>>) = {}
BY DEF Range

LEMMA Single ==
  ASSUME NEW S, NEW a \in S
  PROVE  <<a>> \in Seq(S) /\ Range(<<a>>) = {a}
BY DEF Range

LEMMA Pair ==
  ASSUME NEW S, NEW a \in S, NEW b \in S
  PROVE  <<a, b>> \in Seq(S) /\ Range(<<a, b>>) = {a, b}
BY DEF Range

LEMMA Appended ==
  ASSUME NEW S, NEW q \in Seq(S), NEW m \in S
  PROVE  /\ Append(q, m) \in Seq(S)
         /\ Range(Append(q, m)) \subseteq Range(q) \cup {m}
<1>1. Append(q, m) = q \o <<m>>
  OBVIOUS
<1>2. <<m>> \in Seq(S) /\ Range(<<m>>) = {m}
  BY Single, Zenon
<1>3. q \o <<m>> \in Seq(S) /\ Range(q \o <<m>>) \subseteq Range(q) \cup {m}
  BY <1>2, Joined, Zenon
<1> QED BY <1>1, <1>3, Zenon

\* Any message may be taken out of the middle (PeerHandleUpdateAccepted).
LEMMA Removed ==
  ASSUME NEW S, NEW q \in Seq(S), NEW k \in 1 .. Len(q)
  PROVE  /\ RemoveAt(q, k) \in Seq(S)
         /\ q[k] \in Range(q)
         /\ Range(RemoveAt(q, k)) \subseteq Range(q)
<1> DEFINE a == SubSeq(q, 1, k - 1)
           b == SubSeq(q, k + 1, Len(q))
<1>1. Len(q) \in Nat /\ DOMAIN q = 1 .. Len(q) /\ \A i \in 1 .. Len(q) : q[i] \in S
  BY LenProperties, ElementOfSeq, Zenon
<1>2. ASSUME NEW m \in Int, NEW n \in Int, 1 <= m, n <= Len(q)
      PROVE  SubSeq(q, m, n) \in Seq(S) /\ Range(SubSeq(q, m, n)) \subseteq Range(q)
  <2>1. \A i \in m .. n : i \in 1 .. Len(q)
    BY <1>1, <1>2
  <2>2. \A i \in m .. n : q[i] \in S
    BY <1>1, <2>1, Zenon
  <2>3. /\ SubSeq(q, m, n) \in Seq(S)
        /\ Len(SubSeq(q, m, n)) = IF m <= n THEN n - m + 1 ELSE 0
        /\ \A i \in 1 .. n - m + 1 : SubSeq(q, m, n)[i] = q[m + i - 1]
    BY <2>2, SubSeqProperties, SMT
  <2>4. DOMAIN SubSeq(q, m, n) = 1 .. Len(SubSeq(q, m, n))
    BY <2>3, LenProperties, Zenon
  <2>5. ASSUME NEW x \in Range(SubSeq(q, m, n)) PROVE x \in Range(q)
    <3>1. PICK i \in 1 .. Len(SubSeq(q, m, n)) : x = SubSeq(q, m, n)[i]
      BY <2>4, <2>5, Zenon DEF Range
    <3>2. i \in 1 .. n - m + 1 /\ m + i - 1 \in 1 .. Len(q)
      BY <2>3, <1>1, <1>2
    <3> QED BY <3>1, <3>2, <2>3, <1>1, Zenon DEF Range
  <2> QED BY <2>3, <2>5, Zenon
<1>3. /\ 1 \in Int /\ k - 1 \in Int /\ 1 <= 1 /\ k - 1 <= Len(q)
      /\ k + 1 \in Int /\ Len(q) \in Int /\ 1 <= k + 1 /\ Len(q) <= Len(q)
  BY <1>1
<1>4. /\ a \in Seq(S) /\ Range(a) \subseteq Range(q)
      /\ b \in Seq(S) /\ Range(b) \subseteq Range(q)
  BY <1>2, <1>3, Zenon
<1> HIDE DEF a, b
<1>5. a \o b \in Seq(S) /\ Range(a \o b) \subseteq Range(q)
  BY <1>4, Joined, Zenon
<1>6. q[k] \in Range(q)
  BY <1>1, Zenon DEF Range
<1>7. RemoveAt(q, k) = a \o b
  BY DEF RemoveAt, a, b
<1> QED BY <1>5, <1>6, <1>7, Zenon

-----------------------------------------------------------------------------
(***************************************************************************)
(* States, messages and types                                              *)
(***************************************************************************)
\* What the fields of a state are
LEMMA StateFields ==
  ASSUME NEW s \in ChannelStates
  PROVE  /\ s \in State /\ s # None
         /\ s.version \in 0..MaxVersion /\ s.version \in Nat
         /\ s.is_final \in BOOLEAN
         /\ s.bal \in [Idx -> 0..2 * InitBal] /\ s.bal[0] + s.bal[1] = 2 * InitBal
BY NoneAssumption, DemoAssumption DEF ChannelStates, State

LEMMA InitStateGood ==
  InitState \in ChannelStates /\ InitState.version = 0 /\ InitState.is_final = FALSE
BY DemoAssumption DEF InitState, ChannelStates, State, Idx

\* A payment that is covered leaves the total as it was (Channel::update with
\* make_next_state).
LEMMA Paid ==
  ASSUME NEW s \in ChannelStates, NEW i \in Idx, NEW amount \in Nat, NEW final \in BOOLEAN,
         s.version < MaxVersion, s.bal[i] >= amount
  PROVE  /\ Pay(s, i, amount, final) \in ChannelStates
         /\ Pay(s, i, amount, final).version = s.version + 1
         /\ Pay(s, i, amount, final).is_final = final
<1> DEFINE b == [s.bal EXCEPT ![1 - i] = @ + amount, ![i] = @ - amount]
<1>1. /\ s.version \in Nat /\ s.bal \in [Idx -> 0..2 * InitBal]
      /\ s.bal[0] + s.bal[1] = 2 * InitBal
      /\ s.bal[0] \in 0..2 * InitBal /\ s.bal[1] \in 0..2 * InitBal
      /\ InitBal \in Nat /\ MaxVersion \in Nat
  BY StateFields, DemoAssumption DEF Idx
<1>2. b = [j \in Idx |-> IF j = i THEN s.bal[j] - amount ELSE s.bal[j] + amount]
  BY <1>1 DEF Idx
<1>3. b[0] + b[1] = 2 * InitBal /\ b[0] \in 0..2 * InitBal /\ b[1] \in 0..2 * InitBal
  <2> HIDE DEF b
  <2>1. CASE i = 0
    BY <1>1, <1>2, <2>1 DEF Idx
  <2>2. CASE i = 1
    BY <1>1, <1>2, <2>2 DEF Idx
  <2> QED BY <2>1, <2>2 DEF Idx
<1>4. b \in [Idx -> 0..2 * InitBal]
  <2> HIDE DEF b
  <2> QED BY <1>2, <1>3 DEF Idx
<1>5. Pay(s, i, amount, final) = [version |-> s.version + 1, bal |-> b, is_final |-> final]
  BY DEF Pay
<1> HIDE DEF b
<1>6. s.version + 1 \in 0..MaxVersion
  BY <1>1
<1> QED BY <1>3, <1>4, <1>5, <1>6 DEF ChannelStates, State

\* What the fields of a message are
LEMMA MessageFields ==
  ASSUME NEW m \in ChannelMessages
  PROVE  /\ m.type = "ChannelUpdate" => m.state \in ChannelStates
         /\ m.type = "ChannelUpdateAccepted" => m.sig \in State
BY DEF ChannelMessages, Messages, ProposalMsg, ProposalAcceptedMsg, ProposalRejectedMsg

LEMMA PlainMessages ==
  /\ ProposalMsg \in ChannelMessages /\ ProposalMsg.type = "ChannelProposal"
  /\ ProposalAcceptedMsg \in ChannelMessages /\ ProposalAcceptedMsg.type = "ProposalAccepted"
  /\ ProposalRejectedMsg \in ChannelMessages /\ ProposalRejectedMsg.type = "ProposalRejected"
BY DEF ChannelMessages, Messages, ProposalMsg, ProposalAcceptedMsg, ProposalRejectedMsg

LEMMA StateMessages ==
  ASSUME NEW s \in ChannelStates
  PROVE  /\ UpdateMsg(s) \in ChannelMessages
         /\ UpdateMsg(s).type = "ChannelUpdate" /\ UpdateMsg(s).state = s
         /\ AcceptedMsg(s) \in ChannelMessages
         /\ AcceptedMsg(s).type = "ChannelUpdateAccepted" /\ AcceptedMsg(s).sig = s
         /\ RejectedMsg(s) \in ChannelMessages
         /\ RejectedMsg(s).type = "ChannelUpdateRejected"
<1>1. s \in State /\ s.version \in 0..MaxVersion
  BY StateFields, Zenon
<1> QED BY <1>1 DEF UpdateMsg, AcceptedMsg, RejectedMsg, ChannelMessages, Messages

LEMMA ServiceMessages ==
  /\ \A s \in ChannelStates : /\ WatchRequest(s) \in Requests
                              /\ WatchRequest(s).type = "WatchRequest" /\ WatchRequest(s).state = s
  /\ FundReq \in Requests /\ FundReq.type = "FundReq"
  /\ RegisterReq \in Requests /\ RegisterReq.type = "RegisterReq"
  /\ \A r \in Requests : r.type = "WatchRequest" => r.state \in State
  /\ \A v \in 0..MaxVersion : Ack(v) \in Replies /\ Ack(v).type = "Ack"
  /\ \A t \in {"Funded", "DisputeAck", "RegisterResp", "StartWatchingResp", "DisputeNotification"} :
       Reply(t) \in Replies /\ Reply(t).type = t
BY DEF WatchRequest, FundReq, RegisterReq, Requests, Replies, Ack, Reply, ChannelStates

LEMMA TypesSuffice == TypeInv => TypeOK
<1> SUFFICES ASSUME TypeInv PROVE TypeOK
  OBVIOUS
<1>1. ChannelStates \subseteq State /\ ChannelMessages \subseteq Messages
  BY DEF ChannelStates, ChannelMessages
<1>2. toPeer \in Seq(Messages) /\ toDevice \in Seq(Messages)
  BY <1>1, SeqMonotonic, Zenon DEF TypeInv, QueueTypes
<1>3. peer \in [phase: {"Idle", "Agreed", "Funding", "Active", "Done"},
                state: State, update: State \cup {None}]
  BY <1>1 DEF TypeInv, Peers
<1>4. ch \in State /\ update \in State \cup {None}
  BY <1>1 DEF TypeInv, DeviceTypes
<1> QED BY <1>2, <1>3, <1>4, Zenon DEF TypeInv, DeviceTypes, ServiceTypes, TypeOK, Ledgers

LEMMA TypesInitially == Init => TypeInv
<1> SUFFICES ASSUME Init PROVE TypeInv
  OBVIOUS
<1>1. InitState \in ChannelStates /\ AcceptedMsg(InitState) \in ChannelMessages
  BY InitStateGood, StateMessages, Zenon
<1>2. DeviceTypes
  BY <1>1, DemoAssumption DEF Init, DeviceTypes, ChannelInner
<1>3. QueueTypes
  <2>1. ProposalMsg \in ChannelMessages /\ ProposalAcceptedMsg \in ChannelMessages
    BY PlainMessages, Zenon
  <2>2. /\ <<>> \in Seq(ChannelMessages) /\ <<ProposalMsg>> \in Seq(ChannelMessages)
        /\ <<ProposalAcceptedMsg, AcceptedMsg(InitState)>> \in Seq(ChannelMessages)
    BY <1>1, <2>1, Nothing, Single, Pair, Zenon
  <2>3. toDevice = <<>> /\ toPeer \in {<<ProposalMsg>>, <<ProposalAcceptedMsg, AcceptedMsg(InitState)>>}
    BY DEF Init
  <2> QED BY <2>2, <2>3, Zenon DEF QueueTypes
<1>4. ServiceTypes
  BY DEF Init, ServiceTypes, Ledgers
<1>5. peer \in Peers
  BY <1>1 DEF Init, Peers
<1> QED BY <1>2, <1>3, <1>4, <1>5, Zenon DEF TypeInv

\* Channel::update
LEMMA UpdateTypes ==
  ASSUME TypeInv, NEW amount \in Nat, NEW final \in BOOLEAN,
         ch.version < MaxVersion, ChannelUpdate(amount, final)
  PROVE  TypeInv'
<1>1. DeviceTypes /\ QueueTypes /\ ServiceTypes /\ peer \in Peers
  BY Zenon DEF TypeInv
<1>2. UNCHANGED <<toDevice, service, peer>>
  BY DEF ChannelUpdate
<1>3. ServiceTypes' /\ peer' \in Peers
  BY <1>1, <1>2 DEF ServiceTypes, service
<1>4. CASE Solvent(amount)
  <2> DEFINE next == Pay(ch, part_idx, amount, final)
  <2>1. /\ update' = next /\ toPeer' = Append(toPeer, UpdateMsg(next))
        /\ UNCHANGED <<part_idx, inner, watching, funded, ch, panic>>
    BY <1>4 DEF ChannelUpdate
  <2>2. ch \in ChannelStates /\ part_idx \in Idx
    BY <1>1 DEF DeviceTypes
  <2>3. next \in ChannelStates
    BY <1>4, <2>2, Paid DEF Solvent
  <2>4. UpdateMsg(next) \in ChannelMessages
    BY <2>3, StateMessages, Zenon
  <2> HIDE DEF next
  <2>5. DeviceTypes'
    BY <1>1, <2>1, <2>3 DEF DeviceTypes
  <2>6. toPeer' \in Seq(ChannelMessages)
    BY <1>1, <2>1, <2>4, Appended, Zenon DEF QueueTypes
  <2> QED BY <1>1, <1>2, <1>3, <2>5, <2>6, Zenon DEF TypeInv, QueueTypes
<1>5. CASE ~Solvent(amount)
  <2>1. panic' = "button" /\ UNCHANGED <<part_idx, inner, watching, funded, ch, update, toPeer>>
    BY <1>5 DEF ChannelUpdate, Panics
  <2>2. DeviceTypes' /\ QueueTypes'
    BY <1>1, <1>2, <2>1 DEF DeviceTypes, QueueTypes
  <2> QED BY <1>3, <2>2, Zenon DEF TypeInv
<1> QED BY <1>4, <1>5, Zenon

LEMMA ButtonTypes ==
  ASSUME TypeInv, PressUpdate \/ PressNormalClose \/ PressForceClose
  PROVE  TypeInv'
<1>1. CASE PressUpdate
  <2>1. ch.version < MaxVersion /\ ChannelUpdate(Amount, FALSE)
    BY <1>1, Zenon DEF PressUpdate, Pressable
  <2>2. Amount \in Nat /\ FALSE \in BOOLEAN
    BY DemoAssumption, Zenon
  <2> QED BY <2>1, <2>2, UpdateTypes, Zenon
<1>2. CASE PressNormalClose
  <2>1. ch.version < MaxVersion /\ ChannelUpdate(0, TRUE)
    BY <1>2, Zenon DEF PressNormalClose, Pressable
  <2>2. 0 \in Nat /\ TRUE \in BOOLEAN
    OBVIOUS
  <2> QED BY <2>1, <2>2, UpdateTypes, Zenon
<1>3. CASE PressForceClose
  <2>1. DeviceTypes'
    BY <1>3 DEF TypeInv, DeviceTypes, PressForceClose, ChannelInner
  <2>2. requests' \subseteq Requests
    BY <1>3, ServiceMessages DEF TypeInv, ServiceTypes, PressForceClose
  <2> QED BY <1>3, <2>1, <2>2, Zenon DEF TypeInv, QueueTypes, ServiceTypes, PressForceClose
<1> QED BY <1>1, <1>2, <1>3, Zenon

\* A message of the peer is taken and forwarded.
LEMMA PollPeerTypes ==
  ASSUME TypeInv, PollPeer
  PROVE  TypeInv'
<1>1. DeviceTypes /\ QueueTypes /\ ServiceTypes /\ peer \in Peers
  BY Zenon DEF TypeInv
<1>2. toDevice # <<>> /\ toDevice' = Tail(toDevice) /\ UNCHANGED <<part_idx, replies, watched, chain, peer>>
  BY DEF PollPeer, ForwardProposalAccepted, ForwardInitialSignature, ForwardUpdate,
         ForwardUpdateAccepted, ForwardUpdateRejected, ForwardParticipantErr, FromPeer, service, Panics
<1>3. Head(toDevice) \in ChannelMessages /\ toDevice' \in Seq(ChannelMessages)
  BY <1>1, <1>2, Taken, Zenon DEF QueueTypes
<1>4. ch \in ChannelStates /\ update \in ChannelStates \cup {None}
  BY <1>1, Zenon DEF DeviceTypes
<1>5. ASSUME requests' \subseteq Requests PROVE ServiceTypes' /\ peer' \in Peers
  BY <1>1, <1>2, <1>5, Zenon DEF ServiceTypes
<1>6. CASE ForwardProposalAccepted
  <2>1. /\ inner' = "AgreedUpon" /\ toPeer' = Append(toPeer, AcceptedMsg(ch)) /\ requests' = requests
        /\ UNCHANGED <<watching, funded, ch, update, panic>>
    BY <1>6 DEF ForwardProposalAccepted, service
  <2>2. DeviceTypes'
    BY <1>1, <1>2, <2>1 DEF DeviceTypes, ChannelInner
  <2>3. toPeer' \in Seq(ChannelMessages)
    BY <1>1, <1>4, <2>1, StateMessages, Appended, Zenon DEF QueueTypes
  <2>4. requests' \subseteq Requests
    BY <1>1, <2>1, Zenon DEF ServiceTypes
  <2> QED BY <1>3, <1>5, <2>2, <2>3, <2>4, Zenon DEF TypeInv, QueueTypes
<1>7. CASE ForwardInitialSignature
  <2>1. /\ inner' = "Signed" /\ requests' = requests \cup {WatchRequest(ch), FundReq}
        /\ UNCHANGED <<watching, funded, ch, update, panic, toPeer>>
    BY <1>7, Zenon DEF ForwardInitialSignature
  <2>2. DeviceTypes'
    BY <1>1, <1>2, <2>1 DEF DeviceTypes, ChannelInner
  <2>3. toPeer' \in Seq(ChannelMessages)
    BY <1>1, <2>1, Zenon DEF QueueTypes
  <2>4. requests' \subseteq Requests
    <3>1. WatchRequest(ch) \in Requests /\ FundReq \in Requests
      BY <1>4, ServiceMessages, Zenon
    <3> QED BY <1>1, <2>1, <3>1, Zenon DEF ServiceTypes
  <2> QED BY <1>3, <1>5, <2>2, <2>3, <2>4, Zenon DEF TypeInv, QueueTypes
<1>8. ASSUME NEW s \in ChannelStates, Apply(s), UNCHANGED <<watching, funded, panic>>
      PROVE  DeviceTypes' /\ requests' \subseteq Requests
  <2>1. ch' = s /\ update' = None /\ inner' \in {"Closing", "Active"}
        /\ requests' = requests \cup {WatchRequest(s)}
    BY <1>8 DEF Apply
  <2>2. DeviceTypes'
    BY <1>1, <1>2, <1>8, <2>1 DEF DeviceTypes, ChannelInner
  <2>3. WatchRequest(s) \in Requests
    BY ServiceMessages, Zenon
  <2> QED BY <1>1, <2>1, <2>2, <2>3, Zenon DEF ServiceTypes
<1>9. CASE ForwardUpdate
  <2> DEFINE s == Head(toDevice).state
  <2>1. /\ Head(toDevice).type = "ChannelUpdate" /\ Apply(s)
        /\ toPeer' = Append(toPeer, AcceptedMsg(s)) /\ UNCHANGED <<watching, funded, panic>>
    BY <1>9, Zenon DEF ForwardUpdate, FromPeer
  <2>2. s \in ChannelStates
    BY <1>3, <2>1, MessageFields, Zenon
  <2> HIDE DEF s
  <2>3. DeviceTypes' /\ requests' \subseteq Requests
    <3> UNCHANGED <<watching, funded, panic>>
      BY <2>1, Zenon
    <3> QED BY <1>8, <2>1, <2>2, Zenon
  <2>4. toPeer' \in Seq(ChannelMessages)
    BY <1>1, <2>1, <2>2, StateMessages, Appended, Zenon DEF QueueTypes
  <2> QED BY <1>3, <1>5, <2>3, <2>4, Zenon DEF TypeInv, QueueTypes
<1>10. CASE ForwardUpdateAccepted
  <2>1. update # None /\ Apply(update) /\ UNCHANGED <<watching, funded, panic>> /\ UNCHANGED toPeer
    BY <1>10, Zenon DEF ForwardUpdateAccepted
  <2>2. update \in ChannelStates
    BY <1>4, <2>1, Zenon
  <2>3. DeviceTypes' /\ requests' \subseteq Requests
    BY <1>8, <2>1, <2>2, Zenon
  <2>4. toPeer' \in Seq(ChannelMessages)
    BY <1>1, <2>1, Zenon DEF QueueTypes
  <2> QED BY <1>3, <1>5, <2>3, <2>4, Zenon DEF TypeInv, QueueTypes
<1>11. CASE ForwardUpdateRejected \/ ForwardParticipantErr
  <2>1. /\ update' \in {update, None} /\ panic' \in {panic, "poll"}
        /\ UNCHANGED <<inner, watching, funded, ch, toPeer, requests>>
    BY <1>11 DEF ForwardUpdateRejected, ForwardParticipantErr, Panics, service
  <2>2. DeviceTypes'
    BY <1>1, <1>2, <2>1 DEF DeviceTypes
  <2>3. toPeer' \in Seq(ChannelMessages) /\ requests' \subseteq Requests
    BY <1>1, <2>1, Zenon DEF QueueTypes, ServiceTypes
  <2> QED BY <1>3, <1>5, <2>2, <2>3, Zenon DEF TypeInv, QueueTypes
<1> QED BY <1>6, <1>7, <1>9, <1>10, <1>11, Zenon DEF PollPeer

\* A reply of the service is taken and forwarded.
LEMMA PollServiceTypes ==
  ASSUME TypeInv, PollService
  PROVE  TypeInv'
<1>1. DeviceTypes /\ QueueTypes /\ ServiceTypes /\ peer \in Peers
  BY Zenon DEF TypeInv
<1>2. /\ replies # <<>> /\ replies' = Tail(replies)
      /\ UNCHANGED <<part_idx, ch, update, toPeer, toDevice, requests, watched, chain, peer>>
  BY DEF PollService, ForwardAckSigned, ForwardFunded, ForwardAck, ForwardDisputeNotification,
         ForwardDisputeAck, ForwardServiceErr, FromService, Panics
<1>3. /\ inner' \in {inner, "Active", "Closed"} /\ watching' \in {watching, TRUE}
      /\ funded' \in {funded, TRUE} /\ panic' \in {panic, "poll"}
  BY DEF PollService, ForwardAckSigned, ForwardFunded, ForwardAck, ForwardDisputeNotification,
         ForwardDisputeAck, ForwardServiceErr, Panics
<1>4. DeviceTypes'
  BY <1>1, <1>2, <1>3 DEF DeviceTypes, ChannelInner
<1>5. replies' \in Seq(Replies)
  BY <1>1, <1>2, Taken, Zenon DEF ServiceTypes
<1> QED BY <1>1, <1>2, <1>4, <1>5, Zenon DEF TypeInv, QueueTypes, ServiceTypes

\* The service answers a request or notifies of a dispute.
LEMMA ServiceAnswersTypes ==
  ASSUME TypeInv, ServiceAnswers
  PROVE  TypeInv'
<1>1. DeviceTypes /\ QueueTypes /\ ServiceTypes /\ peer \in Peers
  BY Zenon DEF TypeInv
<1>2. UNCHANGED <<part_idx, device, toPeer, toDevice, peer>>
  BY Zenon DEF ServiceAnswers, ServiceWatch, ServiceFund, ServiceRegister, ServiceNotify
<1>3. DeviceTypes' /\ QueueTypes' /\ peer' \in Peers
  BY <1>1, <1>2 DEF DeviceTypes, QueueTypes, device
<1>4. ASSUME NEW m \in Replies, replies' = Append(replies, m) PROVE replies' \in Seq(Replies)
  BY <1>1, <1>4, Appended, Zenon DEF ServiceTypes
<1>5. ASSUME NEW r \in requests, NEW answer \in WatchReply, ServiceWatch(r, answer)
      PROVE  ServiceTypes'
  <2> DEFINE m == IF answer = "Ack" THEN Ack(r.state.version) ELSE Reply(answer)
  <2>1. /\ r.type = "WatchRequest" /\ requests' = requests \ {r} /\ replies' = Append(replies, m)
        /\ watched' = watched \cup {r.state.version}
        /\ chain' = [chain EXCEPT !.registered = @ \/ r.state.is_final]
    BY <1>5, Zenon DEF ServiceWatch
  <2>2. r.state \in State
    BY <1>1, <2>1, ServiceMessages, Zenon DEF ServiceTypes
  <2>3. r.state.version \in 0..MaxVersion /\ r.state.is_final \in BOOLEAN
    BY <2>2 DEF State
  <2>4. m \in Replies
    <3>1. answer \in {"Ack", "StartWatchingResp"}
      BY DemoAssumption, Zenon
    <3>2. Ack(r.state.version) \in Replies /\ Reply("StartWatchingResp") \in Replies
      BY <2>3, ServiceMessages
    <3> QED BY <3>1, <3>2
  <2> HIDE DEF m
  <2>5. replies' \in Seq(Replies)
    BY <1>4, <2>1, <2>4, Zenon
  <2>6. requests' \subseteq Requests /\ watched' \subseteq 0..MaxVersion
    BY <1>1, <2>1, <2>3, Zenon DEF ServiceTypes
  <2>7. chain' \in Ledgers
    BY <1>1, <2>1, <2>3 DEF ServiceTypes, Ledgers
  <2> QED BY <2>5, <2>6, <2>7, Zenon DEF ServiceTypes
<1>6. ASSUME ServiceFund PROVE ServiceTypes'
  <2>1. /\ requests' \subseteq requests /\ watched' = watched
        /\ replies' = Append(replies, Reply("Funded")) /\ chain' = [chain EXCEPT !.funded = TRUE]
    BY <1>6 DEF ServiceFund
  <2>2. Reply("Funded") \in Replies
    BY ServiceMessages
  <2>3. chain' \in Ledgers
    BY <1>1, <2>1 DEF ServiceTypes, Ledgers
  <2>4. replies' \in Seq(Replies)
    BY <1>4, <2>1, <2>2, Zenon
  <2> QED BY <1>1, <2>1, <2>3, <2>4, Zenon DEF ServiceTypes
<1>7. ASSUME NEW answer \in RegisterReply, ServiceRegister(answer)
      PROVE  ServiceTypes'
  <2>1. /\ requests' \subseteq requests /\ watched' = watched
        /\ replies' = Append(replies, Reply(answer)) /\ chain' = [chain EXCEPT !.registered = TRUE]
    BY <1>7 DEF ServiceRegister
  <2>2. Reply(answer) \in Replies
    BY ServiceMessages, DemoAssumption
  <2>3. chain' \in Ledgers
    BY <1>1, <2>1 DEF ServiceTypes, Ledgers
  <2>4. replies' \in Seq(Replies)
    BY <1>4, <2>1, <2>2, Zenon
  <2> QED BY <1>1, <2>1, <2>3, <2>4, Zenon DEF ServiceTypes
<1>8. ASSUME ServiceNotify PROVE ServiceTypes'
  <2>1. /\ requests' = requests /\ watched' = watched
        /\ replies' = Append(replies, Reply("DisputeNotification"))
        /\ chain' = [chain EXCEPT !.notified = TRUE]
    BY <1>8, Zenon DEF ServiceNotify
  <2>2. Reply("DisputeNotification") \in Replies
    BY ServiceMessages
  <2>3. chain' \in Ledgers
    BY <1>1, <2>1 DEF ServiceTypes, Ledgers
  <2>4. replies' \in Seq(Replies)
    BY <1>4, <2>1, <2>2, Zenon
  <2> QED BY <1>1, <2>1, <2>3, <2>4, Zenon DEF ServiceTypes
<1>9. ServiceTypes'
  BY <1>5, <1>6, <1>7, <1>8, Zenon DEF ServiceAnswers
<1> QED BY <1>3, <1>9, Zenon DEF TypeInv

\* What every step of the peer that only changes its queues and itself keeps
LEMMA PeerSendsTypes ==
  ASSUME TypeInv, NEW ms \in Seq(ChannelMessages), PeerSends(ms),
         toPeer' \in Seq(ChannelMessages), peer' \in Peers
  PROVE  TypeInv'
<1>1. DeviceTypes /\ QueueTypes /\ ServiceTypes
  BY Zenon DEF TypeInv
<1>2. toDevice' = toDevice \o ms /\ UNCHANGED <<part_idx, device, service>>
  BY Zenon DEF PeerSends
<1>3. toDevice' \in Seq(ChannelMessages)
  BY <1>1, <1>2, Joined, Zenon DEF QueueTypes
<1>4. DeviceTypes' /\ ServiceTypes'
  BY <1>1, <1>2 DEF DeviceTypes, ServiceTypes, device, service
<1> QED BY <1>3, <1>4, Zenon DEF TypeInv, QueueTypes

\* The peer may be given a new phase, state or update.
LEMMA PeerChanged ==
  ASSUME peer \in Peers
  PROVE  /\ \A f \in {"Idle", "Agreed", "Funding", "Active", "Done"} :
              /\ [peer EXCEPT !.phase = f] \in Peers
              /\ [peer EXCEPT !.phase = f].state = peer.state
              /\ [peer EXCEPT !.phase = f].update = peer.update
              /\ [peer EXCEPT !.phase = f].phase = f
         /\ \A s \in ChannelStates :
              /\ [peer EXCEPT !.state = s] \in Peers
              /\ [peer EXCEPT !.state = s].state = s
              /\ [peer EXCEPT !.state = s].update = peer.update
              /\ [peer EXCEPT !.state = s].phase = peer.phase
              /\ [peer EXCEPT !.update = s] \in Peers
              /\ [peer EXCEPT !.update = s].state = peer.state
              /\ [peer EXCEPT !.update = s].update = s
              /\ [peer EXCEPT !.update = s].phase = peer.phase
              /\ [peer EXCEPT !.state = s, !.update = None] \in Peers
              /\ [peer EXCEPT !.state = s, !.update = None].state = s
              /\ [peer EXCEPT !.state = s, !.update = None].update = None
              /\ [peer EXCEPT !.state = s, !.update = None].phase = peer.phase
         /\ peer.state \in ChannelStates /\ peer.update \in ChannelStates \cup {None}
         /\ peer.phase \in {"Idle", "Agreed", "Funding", "Active", "Done"}
BY DEF Peers

\* The peer proposes an update.
LEMMA ProposeTypes ==
  ASSUME TypeInv, NEW amount \in Nat, NEW final \in BOOLEAN, PeerPropose(amount, final)
  PROVE  TypeInv'
<1> DEFINE s == Pay(peer.state, 1 - part_idx, amount, final)
<1>1. part_idx \in Idx /\ peer \in Peers /\ peer.state \in ChannelStates
  BY PeerChanged, Zenon DEF TypeInv, DeviceTypes
<1>2. 1 - part_idx \in Idx
  BY <1>1 DEF Idx
<1>3. /\ peer.state.version < MaxVersion /\ peer.state.bal[1 - part_idx] >= amount
      /\ peer' = [peer EXCEPT !.update = s] /\ PeerSends(<<UpdateMsg(s)>>) /\ toPeer' = toPeer
  BY Zenon DEF PeerPropose
<1>4. s \in ChannelStates
  BY <1>1, <1>2, <1>3, Paid, Zenon
<1> HIDE DEF s
<1>5. <<UpdateMsg(s)>> \in Seq(ChannelMessages)
  BY <1>4, StateMessages, Single, Zenon
<1>6. peer' \in Peers
  BY <1>1, <1>3, <1>4, PeerChanged, Zenon
<1>7. toPeer' \in Seq(ChannelMessages)
  BY <1>3, Zenon DEF TypeInv, QueueTypes
<1> QED BY <1>3, <1>5, <1>6, <1>7, PeerSendsTypes, Zenon

LEMMA PeerAnswersTypes ==
  ASSUME TypeInv, PeerAnswers \/ PeerRegisters
  PROVE  TypeInv'
<1>1. /\ DeviceTypes /\ QueueTypes /\ ServiceTypes /\ peer \in Peers
      /\ toPeer \in Seq(ChannelMessages) /\ peer.state \in ChannelStates
      /\ peer.update \in ChannelStates \cup {None}
  BY PeerChanged, Zenon DEF TypeInv, QueueTypes
<1>2. ASSUME toPeer # <<>>, toPeer' = Tail(toPeer)
      PROVE  toPeer' \in Seq(ChannelMessages) /\ Head(toPeer) \in ChannelMessages
  BY <1>1, <1>2, Taken, Zenon
<1>3. /\ \A f \in {"Idle", "Agreed", "Funding", "Active", "Done"} : [peer EXCEPT !.phase = f] \in Peers
      /\ AcceptedMsg(peer.state) \in ChannelMessages
      /\ ProposalAcceptedMsg \in ChannelMessages /\ ProposalRejectedMsg \in ChannelMessages
  BY <1>1, PeerChanged, StateMessages, PlainMessages, Zenon
<1>4. /\ <<ProposalAcceptedMsg, AcceptedMsg(peer.state)>> \in Seq(ChannelMessages)
      /\ <<ProposalRejectedMsg>> \in Seq(ChannelMessages)
      /\ <<AcceptedMsg(peer.state)>> \in Seq(ChannelMessages)
      /\ <<>> \in Seq(ChannelMessages)
  BY <1>3, Nothing, Single, Pair, Zenon
<1>5. CASE PeerHandleProposal
  <2>1. /\ toPeer # <<>> /\ toPeer' = Tail(toPeer) /\ peer' \in Peers
        /\ \/ PeerSends(<<ProposalAcceptedMsg, AcceptedMsg(peer.state)>>)
           \/ PeerSends(<<ProposalRejectedMsg>>)
    BY <1>5, <1>3 DEF PeerHandleProposal, ToPeer
  <2> QED BY <1>2, <1>4, <2>1, PeerSendsTypes, Zenon
<1>6. CASE PeerHandleProposalAccepted
  <2>1. /\ toPeer # <<>> /\ toPeer' = Tail(toPeer) /\ peer' \in Peers
        /\ PeerSends(<<AcceptedMsg(peer.state)>>)
    BY <1>6, <1>3 DEF PeerHandleProposalAccepted, ToPeer
  <2> QED BY <1>2, <1>4, <2>1, PeerSendsTypes, Zenon
<1>7. CASE PeerHandleSignature
  <2>1. toPeer # <<>> /\ toPeer' = Tail(toPeer) /\ peer' \in Peers /\ PeerSends(<<>>)
    BY <1>7, <1>3 DEF PeerHandleSignature, ToPeer
  <2> QED BY <1>2, <1>4, <2>1, PeerSendsTypes, Zenon
<1>8. CASE PeerFunded
  <2>1. peer' \in Peers /\ UNCHANGED <<part_idx, device, toPeer, toDevice, service>>
    BY <1>8, <1>3 DEF PeerFunded
  <2> QED BY <1>1, <2>1 DEF TypeInv, DeviceTypes, QueueTypes, ServiceTypes, device, service
<1>9. CASE PeerHandleUpdate
  <2> DEFINE s == Head(toPeer).state
  <2>1. /\ toPeer # <<>> /\ Head(toPeer).type = "ChannelUpdate" /\ toPeer' = Tail(toPeer)
        /\ \/ peer' = [peer EXCEPT !.state = s] /\ PeerSends(<<AcceptedMsg(s)>>)
           \/ peer' = peer /\ PeerSends(<<RejectedMsg(s)>>)
           \/ peer' = peer /\ PeerSends(<<>>)
    BY <1>9, Zenon DEF PeerHandleUpdate, ToPeer
  <2>2. s \in ChannelStates
    BY <1>2, <2>1, MessageFields, Zenon
  <2> HIDE DEF s
  <2>3. peer' \in Peers
    BY <1>1, <2>1, <2>2, PeerChanged, Zenon
  <2>4. <<AcceptedMsg(s)>> \in Seq(ChannelMessages) /\ <<RejectedMsg(s)>> \in Seq(ChannelMessages)
    BY <2>2, StateMessages, Single, Zenon
  <2> QED BY <1>2, <1>4, <2>1, <2>3, <2>4, PeerSendsTypes, Zenon
<1>10. CASE PeerHandleUpdateAccepted
  <2>1. PICK k \in 1 .. Len(toPeer) : toPeer' = RemoveAt(toPeer, k)
    BY <1>10, Zenon DEF PeerHandleUpdateAccepted
  <2>2. toPeer' \in Seq(ChannelMessages)
    BY <1>1, <2>1, Removed, Zenon
  <2>3. /\ peer.update \in ChannelStates /\ PeerSends(<<>>)
        /\ peer' = [peer EXCEPT !.state = peer.update, !.update = None]
    BY <1>1, <1>10, Zenon DEF PeerHandleUpdateAccepted
  <2>4. peer' \in Peers
    BY <1>1, <2>3, PeerChanged, Zenon
  <2> QED BY <1>4, <2>2, <2>3, <2>4, PeerSendsTypes, Zenon
<1>11. CASE PeerRegisters
  <2>1. /\ chain' = [chain EXCEPT !.registered = TRUE]
        /\ UNCHANGED <<part_idx, device, toPeer, toDevice, requests, replies, watched, peer>>
    BY <1>11, Zenon DEF PeerRegisters
  <2>2. chain' \in Ledgers
    BY <1>1, <2>1 DEF ServiceTypes, Ledgers
  <2> QED BY <1>1, <2>1, <2>2 DEF TypeInv, DeviceTypes, QueueTypes, ServiceTypes, device
<1> QED BY <1>5, <1>6, <1>7, <1>8, <1>9, <1>10, <1>11, Zenon DEF PeerAnswers

\* TypeOK holds whatever the versions, balances and number of messages: no
\* balance leaves its range (State::make_next_state, check_valid_transition).
LEMMA AlwaysTypeInv == Spec => []TypeInv
<1>1. TypeInv /\ [Next]_vars => TypeInv'
  <2> SUFFICES ASSUME TypeInv, [Next]_vars PROVE TypeInv'
    OBVIOUS
  <2>1. CASE UNCHANGED vars
    BY <2>1 DEF vars, device, service, TypeInv, DeviceTypes, QueueTypes, ServiceTypes
  <2>2. CASE PeerPropose(Amount, FALSE) \/ PeerPropose(0, TRUE)
    <3>1. Amount \in Nat /\ 0 \in Nat /\ TRUE \in BOOLEAN /\ FALSE \in BOOLEAN
      BY DemoAssumption
    <3> QED BY <2>2, <3>1, ProposeTypes, Zenon
  <2>3. CASE PressUpdate \/ PressNormalClose \/ PressForceClose
    BY <2>3, ButtonTypes, Zenon
  <2>4. CASE PollPeer
    BY <2>4, PollPeerTypes, Zenon
  <2>5. CASE PollService
    BY <2>5, PollServiceTypes, Zenon
  <2>6. CASE ServiceAnswers
    BY <2>6, ServiceAnswersTypes, Zenon
  <2>7. CASE PeerAnswers \/ PeerRegisters
    BY <2>7, PeerAnswersTypes, Zenon
  <2> QED BY <2>1, <2>2, <2>3, <2>4, <2>5, <2>6, <2>7, Zenon DEF Next
<1> QED BY TypesInitially, <1>1, PTL DEF Spec

\* No state that device or peer holds has a balance or a version out of range,
\* for any amounts and versions (State::make_next_state, check_valid_transition).
THEOREM ChannelTypeCorrect == Spec => []TypeOK
BY AlwaysTypeInv, TypesSuffice, PTL

-----------------------------------------------------------------------------
(***************************************************************************)
(* Agreement                                                               *)
(***************************************************************************)
\* Without its first message a queue still has at most one of types T, and none
\* if that was it.
LEMMA OneTaken ==
  ASSUME NEW S, NEW T, NEW q \in Seq(S), q # <<>>, AtMostOne(q, T)
  PROVE  /\ AtMostOne(Tail(q), T)
         /\ Head(q).type \in T => Without(Tail(q), T)
<1>1. /\ Tail(q) \in Seq(S) /\ Len(Tail(q)) = Len(q) - 1
      /\ \A i \in 1 .. Len(Tail(q)) : Tail(q)[i] = q[i + 1]
  BY HeadTailProperties, Zenon
<1>2. Len(q) \in Nat \ {0}
  BY EmptySeq, Zenon
<1>3. DOMAIN Tail(q) = 1 .. Len(Tail(q))
  BY <1>1, LenProperties, Zenon
<1>4. Head(q) = q[1]
  OBVIOUS
<1>5. 1 \in 1 .. Len(q) /\ \A i \in 1 .. Len(Tail(q)) : i + 1 \in 1 .. Len(q) /\ i + 1 # 1
  BY <1>1, <1>2
<1>6. AtMostOne(Tail(q), T)
  <2> SUFFICES ASSUME NEW i \in 1 .. Len(Tail(q)), NEW j \in 1 .. Len(Tail(q)),
                      Tail(q)[i].type \in T, Tail(q)[j].type \in T
               PROVE  i = j
    BY Zenon DEF AtMostOne
  <2>1. i + 1 = j + 1
    BY <1>1, <1>5, Zenon DEF AtMostOne
  <2> QED BY <1>1, <1>2, <2>1
<1>7. ASSUME Head(q).type \in T PROVE Without(Tail(q), T)
  <2> SUFFICES ASSUME NEW i \in 1 .. Len(Tail(q)), Tail(q)[i].type \in T PROVE FALSE
    BY <1>3, Zenon DEF Without, Range
  <2>1. i + 1 = 1
    BY <1>1, <1>4, <1>5, <1>7, Zenon DEF AtMostOne
  <2> QED BY <1>5, <2>1, Zenon
<1> QED BY <1>6, <1>7, Zenon

\* One may only be appended to a queue without one.
LEMMA OneJoined ==
  ASSUME NEW S, NEW T, NEW q \in Seq(S), NEW ms \in Seq(S),
         AtMostOne(q, T), Without(ms, T) \/ (Without(q, T) /\ Len(ms) = 1)
  PROVE  AtMostOne(q \o ms, T)
<1>1. /\ Len(q \o ms) = Len(q) + Len(ms)
      /\ \A i \in 1 .. Len(q) + Len(ms) :
           (q \o ms)[i] = IF i <= Len(q) THEN q[i] ELSE ms[i - Len(q)]
  BY ConcatProperties, Zenon
<1>2. /\ DOMAIN q = 1 .. Len(q) /\ DOMAIN ms = 1 .. Len(ms)
      /\ Len(q) \in Nat /\ Len(ms) \in Nat
  BY LenProperties, Zenon
<1>3. ASSUME Without(q, T), NEW i \in 1 .. Len(q) PROVE q[i].type \notin T
  BY <1>2, <1>3, Zenon DEF Without, Range
<1>4. ASSUME Without(ms, T), NEW i \in 1 .. Len(ms) PROVE ms[i].type \notin T
  BY <1>2, <1>4, Zenon DEF Without, Range
<1> SUFFICES ASSUME NEW i \in 1 .. Len(q) + Len(ms), NEW j \in 1 .. Len(q) + Len(ms),
                    (q \o ms)[i].type \in T, (q \o ms)[j].type \in T
             PROVE  i = j
  BY <1>1, Zenon DEF AtMostOne
<1>5. CASE Without(ms, T)
  <2>1. ASSUME NEW k \in 1 .. Len(q) + Len(ms), (q \o ms)[k].type \in T
        PROVE  k \in 1 .. Len(q) /\ q[k].type \in T
    <3>1. CASE k <= Len(q)
      BY <1>1, <1>2, <2>1, <3>1
    <3>2. CASE ~(k <= Len(q))
      <4>1. k - Len(q) \in 1 .. Len(ms) /\ (q \o ms)[k] = ms[k - Len(q)]
        BY <1>1, <1>2, <3>2
      <4> QED BY <1>4, <1>5, <2>1, <4>1, Zenon
    <3> QED BY <3>1, <3>2, Zenon
  <2> QED BY <2>1, Zenon DEF AtMostOne
<1>6. CASE Without(q, T) /\ Len(ms) = 1
  <2>1. ASSUME NEW k \in 1 .. Len(q) + Len(ms), (q \o ms)[k].type \in T
        PROVE  k = Len(q) + 1
    <3>1. CASE k <= Len(q)
      <4>1. k \in 1 .. Len(q) /\ (q \o ms)[k] = q[k]
        BY <1>1, <1>2, <3>1
      <4> QED BY <1>3, <1>6, <2>1, <4>1, Zenon
    <3>2. CASE ~(k <= Len(q))
      BY <1>2, <1>6, <3>2
    <3> QED BY <3>1, <3>2, Zenon
  <2> QED BY <2>1, Zenon
<1> QED BY <1>5, <1>6, Zenon

LEMMA OneUpdateTaken ==
  ASSUME NEW S, NEW q \in Seq(S), q # <<>>, OneUpdate(q)
  PROVE  /\ OneUpdate(Tail(q))
         /\ Head(q).type = "ChannelUpdate" => NoUpdate(Tail(q))
BY OneTaken, Zenon DEF OneUpdate, NoUpdate

LEMMA OneUpdateJoined ==
  ASSUME NEW S, NEW q \in Seq(S), NEW ms \in Seq(S),
         OneUpdate(q), NoUpdate(ms) \/ (NoUpdate(q) /\ Len(ms) = 1)
  PROVE  OneUpdate(q \o ms)
BY OneJoined, Zenon DEF OneUpdate, NoUpdate

\* The versions that are compared are numbers.
LEMMA Versions ==
  ASSUME TypeInv
  PROVE  /\ ch \in ChannelStates /\ ch.version \in Nat /\ ch # None
         /\ update \in ChannelStates \cup {None} /\ update # None => update.version \in Nat
         /\ peer \in Peers /\ peer.state \in ChannelStates /\ peer.state.version \in Nat
         /\ peer.update \in ChannelStates \cup {None}
         /\ peer.update # None => peer.update.version \in Nat
         /\ toPeer \in Seq(ChannelMessages) /\ toDevice \in Seq(ChannelMessages)
         /\ \A m \in Range(toPeer) \cup Range(toDevice) :
              /\ m.type = "ChannelUpdate" => m.state \in ChannelStates /\ m.state.version \in Nat
              /\ m.type = "ChannelUpdateAccepted" => m.sig.version \in Nat
<1>1. /\ ch \in ChannelStates /\ update \in ChannelStates \cup {None} /\ peer \in Peers
      /\ toPeer \in Seq(ChannelMessages) /\ toDevice \in Seq(ChannelMessages)
  BY Zenon DEF TypeInv, DeviceTypes, QueueTypes
<1>2. peer.state \in ChannelStates /\ peer.update \in ChannelStates \cup {None}
  BY <1>1, PeerChanged, Zenon
<1>3. \A s \in State : s.version \in Nat
  BY DemoAssumption DEF State
<1>4. ASSUME NEW m \in Range(toPeer) \cup Range(toDevice)
      PROVE  /\ m.type = "ChannelUpdate" => m.state \in ChannelStates /\ m.state.version \in Nat
             /\ m.type = "ChannelUpdateAccepted" => m.sig.version \in Nat
  <2>1. \A q \in Seq(ChannelMessages) : Range(q) \subseteq ChannelMessages
    BY DEF Range
  <2>2. m \in ChannelMessages
    BY <1>1, <2>1, Zenon
  <2> QED BY <1>3, <2>2, MessageFields, StateFields, Zenon
<1> QED BY <1>1, <1>2, <1>4, StateFields, Zenon

\* The device takes a message and keeps its state; it may give up its update
\* and may sign the initial state.
LEMMA TakenAgree ==
  ASSUME TypeInv, AgreementInv, toDevice # <<>>, toDevice' = Tail(toDevice),
         UNCHANGED <<ch, peer>>, update' \in {update, None},
         Range(toPeer') \subseteq Range(toPeer) \cup {AcceptedMsg(ch)}
  PROVE  AgreementInv'
<1>1. PendingInv /\ ToPeerInv /\ ToDeviceInv /\ Agreement
  BY Zenon DEF AgreementInv
<1>2. /\ ch \in ChannelStates /\ ch.version \in Nat
      /\ toDevice \in Seq(ChannelMessages)
  BY Versions, Zenon
<1>3. Agreement'
  BY <1>1 DEF Agreement
<1>4. PendingInv'
  BY <1>1 DEF PendingInv
<1>5. ToPeerInv'
  <2>1. AcceptedMsg(ch).type = "ChannelUpdateAccepted" /\ AcceptedMsg(ch).sig = ch
    BY <1>2, StateMessages, Zenon
  <2>2. ch.version <= ch.version
    BY <1>2
  <2>3. "ChannelUpdateAccepted" # "ChannelUpdate"
    OBVIOUS
  <2> QED BY <1>1, <2>1, <2>2, <2>3, Zenon DEF ToPeerInv
<1>6. ToDeviceInv'
  <2>1. OneUpdate(toDevice') /\ Range(toDevice') \subseteq Range(toDevice)
    BY <1>1, <1>2, OneUpdateTaken, Taken, Zenon DEF ToDeviceInv
  <2> QED BY <1>1, <2>1, Zenon DEF ToDeviceInv, OneUpdate, AtMostOne
<1> QED BY <1>3, <1>4, <1>5, <1>6, Zenon DEF AgreementInv

\* The peer sends answers and keeps its state and its update.
LEMMA PeerQuietAgree ==
  ASSUME TypeInv, AgreementInv, NEW ms \in Seq(ChannelMessages), toDevice' = toDevice \o ms,
         UNCHANGED <<ch, update>>, peer'.state = peer.state, peer'.update = peer.update,
         Range(toPeer') \subseteq Range(toPeer),
         NoUpdate(ms),
         \A m \in Range(ms) : m.type = "ChannelUpdateAccepted" => m.sig = peer.state
  PROVE  AgreementInv'
<1>1. PendingInv /\ ToPeerInv /\ ToDeviceInv /\ Agreement
  BY Zenon DEF AgreementInv
<1>2. peer.state.version \in Nat /\ toDevice \in Seq(ChannelMessages)
  BY Versions, Zenon
<1>3. Agreement'
  BY <1>1 DEF Agreement
<1>4. PendingInv'
  BY <1>1 DEF PendingInv
<1>5. ToPeerInv'
  BY <1>1, Zenon DEF ToPeerInv
<1>6. ToDeviceInv'
  <2>1. OneUpdate(toDevice') /\ Range(toDevice') \subseteq Range(toDevice) \cup Range(ms)
    BY <1>1, <1>2, OneUpdateJoined, Joined, Zenon DEF ToDeviceInv
  <2>2. OneUpdate(toDevice)'
    BY <2>1, Zenon DEF OneUpdate, AtMostOne
  <2>3. peer.state.version <= peer.state.version
    BY <1>2
  <2>4. ASSUME NEW m \in Range(toDevice')
        PROVE /\ m.type = "ChannelUpdate" => m.state = peer'.update /\ ch'.version <= peer'.state.version
              /\ m.type = "ChannelUpdateAccepted" =>
                   m.sig.version <= peer'.state.version /\ (m.sig.version > ch'.version => m.sig = peer'.state)
    BY <1>1, <2>1, <2>3, Zenon DEF ToDeviceInv, NoUpdate, Without
  <2> QED BY <2>2, <2>4, Zenon DEF ToDeviceInv
<1> QED BY <1>3, <1>4, <1>5, <1>6, Zenon DEF AgreementInv

\* A button proposes the next version (Channel::update).
LEMMA UpdateAgree ==
  ASSUME TypeInv, AgreementInv, NEW amount \in Nat, NEW final \in BOOLEAN,
         ch.version < MaxVersion, ChannelUpdate(amount, final)
  PROVE  AgreementInv'
<1>1. PendingInv /\ ToPeerInv /\ ToDeviceInv /\ Agreement
  BY Zenon DEF AgreementInv
<1>2. /\ ch \in ChannelStates /\ ch.version \in Nat /\ part_idx \in Idx
      /\ toPeer \in Seq(ChannelMessages)
  BY Versions, Zenon DEF TypeInv, DeviceTypes
<1>3. UNCHANGED <<ch, peer, toDevice>>
  BY DEF ChannelUpdate, Panics
<1>4. Agreement' /\ ToDeviceInv'
  BY <1>1, <1>3 DEF Agreement, ToDeviceInv, OneUpdate, AtMostOne
<1>5. CASE Solvent(amount)
  <2> DEFINE next == Pay(ch, part_idx, amount, final)
  <2>1. update' = next /\ toPeer' = Append(toPeer, UpdateMsg(next))
    BY <1>5 DEF ChannelUpdate
  <2>2. next \in ChannelStates /\ next.version = ch.version + 1
    BY <1>2, <1>5, Paid DEF Solvent
  <2> HIDE DEF next
  <2>3. /\ UpdateMsg(next) \in ChannelMessages
        /\ UpdateMsg(next).type = "ChannelUpdate" /\ UpdateMsg(next).state = next
    BY <2>2, StateMessages, Zenon
  <2>4. PendingInv'
    BY <1>1, <1>3, <2>1, <2>2 DEF PendingInv
  <2>5. ToPeerInv'
    <3>1. Range(toPeer') \subseteq Range(toPeer) \cup {UpdateMsg(next)}
      BY <1>2, <2>1, <2>3, Appended, Zenon
    <3>2. next.version <= ch.version + 1
      BY <1>2, <2>2
    <3>3. "ChannelUpdateAccepted" # "ChannelUpdate"
      OBVIOUS
    <3> QED BY <1>1, <1>3, <2>3, <3>1, <3>2, <3>3, Zenon DEF ToPeerInv
  <2> QED BY <1>4, <2>4, <2>5, Zenon DEF AgreementInv
<1>6. CASE ~Solvent(amount)
  <2>1. UNCHANGED <<update, toPeer>>
    BY <1>6 DEF ChannelUpdate, Panics
  <2>2. PendingInv' /\ ToPeerInv'
    BY <1>1, <1>3, <2>1 DEF PendingInv, ToPeerInv
  <2> QED BY <1>4, <2>2, Zenon DEF AgreementInv
<1> QED BY <1>5, <1>6, Zenon

\* The device accepts an update: it is of the version after the one both have.
LEMMA ForwardUpdateAgree ==
  ASSUME TypeInv, AgreementInv, ForwardUpdate
  PROVE  AgreementInv'
<1> DEFINE s == Head(toDevice).state
<1>1. PendingInv /\ ToPeerInv /\ ToDeviceInv /\ Agreement
  BY Zenon DEF AgreementInv
<1>2. /\ toDevice # <<>> /\ Head(toDevice).type = "ChannelUpdate" /\ ValidTransition(ch, s)
      /\ toPeer' = Append(toPeer, AcceptedMsg(s)) /\ ch' = s /\ update' = None
      /\ toDevice' = Tail(toDevice) /\ peer' = peer
  BY Zenon DEF ForwardUpdate, FromPeer, Apply
<1>3. /\ ch.version \in Nat /\ peer.state.version \in Nat
      /\ peer.update # None => peer.update.version \in Nat
      /\ toPeer \in Seq(ChannelMessages) /\ toDevice \in Seq(ChannelMessages)
      /\ \A m \in Range(toPeer) \cup Range(toDevice) :
           /\ m.type = "ChannelUpdate" => m.state \in ChannelStates /\ m.state.version \in Nat
           /\ m.type = "ChannelUpdateAccepted" => m.sig.version \in Nat
  BY Versions, Zenon
<1>4. /\ Head(toDevice) \in Range(toDevice) /\ Range(toDevice') \subseteq Range(toDevice)
      /\ NoUpdate(toDevice') /\ OneUpdate(toDevice')
  BY <1>1, <1>2, <1>3, Taken, OneUpdateTaken, Zenon DEF ToDeviceInv
<1>5. s \in ChannelStates /\ s = peer.update
  BY <1>1, <1>2, <1>3, <1>4, Zenon DEF ToDeviceInv
<1>6. s.version = ch.version + 1
  BY <1>2, Zenon DEF ValidTransition
<1>7. s # None
  BY <1>5, StateFields, Zenon
<1> HIDE DEF s
<1>8. s.version = peer.state.version + 1 /\ ch.version = peer.state.version
  <2>1. s.version = peer.state.version + 1
    BY <1>1, <1>5, <1>7, Zenon DEF PendingInv
  <2> QED BY <1>3, <1>6, <2>1
<1>9. PendingInv'
  BY <1>1, <1>2, <1>5 DEF PendingInv
<1>10. Agreement'
  BY <1>2, <1>3, <1>8 DEF Agreement
<1>11. ToPeerInv'
  <2>1. /\ AcceptedMsg(s) \in ChannelMessages
        /\ AcceptedMsg(s).type = "ChannelUpdateAccepted" /\ AcceptedMsg(s).sig = s
    BY <1>5, StateMessages, Zenon
  <2>2. Range(toPeer') \subseteq Range(toPeer) \cup {AcceptedMsg(s)}
    BY <1>2, <1>3, <2>1, Appended, Zenon
  <2>3. ASSUME NEW m \in Range(toPeer')
        PROVE  /\ m.type = "ChannelUpdate" => m.state.version <= ch'.version + 1
               /\ m.type = "ChannelUpdateAccepted" => m.sig.version <= ch'.version
    <3>1. CASE m \in Range(toPeer)
      <4>1. /\ m.type = "ChannelUpdate" => m.state.version <= ch.version + 1 /\ m.state.version \in Nat
            /\ m.type = "ChannelUpdateAccepted" => m.sig.version <= ch.version /\ m.sig.version \in Nat
        BY <1>1, <1>3, <3>1, Zenon DEF ToPeerInv
      <4> QED BY <1>2, <1>3, <1>6, <4>1
    <3>2. CASE m = AcceptedMsg(s)
      BY <1>2, <1>3, <1>6, <2>1, <3>2
    <3> QED BY <2>2, <3>1, <3>2, Zenon
  <2> QED BY <2>3, Zenon DEF ToPeerInv
<1>12. ToDeviceInv'
  <2>1. ASSUME NEW m \in Range(toDevice'), m.type = "ChannelUpdateAccepted"
        PROVE  m.sig.version <= peer'.state.version /\ ~(m.sig.version > ch'.version)
    <3>1. m.sig.version <= peer.state.version /\ m.sig.version \in Nat
      BY <1>1, <1>3, <1>4, <2>1, Zenon DEF ToDeviceInv
    <3> QED BY <1>2, <1>3, <1>8, <3>1
  <2>2. OneUpdate(toDevice)'
    BY <1>4, Zenon DEF OneUpdate, AtMostOne
  <2> QED BY <1>4, <2>1, <2>2, Zenon DEF ToDeviceInv, NoUpdate, Without
<1> QED BY <1>9, <1>10, <1>11, <1>12, Zenon DEF AgreementInv

\* The device applies its own update: the acceptance is of the peer's state.
LEMMA UpdateAcceptedAgree ==
  ASSUME TypeInv, AgreementInv, ForwardUpdateAccepted
  PROVE  AgreementInv'
<1>1. PendingInv /\ ToPeerInv /\ ToDeviceInv /\ Agreement
  BY Zenon DEF AgreementInv
<1>2. /\ toDevice # <<>> /\ Head(toDevice).type = "ChannelUpdateAccepted"
      /\ update # None /\ Head(toDevice).sig = update
      /\ toPeer' = toPeer /\ ch' = update /\ update' = None
      /\ toDevice' = Tail(toDevice) /\ peer' = peer
  BY Zenon DEF ForwardUpdateAccepted, FromPeer, Apply
<1>3. /\ ch.version \in Nat /\ peer.state.version \in Nat
      /\ peer.update # None => peer.update.version \in Nat
      /\ toDevice \in Seq(ChannelMessages)
      /\ \A m \in Range(toPeer) \cup Range(toDevice) :
           /\ m.type = "ChannelUpdate" => m.state \in ChannelStates /\ m.state.version \in Nat
           /\ m.type = "ChannelUpdateAccepted" => m.sig.version \in Nat
  BY Versions, Zenon
<1>4. /\ Head(toDevice) \in Range(toDevice) /\ Range(toDevice') \subseteq Range(toDevice)
      /\ OneUpdate(toDevice')
  BY <1>1, <1>2, <1>3, Taken, OneUpdateTaken, Zenon DEF ToDeviceInv
<1>5. update.version = ch.version + 1
  BY <1>1, <1>2, Zenon DEF PendingInv
<1>6. update = peer.state
  <2>1. update.version > ch.version
    BY <1>3, <1>5
  <2> QED BY <1>1, <1>2, <1>4, <2>1, Zenon DEF ToDeviceInv
<1>7. PendingInv'
  BY <1>1, <1>2, <1>3, <1>6 DEF PendingInv
<1>8. Agreement'
  BY <1>2, <1>3, <1>6 DEF Agreement
<1>9. ToPeerInv'
  <2>1. ASSUME NEW m \in Range(toPeer)
        PROVE  /\ m.type = "ChannelUpdate" => m.state.version <= ch'.version + 1
               /\ m.type = "ChannelUpdateAccepted" => m.sig.version <= ch'.version
    <3>1. /\ m.type = "ChannelUpdate" => m.state.version <= ch.version + 1 /\ m.state.version \in Nat
          /\ m.type = "ChannelUpdateAccepted" => m.sig.version <= ch.version /\ m.sig.version \in Nat
      BY <1>1, <1>3, Zenon DEF ToPeerInv
    <3> QED BY <1>2, <1>3, <1>5, <3>1
  <2> QED BY <1>2, <2>1, Zenon DEF ToPeerInv
<1>10. ToDeviceInv'
  <2>1. ASSUME NEW m \in Range(toDevice'), m.type = "ChannelUpdateAccepted"
        PROVE  m.sig.version <= peer'.state.version /\ ~(m.sig.version > ch'.version)
    <3>1. m.sig.version <= peer.state.version /\ m.sig.version \in Nat
      BY <1>1, <1>3, <1>4, <2>1, Zenon DEF ToDeviceInv
    <3> QED BY <1>2, <1>3, <1>6, <3>1
  <2>2. ASSUME NEW m \in Range(toDevice'), m.type = "ChannelUpdate"
        PROVE  m.state = peer'.update /\ ch'.version <= peer'.state.version
    <3>1. m.state = peer.update
      BY <1>1, <1>4, <2>2, Zenon DEF ToDeviceInv
    <3>2. ch'.version <= peer'.state.version
      BY <1>2, <1>3, <1>6
    <3> QED BY <1>2, <3>1, <3>2, Zenon
  <2>3. OneUpdate(toDevice)'
    BY <1>4, Zenon DEF OneUpdate, AtMostOne
  <2> QED BY <2>1, <2>2, <2>3, Zenon DEF ToDeviceInv
<1> QED BY <1>7, <1>8, <1>9, <1>10, Zenon DEF AgreementInv

\* The peer proposes the version after its own.
LEMMA ProposeAgree ==
  ASSUME TypeInv, AgreementInv, NEW amount \in Nat, NEW final \in BOOLEAN, PeerPropose(amount, final)
  PROVE  AgreementInv'
<1> DEFINE s == Pay(peer.state, 1 - part_idx, amount, final)
<1>1. PendingInv /\ ToPeerInv /\ ToDeviceInv /\ Agreement
  BY Zenon DEF AgreementInv
<1>2. /\ peer.update = None
      /\ peer.state.version < MaxVersion /\ peer.state.bal[1 - part_idx] >= amount
      /\ peer' = [peer EXCEPT !.update = s] /\ toDevice' = toDevice \o <<UpdateMsg(s)>>
      /\ toPeer' = toPeer
  BY Zenon DEF PeerPropose, PeerSends
<1>3. UNCHANGED <<ch, update>>
  BY DEF PeerPropose, PeerSends, device
<1>4. /\ ch \in ChannelStates /\ ch # None /\ ch.version \in Nat /\ peer.state.version \in Nat
      /\ peer \in Peers /\ peer.state \in ChannelStates
      /\ toDevice \in Seq(ChannelMessages)
      /\ \A m \in Range(toDevice) : m.type = "ChannelUpdate" => m.state \in ChannelStates
  BY Versions, Zenon
<1>5. 1 - part_idx \in Idx
  BY DEF TypeInv, DeviceTypes, Idx
<1>6. s \in ChannelStates /\ s.version = peer.state.version + 1
  <2>1. peer.state \in ChannelStates
    BY <1>4, Zenon
  <2>2. peer.state.version < MaxVersion /\ peer.state.bal[1 - part_idx] >= amount
    BY <1>2, Zenon
  <2> QED BY <1>5, <2>1, <2>2, Paid, Zenon
<1> HIDE DEF s
<1>7. peer'.state = peer.state /\ peer'.update = s
  BY <1>2, <1>4, <1>6, PeerChanged, Zenon
<1>8. ch.version <= peer.state.version
  BY <1>1, <1>2, <1>4 DEF PendingInv
<1>9. NoUpdate(toDevice)
  <2>1. \A x \in ChannelStates : x # None
    BY StateFields, Zenon
  <2> QED BY <1>1, <1>2, <1>4, <2>1, Zenon DEF ToDeviceInv, NoUpdate, Without
<1>10. PendingInv'
  BY <1>1, <1>3, <1>4, <1>6, <1>7, <1>8 DEF PendingInv
<1>11. Agreement' /\ ToPeerInv'
  BY <1>1, <1>2, <1>3, <1>7 DEF Agreement, ToPeerInv
<1>12. ToDeviceInv'
  <2>1. /\ UpdateMsg(s) \in ChannelMessages
        /\ UpdateMsg(s).type = "ChannelUpdate" /\ UpdateMsg(s).state = s
    BY <1>6, StateMessages, Zenon
  <2>2. /\ <<UpdateMsg(s)>> \in Seq(ChannelMessages) /\ Range(<<UpdateMsg(s)>>) = {UpdateMsg(s)}
    BY <2>1, Single, Zenon
  <2>3. Len(<<UpdateMsg(s)>>) = 1
    OBVIOUS
  <2>4. OneUpdate(toDevice') /\ Range(toDevice') \subseteq Range(toDevice) \cup {UpdateMsg(s)}
    BY <1>1, <1>2, <1>4, <1>9, <2>2, <2>3, OneUpdateJoined, Joined, Zenon DEF ToDeviceInv
  <2>5. "ChannelUpdateAccepted" # "ChannelUpdate"
    OBVIOUS
  <2>6. OneUpdate(toDevice)'
    BY <2>4, Zenon DEF OneUpdate, AtMostOne
  <2> QED BY <1>1, <1>3, <1>7, <1>8, <1>9, <2>1, <2>4, <2>5, <2>6, Zenon DEF ToDeviceInv, NoUpdate, Without
<1> QED BY <1>10, <1>11, <1>12, Zenon DEF AgreementInv

\* The peer accepts an update of the device: both had the version before it.
LEMMA PeerAcceptsAgree ==
  ASSUME TypeInv, AgreementInv, toPeer # <<>>, Head(toPeer).type = "ChannelUpdate",
         peer.update = None, toPeer' = Tail(toPeer),
         ValidTransition(peer.state, Head(toPeer).state),
         peer' = [peer EXCEPT !.state = Head(toPeer).state],
         PeerSends(<<AcceptedMsg(Head(toPeer).state)>>)
  PROVE  AgreementInv'
<1> DEFINE s == Head(toPeer).state
           ms == <<AcceptedMsg(s)>>
<1>1. PendingInv /\ ToPeerInv /\ ToDeviceInv /\ Agreement
  BY Zenon DEF AgreementInv
<1>2. s.version = peer.state.version + 1
  BY Zenon DEF ValidTransition
<1>3. UNCHANGED <<ch, update>> /\ toDevice' = toDevice \o ms
  BY DEF PeerSends, device
<1>4. /\ ch # None /\ ch.version \in Nat /\ peer.state.version \in Nat
      /\ peer \in Peers
      /\ toDevice \in Seq(ChannelMessages) /\ toPeer \in Seq(ChannelMessages)
      /\ \A m \in Range(toPeer) \cup Range(toDevice) :
           /\ m.type = "ChannelUpdate" => m.state \in ChannelStates /\ m.state.version \in Nat
           /\ m.type = "ChannelUpdateAccepted" => m.sig.version \in Nat
  BY Versions, Zenon
<1>5. Head(toPeer) \in Range(toPeer) /\ Range(toPeer') \subseteq Range(toPeer)
  BY <1>4, Taken, Zenon
<1>6. s \in ChannelStates /\ s.version <= ch.version + 1
  BY <1>1, <1>4, <1>5, Zenon DEF ToPeerInv
<1>7. peer'.state = s /\ peer'.update = None
  BY <1>4, <1>6, PeerChanged, Zenon
<1>8. /\ AcceptedMsg(s) \in ChannelMessages
      /\ AcceptedMsg(s).type = "ChannelUpdateAccepted" /\ AcceptedMsg(s).sig = s
  BY <1>6, StateMessages, Zenon
<1> HIDE DEF s
<1>9. ms \in Seq(ChannelMessages) /\ Range(ms) = {AcceptedMsg(s)}
  BY <1>8, Single, Zenon
<1> HIDE DEF ms
<1>10. ch.version = peer.state.version
  BY <1>1, <1>2, <1>4, <1>6 DEF PendingInv
<1>11. NoUpdate(toDevice)
  <2>1. \A x \in ChannelStates : x # None
    BY StateFields, Zenon
  <2> QED BY <1>1, <1>4, <2>1, Zenon DEF ToDeviceInv, NoUpdate, Without
<1>12. PendingInv'
  BY <1>1, <1>2, <1>3, <1>4, <1>7, <1>10 DEF PendingInv
<1>13. Agreement'
  BY <1>2, <1>3, <1>4, <1>7, <1>10 DEF Agreement
<1>14. ToPeerInv'
  BY <1>1, <1>3, <1>5, Zenon DEF ToPeerInv
<1>15. ToDeviceInv'
  <2>1. "ChannelUpdateAccepted" # "ChannelUpdate"
    OBVIOUS
  <2>2. NoUpdate(ms)
    BY <1>8, <1>9, <2>1, Zenon DEF NoUpdate, Without
  <2>3. OneUpdate(toDevice') /\ Range(toDevice') \subseteq Range(toDevice) \cup {AcceptedMsg(s)}
    BY <1>1, <1>3, <1>4, <1>9, <2>2, OneUpdateJoined, Joined, Zenon DEF ToDeviceInv
  <2>4. OneUpdate(toDevice)'
    BY <2>3, Zenon DEF OneUpdate, AtMostOne
  <2>5. ASSUME NEW m \in Range(toDevice'), m.type = "ChannelUpdateAccepted"
        PROVE  m.sig.version <= peer'.state.version /\ (m.sig.version > ch'.version => m.sig = peer'.state)
    <3>1. CASE m \in Range(toDevice)
      <4>1. m.sig.version <= peer.state.version /\ m.sig.version \in Nat
        BY <1>1, <1>4, <2>5, <3>1, Zenon DEF ToDeviceInv
      <4> QED BY <1>2, <1>3, <1>4, <1>7, <1>10, <4>1
    <3>2. CASE m = AcceptedMsg(s)
      BY <1>2, <1>4, <1>7, <1>8, <3>2
    <3> QED BY <2>3, <3>1, <3>2, Zenon
  <2>6. NoUpdate(toDevice')
    BY <1>8, <1>11, <2>1, <2>3, Zenon DEF NoUpdate, Without
  <2> QED BY <2>4, <2>5, <2>6, Zenon DEF ToDeviceInv, NoUpdate, Without
<1> QED BY <1>12, <1>13, <1>14, <1>15, Zenon DEF AgreementInv

\* The peer applies its own update: the device already has it.
LEMMA PeerAppliesAgree ==
  ASSUME TypeInv, AgreementInv, PeerHandleUpdateAccepted
  PROVE  AgreementInv'
<1>1. PendingInv /\ ToPeerInv /\ ToDeviceInv /\ Agreement
  BY Zenon DEF AgreementInv
<1>2. PICK k \in 1 .. Len(toPeer) : toPeer[k] = AcceptedMsg(peer.update) /\ toPeer' = RemoveAt(toPeer, k)
  BY Zenon DEF PeerHandleUpdateAccepted
<1>3. /\ peer.update # None /\ peer' = [peer EXCEPT !.state = peer.update, !.update = None]
      /\ toDevice' = toDevice \o <<>>
  BY Zenon DEF PeerHandleUpdateAccepted, PeerSends
<1>4. UNCHANGED <<ch, update>>
  BY DEF PeerHandleUpdateAccepted, PeerSends, device
<1>5. /\ ch.version \in Nat /\ peer.state.version \in Nat /\ peer.update.version \in Nat
      /\ peer \in Peers /\ peer.update \in ChannelStates
      /\ toDevice \in Seq(ChannelMessages) /\ toPeer \in Seq(ChannelMessages)
      /\ \A m \in Range(toPeer) \cup Range(toDevice) :
           m.type = "ChannelUpdateAccepted" => m.sig.version \in Nat
  BY <1>3, Versions, Zenon
<1>6. toDevice' = toDevice
  BY <1>3, <1>5, ConcatEmptySeq, Zenon
<1>7. peer'.state = peer.update /\ peer'.update = None
  BY <1>3, <1>5, PeerChanged, Zenon
<1>8. toPeer[k] \in Range(toPeer) /\ Range(toPeer') \subseteq Range(toPeer)
  BY <1>2, <1>5, Removed, Zenon
<1>9. /\ AcceptedMsg(peer.update).type = "ChannelUpdateAccepted"
      /\ AcceptedMsg(peer.update).sig = peer.update
  BY <1>5, StateMessages, Zenon
<1>10. peer.update.version <= ch.version
  BY <1>1, <1>2, <1>8, <1>9, Zenon DEF ToPeerInv
<1>11. peer.update.version = peer.state.version + 1
  BY <1>1, <1>3, Zenon DEF PendingInv
<1>12. ch.version > peer.state.version
  BY <1>5, <1>10, <1>11
<1>13. ch = peer.update
  BY <1>1, <1>12, Zenon DEF PendingInv
<1>14. PendingInv'
  BY <1>1, <1>4, <1>5, <1>7, <1>13 DEF PendingInv
<1>15. Agreement'
  BY <1>4, <1>5, <1>7, <1>13 DEF Agreement
<1>16. ToPeerInv'
  BY <1>1, <1>4, <1>8, Zenon DEF ToPeerInv
<1>17. ToDeviceInv'
  <2>1. ~(ch.version <= peer.state.version)
    BY <1>5, <1>12
  <2>2. NoUpdate(toDevice)
    BY <1>1, <2>1, Zenon DEF ToDeviceInv, NoUpdate, Without
  <2>3. ASSUME NEW m \in Range(toDevice), m.type = "ChannelUpdateAccepted"
        PROVE  m.sig.version <= peer'.state.version /\ ~(m.sig.version > ch'.version)
    <3>1. m.sig.version <= peer.state.version /\ m.sig.version \in Nat
      BY <1>1, <1>5, <2>3, Zenon DEF ToDeviceInv
    <3> QED BY <1>4, <1>5, <1>7, <1>11, <1>13, <3>1
  <2>4. OneUpdate(toDevice)'
    BY <1>1, <1>6 DEF ToDeviceInv, OneUpdate, AtMostOne
  <2> QED BY <1>6, <2>2, <2>3, <2>4, Zenon DEF ToDeviceInv, NoUpdate, Without
<1> QED BY <1>14, <1>15, <1>16, <1>17, Zenon DEF AgreementInv

LEMMA AgreeInitially == Init => AgreementInv
<1> SUFFICES ASSUME Init PROVE AgreementInv
  OBVIOUS
<1>1. /\ ch = InitState /\ update = None /\ toDevice = <<>>
      /\ peer.state = InitState /\ peer.update = None
      /\ toPeer \in {<<ProposalMsg>>, <<ProposalAcceptedMsg, AcceptedMsg(InitState)>>}
  BY DEF Init
<1>2. InitState \in ChannelStates /\ InitState.version = 0
  BY InitStateGood, Zenon
<1>3. /\ AcceptedMsg(InitState) \in ChannelMessages
      /\ AcceptedMsg(InitState).type = "ChannelUpdateAccepted" /\ AcceptedMsg(InitState).sig = InitState
      /\ ProposalMsg \in ChannelMessages /\ ProposalMsg.type = "ChannelProposal"
      /\ ProposalAcceptedMsg \in ChannelMessages /\ ProposalAcceptedMsg.type = "ProposalAccepted"
  BY <1>2, StateMessages, PlainMessages, Zenon
<1>4. Agreement /\ PendingInv
  BY <1>1, <1>2 DEF Agreement, PendingInv
<1>5. ToPeerInv
  <2>1. Range(toPeer) \subseteq {ProposalMsg, ProposalAcceptedMsg, AcceptedMsg(InitState)}
    <3>1. Range(<<ProposalMsg>>) = {ProposalMsg}
      BY <1>3, Single, Zenon
    <3>2. Range(<<ProposalAcceptedMsg, AcceptedMsg(InitState)>>) =
            {ProposalAcceptedMsg, AcceptedMsg(InitState)}
      BY <1>3, Pair, Zenon
    <3> QED BY <1>1, <3>1, <3>2
  <2> QED BY <1>1, <1>2, <1>3, <2>1 DEF ToPeerInv
<1>6. ToDeviceInv
  BY <1>1 DEF ToDeviceInv, Range, OneUpdate, AtMostOne
<1> QED BY <1>4, <1>5, <1>6, Zenon DEF AgreementInv

LEMMA PollPeerAgree ==
  ASSUME TypeInv, AgreementInv, PollPeer
  PROVE  AgreementInv'
<1>1. ch \in ChannelStates /\ toPeer \in Seq(ChannelMessages)
  BY Versions, Zenon
<1>2. CASE ForwardProposalAccepted
  <2>1. /\ toDevice # <<>> /\ toDevice' = Tail(toDevice) /\ UNCHANGED <<ch, peer>>
        /\ update' \in {update, None} /\ toPeer' = Append(toPeer, AcceptedMsg(ch))
    BY <1>2 DEF ForwardProposalAccepted, FromPeer
  <2>2. Range(toPeer') \subseteq Range(toPeer) \cup {AcceptedMsg(ch)}
    BY <1>1, <2>1, StateMessages, Appended, Zenon
  <2> QED BY <2>1, <2>2, TakenAgree, Zenon
<1>3. CASE ForwardInitialSignature \/ ForwardUpdateRejected \/ ForwardParticipantErr
  <2>1. /\ toDevice # <<>> /\ toDevice' = Tail(toDevice) /\ UNCHANGED <<ch, peer>>
        /\ update' \in {update, None} /\ toPeer' = toPeer
    BY <1>3 DEF ForwardInitialSignature, ForwardUpdateRejected, ForwardParticipantErr, FromPeer, Panics
  <2>2. Range(toPeer') \subseteq Range(toPeer) \cup {AcceptedMsg(ch)}
    BY <2>1
  <2> QED BY <2>1, <2>2, TakenAgree, Zenon
<1>4. CASE ForwardUpdate
  BY <1>4, ForwardUpdateAgree, Zenon
<1>5. CASE ForwardUpdateAccepted
  BY <1>5, UpdateAcceptedAgree, Zenon
<1> QED BY <1>2, <1>3, <1>4, <1>5, Zenon DEF PollPeer

LEMMA PeerAnswersAgree ==
  ASSUME TypeInv, AgreementInv, PeerAnswers
  PROVE  AgreementInv'
<1>1. /\ peer \in Peers /\ peer.state \in ChannelStates
      /\ toPeer \in Seq(ChannelMessages) /\ toDevice \in Seq(ChannelMessages)
      /\ \A m \in Range(toPeer) : m.type = "ChannelUpdate" => m.state \in ChannelStates
  BY Versions, Zenon
<1>2. ASSUME toPeer # <<>>, toPeer' = Tail(toPeer)
      PROVE  Head(toPeer) \in Range(toPeer) /\ Range(toPeer') \subseteq Range(toPeer)
  BY <1>1, <1>2, Taken, Zenon
<1>3. /\ ProposalAcceptedMsg \in ChannelMessages /\ ProposalAcceptedMsg.type = "ProposalAccepted"
      /\ ProposalRejectedMsg \in ChannelMessages /\ ProposalRejectedMsg.type = "ProposalRejected"
      /\ AcceptedMsg(peer.state) \in ChannelMessages
      /\ AcceptedMsg(peer.state).type = "ChannelUpdateAccepted"
      /\ AcceptedMsg(peer.state).sig = peer.state
  BY <1>1, PlainMessages, StateMessages, Zenon
<1> DEFINE Quiet(ms) ==
      /\ ms \in Seq(ChannelMessages) /\ NoUpdate(ms)
      /\ \A m \in Range(ms) : m.type = "ChannelUpdateAccepted" => m.sig = peer.state
<1>4. /\ Quiet(<<>>) /\ Quiet(<<ProposalRejectedMsg>>) /\ Quiet(<<AcceptedMsg(peer.state)>>)
      /\ Quiet(<<ProposalAcceptedMsg, AcceptedMsg(peer.state)>>)
  <2>1. <<>> \in Seq(ChannelMessages) /\ Range(<<>>) = {}
    BY <1>3, Nothing, Zenon
  <2>2. /\ <<ProposalRejectedMsg>> \in Seq(ChannelMessages)
        /\ Range(<<ProposalRejectedMsg>>) = {ProposalRejectedMsg}
    BY <1>3, Single, Zenon
  <2>3. /\ <<AcceptedMsg(peer.state)>> \in Seq(ChannelMessages)
        /\ Range(<<AcceptedMsg(peer.state)>>) = {AcceptedMsg(peer.state)}
    BY <1>3, Single, Zenon
  <2>4. /\ <<ProposalAcceptedMsg, AcceptedMsg(peer.state)>> \in Seq(ChannelMessages)
        /\ Range(<<ProposalAcceptedMsg, AcceptedMsg(peer.state)>>) =
             {ProposalAcceptedMsg, AcceptedMsg(peer.state)}
    <3>1. ProposalAcceptedMsg \in ChannelMessages /\ AcceptedMsg(peer.state) \in ChannelMessages
      BY <1>3, Zenon
    <3> QED BY <3>1, Pair, Zenon
  <2> QED BY <1>3, <2>1, <2>2, <2>3, <2>4 DEF NoUpdate, Without
<1> HIDE DEF Quiet
<1>5. ASSUME NEW ms, Quiet(ms), PeerSends(ms), Range(toPeer') \subseteq Range(toPeer),
             peer'.state = peer.state, peer'.update = peer.update
      PROVE  AgreementInv'
  <2>1. toDevice' = toDevice \o ms /\ UNCHANGED <<ch, update>>
    BY <1>5 DEF PeerSends, device
  <2>2. /\ ms \in Seq(ChannelMessages) /\ NoUpdate(ms)
        /\ \A m \in Range(ms) : m.type = "ChannelUpdateAccepted" => m.sig = peer.state
    BY <1>5, Zenon DEF Quiet
  <2> QED BY <1>5, <2>1, <2>2, PeerQuietAgree, Zenon
<1>6. ASSUME NEW f \in {"Idle", "Agreed", "Funding", "Active", "Done"}, peer' = [peer EXCEPT !.phase = f]
      PROVE  peer'.state = peer.state /\ peer'.update = peer.update
  BY <1>1, <1>6, PeerChanged, Zenon
<1>7. CASE PeerHandleProposal
  <2>1. /\ Range(toPeer') \subseteq Range(toPeer)
        /\ peer'.state = peer.state /\ peer'.update = peer.update
    BY <1>2, <1>6, <1>7 DEF PeerHandleProposal, ToPeer
  <2>2. \/ PeerSends(<<ProposalAcceptedMsg, AcceptedMsg(peer.state)>>)
        \/ PeerSends(<<ProposalRejectedMsg>>)
    BY <1>7, Zenon DEF PeerHandleProposal
  <2> QED BY <1>4, <1>5, <2>1, <2>2, Zenon
<1>8. CASE PeerHandleProposalAccepted
  <2>1. /\ Range(toPeer') \subseteq Range(toPeer)
        /\ peer'.state = peer.state /\ peer'.update = peer.update
    BY <1>2, <1>6, <1>8 DEF PeerHandleProposalAccepted, ToPeer
  <2>2. PeerSends(<<AcceptedMsg(peer.state)>>)
    BY <1>8, Zenon DEF PeerHandleProposalAccepted
  <2> QED BY <1>4, <1>5, <2>1, <2>2, Zenon
<1>9. CASE PeerHandleSignature
  <2>1. /\ Range(toPeer') \subseteq Range(toPeer)
        /\ peer'.state = peer.state /\ peer'.update = peer.update
    BY <1>2, <1>6, <1>9 DEF PeerHandleSignature, ToPeer
  <2>2. PeerSends(<<>>)
    BY <1>9, Zenon DEF PeerHandleSignature
  <2> QED BY <1>4, <1>5, <2>1, <2>2, Zenon
<1>10. CASE PeerFunded
  <2>1. peer'.state = peer.state /\ peer'.update = peer.update
    BY <1>6, <1>10 DEF PeerFunded
  <2>2. UNCHANGED <<ch, update, toPeer, toDevice>>
    BY <1>10 DEF PeerFunded, device
  <2> QED BY <2>1, <2>2
          DEF AgreementInv, PendingInv, ToPeerInv, ToDeviceInv, Agreement, OneUpdate, AtMostOne
<1>11. CASE PeerHandleUpdate
  <2> DEFINE s == Head(toPeer).state
  <2>1. /\ toPeer # <<>> /\ Head(toPeer).type = "ChannelUpdate" /\ peer.update = None
        /\ toPeer' = Tail(toPeer)
        /\ \/ /\ ValidTransition(peer.state, s)
              /\ peer' = [peer EXCEPT !.state = s] /\ PeerSends(<<AcceptedMsg(s)>>)
           \/ peer' = peer /\ PeerSends(<<RejectedMsg(s)>>)
           \/ peer' = peer /\ PeerSends(<<>>)
    BY <1>11, Zenon DEF PeerHandleUpdate, ToPeer
  <2>2. CASE /\ ValidTransition(peer.state, s)
             /\ peer' = [peer EXCEPT !.state = s] /\ PeerSends(<<AcceptedMsg(s)>>)
    BY <2>1, <2>2, PeerAcceptsAgree, Zenon
  <2>3. Range(toPeer') \subseteq Range(toPeer) /\ s \in ChannelStates
    BY <1>1, <1>2, <2>1, Zenon
  <2> HIDE DEF s
  <2>4. CASE peer' = peer /\ PeerSends(<<RejectedMsg(s)>>)
    <3>1. RejectedMsg(s) \in ChannelMessages /\ RejectedMsg(s).type = "ChannelUpdateRejected"
      BY <2>3, StateMessages, Zenon
    <3>2. <<RejectedMsg(s)>> \in Seq(ChannelMessages) /\ Range(<<RejectedMsg(s)>>) = {RejectedMsg(s)}
      BY <3>1, Single, Zenon
    <3>3. Quiet(<<RejectedMsg(s)>>)
      BY <3>1, <3>2 DEF Quiet, NoUpdate, Without
    <3> QED BY <1>5, <2>3, <2>4, <3>3, Zenon
  <2>5. CASE peer' = peer /\ PeerSends(<<>>)
    BY <1>4, <1>5, <2>3, <2>5, Zenon
  <2> QED BY <2>1, <2>2, <2>4, <2>5, Zenon
<1>12. CASE PeerHandleUpdateAccepted
  BY <1>12, PeerAppliesAgree, Zenon
<1> QED BY <1>7, <1>8, <1>9, <1>10, <1>11, <1>12, Zenon DEF PeerAnswers

LEMMA AlwaysAgreementInv == Spec => []AgreementInv
<1>1. TypeInv /\ AgreementInv /\ [Next]_vars => AgreementInv'
  <2> SUFFICES ASSUME TypeInv, AgreementInv, [Next]_vars PROVE AgreementInv'
    OBVIOUS
  <2>1. Amount \in Nat /\ 0 \in Nat /\ TRUE \in BOOLEAN /\ FALSE \in BOOLEAN
    BY DemoAssumption
  <2>2. CASE UNCHANGED vars \/ PressForceClose \/ PollService \/ ServiceAnswers \/ PeerRegisters
    <3>1. UNCHANGED <<ch, update, toPeer, toDevice, peer>>
      BY <2>2 DEF vars, device, PressForceClose, PollService, ForwardAckSigned, ForwardFunded,
                  ForwardAck, ForwardDisputeNotification, ForwardDisputeAck, ForwardServiceErr, Panics,
                  ServiceAnswers, ServiceWatch, ServiceFund, ServiceRegister, ServiceNotify, PeerRegisters
    <3> QED BY <3>1 DEF AgreementInv, PendingInv, ToPeerInv, ToDeviceInv, Agreement, OneUpdate, AtMostOne
  <2>3. CASE PressUpdate \/ PressNormalClose
    <3>1. ch.version < MaxVersion /\ (ChannelUpdate(Amount, FALSE) \/ ChannelUpdate(0, TRUE))
      BY <2>3, Zenon DEF PressUpdate, PressNormalClose, Pressable
    <3> QED BY <2>1, <3>1, UpdateAgree, Zenon
  <2>4. CASE PollPeer
    BY <2>4, PollPeerAgree, Zenon
  <2>5. CASE PeerAnswers
    BY <2>5, PeerAnswersAgree, Zenon
  <2>6. CASE PeerPropose(Amount, FALSE) \/ PeerPropose(0, TRUE)
    BY <2>1, <2>6, ProposeAgree, Zenon
  <2> QED BY <2>2, <2>3, <2>4, <2>5, <2>6, Zenon DEF Next
<1> QED BY AgreeInitially, AlwaysTypeInv, <1>1, PTL DEF Spec

\* Device and peer never hold different states of one version and are never
\* more than one version apart, for any balances and any number of updates,
\* rejections and pending messages (process_participant_msg with
\* participant_accepted).
THEOREM AlwaysAgreement == Spec => []Agreement
<1>1. AgreementInv => Agreement
  BY Zenon DEF AgreementInv
<1> QED BY AlwaysAgreementInv, <1>1, PTL

-----------------------------------------------------------------------------
(***************************************************************************)
(* Opening and closing                                                     *)
(***************************************************************************)
LEMMA LifeInitially == Init => OpenInv /\ CloseInv
BY InitStateGood DEF Init, OpenInv, CloseInv, OpenMeansFundedAndWatched, ClosedForAReason, Range

\* Nothing these invariants are about changes.
LEMMA LifeQuiet ==
  ASSUME OpenInv, CloseInv, UNCHANGED <<inner, watching, funded, ch, requests, replies, watched, chain>>
  PROVE  OpenInv' /\ CloseInv'
BY DEF OpenInv, CloseInv, OpenMeansFundedAndWatched, ClosedForAReason, WatchRequest

LEMMA ForceCloseLife ==
  ASSUME OpenInv, CloseInv, PressForceClose
  PROVE  OpenInv' /\ CloseInv'
<1>1. /\ inner = "Active" /\ inner' = "ForceClosing"
      /\ UNCHANGED <<watching, funded, ch, replies, watched, chain>>
  BY DEF PressForceClose
<1>2. OpenInv'
  BY <1>1 DEF OpenInv, OpenMeansFundedAndWatched
<1>3. CloseInv'
  BY <1>1 DEF CloseInv, ClosedForAReason
<1> QED BY <1>2, <1>3, Zenon

\* Until the channel is open, the only state sent to the watcher is the initial
\* one; a channel becomes Closing with a final state (ChannelUpdate::apply).
LEMMA PollPeerLife ==
  ASSUME TypeInv, OpenInv, CloseInv, PollPeer
  PROVE  OpenInv' /\ CloseInv'
<1>1. UNCHANGED <<watching, funded, replies, watched, chain>> /\ inner # "Closed"
  BY DEF PollPeer, ForwardProposalAccepted, ForwardInitialSignature, ForwardUpdate,
         ForwardUpdateAccepted, ForwardUpdateRejected, ForwardParticipantErr, FromPeer, Running,
         service, Panics
<1>2. CASE ForwardProposalAccepted \/ ForwardUpdateRejected \/ ForwardParticipantErr
  <2>1. /\ UNCHANGED <<ch, requests>>
        /\ inner' = inner \/ (inner = "Proposed" /\ inner' = "AgreedUpon")
    BY <1>2 DEF ForwardProposalAccepted, ForwardUpdateRejected, ForwardParticipantErr, Panics, service
  <2> QED BY <1>1, <2>1 DEF OpenInv, CloseInv, OpenMeansFundedAndWatched, ClosedForAReason
<1>3. CASE ForwardInitialSignature
  <2>1. /\ inner = "AgreedUpon" /\ inner' = "Signed" /\ ch' = ch
        /\ requests' = requests \cup {WatchRequest(ch), FundReq}
    BY <1>3, Zenon DEF ForwardInitialSignature
  <2>2. WatchRequest(ch).state = ch /\ FundReq.type = "FundReq"
    BY ServiceMessages, Zenon DEF TypeInv, DeviceTypes
  <2>3. CloseInv'
    BY <1>1, <2>1 DEF CloseInv, ClosedForAReason
  <2>4. \A r \in requests' : r.type = "WatchRequest" => r.state.version = 0
    BY <2>1, <2>2 DEF OpenInv
  <2> QED BY <1>1, <2>1, <2>3, <2>4 DEF OpenInv, OpenMeansFundedAndWatched
<1>4. CASE ForwardUpdate \/ ForwardUpdateAccepted
  <2>1. /\ inner = "Active" /\ inner' = IF ch'.is_final THEN "Closing" ELSE "Active"
        /\ WatchRequest(ch') \in requests'
    BY <1>4 DEF ForwardUpdate, ForwardUpdateAccepted, Apply
  <2>2. CloseInv'
    BY <1>1, <2>1 DEF CloseInv, ClosedForAReason
  <2>3. OpenInv'
    BY <1>1, <2>1 DEF OpenInv, OpenMeansFundedAndWatched
  <2> QED BY <2>2, <2>3, Zenon
<1> QED BY <1>2, <1>3, <1>4, Zenon DEF PollPeer

\* Signed becomes Active with the later of two replies; only a notification, an
\* acknowledgement of a dispute or of a final state closes the channel.
LEMMA PollServiceLife ==
  ASSUME TypeInv, OpenInv, CloseInv, PollService
  PROVE  OpenInv' /\ CloseInv'
<1>1. /\ replies # <<>> /\ replies' = Tail(replies) /\ inner # "Closed"
      /\ UNCHANGED <<ch, requests, watched, chain>>
  BY DEF PollService, ForwardAckSigned, ForwardFunded, ForwardAck, ForwardDisputeNotification,
         ForwardDisputeAck, ForwardServiceErr, FromService, Running, Panics
<1>2. Head(replies) \in Range(replies) /\ Range(replies') \subseteq Range(replies)
  BY <1>1, Taken, Zenon DEF TypeInv, ServiceTypes
<1>3. /\ \A m \in Range(replies') : m.type = "Funded" => chain.funded
      /\ \A m \in Range(replies') : m.type \in {"DisputeNotification", "DisputeAck"} => chain.registered
  BY <1>2, Zenon DEF OpenInv, CloseInv
<1>4. /\ Head(replies).type = "Funded" => chain.funded
      /\ Head(replies).type \in {"DisputeNotification", "DisputeAck"} => chain.registered
      /\ inner = "Signed" /\ Head(replies).type = "Ack" => 0 \in watched
  BY <1>2 DEF OpenInv, CloseInv
<1>5. inner \in {"Proposed", "AgreedUpon", "Signed"} =>
        \A m \in Range(replies') : m.type = "Ack" => 0 \in watched
  BY <1>2, Zenon DEF OpenInv
<1>6. CASE ForwardAckSigned
  <2>1. /\ Head(replies).type = "Ack" /\ inner = "Signed" /\ watching' = TRUE /\ funded' = funded
        /\ inner' = IF funded THEN "Active" ELSE "Signed"
    BY <1>6, Zenon DEF ForwardAckSigned, FromService
  <2>2. OpenInv'
    BY <1>1, <1>3, <1>4, <1>5, <2>1 DEF OpenInv, OpenMeansFundedAndWatched
  <2>3. CloseInv'
    BY <1>1, <1>3, <2>1 DEF CloseInv, ClosedForAReason
  <2> QED BY <2>2, <2>3, Zenon
<1>7. CASE ForwardFunded
  <2>1. /\ Head(replies).type = "Funded" /\ inner = "Signed" /\ funded' = TRUE /\ watching' = watching
        /\ inner' = IF watching THEN "Active" ELSE "Signed"
    BY <1>7, Zenon DEF ForwardFunded, FromService
  <2>2. OpenInv'
    BY <1>1, <1>3, <1>4, <1>5, <2>1 DEF OpenInv, OpenMeansFundedAndWatched
  <2>3. CloseInv'
    BY <1>1, <1>3, <2>1 DEF CloseInv, ClosedForAReason
  <2> QED BY <2>2, <2>3, Zenon
<1>8. CASE ForwardAck \/ ForwardDisputeNotification \/ ForwardDisputeAck
  <2>1. /\ inner \in {"Active", "Closing", "ForceClosing"} /\ inner' \in {inner, "Closed"}
        /\ inner' = "Closed" => \/ inner = "Closing"
                                \/ Head(replies).type \in {"DisputeNotification", "DisputeAck"}
        /\ UNCHANGED <<watching, funded>>
    BY <1>8 DEF ForwardAck, ForwardDisputeNotification, ForwardDisputeAck, FromService
  <2>2. OpenInv'
    BY <1>1, <1>3, <2>1 DEF OpenInv, OpenMeansFundedAndWatched
  <2>3. CloseInv'
    BY <1>1, <1>3, <1>4, <2>1 DEF CloseInv, ClosedForAReason, WatchRequest
  <2> QED BY <2>2, <2>3, Zenon
<1>9. CASE ForwardServiceErr
  <2>1. UNCHANGED <<inner, watching, funded>>
    BY <1>9 DEF ForwardServiceErr, Panics
  <2>2. OpenInv'
    BY <1>1, <1>3, <1>5, <2>1 DEF OpenInv, OpenMeansFundedAndWatched
  <2>3. CloseInv'
    BY <1>1, <1>3, <2>1 DEF CloseInv, ClosedForAReason
  <2> QED BY <2>2, <2>3, Zenon
<1> QED BY <1>6, <1>7, <1>8, <1>9, Zenon DEF PollService

\* What the service reports has happened on the ledger, and stays.
LEMMA ServiceAnswersLife ==
  ASSUME TypeInv, OpenInv, CloseInv, ServiceAnswers
  PROVE  OpenInv' /\ CloseInv'
<1>1. UNCHANGED <<inner, watching, funded, ch>>
  BY DEF ServiceAnswers, ServiceWatch, ServiceFund, ServiceRegister, ServiceNotify, device
<1>2. chain \in Ledgers /\ replies \in Seq(Replies) /\ requests \subseteq Requests
  BY Zenon DEF TypeInv, ServiceTypes
<1> DEFINE Answered(m) ==
      /\ replies' = Append(replies, m)
      /\ requests' \subseteq requests /\ watched \subseteq watched'
      /\ chain.funded => chain'.funded
      /\ chain.registered => chain'.registered
      /\ m.type = "Funded" => chain'.funded
      /\ m.type \in {"DisputeNotification", "DisputeAck"} => chain'.registered
      /\ m.type = "Ack" => \E r \in requests : r.type = "WatchRequest" /\ r.state.version \in watched'
      /\ \A r \in requests : r.type = "WatchRequest" /\ r.state.is_final => r \in requests' \/ chain'.registered
<1>3. \E m \in Replies : Answered(m)
  <2>1. ASSUME NEW r \in requests, NEW answer \in WatchReply, ServiceWatch(r, answer)
        PROVE  \E m \in Replies : Answered(m)
    <3> DEFINE x == IF answer = "Ack" THEN Ack(r.state.version) ELSE Reply(answer)
    <3>1. /\ r.type = "WatchRequest" /\ requests' = requests \ {r} /\ replies' = Append(replies, x)
          /\ watched' = watched \cup {r.state.version}
          /\ chain' = [chain EXCEPT !.registered = @ \/ r.state.is_final]
      BY <2>1, Zenon DEF ServiceWatch
    <3>2. r.state \in State
      BY <1>2, <3>1, ServiceMessages, Zenon
    <3>3. r.state.version \in 0..MaxVersion /\ r.state.is_final \in BOOLEAN
      BY <3>2 DEF State
    <3>4. x \in Replies /\ x.type \in {"Ack", "StartWatchingResp"}
      <4>1. answer \in {"Ack", "StartWatchingResp"}
        BY DemoAssumption, Zenon
      <4>2. /\ Ack(r.state.version) \in Replies /\ Ack(r.state.version).type = "Ack"
            /\ Reply("StartWatchingResp") \in Replies
            /\ Reply("StartWatchingResp").type = "StartWatchingResp"
        BY <3>3, ServiceMessages
      <4> QED BY <4>1, <4>2
    <3> HIDE DEF x
    <3>5. /\ chain.funded => chain'.funded
          /\ chain.registered \/ r.state.is_final => chain'.registered
      BY <1>2, <3>1, <3>3 DEF Ledgers
    <3>6. Answered(x)
      BY <3>1, <3>4, <3>5
    <3> QED BY <3>4, <3>6, Zenon
  <2>2. ASSUME ServiceFund PROVE \E m \in Replies : Answered(m)
    <3>1. /\ requests' = requests \ {FundReq} /\ watched' = watched
          /\ replies' = Append(replies, Reply("Funded")) /\ chain' = [chain EXCEPT !.funded = TRUE]
      BY <2>2 DEF ServiceFund
    <3>2. Reply("Funded") \in Replies /\ Reply("Funded").type = "Funded" /\ FundReq.type = "FundReq"
      BY ServiceMessages
    <3>3. chain'.funded /\ chain'.registered = chain.registered
      BY <1>2, <3>1 DEF Ledgers
    <3>4. Answered(Reply("Funded"))
      BY <3>1, <3>2, <3>3
    <3> QED BY <3>2, <3>4, Zenon
  <2>3. ASSUME NEW answer \in RegisterReply, ServiceRegister(answer) PROVE \E m \in Replies : Answered(m)
    <3>1. /\ requests' \subseteq requests /\ watched' = watched
          /\ replies' = Append(replies, Reply(answer)) /\ chain' = [chain EXCEPT !.registered = TRUE]
      BY <2>3 DEF ServiceRegister
    <3>2. Reply(answer) \in Replies /\ Reply(answer).type = answer /\ answer \in {"DisputeAck", "RegisterResp"}
      BY ServiceMessages, DemoAssumption
    <3>3. chain'.registered /\ chain'.funded = chain.funded
      BY <1>2, <3>1 DEF Ledgers
    <3>4. Answered(Reply(answer))
      BY <3>1, <3>2, <3>3
    <3> QED BY <3>2, <3>4, Zenon
  <2>4. ASSUME ServiceNotify PROVE \E m \in Replies : Answered(m)
    <3>1. /\ requests' = requests /\ watched' = watched /\ chain.registered
          /\ replies' = Append(replies, Reply("DisputeNotification"))
          /\ chain' = [chain EXCEPT !.notified = TRUE]
      BY <2>4, Zenon DEF ServiceNotify
    <3>2. Reply("DisputeNotification") \in Replies /\ Reply("DisputeNotification").type = "DisputeNotification"
      BY ServiceMessages
    <3>3. chain'.registered = chain.registered /\ chain'.funded = chain.funded
      BY <1>2, <3>1 DEF Ledgers
    <3>4. Answered(Reply("DisputeNotification"))
      BY <3>1, <3>2, <3>3
    <3> QED BY <3>2, <3>4, Zenon
  <2> QED BY <2>1, <2>2, <2>3, <2>4, Zenon DEF ServiceAnswers
<1>4. PICK m \in Replies : Answered(m)
  BY <1>3, Zenon
<1>5. Range(replies') \subseteq Range(replies) \cup {m}
  BY <1>2, <1>4, Appended, Zenon
<1>6. ASSUME inner \in {"Proposed", "AgreedUpon", "Signed"}, m.type = "Ack" PROVE 0 \in watched'
  BY <1>4, <1>6, Zenon DEF OpenInv
<1>7. CloseInv'
  <2>1. \A x \in Range(replies') : x.type \in {"DisputeNotification", "DisputeAck"} => chain'.registered
    BY <1>4, <1>5, Zenon DEF CloseInv
  <2>2. WatchRequest(ch).type = "WatchRequest" /\ WatchRequest(ch).state = ch
    BY ServiceMessages, Zenon DEF TypeInv, DeviceTypes
  <2>3. ch.is_final /\ WatchRequest(ch) \in requests => chain'.registered \/ WatchRequest(ch) \in requests'
    BY <1>4, <2>2
  <2> QED BY <1>1, <1>4, <2>1, <2>3 DEF CloseInv, ClosedForAReason
<1>8. OpenInv'
  <2>1. \A x \in Range(replies') : x.type = "Funded" => chain'.funded
    BY <1>4, <1>5, Zenon DEF OpenInv
  <2>2. inner \in {"Proposed", "AgreedUpon", "Signed"} =>
          \A x \in Range(replies') : x.type = "Ack" => 0 \in watched'
    BY <1>4, <1>5, <1>6, Zenon DEF OpenInv
  <2> QED BY <1>1, <1>4, <2>1, <2>2 DEF OpenInv, OpenMeansFundedAndWatched
<1> QED BY <1>7, <1>8, Zenon

LEMMA AlwaysLife == Spec => [](OpenInv /\ CloseInv)
<1>1. TypeInv /\ OpenInv /\ CloseInv /\ [Next]_vars => OpenInv' /\ CloseInv'
  <2> SUFFICES ASSUME TypeInv, OpenInv, CloseInv, [Next]_vars PROVE OpenInv' /\ CloseInv'
    OBVIOUS
  <2>1. CASE \/ UNCHANGED vars \/ PressUpdate \/ PressNormalClose \/ PeerAnswers
             \/ PeerPropose(Amount, FALSE) \/ PeerPropose(0, TRUE)
    <3>1. UNCHANGED <<inner, watching, funded, ch, requests, replies, watched, chain>>
      BY <2>1 DEF vars, device, service, PressUpdate, PressNormalClose, ChannelUpdate, Panics,
                  PeerAnswers, PeerHandleProposal, PeerHandleProposalAccepted, PeerHandleSignature,
                  PeerFunded, PeerHandleUpdate, PeerHandleUpdateAccepted, PeerPropose, PeerSends
    <3> QED BY <3>1, LifeQuiet, Zenon
  <2>2. CASE PressForceClose
    BY <2>2, ForceCloseLife, Zenon
  <2>3. CASE PollPeer
    BY <2>3, PollPeerLife, Zenon
  <2>4. CASE PollService
    BY <2>4, PollServiceLife, Zenon
  <2>5. CASE ServiceAnswers
    BY <2>5, ServiceAnswersLife, Zenon
  <2>6. CASE PeerRegisters
    <3>1. /\ UNCHANGED <<inner, watching, funded, ch, requests, replies, watched>>
          /\ chain' = [chain EXCEPT !.registered = TRUE]
      BY <2>6 DEF PeerRegisters, device
    <3>2. chain'.registered /\ chain'.funded = chain.funded
      BY <3>1 DEF TypeInv, ServiceTypes, Ledgers
    <3> QED BY <3>1, <3>2 DEF OpenInv, CloseInv, OpenMeansFundedAndWatched, ClosedForAReason, WatchRequest
  <2> QED BY <2>1, <2>2, <2>3, <2>4, <2>5, <2>6, Zenon DEF Next
<1>2. Init /\ [][Next]_vars => [](OpenInv /\ CloseInv)
  <2>1. Init /\ [][Next]_vars => []TypeInv
    BY AlwaysTypeInv, PTL DEF Spec
  <2> QED BY LifeInitially, <2>1, <1>1, PTL
<1> QED BY <1>2, PTL DEF Spec

\* The device only treats the channel as open once the ledger is funded and the
\* watcher knows the initial state, in whichever order the replies come
\* (ChannelInner::Signed).
THEOREM AlwaysFundedAndWatched == Spec => []OpenMeansFundedAndWatched
<1>1. OpenInv => OpenMeansFundedAndWatched
  BY Zenon DEF OpenInv
<1> QED BY AlwaysLife, <1>1, PTL

\* The device gives the channel up only if a state was registered on the ledger or
\* the service has been handed the final state, which it registers: also when the
\* Ack that closes the channel is a late one for an older version
\* (ChannelInner::Closed, ChannelUpdate::apply).
THEOREM AlwaysClosedForAReason == Spec => []ClosedForAReason
<1>1. CloseInv => ClosedForAReason
  BY Zenon DEF CloseInv
<1> QED BY AlwaysLife, <1>1, PTL

-----------------------------------------------------------------------------
(* The device stops only in the cases that OnlyKnownPanics lists: every     *)
(* other pair of state and message cannot come about.                       *)

Opening == {"Proposed", "AgreedUpon", "Signed"}

Answers == {"ChannelUpdateAccepted", "ChannelUpdateRejected"}

InitialSignature == AcceptedMsg(InitState)

\* The service is asked to fund once and is only asked to register by a device
\* that waits for the answer.
AskInv ==
  /\ inner \in {"Proposed", "AgreedUpon"} =>
       requests = {} /\ replies = <<>> /\ watched = {} /\ ~chain.funded /\ ~funded
  /\ inner \notin Opening => funded
  /\ funded \/ FundReq \in requests => Without(replies, {"Funded"})
  /\ funded => FundReq \notin requests
  /\ AtMostOne(replies, {"Funded"})
  /\ RegisterReq \in requests \/ ~Without(replies, {"DisputeAck"}) =>
       inner \in {"ForceClosing", "Closed"}

\* What is under way during the opening and what may be afterwards.
ProposedInv ==
  \/ toPeer = <<ProposalMsg>> /\ toDevice = <<>> /\ peer.phase = "Idle"
  \/ /\ toPeer = <<>> /\ toDevice = <<ProposalAcceptedMsg, InitialSignature>>
     /\ peer.phase = "Agreed"
  \/ toPeer = <<>> /\ toDevice \in {<<ProposalRejectedMsg>>, <<>>} /\ peer.phase = "Done"

AgreedUponInv ==
  \/ /\ toPeer = <<ProposalAcceptedMsg, InitialSignature>> /\ toDevice = <<>>
     /\ peer.phase = "Idle"
  \/ toPeer = <<InitialSignature>> /\ toDevice = <<InitialSignature>> /\ peer.phase = "Agreed"
  \/ toPeer = <<>> /\ toDevice = <<InitialSignature>> /\ peer.phase = "Funding"

SignedInv ==
  \/ toPeer = <<InitialSignature>> /\ toDevice = <<>> /\ peer.phase = "Agreed"
  \/ /\ toPeer = <<>> /\ peer.phase \in {"Funding", "Active"}
     /\ \A m \in Range(toDevice) : m.type = "ChannelUpdate"

OpenedInv ==
  /\ peer.phase \in {"Funding", "Active"}
  /\ \A m \in Range(toPeer) : m.type \in {"ChannelUpdate", "ChannelUpdateAccepted"}
  /\ \A m \in Range(toDevice) : m.type \in {"ChannelUpdate"} \cup Answers

StageInv ==
  /\ inner = "Proposed" => ProposedInv
  /\ inner = "AgreedUpon" => AgreedUponInv
  /\ inner = "Signed" => SignedInv
  /\ inner \notin Opening => OpenedInv
  /\ inner \in Opening => ch = InitState /\ update = None /\ peer.state = InitState
  /\ chain.funded => peer.phase \in {"Funding", "Active"}
  /\ inner = "Active" => ~ch.is_final

\* The acceptance of s is in q, before any update.
AnsweredFirst(q, s) ==
  \E i \in 1 .. Len(q) :
    /\ q[i] = AcceptedMsg(s)
    /\ \A j \in 1 .. Len(q) : q[j].type = "ChannelUpdate" => i < j

\* A peer that is ahead has sent its acceptance, before any update of its own.
AheadInv ==
  panic = "no" /\ inner = "Active" /\ ch.version < peer.state.version =>
    AnsweredFirst(toDevice, peer.state)

\* One update of the device or its answer is under way, and only while the
\* update is pending.
OnePending ==
  /\ AtMostOne(toPeer, {"ChannelUpdate"}) /\ AtMostOne(toDevice, Answers)
  /\ Without(toPeer, {"ChannelUpdate"}) \/ Without(toDevice, Answers)
  /\ update = None => Without(toPeer, {"ChannelUpdate"}) /\ Without(toDevice, Answers)
  /\ \A m \in Range(toPeer) : m.type = "ChannelUpdate" => m.state = update
  /\ \A m \in Range(toDevice) : m.type = "ChannelUpdateAccepted" => m.sig = update

\* It is so if no button is pressed while an update is pending.
PatientInv == "hasty" \notin UserMay /\ panic = "no" /\ inner = "Active" => OnePending

PanicInv == AskInv /\ StageInv /\ AheadInv /\ PatientInv

-----------------------------------------------------------------------------
(***************************************************************************)
(* Queues                                                                  *)
(***************************************************************************)
LEMMA WithoutTaken ==
  ASSUME NEW S, NEW T, NEW q \in Seq(S), q # <<>>, Without(q, T)
  PROVE  Without(Tail(q), T) /\ Head(q).type \notin T
BY Taken, Zenon DEF Without

LEMMA WithoutJoined ==
  ASSUME NEW S, NEW T, NEW q \in Seq(S), NEW ms \in Seq(S), Without(q, T), Without(ms, T)
  PROVE  Without(q \o ms, T)
BY Joined, Zenon DEF Without

LEMMA WithoutAppended ==
  ASSUME NEW S, NEW T, NEW q \in Seq(S), NEW m \in S, Without(q, T), m.type \notin T
  PROVE  Without(Append(q, m), T)
BY Appended, Zenon DEF Without

LEMMA OneAppended ==
  ASSUME NEW S, NEW T, NEW q \in Seq(S), NEW m \in S, AtMostOne(q, T),
         m.type \notin T \/ Without(q, T)
  PROVE  AtMostOne(Append(q, m), T)
<1>1. Append(q, m) = q \o <<m>> /\ Len(<<m>>) = 1
  OBVIOUS
<1>2. <<m>> \in Seq(S) /\ Range(<<m>>) = {m}
  BY Single, Zenon
<1>3. Without(<<m>>, T) \/ Without(q, T)
  BY <1>2, Zenon DEF Without
<1>4. AtMostOne(q \o <<m>>, T)
  BY <1>1, <1>2, <1>3, OneJoined, Zenon
<1> QED BY <1>1, <1>4, Zenon

\* A queue with a message taken out of it is shorter.
LEMMA TailDiffers ==
  ASSUME NEW S, NEW q \in Seq(S), q # <<>>
  PROVE  Tail(q) # q
<1>1. Len(Tail(q)) = Len(q) - 1 /\ Len(q) \in Nat
  BY HeadTailProperties, LenProperties, Zenon
<1>2. \A n \in Nat : n # n - 1
  OBVIOUS
<1> QED BY <1>1, <1>2, Zenon

\* The queues of the opening are short.
LEMMA ShortQueues ==
  ASSUME NEW a, NEW b
  PROVE  /\ <<a>> # <<>> /\ Head(<<a>>) = a /\ Tail(<<a>>) = <<>>
         /\ <<a, b>> # <<>> /\ Head(<<a, b>>) = a /\ Tail(<<a, b>>) = <<b>>
         /\ Append(<<>>, a) = <<a>> /\ <<>> \o <<a>> = <<a>> /\ <<>> \o <<a, b>> = <<a, b>>
         /\ <<a>> \o <<>> = <<a>> /\ <<>> \o <<>> = <<>>
OBVIOUS

LEMMA NothingJoined ==
  ASSUME NEW S, NEW q \in Seq(S)
  PROVE  q \o <<>> = q
OBVIOUS

LEMMA OneRemoved ==
  ASSUME NEW S, NEW T, NEW q \in Seq(S), NEW k \in 1 .. Len(q), AtMostOne(q, T)
  PROVE  AtMostOne(RemoveAt(q, k), T)
<1> DEFINE a == SubSeq(q, 1, k - 1)
           b == SubSeq(q, k + 1, Len(q))
           r == a \o b
<1>1. Len(q) \in Nat /\ \A i \in 1 .. Len(q) : q[i] \in S
  BY LenProperties, ElementOfSeq, Zenon
<1>2. /\ a \in Seq(S) /\ Len(a) = k - 1
      /\ \A i \in 1 .. k - 1 : a[i] = q[i]
  <2>1. \A i \in 1 .. k - 1 : q[i] \in S
    BY <1>1
  <2>2. /\ a \in Seq(S) /\ Len(a) = IF 1 <= k - 1 THEN k - 1 - 1 + 1 ELSE 0
        /\ \A i \in 1 .. k - 1 - 1 + 1 : a[i] = q[1 + i - 1]
    BY <2>1, SubSeqProperties, SMT
  <2> HIDE DEF a
  <2> QED BY <2>2
<1>3. /\ b \in Seq(S) /\ Len(b) = Len(q) - k
      /\ \A i \in 1 .. Len(q) - k : b[i] = q[k + i]
  <2>1. \A i \in k + 1 .. Len(q) : q[i] \in S
    BY <1>1
  <2>2. /\ b \in Seq(S) /\ Len(b) = IF k + 1 <= Len(q) THEN Len(q) - (k + 1) + 1 ELSE 0
        /\ \A i \in 1 .. Len(q) - (k + 1) + 1 : b[i] = q[k + 1 + i - 1]
    BY <2>1, <1>1, SubSeqProperties, SMT
  <2> HIDE DEF b
  <2> QED BY <1>1, <2>2
<1>4. RemoveAt(q, k) = r
  BY DEF RemoveAt
<1> HIDE DEF a, b
<1>5. /\ Len(r) = Len(a) + Len(b)
      /\ \A i \in 1 .. Len(a) + Len(b) : r[i] = IF i <= Len(a) THEN a[i] ELSE b[i - Len(a)]
  BY <1>2, <1>3, ConcatProperties, Zenon
<1> HIDE DEF r
<1>6. Len(r) = Len(q) - 1 /\ \A i \in 1 .. Len(r) : r[i] = IF i < k THEN q[i] ELSE q[i + 1]
  <2>1. Len(r) = Len(q) - 1
    BY <1>1, <1>2, <1>3, <1>5
  <2>2. ASSUME NEW i \in 1 .. Len(r), i < k PROVE r[i] = q[i]
    <3>1. i \in 1 .. Len(a) + Len(b) /\ i <= Len(a) /\ i \in 1 .. k - 1
      BY <1>1, <1>2, <1>3, <1>5, <2>2
    <3> QED BY <1>2, <1>5, <3>1, Zenon
  <2>3. ASSUME NEW i \in 1 .. Len(r), ~(i < k) PROVE r[i] = q[i + 1]
    <3>1. /\ i \in 1 .. Len(a) + Len(b) /\ ~(i <= Len(a))
          /\ i - Len(a) \in 1 .. Len(q) - k /\ k + (i - Len(a)) = i + 1
      BY <1>1, <1>2, <1>3, <1>5, <2>3
    <3>2. r[i] = b[i - Len(a)] /\ b[i - Len(a)] = q[k + (i - Len(a))]
      BY <1>3, <1>5, <3>1, Zenon
    <3> QED BY <3>1, <3>2, Zenon
  <2> QED BY <2>1, <2>2, <2>3, Zenon
<1>7. ASSUME NEW i \in 1 .. Len(r), NEW j \in 1 .. Len(r), r[i].type \in T, r[j].type \in T
      PROVE  i = j
  <2> DEFINE at(n) == IF n < k THEN n ELSE n + 1
  <2>1. r[i] = q[at(i)] /\ r[j] = q[at(j)] /\ at(i) \in 1 .. Len(q) /\ at(j) \in 1 .. Len(q)
    BY <1>1, <1>6
  <2>2. at(i) = at(j) => i = j
    OBVIOUS
  <2> HIDE DEF at
  <2> QED BY <1>7, <2>1, <2>2, Zenon DEF AtMostOne
<1> QED BY <1>4, <1>7, Zenon DEF AtMostOne

LEMMA AnsweredFirstJoined ==
  ASSUME NEW S, NEW q \in Seq(S), NEW ms \in Seq(S), NEW s, AnsweredFirst(q, s)
  PROVE  AnsweredFirst(q \o ms, s)
<1> DEFINE r == q \o ms
<1>1. /\ Len(r) = Len(q) + Len(ms)
      /\ \A i \in 1 .. Len(q) + Len(ms) : r[i] = IF i <= Len(q) THEN q[i] ELSE ms[i - Len(q)]
  BY ConcatProperties, Zenon
<1>2. Len(q) \in Nat /\ Len(ms) \in Nat
  BY LenProperties, Zenon
<1> HIDE DEF r
<1>3. PICK i \in 1 .. Len(q) : /\ q[i] = AcceptedMsg(s)
                              /\ \A j \in 1 .. Len(q) : q[j].type = "ChannelUpdate" => i < j
  BY Zenon DEF AnsweredFirst
<1>4. i \in 1 .. Len(r) /\ r[i] = q[i]
  BY <1>1, <1>2
<1>5. ASSUME NEW j \in 1 .. Len(r), r[j].type = "ChannelUpdate" PROVE i < j
  <2>1. CASE j <= Len(q)
    <3>1. j \in 1 .. Len(q) /\ r[j] = q[j]
      BY <1>1, <1>2, <2>1
    <3> QED BY <1>3, <1>5, <3>1, Zenon
  <2>2. CASE ~(j <= Len(q))
    BY <1>1, <1>2, <2>2
  <2> QED BY <2>1, <2>2, Zenon
<1>6. AnsweredFirst(r, s)
  BY <1>3, <1>4, <1>5, Zenon DEF AnsweredFirst
<1> QED BY <1>6 DEF r

LEMMA AnsweredFirstAdded ==
  ASSUME NEW S, NEW q \in Seq(S), NEW s, AcceptedMsg(s) \in S, NoUpdate(q)
  PROVE  AnsweredFirst(q \o <<AcceptedMsg(s)>>, s)
<1> DEFINE m == AcceptedMsg(s)
           r == q \o <<m>>
<1> HIDE DEF m
<1>1. <<m>> \in Seq(S) /\ Len(<<m>>) = 1 /\ <<m>>[1] = m
  BY DEF m
<1>2. /\ Len(r) = Len(q) + Len(<<m>>)
      /\ \A i \in 1 .. Len(q) + Len(<<m>>) : r[i] = IF i <= Len(q) THEN q[i] ELSE <<m>>[i - Len(q)]
  BY <1>1, ConcatProperties, Zenon
<1>3. Len(q) \in Nat /\ DOMAIN q = 1 .. Len(q)
  BY LenProperties, Zenon
<1> HIDE DEF r
<1>4. /\ Len(r) = Len(q) + 1 /\ Len(q) + 1 \in 1 .. Len(r)
      /\ \A i \in 1 .. Len(q) : r[i] = q[i]
  BY <1>1, <1>2, <1>3
<1>5. r[Len(q) + 1] = m
  <2>1. r[Len(q) + 1] = <<m>>[Len(q) + 1 - Len(q)]
    BY <1>1, <1>2, <1>3
  <2>2. Len(q) + 1 - Len(q) = 1
    BY <1>3
  <2> QED BY <1>1, <2>1, <2>2, Zenon
<1>6. m.type # "ChannelUpdate"
  BY DEF m, AcceptedMsg
<1>7. ASSUME NEW j \in 1 .. Len(r), r[j].type = "ChannelUpdate" PROVE FALSE
  <2>1. j \in 1 .. Len(q) \/ j = Len(q) + 1
    BY <1>3, <1>4
  <2>2. CASE j \in 1 .. Len(q)
    <3>1. r[j] = q[j] /\ q[j] \in Range(q)
      BY <1>3, <1>4, <2>2, Zenon DEF Range
    <3> QED BY <1>7, <3>1, Zenon DEF NoUpdate, Without
  <2>3. CASE j = Len(q) + 1
    BY <1>5, <1>6, <1>7, <2>3, Zenon
  <2> QED BY <2>1, <2>2, <2>3, Zenon
<1>8. AnsweredFirst(r, s)
  BY <1>4, <1>5, <1>7, Zenon DEF AnsweredFirst, m
<1> QED BY <1>8 DEF r, m

LEMMA AnsweredFirstTaken ==
  ASSUME NEW S, NEW q \in Seq(S), NEW s, q # <<>>, AnsweredFirst(q, s)
  PROVE  /\ Head(q).type # "ChannelUpdate"
         /\ Head(q) # AcceptedMsg(s) => AnsweredFirst(Tail(q), s)
<1> DEFINE r == Tail(q)
<1>1. /\ r \in Seq(S) /\ Len(r) = Len(q) - 1
      /\ \A i \in 1 .. Len(r) : r[i] = q[i + 1]
  BY HeadTailProperties, Zenon
<1>2. Len(q) \in Nat \ {0}
  BY EmptySeq, Zenon
<1>3. Head(q) = q[1]
  OBVIOUS
<1> HIDE DEF r
<1>4. PICK i \in 1 .. Len(q) : /\ q[i] = AcceptedMsg(s)
                              /\ \A j \in 1 .. Len(q) : q[j].type = "ChannelUpdate" => i < j
  BY Zenon DEF AnsweredFirst
<1>5. Head(q).type # "ChannelUpdate"
  <2>1. 1 \in 1 .. Len(q) /\ ~(i < 1)
    BY <1>2
  <2> QED BY <1>3, <1>4, <2>1, Zenon
<1>6. ASSUME Head(q) # AcceptedMsg(s) PROVE AnsweredFirst(r, s)
  <2>1. i # 1
    BY <1>3, <1>4, <1>6, Zenon
  <2>2. i - 1 \in 1 .. Len(r) /\ i - 1 + 1 = i
    BY <1>1, <1>2, <2>1
  <2>3. r[i - 1] = AcceptedMsg(s)
    BY <1>1, <1>4, <2>2, Zenon
  <2>4. ASSUME NEW j \in 1 .. Len(r), r[j].type = "ChannelUpdate" PROVE i - 1 < j
    <3>1. j + 1 \in 1 .. Len(q) /\ r[j] = q[j + 1]
      BY <1>1, <1>2
    <3>2. i < j + 1
      BY <1>4, <2>4, <3>1, Zenon
    <3> QED BY <3>2
  <2> QED BY <2>2, <2>3, <2>4, Zenon DEF AnsweredFirst
<1> QED BY <1>5, <1>6 DEF r

-----------------------------------------------------------------------------
(***************************************************************************)
(* Requests and replies                                                    *)
(***************************************************************************)
LEMMA AskQuiet ==
  ASSUME AskInv, UNCHANGED <<inner, funded, requests, replies, watched>>, chain'.funded = chain.funded
  PROVE  AskInv'
BY DEF AskInv, AtMostOne, Without

LEMMA ForceCloseAsk ==
  ASSUME AskInv, PressForceClose
  PROVE  AskInv'
<1>1. /\ inner = "Active" /\ inner' = "ForceClosing" /\ requests' = requests \cup {RegisterReq}
      /\ UNCHANGED <<funded, replies, watched, chain>>
  BY DEF PressForceClose
<1>2. FundReq # RegisterReq
  BY DEF FundReq, RegisterReq
<1>3. FundReq \in requests' <=> FundReq \in requests
  BY <1>1, <1>2, Zenon
<1>4. "Active" \notin Opening /\ "ForceClosing" \notin Opening
  BY DEF Opening
<1>5. AtMostOne(replies, {"Funded"})' /\ \A T : Without(replies, T) = Without(replies, T)'
  BY <1>1 DEF AskInv, AtMostOne, Without
<1> QED BY <1>1, <1>3, <1>4, <1>5 DEF AskInv

LEMMA PollPeerAsk ==
  ASSUME AskInv, PollPeer
  PROVE  AskInv'
<1>1. UNCHANGED <<funded, replies, watched, chain>> /\ inner # "Closed"
  BY DEF PollPeer, ForwardProposalAccepted, ForwardInitialSignature, ForwardUpdate,
         ForwardUpdateAccepted, ForwardUpdateRejected, ForwardParticipantErr, FromPeer, Running,
         service, Panics
<1>2. /\ FundReq # RegisterReq
      /\ \A s : WatchRequest(s) # FundReq /\ WatchRequest(s) # RegisterReq
  BY DEF FundReq, RegisterReq, WatchRequest
<1>3. AtMostOne(replies, {"Funded"})' /\ \A T : Without(replies, T) = Without(replies, T)'
  BY <1>1 DEF AskInv, AtMostOne, Without
<1>4. CASE ForwardProposalAccepted \/ ForwardUpdateRejected \/ ForwardParticipantErr
  <2>1. /\ requests' = requests
        /\ inner' = inner \/ (inner = "Proposed" /\ inner' = "AgreedUpon")
    BY <1>4 DEF ForwardProposalAccepted, ForwardUpdateRejected, ForwardParticipantErr, Panics, service
  <2> QED BY <1>1, <1>3, <2>1 DEF AskInv, Opening
<1>5. CASE ForwardInitialSignature
  <2>1. /\ inner = "AgreedUpon" /\ inner' = "Signed"
        /\ requests' = requests \cup {WatchRequest(ch), FundReq}
    BY <1>5, Zenon DEF ForwardInitialSignature
  <2>2. requests = {} /\ replies = <<>> /\ ~funded
    BY <2>1 DEF AskInv
  <2>3. RegisterReq \notin requests'
    BY <1>2, <2>1, <2>2, Zenon
  <2>4. \A T : Without(replies, T)
    BY <2>2, Nothing, Zenon DEF Without
  <2> QED BY <1>1, <1>3, <2>1, <2>2, <2>3, <2>4 DEF AskInv, Opening
<1>6. CASE ForwardUpdate \/ ForwardUpdateAccepted
  <2>1. PICK s : requests' = requests \cup {WatchRequest(s)}
    BY <1>6, Zenon DEF ForwardUpdate, ForwardUpdateAccepted, Apply
  <2>2. inner = "Active" /\ inner' \in {"Closing", "Active"}
    BY <1>6 DEF ForwardUpdate, ForwardUpdateAccepted, Apply
  <2>3. (FundReq \in requests' <=> FundReq \in requests) /\ (RegisterReq \in requests' <=> RegisterReq \in requests)
    BY <1>2, <2>1, Zenon
  <2> QED BY <1>1, <1>3, <2>2, <2>3 DEF AskInv, Opening
<1> QED BY <1>4, <1>5, <1>6, Zenon DEF PollPeer

LEMMA PollServiceAsk ==
  ASSUME TypeInv, AskInv, PollService
  PROVE  AskInv'
<1>1. /\ replies # <<>> /\ replies' = Tail(replies) /\ inner # "Closed"
      /\ UNCHANGED <<requests, watched, chain>>
  BY DEF PollService, ForwardAckSigned, ForwardFunded, ForwardAck, ForwardDisputeNotification,
         ForwardDisputeAck, ForwardServiceErr, FromService, Running, Panics
<1>2. replies \in Seq(Replies)
  BY Zenon DEF TypeInv, ServiceTypes
<1>3. inner \notin {"Proposed", "AgreedUpon"}
  BY <1>1 DEF AskInv
<1>4. /\ AtMostOne(replies', {"Funded"})
      /\ \A T : Without(replies, T) => Without(replies', T)
      /\ Head(replies).type = "Funded" => ~Without(replies, {"Funded"}) /\ Without(replies', {"Funded"})
  <2>1. AtMostOne(replies, {"Funded"})
    BY Zenon DEF AskInv
  <2>2. AtMostOne(Tail(replies), {"Funded"}) /\ (Head(replies).type \in {"Funded"} => Without(Tail(replies), {"Funded"}))
    BY <1>1, <1>2, <2>1, OneTaken, Zenon
  <2>3. \A T : Without(replies, T) => Without(Tail(replies), T) /\ Head(replies).type \notin T
    BY <1>1, <1>2, WithoutTaken, Zenon
  <2> QED BY <1>1, <2>2, <2>3, Zenon
<1>5. AtMostOne(replies, {"Funded"})' /\ \A T : Without(replies', T) = Without(replies, T)'
  BY <1>4 DEF AtMostOne, Without
<1>6. CASE ForwardFunded
  <2>1. /\ Head(replies).type = "Funded" /\ inner = "Signed" /\ funded' = TRUE
        /\ inner' \in {"Active", "Signed"}
    BY <1>6 DEF ForwardFunded, FromService
  <2>2. ~funded /\ FundReq \notin requests
    BY <1>4, <2>1, Zenon DEF AskInv
  <2>3. Without(replies', {"DisputeAck"}) /\ RegisterReq \notin requests
    BY <1>4, <2>1 DEF AskInv
  <2> QED BY <1>1, <1>4, <1>5, <2>1, <2>2, <2>3 DEF AskInv
<1>7. CASE ~ForwardFunded
  <2>1. /\ funded' = funded
        /\ \/ inner' = inner
           \/ inner = "Signed" /\ inner' = "Active" /\ funded
           \/ inner # "Signed" /\ inner' = "Closed"
    BY <1>7 DEF PollService, ForwardAckSigned, ForwardAck, ForwardDisputeNotification, ForwardDisputeAck,
                ForwardServiceErr, Panics
  <2>2. inner' \notin {"Proposed", "AgreedUpon"} /\ (inner' \notin Opening => funded')
    BY <1>3, <2>1 DEF AskInv, Opening
  <2>3. inner \in {"ForceClosing", "Closed"} => inner' \in {"ForceClosing", "Closed"}
    BY <2>1
  <2> QED BY <1>1, <1>4, <1>5, <2>1, <2>2, <2>3 DEF AskInv
<1> QED BY <1>6, <1>7, Zenon

LEMMA ServiceAnswersAsk ==
  ASSUME TypeInv, AskInv, ServiceAnswers
  PROVE  AskInv'
<1>1. UNCHANGED <<inner, funded>>
  BY DEF ServiceAnswers, ServiceWatch, ServiceFund, ServiceRegister, ServiceNotify, device
<1>2. chain \in Ledgers /\ replies \in Seq(Replies) /\ requests \subseteq Requests
  BY Zenon DEF TypeInv, ServiceTypes
<1>3. ASSUME NEW m \in Replies, replies' = Append(replies, m), requests' \subseteq requests,
             inner \notin {"Proposed", "AgreedUpon"},
             m.type = "Funded" => /\ ~funded /\ FundReq \notin requests'
                                  /\ Without(replies, {"Funded"}),
             m.type = "DisputeAck" => inner \in {"ForceClosing", "Closed"}
      PROVE  AskInv'
  <2>1. AtMostOne(replies', {"Funded"})
    <3>1. m.type \notin {"Funded"} \/ Without(replies, {"Funded"})
      BY <1>3, Zenon
    <3> QED BY <1>2, <1>3, <3>1, OneAppended, Zenon DEF AskInv
  <2>2. \A T : Without(replies, T) /\ m.type \notin T => Without(replies', T)
    BY <1>2, <1>3, WithoutAppended, Zenon
  <2>3. AtMostOne(replies, {"Funded"})' /\ \A T : Without(replies', T) = Without(replies, T)'
    BY <2>1 DEF AtMostOne, Without
  <2>4. funded \/ FundReq \in requests' => Without(replies', {"Funded"})
    BY <1>3, <2>2, Zenon DEF AskInv
  <2>5. RegisterReq \in requests' \/ ~Without(replies', {"DisputeAck"}) => inner \in {"ForceClosing", "Closed"}
    BY <1>3, <2>2, Zenon DEF AskInv
  <2>6. (inner \notin Opening => funded) /\ (funded => FundReq \notin requests')
    BY <1>3, Zenon DEF AskInv
  <2> QED BY <1>1, <1>3, <2>3, <2>4, <2>5, <2>6 DEF AskInv
<1>4. ASSUME NEW r \in requests, NEW answer \in WatchReply, ServiceWatch(r, answer) PROVE AskInv'
  <2> DEFINE x == IF answer = "Ack" THEN Ack(r.state.version) ELSE Reply(answer)
  <2>1. r.type = "WatchRequest" /\ requests' = requests \ {r} /\ replies' = Append(replies, x)
    BY <1>4, Zenon DEF ServiceWatch
  <2>2. r.state \in State
    BY <1>2, <2>1, ServiceMessages, Zenon
  <2>3. r.state.version \in 0..MaxVersion
    BY <2>2 DEF State
  <2>4. x \in Replies /\ x.type \in {"Ack", "StartWatchingResp"}
    <3>1. answer \in {"Ack", "StartWatchingResp"}
      BY DemoAssumption, Zenon
    <3>2. /\ Ack(r.state.version) \in Replies /\ Ack(r.state.version).type = "Ack"
          /\ Reply("StartWatchingResp") \in Replies
          /\ Reply("StartWatchingResp").type = "StartWatchingResp"
      BY <2>3, ServiceMessages
    <3> QED BY <3>1, <3>2
  <2> HIDE DEF x
  <2>5. requests' \subseteq requests /\ inner \notin {"Proposed", "AgreedUpon"}
    BY <2>1, Zenon DEF AskInv
  <2>6. x.type # "Funded" /\ x.type # "DisputeAck"
    BY <2>4
  <2> QED BY <1>3, <2>1, <2>4, <2>5, <2>6, Zenon
<1>5. CASE ServiceFund
  <2>1. /\ FundReq \in requests /\ requests' = requests \ {FundReq}
        /\ replies' = Append(replies, Reply("Funded"))
    BY <1>5, Zenon DEF ServiceFund
  <2>2. Reply("Funded") \in Replies /\ Reply("Funded").type = "Funded" /\ "Funded" # "DisputeAck"
    BY ServiceMessages
  <2>3. /\ requests' \subseteq requests /\ inner \notin {"Proposed", "AgreedUpon"}
        /\ ~funded /\ FundReq \notin requests' /\ Without(replies, {"Funded"})
    BY <2>1, Zenon DEF AskInv
  <2> QED BY <1>3, <2>1, <2>2, <2>3, Zenon
<1>6. ASSUME NEW answer \in RegisterReply, ServiceRegister(answer) PROVE AskInv'
  <2>1. /\ RegisterReq \in requests /\ requests' = requests \ {RegisterReq}
        /\ replies' = Append(replies, Reply(answer))
    BY <1>6, Zenon DEF ServiceRegister
  <2>2. Reply(answer) \in Replies /\ Reply(answer).type = answer /\ answer # "Funded"
    BY ServiceMessages, DemoAssumption
  <2>3. inner \in {"ForceClosing", "Closed"} /\ requests' \subseteq requests
    BY <2>1, Zenon DEF AskInv
  <2>4. inner \notin {"Proposed", "AgreedUpon"}
    BY <2>3
  <2> QED BY <1>3, <2>1, <2>2, <2>3, <2>4, Zenon
<1>7. CASE ServiceNotify
  <2>1. /\ watched # {} /\ requests' = requests
        /\ replies' = Append(replies, Reply("DisputeNotification"))
    BY <1>7, Zenon DEF ServiceNotify
  <2>2. /\ Reply("DisputeNotification") \in Replies
        /\ Reply("DisputeNotification").type # "Funded" /\ Reply("DisputeNotification").type # "DisputeAck"
    BY ServiceMessages
  <2>3. requests' \subseteq requests /\ inner \notin {"Proposed", "AgreedUpon"}
    BY <2>1, Zenon DEF AskInv
  <2> QED BY <1>3, <2>1, <2>2, <2>3, Zenon
<1> QED BY <1>4, <1>5, <1>6, <1>7, Zenon DEF ServiceAnswers

-----------------------------------------------------------------------------
(***************************************************************************)
(* The opening, one exchange after the other                               *)
(***************************************************************************)
LEMMA InitialMessages ==
  /\ InitialSignature \in ChannelMessages
  /\ InitialSignature.type = "ChannelUpdateAccepted" /\ InitialSignature.sig = InitState
  /\ ProposalMsg.type = "ChannelProposal"
  /\ ProposalAcceptedMsg.type = "ProposalAccepted"
  /\ ProposalRejectedMsg.type = "ProposalRejected"
<1>1. InitState \in ChannelStates
  BY InitStateGood, Zenon
<1> QED BY <1>1, StateMessages, PlainMessages, Zenon DEF InitialSignature

\* Once the channel is open, messages only have to have the right types.
LEMMA OpenedKept ==
  ASSUME StageInv, inner \notin Opening, inner' \notin Opening,
         Range(toPeer') \subseteq Range(toPeer) \cup {m \in ChannelMessages :
                                    m.type \in {"ChannelUpdate", "ChannelUpdateAccepted"}},
         Range(toDevice') \subseteq Range(toDevice) \cup {m \in ChannelMessages :
                                    m.type \in {"ChannelUpdate"} \cup Answers},
         peer'.phase \in {peer.phase, "Active"},
         inner' = "Active" => ~ch'.is_final
  PROVE  StageInv'
<1>1. OpenedInv
  BY Zenon DEF StageInv
<1>2. OpenedInv'
  <2>1. peer'.phase \in {"Funding", "Active"}
    BY <1>1 DEF OpenedInv
  <2> QED BY <1>1, <2>1, Zenon DEF OpenedInv
<1>3. peer'.phase \in {"Funding", "Active"}
  BY <1>2, Zenon DEF OpenedInv
<1>4. inner' # "Proposed" /\ inner' # "AgreedUpon" /\ inner' # "Signed"
  BY DEF Opening
<1> QED BY <1>2, <1>3, <1>4, Zenon DEF StageInv

LEMMA StageInitially == Init => StageInv
<1> SUFFICES ASSUME Init PROVE StageInv
  OBVIOUS
<1>1. /\ ch = InitState /\ update = None /\ peer.state = InitState /\ peer.phase = "Idle"
      /\ ~chain.funded /\ toDevice = <<>>
  BY DEF Init
<1>2. \/ inner = "Proposed" /\ toPeer = <<ProposalMsg>>
      \/ inner = "AgreedUpon" /\ toPeer = <<ProposalAcceptedMsg, InitialSignature>>
  BY Zenon DEF Init, InitialSignature
<1>3. CASE inner = "Proposed" /\ toPeer = <<ProposalMsg>>
  <2>1. ProposedInv
    BY <1>1, <1>3, Zenon DEF ProposedInv
  <2> QED BY <1>1, <1>3, <2>1 DEF StageInv, Opening
<1>4. CASE inner = "AgreedUpon" /\ toPeer = <<ProposalAcceptedMsg, InitialSignature>>
  <2>1. AgreedUponInv
    BY <1>1, <1>4, Zenon DEF AgreedUponInv
  <2> QED BY <1>1, <1>4, <2>1 DEF StageInv, Opening
<1> QED BY <1>2, <1>3, <1>4, Zenon

LEMMA StageQuiet ==
  ASSUME StageInv, UNCHANGED <<inner, ch, update, toPeer, toDevice, peer>>,
         chain'.funded => chain.funded \/ peer.phase = "Funding"
  PROVE  StageInv'
<1>1. /\ ProposedInv' = ProposedInv /\ AgreedUponInv' = AgreedUponInv
      /\ SignedInv' = SignedInv /\ OpenedInv' = OpenedInv
  BY DEF ProposedInv, AgreedUponInv, SignedInv, OpenedInv
<1> QED BY <1>1 DEF StageInv

\* What the update and the close button do
LEMMA ButtonPressed ==
  ASSUME TypeInv, PressUpdate \/ PressNormalClose
  PROVE  /\ inner = "Active" /\ UNCHANGED <<inner, funded, ch, toDevice, service, peer>>
         /\ "hasty" \in UserMay \/ update = None
         /\ \/ panic' = "button" /\ UNCHANGED <<update, toPeer>>
            \/ \E s \in ChannelStates : /\ update' = s /\ panic' = panic
                                        /\ toPeer' = Append(toPeer, UpdateMsg(s))
<1>1. ASSUME NEW amount \in Nat, NEW final \in BOOLEAN, ch.version < MaxVersion,
             ChannelUpdate(amount, final)
      PROVE  /\ UNCHANGED <<inner, funded, ch, toDevice, service, peer>>
             /\ \/ panic' = "button" /\ UNCHANGED <<update, toPeer>>
                \/ \E s \in ChannelStates : /\ update' = s /\ panic' = panic
                                            /\ toPeer' = Append(toPeer, UpdateMsg(s))
  <2>1. UNCHANGED <<inner, funded, ch, toDevice, service, peer>>
    BY <1>1 DEF ChannelUpdate, Panics
  <2>2. CASE Solvent(amount)
    <3> DEFINE next == Pay(ch, part_idx, amount, final)
    <3>1. ch \in ChannelStates /\ part_idx \in Idx
      BY Zenon DEF TypeInv, DeviceTypes
    <3>2. next \in ChannelStates
      BY <1>1, <2>2, <3>1, Paid, Zenon DEF Solvent
    <3>3. update' = next /\ toPeer' = Append(toPeer, UpdateMsg(next)) /\ panic' = panic
      BY <1>1, <2>2, Zenon DEF ChannelUpdate
    <3> QED BY <2>1, <3>2, <3>3, Zenon
  <2>3. CASE ~Solvent(amount)
    BY <1>1, <2>1, <2>3, Zenon DEF ChannelUpdate, Panics
  <2> QED BY <2>2, <2>3, Zenon
<1>2. /\ inner = "Active" /\ ch.version < MaxVersion /\ ("hasty" \in UserMay \/ update = None)
      /\ ChannelUpdate(Amount, FALSE) \/ ChannelUpdate(0, TRUE)
  BY Zenon DEF PressUpdate, PressNormalClose, Pressable
<1>3. Amount \in Nat /\ 0 \in Nat /\ TRUE \in BOOLEAN /\ FALSE \in BOOLEAN
  BY DemoAssumption
<1>4. CASE ChannelUpdate(Amount, FALSE)
  BY <1>1, <1>2, <1>3, <1>4, Zenon
<1>5. CASE ChannelUpdate(0, TRUE)
  BY <1>1, <1>2, <1>3, <1>5, Zenon
<1> QED BY <1>2, <1>4, <1>5, Zenon

LEMMA ButtonStage ==
  ASSUME TypeInv, StageInv, PressUpdate \/ PressNormalClose \/ PressForceClose
  PROVE  StageInv'
<1>1. CASE PressForceClose
  <2>1. inner = "Active" /\ inner' = "ForceClosing" /\ UNCHANGED <<ch, toPeer, toDevice, peer>>
    BY <1>1 DEF PressForceClose
  <2>2. inner \notin Opening /\ inner' \notin Opening /\ inner' # "Active"
    BY <2>1 DEF Opening
  <2> QED BY <2>1, <2>2, OpenedKept, Zenon
<1>2. CASE PressUpdate \/ PressNormalClose
  <2>1. /\ inner = "Active" /\ UNCHANGED <<inner, ch, toDevice, peer>>
        /\ toPeer' = toPeer \/ \E s \in ChannelStates : toPeer' = Append(toPeer, UpdateMsg(s))
    BY <1>2, ButtonPressed, Zenon
  <2>2. inner \notin Opening /\ inner' \notin Opening
    BY <2>1 DEF Opening
  <2>3. Range(toPeer') \subseteq Range(toPeer) \cup {m \in ChannelMessages :
                                   m.type \in {"ChannelUpdate", "ChannelUpdateAccepted"}}
    <3>1. toPeer \in Seq(ChannelMessages)
      BY Versions, Zenon
    <3>2. \A s \in ChannelStates : UpdateMsg(s) \in ChannelMessages /\ UpdateMsg(s).type = "ChannelUpdate"
      BY StateMessages, Zenon
    <3>3. \A s \in ChannelStates : Range(Append(toPeer, UpdateMsg(s))) \subseteq Range(toPeer) \cup {UpdateMsg(s)}
      BY <3>1, <3>2, Appended, Zenon
    <3> QED BY <2>1, <3>2, <3>3, Zenon
  <2>4. inner' = "Active" => ~ch'.is_final
    BY <2>1, Zenon DEF StageInv
  <2> QED BY <2>1, <2>2, <2>3, <2>4, OpenedKept, Zenon
<1> QED BY <1>1, <1>2, Zenon

\* A message of the peer is forwarded.
LEMMA PollPeerStage ==
  ASSUME TypeInv, StageInv, PollPeer
  PROVE  StageInv'
<1>1. /\ toDevice # <<>> /\ toDevice' = Tail(toDevice) /\ inner # "Closed"
      /\ UNCHANGED <<chain, peer>>
  BY DEF PollPeer, ForwardProposalAccepted, ForwardInitialSignature, ForwardUpdate,
         ForwardUpdateAccepted, ForwardUpdateRejected, ForwardParticipantErr, FromPeer, Running,
         service, Panics
<1>2. /\ toPeer \in Seq(ChannelMessages) /\ toDevice \in Seq(ChannelMessages)
      /\ ch \in ChannelStates /\ update \in ChannelStates \cup {None}
  BY Zenon DEF TypeInv, DeviceTypes, QueueTypes
<1>3. Range(toDevice') \subseteq Range(toDevice) /\ Head(toDevice) \in Range(toDevice)
  BY <1>1, <1>2, Taken, Zenon
<1>4. CASE ForwardProposalAccepted
  <2>1. /\ inner = "Proposed" /\ Head(toDevice).type = "ProposalAccepted" /\ inner' = "AgreedUpon"
        /\ toPeer' = Append(toPeer, AcceptedMsg(ch)) /\ UNCHANGED <<ch, update>>
    BY <1>4, Zenon DEF ForwardProposalAccepted, FromPeer
  <2>2. ProposedInv /\ ch = InitState /\ update = None /\ peer.state = InitState
    BY <2>1 DEF StageInv, Opening
  <2>3. Head(<<ProposalRejectedMsg>>).type # "ProposalAccepted"
    BY ShortQueues, InitialMessages
  <2>4. /\ toPeer = <<>> /\ toDevice = <<ProposalAcceptedMsg, InitialSignature>>
        /\ peer.phase = "Agreed"
    BY <1>1, <2>1, <2>2, <2>3, Zenon DEF ProposedInv
  <2>5. toPeer' = <<InitialSignature>> /\ toDevice' = <<InitialSignature>>
    <3>1. Append(<<>>, InitialSignature) = <<InitialSignature>>
      BY ShortQueues, Zenon
    <3>2. Tail(<<ProposalAcceptedMsg, InitialSignature>>) = <<InitialSignature>>
      BY ShortQueues, Zenon
    <3>3. AcceptedMsg(ch) = InitialSignature
      BY <2>2, Zenon DEF InitialSignature
    <3> QED BY <1>1, <2>1, <2>4, <3>1, <3>2, <3>3, Zenon
  <2>6. AgreedUponInv'
    BY <1>1, <2>4, <2>5, Zenon DEF AgreedUponInv
  <2> QED BY <1>1, <2>1, <2>2, <2>6 DEF StageInv, Opening
<1>5. CASE ForwardInitialSignature
  <2>1. inner = "AgreedUpon" /\ inner' = "Signed" /\ UNCHANGED <<ch, update, toPeer>>
    BY <1>5, Zenon DEF ForwardInitialSignature
  <2>2. AgreedUponInv /\ ch = InitState /\ update = None /\ peer.state = InitState
    BY <2>1 DEF StageInv, Opening
  <2>3. /\ toDevice = <<InitialSignature>>
        /\ \/ toPeer = <<InitialSignature>> /\ peer.phase = "Agreed"
           \/ toPeer = <<>> /\ peer.phase = "Funding"
    BY <1>1, <2>2, Zenon DEF AgreedUponInv
  <2>4. toDevice' = <<>> /\ Range(<<>>) = {}
    BY <1>1, <2>3, ShortQueues, Nothing, Zenon
  <2>5. SignedInv'
    BY <1>1, <2>1, <2>3, <2>4, Zenon DEF SignedInv
  <2> QED BY <1>1, <2>1, <2>2, <2>5 DEF StageInv, Opening
<1>6. ASSUME NEW s \in ChannelStates, inner = "Active", Apply(s),
             toPeer' \in {toPeer, Append(toPeer, AcceptedMsg(s))}
      PROVE  StageInv'
  <2>1. inner' = (IF s.is_final THEN "Closing" ELSE "Active") /\ ch' = s
    BY <1>6, Zenon DEF Apply
  <2>2. inner \notin Opening /\ inner' \notin Opening /\ (inner' = "Active" => ~ch'.is_final)
    BY <1>6, <2>1 DEF Opening
  <2>3. AcceptedMsg(s) \in ChannelMessages /\ AcceptedMsg(s).type = "ChannelUpdateAccepted"
    BY <1>6, StateMessages, Zenon
  <2>4. Range(toPeer') \subseteq Range(toPeer) \cup {AcceptedMsg(s)}
    BY <1>2, <1>6, <2>3, Appended, Zenon
  <2>5. Range(toPeer') \subseteq Range(toPeer) \cup {m \in ChannelMessages :
                                   m.type \in {"ChannelUpdate", "ChannelUpdateAccepted"}}
    BY <2>3, <2>4, Zenon
  <2> QED BY <1>1, <1>3, <2>2, <2>5, OpenedKept, Zenon
<1>7. CASE ForwardUpdate
  <2>1. /\ inner = "Active" /\ Head(toDevice).type = "ChannelUpdate" /\ Apply(Head(toDevice).state)
        /\ toPeer' = Append(toPeer, AcceptedMsg(Head(toDevice).state))
    BY <1>7, Zenon DEF ForwardUpdate, FromPeer
  <2>2. Head(toDevice).state \in ChannelStates
    BY <1>3, <2>1, Versions, Zenon
  <2> QED BY <1>6, <2>1, <2>2, Zenon
<1>8. CASE ForwardUpdateAccepted
  <2>1. inner = "Active" /\ update # None /\ Apply(update) /\ toPeer' = toPeer
    BY <1>8, Zenon DEF ForwardUpdateAccepted
  <2> QED BY <1>2, <1>6, <2>1, Zenon
<1>9. CASE (ForwardUpdateRejected \/ ForwardParticipantErr) /\ inner \notin Opening
  <2>1. UNCHANGED <<inner, ch, toPeer>>
    BY <1>9 DEF ForwardUpdateRejected, ForwardParticipantErr, Panics
  <2>2. inner' \notin Opening /\ (inner' = "Active" => ~ch'.is_final)
    BY <1>9, <2>1, Zenon DEF StageInv
  <2> QED BY <1>1, <1>3, <1>9, <2>1, <2>2, OpenedKept, Zenon
<1>10. CASE ForwardParticipantErr /\ inner \in Opening
  <2>1. /\ UNCHANGED <<inner, ch, update, toPeer>>
        /\ ~(inner = "Proposed" /\ Head(toDevice).type = "ProposalAccepted")
        /\ ~(inner = "AgreedUpon" /\ Head(toDevice).type = "ChannelUpdateAccepted"
                                  /\ Head(toDevice).sig = ch)
    BY <1>10, Zenon DEF ForwardParticipantErr, Panics
  <2>2. ch = InitState /\ update = None /\ peer.state = InitState
    BY <1>10, Zenon DEF StageInv
  <2>3. inner = "Proposed" => ProposedInv'
    <3> SUFFICES ASSUME inner = "Proposed" PROVE ProposedInv'
      OBVIOUS
    <3>1. ProposedInv
      BY Zenon DEF StageInv
    <3>2. toPeer = <<>> /\ toDevice = <<ProposalRejectedMsg>> /\ peer.phase = "Done"
      BY <1>1, <2>1, <3>1, ShortQueues, InitialMessages, Zenon DEF ProposedInv
    <3>3. toDevice' = <<>>
      BY <1>1, <3>2, ShortQueues, Zenon
    <3> QED BY <1>1, <2>1, <3>2, <3>3, Zenon DEF ProposedInv
  <2>4. inner # "AgreedUpon"
    <3> SUFFICES ASSUME inner = "AgreedUpon" PROVE FALSE
      OBVIOUS
    <3>1. AgreedUponInv
      BY Zenon DEF StageInv
    <3>2. Head(toDevice) = InitialSignature
      BY <1>1, <3>1, ShortQueues, Zenon DEF AgreedUponInv
    <3> QED BY <2>1, <2>2, <3>2, InitialMessages, Zenon
  <2>5. inner = "Signed" => SignedInv'
    BY <1>1, <1>3, <2>1, Zenon DEF StageInv, SignedInv
  <2> QED BY <1>1, <1>10, <2>1, <2>2, <2>3, <2>4, <2>5 DEF StageInv, Opening
<1>11. ForwardUpdateRejected => inner \notin Opening
  BY DEF ForwardUpdateRejected, Opening
<1> QED BY <1>4, <1>5, <1>7, <1>8, <1>9, <1>10, <1>11, Zenon DEF PollPeer

\* The channel becomes Active when both replies are there, and then the peer has
\* asked for the funding, too.
LEMMA BecomesActive ==
  ASSUME TypeInv, OpenInv, StageInv, PollService, inner = "Signed", inner' # inner
  PROVE  /\ inner' = "Active" /\ UNCHANGED <<ch, update, toPeer, toDevice, peer, chain>>
         /\ toPeer = <<>> /\ peer.phase \in {"Funding", "Active"}
         /\ \A m \in Range(toDevice) : m.type = "ChannelUpdate"
         /\ ch = InitState /\ update = None /\ peer.state = InitState
<1>1. /\ inner' = "Active" /\ UNCHANGED <<ch, update, toPeer, toDevice, peer, chain>>
      /\ funded \/ (replies # <<>> /\ Head(replies).type = "Funded")
  BY DEF PollService, ForwardAckSigned, ForwardFunded, ForwardAck, ForwardDisputeNotification,
         ForwardDisputeAck, ForwardServiceErr, FromService, Panics
<1>2. replies \in Seq(Replies)
  BY Zenon DEF TypeInv, ServiceTypes
<1>3. chain.funded
  BY <1>1, <1>2, Taken, Zenon DEF OpenInv
<1>4. peer.phase # "Agreed"
  BY <1>3 DEF StageInv
<1>5. SignedInv /\ ch = InitState /\ update = None /\ peer.state = InitState
  BY DEF StageInv, Opening
<1> QED BY <1>1, <1>4, <1>5, Zenon DEF SignedInv

LEMMA PollServiceStage ==
  ASSUME TypeInv, OpenInv, StageInv, PollService
  PROVE  StageInv'
<1>1. CASE inner = "Signed" /\ inner' # inner
  <2>1. /\ inner' = "Active" /\ UNCHANGED <<ch, update, toPeer, toDevice, peer, chain>>
        /\ toPeer = <<>> /\ peer.phase \in {"Funding", "Active"}
        /\ \A m \in Range(toDevice) : m.type = "ChannelUpdate"
        /\ ch = InitState
    BY <1>1, BecomesActive, Zenon
  <2>2. OpenedInv'
    <3>1. Range(<<>>) = {}
      BY Nothing, Zenon
    <3> QED BY <2>1, <3>1, Zenon DEF OpenedInv
  <2>3. ~ch'.is_final
    BY <2>1, InitStateGood, Zenon
  <2> QED BY <2>1, <2>2, <2>3 DEF StageInv, Opening
<1>2. CASE ~(inner = "Signed" /\ inner' # inner)
  <2>1. /\ UNCHANGED <<ch, update, toPeer, toDevice, peer, chain>>
        /\ inner' = inner \/ (inner \in {"Active", "Closing", "ForceClosing"} /\ inner' = "Closed")
    BY <1>2 DEF PollService, ForwardAckSigned, ForwardFunded, ForwardAck, ForwardDisputeNotification,
         ForwardDisputeAck, ForwardServiceErr, FromService, Panics
  <2>2. CASE inner' = inner
    BY <2>1, <2>2, StageQuiet, Zenon
  <2>3. CASE inner \in {"Active", "Closing", "ForceClosing"} /\ inner' = "Closed"
    <3>1. inner \notin Opening /\ inner' \notin Opening /\ inner' # "Active"
      BY <2>3 DEF Opening
    <3> QED BY <2>1, <3>1, OpenedKept, Zenon
  <2> QED BY <2>1, <2>2, <2>3, Zenon
<1> QED BY <1>1, <1>2, Zenon

LEMMA ServiceAnswersStage ==
  ASSUME TypeInv, StageInv, ServiceAnswers
  PROVE  StageInv'
<1>1. UNCHANGED <<inner, ch, update, toPeer, toDevice, peer>>
  BY DEF ServiceAnswers, ServiceWatch, ServiceFund, ServiceRegister, ServiceNotify, device
<1>2. chain'.funded => chain.funded \/ peer.phase = "Funding"
  <2>1. chain \in Ledgers
    BY Zenon DEF TypeInv, ServiceTypes
  <2> QED BY <2>1 DEF ServiceAnswers, ServiceWatch, ServiceFund, ServiceRegister, ServiceNotify, Ledgers
<1> QED BY <1>1, <1>2, StageQuiet, Zenon

\* The peer takes a message, sends ms and goes on.
LEMMA PeerAnswersStage ==
  ASSUME TypeInv, AskInv, StageInv, PeerAnswers
  PROVE  StageInv'
<1>1. UNCHANGED <<inner, ch, update, chain>>
  BY DEF PeerAnswers, PeerHandleProposal, PeerHandleProposalAccepted, PeerHandleSignature, PeerFunded,
         PeerHandleUpdate, PeerHandleUpdateAccepted, PeerSends, device, service
<1>2. /\ toPeer \in Seq(ChannelMessages) /\ toDevice \in Seq(ChannelMessages) /\ peer \in Peers
      /\ inner \in ChannelInner
  BY Zenon DEF TypeInv, DeviceTypes, QueueTypes
<1>3. \A p : /\ [peer EXCEPT !.phase = p].phase = p
             /\ [peer EXCEPT !.phase = p].state = peer.state
  BY <1>2 DEF Peers
<1>4. toPeer # <<>> => Head(toPeer) \in Range(toPeer) /\ Range(Tail(toPeer)) \subseteq Range(toPeer)
  BY <1>2, Taken, Zenon
<1>5. "Agreed" \notin {"Funding", "Active"} /\ "Idle" \notin {"Funding", "Active"}
  OBVIOUS
<1>6. CASE PeerHandleProposal
  <2>1. /\ toPeer # <<>> /\ Head(toPeer).type = "ChannelProposal" /\ toPeer' = Tail(toPeer)
        /\ \/ /\ peer' = [peer EXCEPT !.phase = "Agreed"]
              /\ toDevice' = toDevice \o <<ProposalAcceptedMsg, AcceptedMsg(peer.state)>>
           \/ /\ peer' = [peer EXCEPT !.phase = "Done"]
              /\ toDevice' = toDevice \o <<ProposalRejectedMsg>>
    BY <1>6, Zenon DEF PeerHandleProposal, ToPeer, PeerSends
  <2>2. inner = "Proposed"
    <3>1. CASE inner = "AgreedUpon"
      <4>1. AgreedUponInv
        BY <3>1, Zenon DEF StageInv
      <4>2. Head(toPeer) \in {ProposalAcceptedMsg, InitialSignature}
        BY <2>1, <4>1, ShortQueues, Zenon DEF AgreedUponInv
      <4> QED BY <2>1, <4>2, InitialMessages
    <3>2. CASE inner = "Signed"
      <4>1. SignedInv
        BY <3>2, Zenon DEF StageInv
      <4>2. Head(toPeer) = InitialSignature
        BY <2>1, <4>1, ShortQueues, Zenon DEF SignedInv
      <4> QED BY <2>1, <4>2, InitialMessages
    <3>3. CASE inner \notin Opening
      <4>1. Head(toPeer).type \in {"ChannelUpdate", "ChannelUpdateAccepted"}
        BY <1>4, <2>1, <3>3, Zenon DEF StageInv, OpenedInv
      <4> QED BY <2>1, <4>1
    <3> QED BY <3>1, <3>2, <3>3 DEF Opening
  <2>3. ProposedInv /\ ch = InitState /\ update = None /\ peer.state = InitState
    BY <2>2 DEF StageInv, Opening
  <2>4. toPeer = <<ProposalMsg>> /\ toDevice = <<>> /\ peer.phase = "Idle"
    BY <2>1, <2>3, Zenon DEF ProposedInv
  <2>5. toPeer' = <<>>
    BY <2>1, <2>4, ShortQueues, Zenon
  <2>6. ProposedInv' /\ peer'.state = InitState
    <3>1. CASE /\ peer' = [peer EXCEPT !.phase = "Agreed"]
               /\ toDevice' = toDevice \o <<ProposalAcceptedMsg, AcceptedMsg(peer.state)>>
      <4>1. <<>> \o <<ProposalAcceptedMsg, InitialSignature>> = <<ProposalAcceptedMsg, InitialSignature>>
        BY ShortQueues, Zenon
      <4>2. toDevice' = <<ProposalAcceptedMsg, InitialSignature>>
        BY <2>3, <2>4, <3>1, <4>1, Zenon DEF InitialSignature
      <4> QED BY <1>3, <2>3, <2>5, <3>1, <4>2, Zenon DEF ProposedInv
    <3>2. CASE /\ peer' = [peer EXCEPT !.phase = "Done"]
               /\ toDevice' = toDevice \o <<ProposalRejectedMsg>>
      <4>1. toDevice' = <<ProposalRejectedMsg>>
        BY <2>4, <3>2, ShortQueues, Zenon
      <4> QED BY <1>3, <2>3, <2>5, <3>2, <4>1, Zenon DEF ProposedInv
    <3> QED BY <2>1, <3>1, <3>2, Zenon
  <2>7. ~chain.funded
    BY <2>2 DEF AskInv
  <2> QED BY <1>1, <2>2, <2>3, <2>6, <2>7 DEF StageInv, Opening
<1>7. CASE PeerHandleProposalAccepted
  <2>1. /\ toPeer # <<>> /\ Head(toPeer).type = "ProposalAccepted" /\ toPeer' = Tail(toPeer)
        /\ peer' = [peer EXCEPT !.phase = "Agreed"]
        /\ toDevice' = toDevice \o <<AcceptedMsg(peer.state)>>
    BY <1>7, Zenon DEF PeerHandleProposalAccepted, ToPeer, PeerSends
  <2>2. inner = "AgreedUpon"
    <3>1. CASE inner = "Proposed"
      <4>1. ProposedInv
        BY <3>1, Zenon DEF StageInv
      <4>2. Head(toPeer) = ProposalMsg
        BY <2>1, <4>1, ShortQueues, Zenon DEF ProposedInv
      <4> QED BY <2>1, <4>2, InitialMessages
    <3>2. CASE inner = "Signed"
      <4>1. SignedInv
        BY <3>2, Zenon DEF StageInv
      <4>2. Head(toPeer) = InitialSignature
        BY <2>1, <4>1, ShortQueues, Zenon DEF SignedInv
      <4> QED BY <2>1, <4>2, InitialMessages
    <3>3. CASE inner \notin Opening
      <4>1. Head(toPeer).type \in {"ChannelUpdate", "ChannelUpdateAccepted"}
        BY <1>4, <2>1, <3>3, Zenon DEF StageInv, OpenedInv
      <4> QED BY <2>1, <4>1
    <3> QED BY <3>1, <3>2, <3>3 DEF Opening
  <2>3. AgreedUponInv /\ ch = InitState /\ update = None /\ peer.state = InitState
    BY <2>2 DEF StageInv, Opening
  <2>4. toPeer = <<ProposalAcceptedMsg, InitialSignature>> /\ toDevice = <<>>
    <3>1. Head(<<InitialSignature>>).type # "ProposalAccepted"
      BY ShortQueues, InitialMessages
    <3> QED BY <2>1, <2>3, <3>1, Zenon DEF AgreedUponInv
  <2>5. toPeer' = <<InitialSignature>>
    BY <2>1, <2>4, ShortQueues, Zenon
  <2>6. toDevice' = <<InitialSignature>>
    <3>1. <<>> \o <<InitialSignature>> = <<InitialSignature>>
      BY ShortQueues, Zenon
    <3> QED BY <2>1, <2>3, <2>4, <3>1, Zenon DEF InitialSignature
  <2>7. AgreedUponInv' /\ peer'.state = InitState
    BY <1>3, <2>1, <2>3, <2>5, <2>6, Zenon DEF AgreedUponInv
  <2>8. ~chain.funded
    BY <2>2 DEF AskInv
  <2> QED BY <1>1, <2>2, <2>3, <2>7, <2>8 DEF StageInv, Opening
<1>8. CASE PeerHandleSignature
  <2>1. /\ toPeer # <<>> /\ peer.phase = "Agreed" /\ toPeer' = Tail(toPeer)
        /\ peer' = [peer EXCEPT !.phase = "Funding"] /\ toDevice' = toDevice \o <<>>
    BY <1>8, Zenon DEF PeerHandleSignature, ToPeer, PeerSends
  <2>2. toDevice' = toDevice
    BY <1>2, <2>1, NothingJoined, Zenon
  <2>3. inner \in {"AgreedUpon", "Signed"}
    <3>1. CASE inner = "Proposed"
      <4>1. ProposedInv
        BY <3>1, Zenon DEF StageInv
      <4> QED BY <2>1, <4>1 DEF ProposedInv
    <3>2. CASE inner \notin Opening
      BY <2>1, <3>2 DEF StageInv, OpenedInv
    <3> QED BY <3>1, <3>2 DEF Opening
  <2>4. ch = InitState /\ update = None /\ peer.state = InitState
    BY <2>3 DEF StageInv, Opening
  <2>5. peer'.phase = "Funding" /\ peer'.state = InitState
    BY <1>3, <2>1, <2>4, Zenon
  <2>6. toPeer = <<InitialSignature>>
    <3>1. AgreedUponInv \/ SignedInv
      BY <2>3 DEF StageInv
    <3> QED BY <2>1, <3>1 DEF AgreedUponInv, SignedInv
  <2>7. toPeer' = <<>>
    BY <2>1, <2>6, ShortQueues, Zenon
  <2>8. CASE inner = "AgreedUpon"
    <3>1. AgreedUponInv
      BY <2>8, Zenon DEF StageInv
    <3>2. toDevice = <<InitialSignature>>
      BY <2>1, <3>1 DEF AgreedUponInv
    <3>3. AgreedUponInv'
      BY <2>2, <2>5, <2>7, <3>2, Zenon DEF AgreedUponInv
    <3> QED BY <1>1, <2>4, <2>5, <2>8, <3>3 DEF StageInv, Opening
  <2>9. CASE inner = "Signed"
    <3>1. SignedInv
      BY <2>9, Zenon DEF StageInv
    <3>2. toDevice = <<>>
      BY <2>1, <3>1 DEF SignedInv
    <3>3. SignedInv'
      <4>1. Range(<<>>) = {}
        BY Nothing, Zenon
      <4> QED BY <2>2, <2>5, <2>7, <3>2, <4>1, Zenon DEF SignedInv
    <3> QED BY <1>1, <2>4, <2>5, <2>9, <3>3 DEF StageInv, Opening
  <2> QED BY <2>3, <2>8, <2>9
<1>9. CASE PeerFunded
  <2>1. /\ peer.phase = "Funding" /\ chain.funded /\ peer' = [peer EXCEPT !.phase = "Active"]
        /\ UNCHANGED <<toPeer, toDevice>>
    BY <1>9, Zenon DEF PeerFunded
  <2>2. peer'.phase = "Active" /\ peer'.state = peer.state
    BY <1>3, <2>1, Zenon
  <2>3. inner \notin {"Proposed", "AgreedUpon"}
    BY <2>1 DEF AskInv
  <2>4. CASE inner = "Signed"
    <3>1. SignedInv /\ ch = InitState /\ update = None /\ peer.state = InitState
      BY <2>4 DEF StageInv, Opening
    <3>2. toPeer = <<>> /\ \A m \in Range(toDevice) : m.type = "ChannelUpdate"
      BY <2>1, <3>1 DEF SignedInv
    <3>3. SignedInv'
      BY <2>1, <2>2, <3>2, Zenon DEF SignedInv
    <3> QED BY <1>1, <2>2, <2>4, <3>1, <3>3 DEF StageInv, Opening
  <2>5. CASE inner \notin Opening
    <3>1. inner' \notin Opening /\ (inner' = "Active" => ~ch'.is_final)
      BY <1>1, <2>5, Zenon DEF StageInv
    <3> QED BY <2>1, <2>2, <2>5, <3>1, OpenedKept, Zenon
  <2> QED BY <2>3, <2>4, <2>5 DEF Opening
<1>10. ASSUME toPeer # <<>>, peer.phase = "Active" PROVE inner \notin Opening
  <2>1. inner = "Proposed" => ProposedInv
    BY Zenon DEF StageInv
  <2>2. inner = "AgreedUpon" => AgreedUponInv
    BY Zenon DEF StageInv
  <2>3. inner = "Signed" => SignedInv
    BY Zenon DEF StageInv
  <2>4. inner # "Proposed"
    BY <1>10, <2>1 DEF ProposedInv
  <2>5. inner # "AgreedUpon"
    BY <1>10, <2>2 DEF AgreedUponInv
  <2>6. inner # "Signed"
    BY <1>10, <2>3 DEF SignedInv
  <2> QED BY <2>4, <2>5, <2>6 DEF Opening
<1>11. CASE PeerHandleUpdate
  <2>1. /\ toPeer # <<>> /\ peer.phase = "Active" /\ toPeer' = Tail(toPeer)
        /\ Head(toPeer).type = "ChannelUpdate"
        /\ \/ /\ peer' = [peer EXCEPT !.state = Head(toPeer).state]
              /\ toDevice' = toDevice \o <<AcceptedMsg(Head(toPeer).state)>>
           \/ peer' = peer /\ toDevice' = toDevice \o <<RejectedMsg(Head(toPeer).state)>>
           \/ peer' = peer /\ toDevice' = toDevice \o <<>>
    BY <1>11, Zenon DEF PeerHandleUpdate, ToPeer, PeerSends
  <2>2. inner \notin Opening /\ inner' \notin Opening /\ (inner' = "Active" => ~ch'.is_final)
    BY <1>1, <1>10, <2>1, Zenon DEF StageInv
  <2>3. peer'.phase \in {peer.phase, "Active"}
    BY <1>2, <2>1 DEF Peers
  <2>4. Range(toPeer') \subseteq Range(toPeer)
    BY <1>4, <2>1, Zenon
  <2>5. Head(toPeer).state \in ChannelStates
    BY <1>4, <2>1, Versions, Zenon
  <2> DEFINE a == AcceptedMsg(Head(toPeer).state)
             r == RejectedMsg(Head(toPeer).state)
  <2>6. /\ a \in ChannelMessages /\ a.type = "ChannelUpdateAccepted"
        /\ r \in ChannelMessages /\ r.type = "ChannelUpdateRejected"
    BY <2>5, StateMessages, Zenon
  <2>7. /\ toDevice' = toDevice \o <<a>> \/ toDevice' = toDevice \o <<r>> \/ toDevice' = toDevice \o <<>>
    BY <2>1, Zenon
  <2> HIDE DEF a, r
  <2>8. Range(toDevice') \subseteq Range(toDevice) \cup {a, r}
    <3>1. /\ <<a>> \in Seq(ChannelMessages) /\ Range(<<a>>) = {a}
          /\ <<r>> \in Seq(ChannelMessages) /\ Range(<<r>>) = {r}
      BY <2>6, Single, Zenon
    <3>2. toDevice \o <<>> = toDevice
      BY <1>2, NothingJoined, Zenon
    <3>3. /\ Range(toDevice \o <<a>>) \subseteq Range(toDevice) \cup {a}
          /\ Range(toDevice \o <<r>>) \subseteq Range(toDevice) \cup {r}
      BY <1>2, <3>1, Joined, Zenon
    <3>4. CASE toDevice' = toDevice \o <<a>>
      BY <3>3, <3>4, Zenon
    <3>5. CASE toDevice' = toDevice \o <<r>>
      BY <3>3, <3>5, Zenon
    <3>6. CASE toDevice' = toDevice \o <<>>
      BY <3>2, <3>6, Zenon
    <3> QED BY <2>7, <3>4, <3>5, <3>6, Zenon
  <2>9. Range(toDevice') \subseteq Range(toDevice) \cup {m \in ChannelMessages :
                                    m.type \in {"ChannelUpdate"} \cup Answers}
    BY <2>6, <2>8, Zenon DEF Answers
  <2> QED BY <2>2, <2>3, <2>4, <2>9, OpenedKept, Zenon
<1>12. CASE PeerHandleUpdateAccepted
  <2>1. /\ peer.phase = "Active" /\ toDevice' = toDevice \o <<>>
        /\ peer' = [peer EXCEPT !.state = peer.update, !.update = None]
    BY <1>12, Zenon DEF PeerHandleUpdateAccepted, PeerSends
  <2>2. PICK k \in 1 .. Len(toPeer) : toPeer' = RemoveAt(toPeer, k)
    BY <1>12, Zenon DEF PeerHandleUpdateAccepted
  <2>3. Range(toPeer') \subseteq Range(toPeer) /\ toPeer[k] \in Range(toPeer)
    BY <1>2, <2>2, Removed, Zenon
  <2>4. toPeer # <<>>
    BY <2>3, Nothing, Zenon
  <2>5. inner \notin Opening /\ inner' \notin Opening /\ (inner' = "Active" => ~ch'.is_final)
    BY <1>1, <1>10, <2>1, <2>4, Zenon DEF StageInv
  <2>6. peer'.phase \in {peer.phase, "Active"}
    BY <1>2, <2>1 DEF Peers
  <2>7. toDevice' = toDevice
    BY <1>2, <2>1, NothingJoined, Zenon
  <2> QED BY <2>3, <2>5, <2>6, <2>7, OpenedKept, Zenon
<1> QED BY <1>6, <1>7, <1>8, <1>9, <1>11, <1>12, Zenon DEF PeerAnswers

LEMMA ProposeStage ==
  ASSUME TypeInv, StageInv, NEW amount \in Nat, NEW final \in BOOLEAN, PeerPropose(amount, final)
  PROVE  StageInv'
<1> DEFINE s == Pay(peer.state, 1 - part_idx, amount, final)
<1>1. part_idx \in Idx /\ peer \in Peers /\ peer.state \in ChannelStates /\ toDevice \in Seq(ChannelMessages)
  BY PeerChanged, Zenon DEF TypeInv, DeviceTypes, QueueTypes
<1>2. 1 - part_idx \in Idx
  BY <1>1 DEF Idx
<1>3. /\ peer.phase = "Active" /\ peer.state.version < MaxVersion /\ peer.state.bal[1 - part_idx] >= amount
      /\ peer' = [peer EXCEPT !.update = s] /\ toDevice' = toDevice \o <<UpdateMsg(s)>>
      /\ toPeer' = toPeer /\ UNCHANGED <<device, service>>
  BY Zenon DEF PeerPropose, PeerSends
<1>4. s \in ChannelStates
  BY <1>1, <1>2, <1>3, Paid, Zenon
<1> HIDE DEF s
<1>5. UpdateMsg(s) \in ChannelMessages /\ UpdateMsg(s).type = "ChannelUpdate"
  BY <1>4, StateMessages, Zenon
<1>6. Range(toDevice') \subseteq Range(toDevice) \cup {UpdateMsg(s)}
  <2>1. <<UpdateMsg(s)>> \in Seq(ChannelMessages) /\ Range(<<UpdateMsg(s)>>) = {UpdateMsg(s)}
    BY <1>5, Single, Zenon
  <2> QED BY <1>1, <1>3, <2>1, Joined, Zenon
<1>7. UNCHANGED <<inner, ch, update, chain>>
  BY <1>3 DEF device, service
<1>8. peer'.phase = "Active" /\ peer'.state = peer.state
  BY <1>1, <1>3 DEF Peers
<1>9. inner \notin {"Proposed", "AgreedUpon"}
  <2>1. inner = "Proposed" => ProposedInv
    BY Zenon DEF StageInv
  <2>2. inner = "AgreedUpon" => AgreedUponInv
    BY Zenon DEF StageInv
  <2>3. inner # "Proposed"
    BY <1>3, <2>1 DEF ProposedInv
  <2>4. inner # "AgreedUpon"
    BY <1>3, <2>2 DEF AgreedUponInv
  <2> QED BY <2>3, <2>4
<1>10. CASE inner = "Signed"
  <2>1. SignedInv /\ ch = InitState /\ update = None /\ peer.state = InitState
    BY <1>10 DEF StageInv, Opening
  <2>2. toPeer = <<>> /\ \A m \in Range(toDevice) : m.type = "ChannelUpdate"
    BY <1>3, <2>1 DEF SignedInv
  <2>3. SignedInv'
    BY <1>3, <1>5, <1>6, <1>8, <2>2, Zenon DEF SignedInv
  <2> QED BY <1>7, <1>8, <1>10, <2>1, <2>3 DEF StageInv, Opening
<1>11. CASE inner \notin Opening
  <2>1. inner' \notin Opening /\ (inner' = "Active" => ~ch'.is_final)
    BY <1>7, <1>11, Zenon DEF StageInv
  <2>2. Range(toDevice') \subseteq Range(toDevice) \cup {m \in ChannelMessages :
                                    m.type \in {"ChannelUpdate"} \cup Answers}
    BY <1>5, <1>6, Zenon
  <2> QED BY <1>3, <1>8, <1>11, <2>1, <2>2, OpenedKept, Zenon
<1> QED BY <1>9, <1>10, <1>11 DEF Opening

-----------------------------------------------------------------------------
(***************************************************************************)
(* A peer that is ahead                                                    *)
(***************************************************************************)
LEMMA AheadQuiet ==
  ASSUME AheadInv, UNCHANGED <<ch, toDevice, peer>>,
         panic' = "no" /\ inner' = "Active" => panic = "no" /\ inner = "Active"
  PROVE  AheadInv'
BY DEF AheadInv, AnsweredFirst

LEMMA PollPeerAhead ==
  ASSUME TypeInv, AgreementInv, AheadInv, PollPeer
  PROVE  AheadInv'
<1>1. toDevice # <<>> /\ toDevice' = Tail(toDevice) /\ peer' = peer
  BY DEF PollPeer, ForwardProposalAccepted, ForwardInitialSignature, ForwardUpdate,
         ForwardUpdateAccepted, ForwardUpdateRejected, ForwardParticipantErr, FromPeer, Panics
<1>2. /\ ch.version \in Nat /\ peer.state.version \in Nat
      /\ toDevice \in Seq(ChannelMessages) /\ peer.update \in ChannelStates \cup {None}
      /\ peer.state \in ChannelStates
  BY Versions, Zenon
<1>3. PendingInv /\ ToDeviceInv /\ Agreement
  BY Zenon DEF AgreementInv
<1>4. CASE ForwardProposalAccepted \/ ForwardInitialSignature \/ ForwardParticipantErr
  <2>1. inner' # "Active" \/ panic' # "no"
    BY <1>4 DEF ForwardProposalAccepted, ForwardInitialSignature, ForwardParticipantErr, Panics
  <2> QED BY <2>1, Zenon DEF AheadInv
<1>5. ASSUME ch'.version = ch.version + 1 PROVE AheadInv'
  <2>1. peer.state.version <= ch.version + 1
    BY <1>2, <1>3 DEF Agreement
  <2>2. ~(ch'.version < peer'.state.version)
    BY <1>1, <1>2, <1>5, <2>1
  <2> QED BY <2>2, Zenon DEF AheadInv
<1>6. CASE ForwardUpdate
  <2>1. ch' = Head(toDevice).state /\ ValidTransition(ch, Head(toDevice).state)
    BY <1>6, Zenon DEF ForwardUpdate, Apply
  <2> QED BY <1>5, <2>1, Zenon DEF ValidTransition
<1>7. CASE ForwardUpdateAccepted
  <2>1. ch' = update /\ update # None
    BY <1>7, Zenon DEF ForwardUpdateAccepted, Apply
  <2> QED BY <1>3, <1>5, <2>1, Zenon DEF PendingInv
<1>8. CASE ForwardUpdateRejected
  <2>1. Head(toDevice).type = "ChannelUpdateRejected" /\ UNCHANGED <<panic, inner, ch>>
    BY <1>8, Zenon DEF ForwardUpdateRejected, FromPeer
  <2>2. AcceptedMsg(peer.state).type # "ChannelUpdateRejected"
    BY <1>2, StateMessages
  <2>3. AnsweredFirst(toDevice, peer.state) => AnsweredFirst(toDevice', peer.state)
    BY <1>1, <1>2, <2>1, <2>2, AnsweredFirstTaken, Zenon
  <2>4. AnsweredFirst(toDevice', peer.state) => AnsweredFirst(toDevice, peer.state)'
    BY <1>1 DEF AnsweredFirst
  <2> QED BY <1>1, <2>1, <2>3, <2>4, Zenon DEF AheadInv
<1> QED BY <1>4, <1>6, <1>7, <1>8, Zenon DEF PollPeer

LEMMA PollServiceAhead ==
  ASSUME TypeInv, OpenInv, StageInv, AheadInv, PollService
  PROVE  AheadInv'
<1>1. CASE inner = "Signed" /\ inner' # inner
  <2>1. ch' = InitState /\ peer'.state = InitState
    BY <1>1, BecomesActive, Zenon
  <2>2. ~(InitState.version < InitState.version)
    BY InitStateGood
  <2> QED BY <2>1, <2>2, Zenon DEF AheadInv
<1>2. CASE ~(inner = "Signed" /\ inner' # inner)
  <2>1. /\ UNCHANGED <<ch, toDevice, peer>>
        /\ panic' = "no" /\ inner' = "Active" => panic = "no" /\ inner = "Active"
    BY <1>2 DEF PollService, ForwardAckSigned, ForwardFunded, ForwardAck, ForwardDisputeNotification,
         ForwardDisputeAck, ForwardServiceErr, FromService, Running, Panics
  <2> QED BY <2>1, AheadQuiet, Zenon
<1> QED BY <1>1, <1>2, Zenon

\* The peer sends messages and keeps its state.
LEMMA PeerSendsAhead ==
  ASSUME TypeInv, AheadInv, NEW ms \in Seq(ChannelMessages), toDevice' = toDevice \o ms,
         UNCHANGED <<inner, ch, panic>>, peer'.state = peer.state
  PROVE  AheadInv'
<1>1. toDevice \in Seq(ChannelMessages)
  BY Versions, Zenon
<1>2. AnsweredFirst(toDevice, peer.state) => AnsweredFirst(toDevice', peer.state)
  BY <1>1, AnsweredFirstJoined, Zenon
<1>3. AnsweredFirst(toDevice', peer.state) => AnsweredFirst(toDevice, peer.state)'
  BY DEF AnsweredFirst
<1> QED BY <1>2, <1>3, Zenon DEF AheadInv

LEMMA ProposeAhead ==
  ASSUME TypeInv, AheadInv, NEW amount \in Nat, NEW final \in BOOLEAN, PeerPropose(amount, final)
  PROVE  AheadInv'
<1> DEFINE s == Pay(peer.state, 1 - part_idx, amount, final)
<1>1. part_idx \in Idx /\ peer \in Peers /\ peer.state \in ChannelStates
  BY PeerChanged, Zenon DEF TypeInv, DeviceTypes
<1>2. 1 - part_idx \in Idx
  BY <1>1 DEF Idx
<1>3. /\ peer.state.version < MaxVersion /\ peer.state.bal[1 - part_idx] >= amount
      /\ peer' = [peer EXCEPT !.update = s] /\ toDevice' = toDevice \o <<UpdateMsg(s)>>
      /\ UNCHANGED device
  BY Zenon DEF PeerPropose, PeerSends
<1>4. s \in ChannelStates
  BY <1>1, <1>2, <1>3, Paid, Zenon
<1> HIDE DEF s
<1>5. <<UpdateMsg(s)>> \in Seq(ChannelMessages)
  BY <1>4, StateMessages, Single, Zenon
<1>6. peer'.state = peer.state /\ UNCHANGED <<inner, ch, panic>>
  BY <1>1, <1>3 DEF Peers, device
<1> QED BY <1>3, <1>5, <1>6, PeerSendsAhead, Zenon

LEMMA PeerAnswersAhead ==
  ASSUME TypeInv, AgreementInv, AheadInv, PeerAnswers
  PROVE  AheadInv'
<1>1. UNCHANGED <<inner, ch, panic>>
  BY DEF PeerAnswers, PeerHandleProposal, PeerHandleProposalAccepted, PeerHandleSignature, PeerFunded,
         PeerHandleUpdate, PeerHandleUpdateAccepted, PeerSends, device
<1>2. /\ toPeer \in Seq(ChannelMessages) /\ toDevice \in Seq(ChannelMessages)
      /\ peer \in Peers /\ peer.state \in ChannelStates
  BY Versions, Zenon
<1>3. \A p : [peer EXCEPT !.phase = p].state = peer.state
  BY <1>2 DEF Peers
<1>4. /\ ProposalAcceptedMsg \in ChannelMessages /\ ProposalRejectedMsg \in ChannelMessages
      /\ AcceptedMsg(peer.state) \in ChannelMessages
  BY <1>2, PlainMessages, StateMessages, Zenon
<1>5. /\ <<ProposalAcceptedMsg, AcceptedMsg(peer.state)>> \in Seq(ChannelMessages)
      /\ <<ProposalRejectedMsg>> \in Seq(ChannelMessages)
      /\ <<AcceptedMsg(peer.state)>> \in Seq(ChannelMessages)
      /\ <<>> \in Seq(ChannelMessages)
  BY <1>4, Pair, Single, Nothing, Zenon
<1>6. CASE PeerHandleProposal \/ PeerHandleProposalAccepted \/ PeerHandleSignature
  <2>1. /\ \E p : peer' = [peer EXCEPT !.phase = p]
        /\ \E ms \in Seq(ChannelMessages) : toDevice' = toDevice \o ms
    BY <1>5, <1>6, Zenon DEF PeerHandleProposal, PeerHandleProposalAccepted, PeerHandleSignature, PeerSends
  <2> QED BY <1>1, <1>3, <2>1, PeerSendsAhead, Zenon
<1>7. CASE PeerFunded
  <2>1. peer'.state = peer.state /\ toDevice' = toDevice
    BY <1>3, <1>7, Zenon DEF PeerFunded
  <2>2. toDevice' = toDevice \o <<>>
    BY <1>2, <2>1, NothingJoined, Zenon
  <2> QED BY <1>1, <1>5, <2>1, <2>2, PeerSendsAhead, Zenon
<1>8. CASE PeerHandleUpdate
  <2> DEFINE s == Head(toPeer).state
  <2>1. /\ toPeer # <<>> /\ Head(toPeer).type = "ChannelUpdate" /\ peer.update = None
        /\ \/ peer' = [peer EXCEPT !.state = s] /\ toDevice' = toDevice \o <<AcceptedMsg(s)>>
           \/ peer' = peer /\ toDevice' = toDevice \o <<RejectedMsg(s)>>
           \/ peer' = peer /\ toDevice' = toDevice \o <<>>
    BY <1>8, Zenon DEF PeerHandleUpdate, ToPeer, PeerSends
  <2>2. Head(toPeer) \in Range(toPeer)
    BY <1>2, <2>1, Taken, Zenon
  <2>3. s \in ChannelStates
    BY <2>1, <2>2, Versions, Zenon
  <2> HIDE DEF s
  <2>4. AcceptedMsg(s) \in ChannelMessages /\ RejectedMsg(s) \in ChannelMessages
    BY <2>3, StateMessages, Zenon
  <2>5. CASE peer' = [peer EXCEPT !.state = s] /\ toDevice' = toDevice \o <<AcceptedMsg(s)>>
    <3>1. NoUpdate(toDevice)
      <4>1. \A m \in Range(toDevice) : m.type = "ChannelUpdate" => m.state \in ChannelStates
        BY Versions, Zenon
      <4>2. \A m \in Range(toDevice) : m.type = "ChannelUpdate" => m.state = peer.update
        BY Zenon DEF AgreementInv, ToDeviceInv
      <4> QED BY <2>1, <4>1, <4>2, StateFields, Zenon DEF NoUpdate, Without
    <3>2. peer'.state = s
      BY <1>2, <2>5 DEF Peers
    <3>3. AnsweredFirst(toDevice', s)
      BY <1>2, <2>4, <2>5, <3>1, AnsweredFirstAdded, Zenon
    <3>4. AnsweredFirst(toDevice', peer'.state) => AnsweredFirst(toDevice, peer.state)'
      BY DEF AnsweredFirst
    <3> QED BY <3>2, <3>3, <3>4, Zenon DEF AheadInv
  <2>6. CASE peer' = peer /\ toDevice' = toDevice \o <<RejectedMsg(s)>>
    <3>1. <<RejectedMsg(s)>> \in Seq(ChannelMessages)
      BY <2>4, Single, Zenon
    <3> QED BY <1>1, <2>6, <3>1, PeerSendsAhead, Zenon
  <2>7. CASE peer' = peer /\ toDevice' = toDevice \o <<>>
    BY <1>1, <1>5, <2>7, PeerSendsAhead, Zenon
  <2> QED BY <2>1, <2>5, <2>6, <2>7, Zenon
<1>9. CASE PeerHandleUpdateAccepted
  <2>1. PICK k \in 1 .. Len(toPeer) : toPeer[k] = AcceptedMsg(peer.update)
    BY <1>9, Zenon DEF PeerHandleUpdateAccepted
  <2>2. peer.update # None /\ peer' = [peer EXCEPT !.state = peer.update, !.update = None]
    BY <1>9, Zenon DEF PeerHandleUpdateAccepted
  <2>3. peer.update \in ChannelStates /\ peer.update.version \in Nat /\ ch.version \in Nat
    BY <2>2, Versions, Zenon
  <2>4. AcceptedMsg(peer.update).type = "ChannelUpdateAccepted" /\ AcceptedMsg(peer.update).sig = peer.update
    BY <2>3, StateMessages, Zenon
  <2>5. toPeer[k] \in Range(toPeer)
    BY <1>2, Removed, Zenon
  <2>6. peer.update.version <= ch.version
    BY <2>1, <2>4, <2>5, Zenon DEF AgreementInv, ToPeerInv
  <2>7. peer'.state = peer.update
    BY <1>2, <2>2 DEF Peers
  <2>8. ~(ch.version < peer.update.version)
    BY <2>3, <2>6
  <2> QED BY <1>1, <2>7, <2>8, Zenon DEF AheadInv
<1> QED BY <1>6, <1>7, <1>8, <1>9, Zenon DEF PeerAnswers

-----------------------------------------------------------------------------
(***************************************************************************)
(* One pending update                                                      *)
(***************************************************************************)
LEMMA PendingNext ==
  ASSUME AtMostOne(toPeer', {"ChannelUpdate"}), AtMostOne(toDevice', Answers),
         Without(toPeer', {"ChannelUpdate"}) \/ Without(toDevice', Answers),
         update' = None => Without(toPeer', {"ChannelUpdate"}) /\ Without(toDevice', Answers),
         \A m \in Range(toPeer') : m.type = "ChannelUpdate" => m.state = update',
         \A m \in Range(toDevice') : m.type = "ChannelUpdateAccepted" => m.sig = update'
  PROVE  OnePending'
BY DEF OnePending, AtMostOne, Without, Answers

\* With nothing under way the rest is trivial.
LEMMA NonePending ==
  ASSUME Without(toPeer', {"ChannelUpdate"}), Without(toDevice', Answers)
  PROVE  OnePending'
<1>1. AtMostOne(toPeer', {"ChannelUpdate"}) /\ AtMostOne(toDevice', Answers)
  BY DEF AtMostOne, Without, Range
<1>2. /\ \A m \in Range(toPeer') : m.type # "ChannelUpdate"
      /\ \A m \in Range(toDevice') : m.type # "ChannelUpdateAccepted"
  BY Zenon DEF Without, Answers
<1> QED BY <1>1, <1>2, PendingNext, Zenon

LEMMA PatientQuiet ==
  ASSUME PatientInv, UNCHANGED <<update, toPeer, toDevice>>,
         panic' = "no" /\ inner' = "Active" => panic = "no" /\ inner = "Active"
  PROVE  PatientInv'
BY DEF PatientInv, OnePending, AtMostOne, Without

LEMMA ButtonPatient ==
  ASSUME TypeInv, PatientInv, PressUpdate \/ PressNormalClose
  PROVE  PatientInv'
<1> SUFFICES ASSUME "hasty" \notin UserMay, panic' = "no", inner' = "Active"
             PROVE  OnePending'
  BY Zenon DEF PatientInv
<1>1. panic' # "button"
  OBVIOUS
<1>2. inner = "Active" /\ toDevice' = toDevice /\ update = None
  BY ButtonPressed, Zenon
<1>3. PICK s \in ChannelStates : update' = s /\ panic' = panic /\ toPeer' = Append(toPeer, UpdateMsg(s))
  BY <1>1, ButtonPressed, Zenon
<1>4. OnePending
  BY <1>2, <1>3, Zenon DEF PatientInv
<1>5. /\ AtMostOne(toPeer, {"ChannelUpdate"}) /\ AtMostOne(toDevice, Answers)
      /\ Without(toPeer, {"ChannelUpdate"}) /\ Without(toDevice, Answers)
      /\ \A m \in Range(toDevice) : m.type = "ChannelUpdateAccepted" => m.sig = update
  BY <1>2, <1>4, Zenon DEF OnePending
<1>6. UpdateMsg(s) \in ChannelMessages /\ UpdateMsg(s).state = s /\ toPeer \in Seq(ChannelMessages)
  BY StateMessages, Versions, Zenon
<1>7. AtMostOne(toPeer', {"ChannelUpdate"})
  BY <1>3, <1>5, <1>6, OneAppended, Zenon
<1>8. ASSUME NEW m \in Range(toPeer'), m.type = "ChannelUpdate" PROVE m.state = update'
  <2>1. m \in Range(toPeer) \cup {UpdateMsg(s)}
    BY <1>3, <1>6, <1>8, Appended, Zenon
  <2>2. m \notin Range(toPeer)
    BY <1>5, <1>8, Zenon DEF Without
  <2> QED BY <1>3, <1>6, <2>1, <2>2, Zenon
<1>9. update' # None
  BY <1>3, StateFields, Zenon
<1>10. \A m \in Range(toDevice') : m.type # "ChannelUpdateAccepted"
  BY <1>2, <1>5, Zenon DEF Without, Answers
<1> QED BY <1>2, <1>5, <1>7, <1>8, <1>9, <1>10, PendingNext, Zenon

LEMMA PollPeerPatient ==
  ASSUME TypeInv, PatientInv, PollPeer
  PROVE  PatientInv'
<1> SUFFICES ASSUME "hasty" \notin UserMay, panic' = "no", inner' = "Active"
             PROVE  OnePending'
  BY Zenon DEF PatientInv
<1>1. /\ toDevice # <<>> /\ toDevice' = Tail(toDevice) /\ panic = "no" /\ inner = "Active"
      /\ ForwardUpdate \/ ForwardUpdateAccepted \/ ForwardUpdateRejected
  BY DEF PollPeer, ForwardProposalAccepted, ForwardInitialSignature, ForwardUpdate,
         ForwardUpdateAccepted, ForwardUpdateRejected, ForwardParticipantErr, FromPeer, Running, Panics
<1>2. OnePending
  BY <1>1, Zenon DEF PatientInv
<1>3. toPeer \in Seq(ChannelMessages) /\ toDevice \in Seq(ChannelMessages)
  BY Versions, Zenon
<1>4. CASE ForwardUpdate
  <2> DEFINE s == Head(toDevice).state
  <2>1. Head(toDevice).type = "ChannelUpdate" /\ update = None /\ toPeer' = Append(toPeer, AcceptedMsg(s))
    BY <1>4, Zenon DEF ForwardUpdate, FromPeer
  <2>2. Without(toPeer, {"ChannelUpdate"}) /\ Without(toDevice, Answers)
    BY <1>2, <2>1, Zenon DEF OnePending
  <2>3. Head(toDevice) \in Range(toDevice)
    BY <1>1, <1>3, Taken, Zenon
  <2>4. s \in ChannelStates
    BY <2>1, <2>3, Versions, Zenon
  <2> HIDE DEF s
  <2>5. AcceptedMsg(s) \in ChannelMessages /\ AcceptedMsg(s).type \notin {"ChannelUpdate"}
    BY <2>4, StateMessages
  <2>6. Without(toPeer', {"ChannelUpdate"})
    BY <1>3, <2>1, <2>2, <2>5, WithoutAppended, Zenon
  <2>7. Without(toDevice', Answers)
    BY <1>1, <1>3, <2>2, WithoutTaken, Zenon
  <2> QED BY <2>6, <2>7, NonePending, Zenon
<1>5. CASE ForwardUpdateAccepted \/ ForwardUpdateRejected
  <2>1. Head(toDevice).type \in Answers /\ toPeer' = toPeer
    BY <1>5 DEF ForwardUpdateAccepted, ForwardUpdateRejected, FromPeer, Answers
  <2>2. ~Without(toDevice, Answers)
    BY <1>1, <1>3, <2>1, WithoutTaken, Zenon
  <2>3. AtMostOne(toDevice, Answers) /\ Without(toPeer, {"ChannelUpdate"})
    BY <1>2, <2>2, Zenon DEF OnePending
  <2>4. Without(toDevice', Answers)
    BY <1>1, <1>3, <2>1, <2>3, OneTaken, Zenon
  <2> QED BY <2>1, <2>3, <2>4, NonePending, Zenon
<1> QED BY <1>1, <1>4, <1>5, Zenon

LEMMA PollServicePatient ==
  ASSUME TypeInv, OpenInv, StageInv, PatientInv, PollService
  PROVE  PatientInv'
<1>1. CASE inner = "Signed" /\ inner' # inner
  <2>1. /\ toPeer' = <<>> /\ toDevice' = toDevice
        /\ \A m \in Range(toDevice) : m.type = "ChannelUpdate"
    BY <1>1, BecomesActive, Zenon
  <2>2. Range(<<>>) = {} /\ "ChannelUpdate" \notin Answers
    BY Nothing DEF Answers
  <2>3. Without(toPeer', {"ChannelUpdate"}) /\ Without(toDevice', Answers)
    BY <2>1, <2>2, Zenon DEF Without
  <2> QED BY <2>3, NonePending, Zenon DEF PatientInv
<1>2. CASE ~(inner = "Signed" /\ inner' # inner)
  <2>1. /\ UNCHANGED <<update, toPeer, toDevice>>
        /\ panic' = "no" /\ inner' = "Active" => panic = "no" /\ inner = "Active"
    BY <1>2 DEF PollService, ForwardAckSigned, ForwardFunded, ForwardAck, ForwardDisputeNotification,
         ForwardDisputeAck, ForwardServiceErr, FromService, Running, Panics
  <2> QED BY <2>1, PatientQuiet, Zenon
<1> QED BY <1>1, <1>2, Zenon

LEMMA ProposePatient ==
  ASSUME TypeInv, PatientInv, NEW amount \in Nat, NEW final \in BOOLEAN, PeerPropose(amount, final)
  PROVE  PatientInv'
<1> DEFINE s == Pay(peer.state, 1 - part_idx, amount, final)
<1>1. part_idx \in Idx /\ peer.state \in ChannelStates /\ toDevice \in Seq(ChannelMessages)
  BY PeerChanged, Zenon DEF TypeInv, DeviceTypes, QueueTypes
<1>2. 1 - part_idx \in Idx
  BY <1>1 DEF Idx
<1>3. /\ peer.state.version < MaxVersion /\ peer.state.bal[1 - part_idx] >= amount
      /\ toDevice' = toDevice \o <<UpdateMsg(s)>> /\ toPeer' = toPeer /\ UNCHANGED device
  BY Zenon DEF PeerPropose, PeerSends
<1>4. s \in ChannelStates
  BY <1>1, <1>2, <1>3, Paid, Zenon
<1> HIDE DEF s
<1> DEFINE m == UpdateMsg(s)
<1>5. m \in ChannelMessages /\ m.type = "ChannelUpdate" /\ m.type \notin Answers
  BY <1>4, StateMessages DEF Answers
<1>6. toDevice' = Append(toDevice, m)
  <2> HIDE DEF m
  <2>1. toDevice \o <<m>> = Append(toDevice, m)
    BY <1>1
  <2> QED BY <1>3, <2>1 DEF m
<1> HIDE DEF m
<1>7. UNCHANGED <<inner, panic, update>>
  BY <1>3 DEF device
<1> SUFFICES ASSUME OnePending PROVE OnePending'
  BY <1>7, Zenon DEF PatientInv
<1>8. /\ AtMostOne(toPeer, {"ChannelUpdate"}) /\ AtMostOne(toDevice, Answers)
      /\ Without(toPeer, {"ChannelUpdate"}) \/ Without(toDevice, Answers)
      /\ update = None => Without(toPeer, {"ChannelUpdate"}) /\ Without(toDevice, Answers)
      /\ \A x \in Range(toPeer) : x.type = "ChannelUpdate" => x.state = update
      /\ \A x \in Range(toDevice) : x.type = "ChannelUpdateAccepted" => x.sig = update
  BY Zenon DEF OnePending
<1>9. AtMostOne(toDevice', Answers)
  BY <1>1, <1>5, <1>6, <1>8, OneAppended, Zenon
<1>10. Without(toDevice, Answers) => Without(toDevice', Answers)
  BY <1>1, <1>5, <1>6, WithoutAppended, Zenon
<1>11. \A x \in Range(toDevice') : x.type = "ChannelUpdateAccepted" => x.sig = update'
  <2>1. Range(toDevice') \subseteq Range(toDevice) \cup {m}
    BY <1>1, <1>5, <1>6, Appended, Zenon
  <2>2. m.type # "ChannelUpdateAccepted"
    BY <1>5
  <2> QED BY <1>7, <1>8, <2>1, <2>2, Zenon
<1> QED BY <1>3, <1>7, <1>8, <1>9, <1>10, <1>11, PendingNext, Zenon

LEMMA PeerAnswersPatient ==
  ASSUME TypeInv, StageInv, PatientInv, PeerAnswers
  PROVE  PatientInv'
<1>1. UNCHANGED <<inner, panic, update>>
  BY DEF PeerAnswers, PeerHandleProposal, PeerHandleProposalAccepted, PeerHandleSignature, PeerFunded,
         PeerHandleUpdate, PeerHandleUpdateAccepted, PeerSends, device
<1>2. toPeer \in Seq(ChannelMessages) /\ toDevice \in Seq(ChannelMessages)
  BY Versions, Zenon
<1> SUFFICES ASSUME OnePending, inner = "Active" PROVE OnePending'
  BY <1>1, Zenon DEF PatientInv
<1>3. OpenedInv
  BY DEF StageInv, Opening
<1>4. /\ AtMostOne(toPeer, {"ChannelUpdate"}) /\ AtMostOne(toDevice, Answers)
      /\ Without(toPeer, {"ChannelUpdate"}) \/ Without(toDevice, Answers)
      /\ update = None => Without(toPeer, {"ChannelUpdate"}) /\ Without(toDevice, Answers)
      /\ \A x \in Range(toPeer) : x.type = "ChannelUpdate" => x.state = update
      /\ \A x \in Range(toDevice) : x.type = "ChannelUpdateAccepted" => x.sig = update
  BY Zenon DEF OnePending
<1>5. ~PeerHandleProposal /\ ~PeerHandleProposalAccepted /\ ~PeerHandleSignature
  <2>1. toPeer # <<>> => Head(toPeer).type \in {"ChannelUpdate", "ChannelUpdateAccepted"}
    BY <1>2, <1>3, Taken, Zenon DEF OpenedInv
  <2>2. peer.phase # "Agreed"
    BY <1>3 DEF OpenedInv
  <2> QED BY <2>1, <2>2 DEF PeerHandleProposal, PeerHandleProposalAccepted, PeerHandleSignature, ToPeer
<1>6. CASE PeerFunded
  <2>1. UNCHANGED <<toPeer, toDevice>>
    BY <1>6, Zenon DEF PeerFunded
  <2> QED BY <1>1, <1>4, <2>1, PendingNext, Zenon
<1>7. CASE PeerHandleUpdateAccepted
  <2>1. PICK k \in 1 .. Len(toPeer) : toPeer' = RemoveAt(toPeer, k)
    BY <1>7, Zenon DEF PeerHandleUpdateAccepted
  <2>2. toDevice' = toDevice
    BY <1>2, <1>7, NothingJoined, Zenon DEF PeerHandleUpdateAccepted, PeerSends
  <2>3. AtMostOne(toPeer', {"ChannelUpdate"})
    BY <1>2, <1>4, <2>1, OneRemoved, Zenon
  <2>4. Range(toPeer') \subseteq Range(toPeer)
    BY <1>2, <2>1, Removed, Zenon
  <2>5. Without(toPeer, {"ChannelUpdate"}) => Without(toPeer', {"ChannelUpdate"})
    BY <2>4, Zenon DEF Without
  <2>6. \A x \in Range(toPeer') : x.type = "ChannelUpdate" => x.state = update'
    BY <1>1, <1>4, <2>4, Zenon
  <2> QED BY <1>1, <1>4, <2>2, <2>3, <2>5, <2>6, PendingNext, Zenon
<1>8. CASE PeerHandleUpdate
  <2> DEFINE s == Head(toPeer).state
  <2>1. /\ toPeer # <<>> /\ Head(toPeer).type = "ChannelUpdate" /\ toPeer' = Tail(toPeer)
        /\ \/ toDevice' = toDevice \o <<AcceptedMsg(s)>>
           \/ toDevice' = toDevice \o <<RejectedMsg(s)>>
           \/ toDevice' = toDevice \o <<>>
    BY <1>8, Zenon DEF PeerHandleUpdate, ToPeer, PeerSends
  <2>2. Head(toPeer) \in Range(toPeer) /\ Head(toPeer).type \in {"ChannelUpdate"}
    BY <1>2, <2>1, Taken, Zenon
  <2>3. s \in ChannelStates /\ s = update
    BY <1>4, <2>1, <2>2, Versions, Zenon
  <2> HIDE DEF s
  <2>4. ~Without(toPeer, {"ChannelUpdate"})
    BY <2>2, Zenon DEF Without
  <2>5. Without(toDevice, Answers) /\ update # None
    BY <1>4, <2>4, Zenon
  <2>6. AtMostOne(toPeer', {"ChannelUpdate"}) /\ Without(toPeer', {"ChannelUpdate"})
    BY <1>2, <1>4, <2>1, <2>2, OneTaken, Zenon
  <2>7. \A x \in Range(toPeer') : x.type # "ChannelUpdate"
    BY <2>6, Zenon DEF Without
  <2>8. ASSUME NEW m \in ChannelMessages, toDevice' = toDevice \o <<m>>,
               m.type = "ChannelUpdateAccepted" => m.sig = s
        PROVE  OnePending'
    <3>1. toDevice' = Append(toDevice, m)
      <4>1. toDevice \o <<m>> = Append(toDevice, m)
        BY <1>2
      <4> QED BY <2>8, <4>1
    <3>2. AtMostOne(toDevice', Answers)
      BY <1>2, <1>4, <2>5, <3>1, OneAppended, Zenon
    <3>3. Range(toDevice') \subseteq Range(toDevice) \cup {m}
      BY <1>2, <3>1, Appended, Zenon
    <3>4. \A x \in Range(toDevice') : x.type = "ChannelUpdateAccepted" => x.sig = update'
      BY <1>1, <1>4, <2>3, <2>8, <3>3, Zenon
    <3>5. update' # None
      BY <1>1, <2>5, Zenon
    <3> QED BY <2>6, <2>7, <3>2, <3>4, <3>5, PendingNext, Zenon
  <2>9. /\ AcceptedMsg(s) \in ChannelMessages /\ AcceptedMsg(s).sig = s
        /\ RejectedMsg(s) \in ChannelMessages /\ RejectedMsg(s).type # "ChannelUpdateAccepted"
    BY <2>3, StateMessages
  <2>10. CASE toDevice' = toDevice \o <<>>
    <3>1. toDevice' = toDevice
      BY <1>2, <2>10, NothingJoined, Zenon
    <3> QED BY <2>5, <2>6, <3>1, NonePending, Zenon
  <2>11. CASE toDevice' = toDevice \o <<AcceptedMsg(s)>>
    BY <2>8, <2>9, <2>11, Zenon
  <2>12. CASE toDevice' = toDevice \o <<RejectedMsg(s)>>
    BY <2>8, <2>9, <2>12, Zenon
  <2> QED BY <2>1, <2>10, <2>11, <2>12, Zenon
<1> QED BY <1>5, <1>6, <1>7, <1>8, Zenon DEF PeerAnswers

-----------------------------------------------------------------------------
(***************************************************************************)
(* Where the device stops                                                  *)
(***************************************************************************)
LEMMA PanicInvInitially == Init => PanicInv
<1> SUFFICES ASSUME Init PROVE PanicInv
  OBVIOUS
<1>1. /\ inner \in {"Proposed", "AgreedUpon"} /\ requests = {} /\ replies = <<>> /\ watched = {}
      /\ ~chain.funded /\ ~funded
  BY DEF Init
<1>2. AskInv
  <2>1. Without(<<>>, {"DisputeAck"}) /\ Without(<<>>, {"Funded"}) /\ AtMostOne(<<>>, {"Funded"})
    BY DEF Without, AtMostOne, Range
  <2> QED BY <1>1, <2>1 DEF AskInv, Opening
<1>3. inner # "Active"
  BY <1>1
<1> QED BY <1>2, <1>3, StageInitially, Zenon DEF PanicInv, AheadInv, PatientInv

LEMMA AlwaysPanicInv == Spec => []PanicInv
<1>1. ASSUME TypeInv, AgreementInv, OpenInv, PanicInv, [Next]_vars PROVE PanicInv'
  <2>1. AskInv /\ StageInv /\ AheadInv /\ PatientInv
    BY <1>1, Zenon DEF PanicInv
  <2>2. Amount \in Nat /\ 0 \in Nat /\ TRUE \in BOOLEAN /\ FALSE \in BOOLEAN
    BY DemoAssumption
  <2>3. CASE PressUpdate \/ PressNormalClose
    <3>1. /\ UNCHANGED <<inner, funded, ch, toDevice, service, peer>> /\ inner = "Active"
          /\ panic' = "no" => panic = "no"
      <4>1. panic' = "button" \/ panic' = panic
        BY <1>1, <2>3, ButtonPressed, Zenon
      <4>2. panic' = "no" => panic = "no"
        BY <4>1
      <4> QED BY <1>1, <2>3, <4>2, ButtonPressed, Zenon
    <3>2. UNCHANGED <<requests, replies, watched, chain>>
      BY <3>1 DEF service
    <3>3. AskInv'
      BY <2>1, <3>1, <3>2, AskQuiet, Zenon
    <3>4. AheadInv'
      BY <2>1, <3>1, AheadQuiet, Zenon
    <3> QED BY <1>1, <2>1, <2>3, <3>3, <3>4, ButtonStage, ButtonPatient, Zenon DEF PanicInv
  <2>4. CASE PressForceClose
    <3>1. inner' # "Active"
      BY <2>4 DEF PressForceClose
    <3> QED BY <1>1, <2>1, <2>4, <3>1, ForceCloseAsk, ButtonStage, Zenon DEF PanicInv, AheadInv, PatientInv
  <2>5. CASE PollPeer
    BY <1>1, <2>1, <2>5, PollPeerAsk, PollPeerStage, PollPeerAhead, PollPeerPatient, Zenon DEF PanicInv
  <2>6. CASE PollService
    BY <1>1, <2>1, <2>6, PollServiceAsk, PollServiceStage, PollServiceAhead, PollServicePatient, Zenon
       DEF PanicInv
  <2>7. CASE ServiceAnswers
    <3>1. UNCHANGED <<inner, panic, ch, update, toPeer, toDevice, peer>>
      BY <2>7 DEF ServiceAnswers, ServiceWatch, ServiceFund, ServiceRegister, ServiceNotify, device
    <3>2. AheadInv' /\ PatientInv'
      BY <2>1, <3>1, AheadQuiet, PatientQuiet, Zenon
    <3> QED BY <1>1, <2>1, <2>7, <3>2, ServiceAnswersAsk, ServiceAnswersStage, Zenon DEF PanicInv
  <2>8. CASE PeerAnswers
    <3>1. UNCHANGED <<inner, funded, requests, replies, watched, chain>>
      BY <2>8 DEF PeerAnswers, PeerHandleProposal, PeerHandleProposalAccepted, PeerHandleSignature, PeerFunded,
         PeerHandleUpdate, PeerHandleUpdateAccepted, PeerSends, device, service
    <3>2. AskInv'
      BY <2>1, <3>1, AskQuiet, Zenon
    <3> QED BY <1>1, <2>1, <2>8, <3>2, PeerAnswersStage, PeerAnswersAhead, PeerAnswersPatient, Zenon
            DEF PanicInv
  <2>9. CASE PeerRegisters
    <3>1. /\ UNCHANGED <<inner, panic, funded, ch, update, toPeer, toDevice, peer, requests, replies, watched>>
          /\ chain' = [chain EXCEPT !.registered = TRUE]
      BY <2>9 DEF PeerRegisters, device
    <3>2. chain'.funded = chain.funded
      BY <1>1, <3>1 DEF TypeInv, ServiceTypes, Ledgers
    <3> QED BY <2>1, <3>1, <3>2, AskQuiet, StageQuiet, AheadQuiet, PatientQuiet, Zenon DEF PanicInv
  <2>10. ASSUME NEW amount \in Nat, NEW final \in BOOLEAN, PeerPropose(amount, final) PROVE PanicInv'
    <3>1. UNCHANGED <<inner, funded, requests, replies, watched, chain>>
      BY <2>10 DEF PeerPropose, PeerSends, device, service
    <3>2. AskInv'
      BY <2>1, <3>1, AskQuiet, Zenon
    <3> QED BY <1>1, <2>1, <2>10, <3>2, ProposeStage, ProposeAhead, ProposePatient, Zenon DEF PanicInv
  <2>11. CASE UNCHANGED vars
    <3>1. UNCHANGED <<inner, panic, funded, ch, update, toPeer, toDevice, peer, requests, replies, watched, chain>>
      BY <2>11 DEF vars, device, service
    <3> QED BY <2>1, <3>1, AskQuiet, StageQuiet, AheadQuiet, PatientQuiet, Zenon DEF PanicInv
  <2> QED BY <1>1, <2>2, <2>3, <2>4, <2>5, <2>6, <2>7, <2>8, <2>9, <2>10, <2>11, Zenon DEF Next
<1> QED BY <1>1, PanicInvInitially, AlwaysTypeInv, AlwaysAgreementInv, AlwaysLife, PTL DEF Spec

\* A button stops the device of participant 0 only: the check of Channel::update
\* is right for participant 1.
LEMMA ButtonPanics ==
  ASSUME TypeInv, PressUpdate \/ PressNormalClose, panic' # panic
  PROVE  KnownPanic
<1>1. part_idx \in Idx /\ ch.bal \in [Idx -> 0..2 * InitBal] /\ Amount \in Nat /\ InitBal \in Nat
  BY StateFields, DemoAssumption, Zenon DEF TypeInv, DeviceTypes
<1>2. ch.bal[0] \in 0..2 * InitBal /\ ch.bal[1] \in 0..2 * InitBal
  BY <1>1 DEF Idx
<1>3. CASE PressUpdate
  <2>1. ch.bal[1] >= Amount /\ ~(ch.bal[part_idx] >= Amount) /\ panic' = "button"
    BY <1>3, Zenon DEF PressUpdate, ChannelUpdate, Solvent, Panics
  <2>2. part_idx = 0 /\ ch.bal[0] < Amount
    BY <1>1, <1>2, <2>1 DEF Idx
  <2> QED BY <2>1, <2>2, Zenon DEF KnownPanic
<1>4. CASE PressNormalClose
  <2>1. ~(ch.bal[part_idx] >= 0)
    BY <1>4, Zenon DEF PressNormalClose, ChannelUpdate, Solvent
  <2> QED BY <1>1, <1>2, <2>1 DEF Idx
<1> QED BY <1>3, <1>4, Zenon

\* What the peer sends at the wrong time
LEMMA ParticipantPanics ==
  ASSUME TypeInv, AgreementInv, PanicInv, ForwardParticipantErr
  PROVE  KnownPanic
<1> DEFINE m == Head(toDevice)
<1>1. /\ AskInv /\ StageInv /\ AheadInv /\ PatientInv
      /\ PendingInv /\ ToDeviceInv /\ Agreement
  BY Zenon DEF PanicInv, AgreementInv
<1>2. /\ toDevice \in Seq(ChannelMessages) /\ inner \in ChannelInner
      /\ ch \in ChannelStates /\ peer.state \in ChannelStates
      /\ ch.version \in Nat /\ peer.state.version \in Nat
  BY Versions, Zenon DEF TypeInv, DeviceTypes
<1>3. /\ panic = "no" /\ inner # "Closed" /\ toDevice # <<>> /\ toDevice' = Tail(toDevice)
      /\ ~(inner = "Proposed" /\ m.type = "ProposalAccepted")
      /\ ~(inner = "AgreedUpon" /\ m.type = "ChannelUpdateAccepted" /\ m.sig = ch)
      /\ ~(inner = "Active" /\ update = None /\ m.type = "ChannelUpdate" /\ ValidTransition(ch, m.state))
      /\ ~(inner = "Active" /\ update # None /\ m.type = "ChannelUpdateAccepted" /\ m.sig = update)
      /\ ~(inner = "Active" /\ update # None /\ m.type = "ChannelUpdateRejected")
  BY Zenon DEF ForwardParticipantErr, Running
<1>4. toDevice' # toDevice
  BY <1>2, <1>3, TailDiffers, Zenon
<1>5. m \in Range(toDevice)
  BY <1>2, <1>3, Taken, Zenon
<1>6. CASE inner = "Proposed"
  <2>1. ProposedInv
    BY <1>1, <1>6, Zenon DEF StageInv
  <2>2. m.type = "ProposalRejected"
    <3>1. toDevice = <<ProposalAcceptedMsg, InitialSignature>> \/ toDevice = <<ProposalRejectedMsg>>
      BY <1>3, <2>1, Zenon DEF ProposedInv
    <3>2. m = ProposalAcceptedMsg \/ m = ProposalRejectedMsg
      BY <3>1, ShortQueues, Zenon
    <3> QED BY <1>3, <1>6, <3>2, InitialMessages, Zenon
  <2> QED BY <1>4, <1>6, <2>2, Zenon DEF KnownPanic
<1>7. inner # "AgreedUpon"
  <2> SUFFICES ASSUME inner = "AgreedUpon" PROVE FALSE
    OBVIOUS
  <2>1. AgreedUponInv /\ ch = InitState
    BY <1>1 DEF StageInv, Opening
  <2>2. m = InitialSignature
    BY <1>3, <2>1, ShortQueues, Zenon DEF AgreedUponInv
  <2> QED BY <1>3, <2>1, <2>2, InitialMessages, Zenon
<1>8. CASE inner = "Signed"
  <2>1. SignedInv
    BY <1>1, <1>8, Zenon DEF StageInv
  <2>2. m.type = "ChannelUpdate"
    BY <1>3, <1>5, <2>1, Zenon DEF SignedInv
  <2> QED BY <1>4, <1>8, <2>2, Zenon DEF KnownPanic
<1>9. CASE inner = "Active"
  <2>1. OpenedInv /\ ~ch.is_final
    BY <1>1, <1>9 DEF StageInv, Opening
  <2>2. m.type \in {"ChannelUpdate"} \cup Answers
    BY <1>5, <2>1, Zenon DEF OpenedInv
  <2>3. ASSUME m.type = "ChannelUpdate" PROVE update # None
    <3>1. m.state = peer.update /\ ch.version <= peer.state.version /\ m.state \in ChannelStates
      BY <1>1, <1>5, <2>3, Versions, Zenon DEF ToDeviceInv
    <3>2. m.state.version = peer.state.version + 1
      BY <1>1, <3>1, StateFields, Zenon DEF PendingInv
    <3>3. ~(ch.version < peer.state.version)
      <4> SUFFICES ASSUME ch.version < peer.state.version PROVE FALSE
        OBVIOUS
      <4>1. AnsweredFirst(toDevice, peer.state)
        BY <1>1, <1>3, <1>9, Zenon DEF AheadInv
      <4> QED BY <1>2, <1>3, <2>3, <4>1, AnsweredFirstTaken, Zenon
    <3>4. m.state.version = ch.version + 1
      BY <1>2, <3>1, <3>2, <3>3
    <3>5. m.state.bal[0] + m.state.bal[1] = ch.bal[0] + ch.bal[1]
      BY <1>2, <3>1, StateFields, Zenon
    <3>6. ValidTransition(ch, m.state)
      BY <2>1, <3>4, <3>5, Zenon DEF ValidTransition
    <3> QED BY <1>3, <1>9, <2>3, <3>6, Zenon
  <2>4. ASSUME m.type # "ChannelUpdate" PROVE "hasty" \in UserMay
    <3> SUFFICES ASSUME "hasty" \notin UserMay PROVE FALSE
      OBVIOUS
    <3>1. OnePending /\ m.type \in Answers
      BY <1>1, <1>3, <1>9, <2>2, <2>4, Zenon DEF PatientInv
    <3>2. ~Without(toDevice, Answers)
      BY <1>5, <3>1, Zenon DEF Without
    <3>3. update # None /\ (m.type = "ChannelUpdateAccepted" => m.sig = update)
      BY <1>5, <3>1, <3>2, Zenon DEF OnePending
    <3> QED BY <1>3, <1>9, <3>1, <3>3, Zenon DEF Answers
  <2> QED BY <1>4, <1>9, <2>3, <2>4, Zenon DEF KnownPanic
<1>10. CASE inner \in {"Closing", "ForceClosing"}
  BY <1>4, <1>10, Zenon DEF KnownPanic
<1> QED BY <1>2, <1>3, <1>6, <1>7, <1>8, <1>9, <1>10 DEF ChannelInner

\* What the service replies at the wrong time
LEMMA ServicePanics ==
  ASSUME TypeInv, PanicInv, ForwardServiceErr
  PROVE  KnownPanic
<1> DEFINE m == Head(replies)
<1>1. AskInv
  BY Zenon DEF PanicInv
<1>2. replies \in Seq(Replies) /\ inner \in ChannelInner
  BY Zenon DEF TypeInv, DeviceTypes, ServiceTypes
<1>3. /\ inner # "Closed" /\ replies # <<>> /\ replies' = Tail(replies)
      /\ ~(m.type = "Ack" /\ inner \in {"Signed", "Active", "Closing"})
      /\ ~(m.type = "Funded" /\ inner = "Signed")
      /\ ~(m.type = "DisputeNotification" /\ inner \in {"Active", "Closing", "ForceClosing"})
      /\ ~(m.type = "DisputeAck" /\ inner = "ForceClosing")
  BY Zenon DEF ForwardServiceErr, Running
<1>4. replies' # replies
  BY <1>2, <1>3, TailDiffers, Zenon
<1>5. m \in Range(replies) /\ m \in Replies
  BY <1>2, <1>3, Taken, Zenon
<1>6. m.type \in {"Ack", "Funded", "DisputeAck", "RegisterResp", "StartWatchingResp", "DisputeNotification"}
  BY <1>5 DEF Replies, Ack, Reply
<1> HIDE DEF m
<1>7. inner \notin {"Proposed", "AgreedUpon"}
  BY <1>1, <1>3 DEF AskInv
<1>8. m.type # "Funded"
  <2> SUFFICES ASSUME m.type = "Funded" PROVE FALSE
    OBVIOUS
  <2>1. ~Without(replies, {"Funded"})
    BY <1>5, Zenon DEF Without
  <2>2. inner \in Opening
    BY <1>1, <2>1, Zenon DEF AskInv
  <2> QED BY <1>3, <1>7, <2>2 DEF Opening
<1>9. m.type # "DisputeAck"
  <2> SUFFICES ASSUME m.type = "DisputeAck" PROVE FALSE
    OBVIOUS
  <2>1. ~Without(replies, {"DisputeAck"})
    BY <1>5, Zenon DEF Without
  <2>2. inner \in {"ForceClosing", "Closed"}
    BY <1>1, <2>1, Zenon DEF AskInv
  <2> QED BY <1>3, <2>2
<1>10. \/ m.type \in {"RegisterResp", "StartWatchingResp"}
       \/ inner = "Signed" /\ m.type = "DisputeNotification"
       \/ inner = "ForceClosing" /\ m.type = "Ack"
  BY <1>2, <1>3, <1>6, <1>7, <1>8, <1>9 DEF ChannelInner
<1> QED BY <1>4, <1>10, Zenon DEF KnownPanic, m

\* OnlyKnownPanics: the device stops only in the cases of KnownPanic, for any
\* versions, balances and number of messages, whatever is pressed and whatever
\* peer and service do.
THEOREM PanicsKnown == Spec => OnlyKnownPanics
<1>1. ASSUME TypeInv, AgreementInv, PanicInv, [Next]_vars
      PROVE  [panic' # panic => KnownPanic]_vars
  <2> SUFFICES ASSUME panic' # panic PROVE KnownPanic
    OBVIOUS
  <2>1. /\ ~PressForceClose /\ ~ServiceAnswers /\ ~PeerRegisters
        /\ \A amount, final : ~PeerPropose(amount, final)
    BY DEF PressForceClose, ServiceAnswers, ServiceWatch, ServiceFund, ServiceRegister, ServiceNotify,
           PeerRegisters, PeerPropose, PeerSends, device
  <2>2. ~PeerAnswers
    BY DEF PeerAnswers, PeerHandleProposal, PeerHandleProposalAccepted, PeerHandleSignature, PeerFunded,
           PeerHandleUpdate, PeerHandleUpdateAccepted, PeerSends, device
  <2>3. PollPeer => ForwardParticipantErr
    BY DEF PollPeer, ForwardProposalAccepted, ForwardInitialSignature, ForwardUpdate,
           ForwardUpdateAccepted, ForwardUpdateRejected
  <2>4. PollService => ForwardServiceErr
    BY DEF PollService, ForwardAckSigned, ForwardFunded, ForwardAck, ForwardDisputeNotification,
           ForwardDisputeAck
  <2>5. ~UNCHANGED vars
    BY DEF vars, device
  <2> QED BY <1>1, <2>1, <2>2, <2>3, <2>4, <2>5, ButtonPanics, ParticipantPanics, ServicePanics, Zenon
          DEF Next
<1> QED BY <1>1, AlwaysTypeInv, AlwaysAgreementInv, AlwaysPanicInv, PTL DEF Spec, OnlyKnownPanics
=============================================================================
