------------------------------ MODULE WireConv ------------------------------
(***************************************************************************)
(* The conversions between the messages of the library and their protobuf  *)
(* structs (src/src/messages/, src/src/channel/fixed_size_payment.rs), and *)
(* the message on its way: a sender converts it (From), the wire carries   *)
(* it, a receiver converts it back (TryFrom).                              *)
(*                                                                         *)
(* The protobuf codec is external: it carries a struct as it is.  A field  *)
(* of bytes is a sequence of digits of base Base (256 in the code), an     *)
(* Option is a sequence of at most one element.  A conversion returns Ok,  *)
(* Err or panics; the fields are converted in the order of the code.       *)
(***************************************************************************)
EXTENDS Integers, Sequences

CONSTANTS
  Base,                                \* values of a byte
  AddressLen, HashLen, SignatureLen,   \* 20, 32 and 65 in the code
  ASSETS, PARTICIPANTS,                \* 1 and 2 in the code
  Messages,                            \* messages sent
  Damaged(_)                           \* malformed structs that arrive instead of one

-----------------------------------------------------------------------------
(* The messages of the library *)

Array(n, T) == [1 .. n -> T]          \* [T; n]

Byte == 0 .. Base - 1
Address == Array(AddressLen, Byte)
Hash == Array(HashLen, Byte)
Signature == Array(SignatureLen, Byte)

\* Base to the power of k.
Power[k \in 0 .. HashLen] == IF k = 0 THEN 1 ELSE Power[k - 1] * Base

U256 == 0 .. Power[HashLen] - 1

\* An index of a participant fits any integer type of the wire.
PartIdx == 0 .. PARTICIPANTS - 1

Balances == Array(ASSETS, Array(PARTICIPANTS, U256))
Allocation == [assets : Array(ASSETS, Address), balances : Balances]
State == [id : Hash, version : Nat, outcome : Allocation, is_final : BOOLEAN]
Params ==
  [challenge_duration : Nat, nonce : U256, participants : Array(PARTICIPANTS, Address),
   ledger_channel : BOOLEAN, virtual_channel : BOOLEAN]
Sigs == Array(PARTICIPANTS, Signature)
Transaction == [state : State, sigs : Sigs]
AdjudicatorReq == [params : Params, acc : Address, tx : Transaction, idx : PartIdx, secondary : BOOLEAN]
SignedWithdrawalAuth == [sig : Signature, receiver : Address]

LedgerChannelProposal ==
  [kind : {"ChannelProposal"}, proposal_id : Hash, challenge_duration : Nat, nonce_share : Hash,
   init_bals : Allocation, funding_agreement : Balances, participant : Address, peers : Seq(Seq(Byte))]
LedgerChannelProposalAcc ==
  [kind : {"ProposalAccepted"}, proposal_id : Hash, nonce_share : Hash, participant : Address]
LedgerChannelUpdate == [kind : {"ChannelUpdate"}, state : State, actor_idx : PartIdx, sig : Signature]
LedgerChannelUpdateAccepted == [kind : {"ChannelUpdateAccepted"}, channel : Hash, version : Nat, sig : Signature]

ParticipantMessage ==
  [kind : {"Auth"}] \cup LedgerChannelProposal \cup LedgerChannelProposalAcc
    \cup [kind : {"ProposalRejected"}, id : Hash, reason : STRING]
    \cup LedgerChannelUpdate \cup LedgerChannelUpdateAccepted
    \cup [kind : {"ChannelUpdateRejected"}, id : Hash, version : Nat, reason : STRING]

LedgerChannelFundingRequest ==
  [kind : {"FundReq"}, part_idx : PartIdx, funding_agreement : Balances, params : Params, state : State]

FunderRequestMessage ==
  LedgerChannelFundingRequest \cup [kind : {"RegisterReq", "WithdrawReq"}, adj_req : AdjudicatorReq]

StartWatchingLedgerChannelReq == [kind : {"WatchRequest"}, params : Params, state : State, sigs : Sigs]
WatchInfo ==
  [kind : {"StartDispute"}, part_idx : PartIdx, params : Params, state : State, signatures : Sigs,
   withdrawal_auths : Array(ASSETS, SignedWithdrawalAuth)]

WatcherRequestMessage == StartWatchingLedgerChannelReq \cup WatchInfo

\* The length of an address fits two bytes.
ASSUME WireAssumption ==
  /\ {AddressLen, HashLen, SignatureLen, ASSETS, PARTICIPANTS} \subseteq Nat \ {0}
  /\ Base \in Nat \ {0, 1} /\ AddressLen < Base * Base
  /\ Messages \subseteq ParticipantMessage \cup FunderRequestMessage \cup WatcherRequestMessage

-----------------------------------------------------------------------------

VARIABLES
  msg,      \* the message
  wire,     \* its struct, on the way
  format,   \* of the assets in it: "bare" as this library writes them, or
            \* "prefixed" as go-perun does and this library reads them
  intact,   \* the struct is the one that was sent
  result,   \* of the receiver
  stage     \* "new", "sent" or "received"

vars == <<msg, wire, format, intact, result, stage>>

None == <<>>
Some(x) == <<x>>

Ok(v) == [res |-> "ok", v |-> v]
Err == [res |-> "err"]
Panic == [res |-> "panic"]

\* The operator ?: the first conversion that fails decides.
All(rs, v) ==
  LET failed == {i \in DOMAIN rs : rs[i].res # "ok"} IN
  IF failed = {} THEN Ok(v) ELSE rs[CHOOSE i \in failed : \A j \in failed : i <= j]

\* A field that must be there, converted by conv.
Required(opt, conv(_)) == IF opt = None THEN Err ELSE conv(opt[1])

\* try_into for [u8; n].
Exactly(bytes, n) == IF Len(bytes) = n THEN Ok(bytes) ELSE Err

\* A conversion for each element of a sequence.
Each(s, conv(_)) ==
  LET rs == [i \in 1 .. Len(s) |-> conv(s[i])] IN All(rs, [i \in 1 .. Len(s) |-> rs[i].v])

Zeros(n) == [k \in 1 .. n |-> 0]

\* The digits of v, the last one first: what is left of v when k of them are gone.
Remaining(v) == LET rest[k \in 0 .. HashLen] == IF k = 0 THEN v ELSE rest[k - 1] \div Base IN rest

to_big_endian(v) == [k \in 1 .. HashLen |-> Remaining(v)[HashLen - k] % Base]

\* The value of the first k bytes.
Values(bytes) == LET acc[k \in 0 .. Len(bytes)] == IF k = 0 THEN 0 ELSE acc[k - 1] * Base + bytes[k] IN acc

from_big_endian(bytes) == IF Len(bytes) > HashLen THEN Panic ELSE Ok(Values(bytes)[Len(bytes)])

-----------------------------------------------------------------------------
(* fixed_size_payment.rs *)

\* The id is a hash of the parameters; nothing reads it from the wire.
ParamsInto(p) ==
  [id |-> p, challenge_duration |-> p.challenge_duration, nonce |-> to_big_endian(p.nonce),
   parts |-> p.participants, app |-> <<>>,
   ledger_channel |-> p.ledger_channel, virtual_channel |-> p.virtual_channel]

\* zip: participants that are missing stay zero, others too many are dropped.
ParamsTry(w) ==
  LET parts == Each([k \in 1 .. PARTICIPANTS |-> IF k <= Len(w.parts) THEN w.parts[k] ELSE Zeros(AddressLen)],
                    LAMBDA b : Exactly(b, AddressLen))
      nonce == from_big_endian(w.nonce) IN
  All(<<parts, nonce>>,
      [challenge_duration |-> w.challenge_duration, nonce |-> nonce.v, participants |-> parts.v,
       ledger_channel |-> w.ledger_channel, virtual_channel |-> w.virtual_channel])

BalancesInto(b) == [balances |-> [a \in DOMAIN b |-> [balance |-> [p \in DOMAIN b[a] |-> to_big_endian(b[a][p])]]]]

ParticipantBalancesTry(w) ==
  IF Len(w.balance) # PARTICIPANTS THEN Err ELSE Each(w.balance, from_big_endian)

BalancesTry(w) == IF Len(w.balances) # ASSETS THEN Err ELSE Each(w.balances, ParticipantBalancesTry)

\* The library writes the holder without its length: the line that would add it
\* is commented out.
AssetInto(holder) == holder

\* External: go-perun writes the length of the holder (little-endian) before it.
GoPerunAsset(holder) == <<AddressLen % Base, AddressLen \div Base>> \o holder

WrittenAsset(holder) == IF format = "bare" THEN AssetInto(holder) ELSE GoPerunAsset(holder)

AllocationInto(o) ==
  [assets |-> [a \in DOMAIN o.assets |-> WrittenAsset(o.assets[a])], balances |-> Some(BalancesInto(o.balances)), locked |-> <<>>]

\* Variant: the length is big-endian.
AssetTry_be(b) ==
  LET holder_length == b[1] * Base + b[2] IN
  IF Len(b) < 2 \/ holder_length > AddressLen THEN Err
  ELSE IF holder_length = 0 THEN Ok(Zeros(AddressLen))
  ELSE IF Len(b) - 2 # AddressLen THEN Panic
  ELSE Ok(SubSeq(b, 3, Len(b)))

\* The length of the holder (little-endian), then the holder: copy_from_slice
\* panics unless the rest is an address, whatever the length says; after a
\* length of 0 the rest is not looked at.
AssetTry(b) ==
  LET holder_length == b[1] + b[2] * Base IN
  IF Len(b) < 2 \/ holder_length > AddressLen THEN Err
  ELSE IF holder_length = 0 THEN Ok(Zeros(AddressLen))
  ELSE IF Len(b) - 2 # AddressLen THEN Panic
  ELSE Ok(SubSeq(b, 3, Len(b)))

\* zip: assets that are missing stay zero, others too many are dropped.
AllocationTry(w) ==
  LET assets == Each([k \in 1 .. ASSETS |-> IF k <= Len(w.assets) THEN w.assets[k] ELSE Zeros(AddressLen + 2)], AssetTry)
      balances == Required(w.balances, BalancesTry) IN
  All(<<assets, balances>>, [assets |-> assets.v, balances |-> balances.v])

\* app_data is always empty.
StateInto(s) ==
  [id |-> s.id, version |-> s.version, allocation |-> Some(AllocationInto(s.outcome)),
   app |-> <<>>, data |-> <<>>, is_final |-> s.is_final]

StateTry(w) ==
  LET id == Exactly(w.id, HashLen)
      outcome == Required(w.allocation, AllocationTry) IN
  IF w.data # <<>> THEN Err
  ELSE All(<<id, outcome>>, [id |-> id.v, version |-> w.version, outcome |-> outcome.v, is_final |-> w.is_final])

-----------------------------------------------------------------------------
(* proposal.rs *)

ChannelProposalInto(m) ==
  [base_channel_proposal |-> Some([proposal_id |-> m.proposal_id, challenge_duration |-> m.challenge_duration,
     nonce_share |-> m.nonce_share, app |-> <<>>, init_data |-> <<>>,
     init_bals |-> Some(AllocationInto(m.init_bals)), funding_agreement |-> Some(BalancesInto(m.funding_agreement))]),
   participant |-> m.participant, peers |-> m.peers]

\* All Options are looked at before any field is converted.
ChannelProposalTry(w) ==
  LET base == w.base_channel_proposal[1]
      proposal_id == Exactly(base.proposal_id, HashLen)
      nonce_share == Exactly(base.nonce_share, HashLen)
      init_bals == AllocationTry(base.init_bals[1])
      funding_agreement == BalancesTry(base.funding_agreement[1])
      participant == Exactly(w.participant, AddressLen) IN
  IF w.base_channel_proposal = None \/ base.init_bals = None \/ base.funding_agreement = None THEN Err
  ELSE All(<<proposal_id, nonce_share, init_bals, funding_agreement, participant>>,
           [kind |-> "ChannelProposal", proposal_id |-> proposal_id.v, challenge_duration |-> base.challenge_duration,
            nonce_share |-> nonce_share.v, init_bals |-> init_bals.v, funding_agreement |-> funding_agreement.v,
            participant |-> participant.v, peers |-> w.peers])

ProposalAcceptedInto(m) ==
  [base_channel_proposal_acc |-> Some([proposal_id |-> m.proposal_id, nonce_share |-> m.nonce_share]),
   participant |-> m.participant]

ProposalAcceptedTry(w) ==
  LET base == w.base_channel_proposal_acc[1]
      proposal_id == Exactly(base.proposal_id, HashLen)
      nonce_share == Exactly(base.nonce_share, HashLen)
      participant == Exactly(w.participant, AddressLen) IN
  IF w.base_channel_proposal_acc = None THEN Err
  ELSE All(<<proposal_id, nonce_share, participant>>,
           [kind |-> "ProposalAccepted", proposal_id |-> proposal_id.v, nonce_share |-> nonce_share.v,
            participant |-> participant.v])

-----------------------------------------------------------------------------
(* update.rs *)

ChannelUpdateInto(m) ==
  [channel_update |-> Some([state |-> Some(StateInto(m.state)), actor_idx |-> m.actor_idx]), sig |-> m.sig]

\* Variant: the signature is not checked for its length.
ChannelUpdateTry_any_sig(w) ==
  LET update == w.channel_update[1]
      state == Required(update.state, StateTry) IN
  IF w.channel_update = None THEN Err
  ELSE All(<<state>>, [kind |-> "ChannelUpdate", state |-> state.v, actor_idx |-> update.actor_idx, sig |-> w.sig])

ChannelUpdateTry(w) ==
  LET update == w.channel_update[1]
      state == Required(update.state, StateTry)
      sig == Exactly(w.sig, SignatureLen) IN
  IF w.channel_update = None THEN Err
  ELSE All(<<state, sig>>,
           [kind |-> "ChannelUpdate", state |-> state.v, actor_idx |-> update.actor_idx, sig |-> sig.v])

ChannelUpdateAcceptedInto(m) == [channel_id |-> m.channel, version |-> m.version, sig |-> m.sig]

ChannelUpdateAcceptedTry(w) ==
  LET channel == Exactly(w.channel_id, HashLen)
      sig == Exactly(w.sig, SignatureLen) IN
  All(<<channel, sig>>,
      [kind |-> "ChannelUpdateAccepted", channel |-> channel.v, version |-> w.version, sig |-> sig.v])

-----------------------------------------------------------------------------
(* funding_request.rs *)

FundReqInto(m) ==
  [agreement |-> Some(BalancesInto(m.funding_agreement)), params |-> Some(ParamsInto(m.params)),
   state |-> Some(StateInto(m.state)), idx |-> m.part_idx]

FundReqTry(w) ==
  LET agreement == Required(w.agreement, BalancesTry)
      params == Required(w.params, ParamsTry)
      state == Required(w.state, StateTry) IN
  All(<<agreement, params, state>>,
      [kind |-> "FundReq", part_idx |-> w.idx, funding_agreement |-> agreement.v, params |-> params.v, state |-> state.v])

SignaturesTry(sigs) ==
  IF Len(sigs) # PARTICIPANTS THEN Err ELSE Each(sigs, LAMBDA b : Exactly(b, SignatureLen))

TransactionInto(tx) == [state |-> Some(StateInto(tx.state)), sigs |-> tx.sigs]

TransactionTry(w) ==
  LET sigs == SignaturesTry(w.sigs)
      state == StateTry(w.state[1]) IN
  IF w.state = None THEN Err ELSE All(<<sigs, state>>, [state |-> state.v, sigs |-> sigs.v])

AdjudicatorReqInto(r) ==
  [params |-> Some(ParamsInto(r.params)), acc |-> r.acc, tx |-> Some(TransactionInto(r.tx)),
   idx |-> r.idx, secondary |-> r.secondary]

AdjudicatorReqTry(w) ==
  LET params == Required(w.params, ParamsTry)
      acc == Exactly(w.acc, AddressLen)
      tx == Required(w.tx, TransactionTry) IN
  All(<<params, acc, tx>>,
      [params |-> params.v, acc |-> acc.v, tx |-> tx.v, idx |-> w.idx, secondary |-> w.secondary])

RegisterReqInto(m) == [adj_req |-> Some(AdjudicatorReqInto(m.adj_req))]

RegisterReqTry(w) ==
  LET adj_req == Required(w.adj_req, AdjudicatorReqTry) IN
  All(<<adj_req>>, [kind |-> "RegisterReq", adj_req |-> adj_req.v])

WithdrawReqInto(m) == [adj_req |-> Some(AdjudicatorReqInto(m.adj_req))]

WithdrawReqTry(w) ==
  LET adj_req == Required(w.adj_req, AdjudicatorReqTry) IN
  All(<<adj_req>>, [kind |-> "WithdrawReq", adj_req |-> adj_req.v])

-----------------------------------------------------------------------------
(* watch_request.rs *)

WatchRequestInto(m) ==
  [params |-> Some(ParamsInto(m.params)), state |-> Some(StateInto(m.state)), sigs |-> m.sigs]

WatchRequestTry(w) ==
  LET sigs == SignaturesTry(w.sigs)
      params == Required(w.params, ParamsTry)
      state == Required(w.state, StateTry) IN
  All(<<sigs, params, state>>,
      [kind |-> "WatchRequest", params |-> params.v, state |-> state.v, sigs |-> sigs.v])

SignedWithdrawalAuthTry(w) ==
  LET sig == Exactly(w.sig, SignatureLen)
      receiver == Exactly(w.receiver, AddressLen) IN
  All(<<sig, receiver>>, [sig |-> sig.v, receiver |-> receiver.v])

WatchInfoInto(m) ==
  [participant |-> m.part_idx,
   state |-> Some([params |-> Some(ParamsInto(m.params)), state |-> Some(StateInto(m.state)), sigs |-> m.signatures]),
   withdrawal_auths |-> m.withdrawal_auths]

\* The numbers of signatures and authorizations are checked first.
WatchInfoTry(w) ==
  LET signed == w.state[1]
      signatures == SignaturesTry(signed.sigs)
      auths == Each(w.withdrawal_auths, SignedWithdrawalAuthTry)
      params == Required(signed.params, ParamsTry)
      state == Required(signed.state, StateTry) IN
  IF w.state = None \/ Len(w.withdrawal_auths) # ASSETS THEN Err
  ELSE All(<<signatures, auths, params, state>>,
           [kind |-> "StartDispute", part_idx |-> w.participant, params |-> params.v, state |-> state.v,
            signatures |-> signatures.v, withdrawal_auths |-> auths.v])

StartDisputeInto(m) == [channel_id |-> m.state.id, latest |-> Some(WatchInfoInto(m))]

StartDisputeTry(w) == Required(w.latest, WatchInfoTry)

-----------------------------------------------------------------------------
(* encoding.rs: the struct of a message *)

\* send_to_participant; the rejections have no struct of their own.
ParticipantInto(m) ==
  CASE m.kind = "Auth" -> [auth |-> TRUE]
    [] m.kind = "ChannelProposal" -> ChannelProposalInto(m)
    [] m.kind = "ProposalAccepted" -> ProposalAcceptedInto(m)
    [] m.kind = "ProposalRejected" -> [proposal_id |-> m.id, reason |-> m.reason]
    [] m.kind = "ChannelUpdate" -> ChannelUpdateInto(m)
    [] m.kind = "ChannelUpdateAccepted" -> ChannelUpdateAcceptedInto(m)
    [] m.kind = "ChannelUpdateRejected" -> [channel_id |-> m.id, version |-> m.version, reason |-> m.reason]

WatcherInto(m) ==
  CASE m.kind = "WatchRequest" -> WatchRequestInto(m)
    [] m.kind = "StartDispute" -> StartDisputeInto(m)

FunderInto(m) ==
  CASE m.kind = "FundReq" -> FundReqInto(m)
    [] m.kind = "RegisterReq" -> RegisterReqInto(m)
    [] m.kind = "WithdrawReq" -> WithdrawReqInto(m)

WatcherKinds == {"WatchRequest", "StartDispute"}
FunderKinds == {"FundReq", "RegisterReq", "WithdrawReq"}

MessageInto(m) ==
  IF m.kind \in WatcherKinds THEN WatcherInto(m)
  ELSE IF m.kind \in FunderKinds THEN FunderInto(m) ELSE ParticipantInto(m)

\* try_recv_participant_msg of the demo: the ids of rejections are unwrapped.
ParticipantTry(kind, w) ==
  CASE kind = "Auth" -> Ok([kind |-> kind])
    [] kind = "ChannelProposal" -> ChannelProposalTry(w)
    [] kind = "ProposalAccepted" -> ProposalAcceptedTry(w)
    [] kind = "ProposalRejected" ->
         IF Len(w.proposal_id) # HashLen THEN Panic ELSE Ok([kind |-> kind, id |-> w.proposal_id, reason |-> w.reason])
    [] kind = "ChannelUpdate" -> ChannelUpdateTry(w)
    [] kind = "ChannelUpdateAccepted" -> ChannelUpdateAcceptedTry(w)
    [] kind = "ChannelUpdateRejected" ->
         IF Len(w.channel_id) # HashLen THEN Panic
         ELSE Ok([kind |-> kind, id |-> w.channel_id, version |-> w.version, reason |-> w.reason])

\* The services read the requests with the same conversions (external).
ServiceTry(kind, w) ==
  CASE kind = "WatchRequest" -> WatchRequestTry(w)
    [] kind = "StartDispute" -> StartDisputeTry(w)
    [] kind = "FundReq" -> FundReqTry(w)
    [] kind = "RegisterReq" -> RegisterReqTry(w)
    [] kind = "WithdrawReq" -> WithdrawReqTry(w)

MessageTry(kind, w) == IF kind \in WatcherKinds \cup FunderKinds THEN ServiceTry(kind, w) ELSE ParticipantTry(kind, w)

-----------------------------------------------------------------------------

Init ==
  /\ msg \in Messages /\ format \in {"bare", "prefixed"}
  /\ wire = [empty |-> TRUE]
  /\ intact = TRUE /\ result = Err /\ stage = "new"

Send ==
  /\ stage = "new" /\ stage' = "sent"
  /\ wire' = MessageInto(msg)
  /\ UNCHANGED <<msg, format, intact, result>>

\* A struct that is not the one of msg: a peer with another version of the format.
Malform ==
  /\ stage = "sent" /\ intact
  /\ wire' \in Damaged([kind |-> msg.kind, body |-> wire]) /\ intact' = FALSE
  /\ UNCHANGED <<msg, format, result, stage>>

Receive ==
  /\ stage = "sent" /\ stage' = "received"
  /\ result' = MessageTry(msg.kind, wire)
  /\ UNCHANGED <<msg, wire, format, intact>>

Next == Send \/ Malform \/ Receive

Spec == Init /\ [][Next]_vars

-----------------------------------------------------------------------------
(* Properties *)

\* The kinds of messages without an allocation.
Assetless == {"Auth", "ProposalAccepted", "ProposalRejected", "ChannelUpdateAccepted", "ChannelUpdateRejected"}

\* An allocation, and a message, with the zero address for each of its assets.
WithoutAssets(o) == [o EXCEPT !.assets = [a \in DOMAIN @ |-> Zeros(AddressLen)]]

MessageWithoutAssets(m) ==
  CASE m.kind = "ChannelProposal" -> [m EXCEPT !.init_bals = WithoutAssets(@)]
    [] m.kind \in {"RegisterReq", "WithdrawReq"} -> [m EXCEPT !.adj_req.tx.state.outcome = WithoutAssets(@)]
    [] OTHER -> [m EXCEPT !.state.outcome = WithoutAssets(@)]

\* Every message arrives as it was sent: each field, in its place, with its
\* value, through From and TryFrom. The exception are assets as the library
\* itself writes them: Allocation::try_from takes the first two bytes of the
\* holder for its length. Such a message is refused, or panics, or (if those two
\* bytes are zero) arrives with the zero address for its assets; never with
\* another asset, and never with anything else changed.
MessageKept ==
  stage = "received" /\ intact =>
    \/ result = Ok(msg)
    \/ /\ format = "bare" /\ msg.kind \notin Assetless
       /\ result.res = "ok" => result = Ok(MessageWithoutAssets(msg))

(* What a struct must have to be read. Three things the code does not look at:
   the number of participants in Params, the number of assets in Allocation (in
   both a missing one becomes the zero address and one too many is dropped), and
   the bytes of an asset after a length of 0. Nor does it read what it has no use
   for: Params.id and app, State.app, Allocation.locked, the channel_id of a
   request for a dispute. *)

Whole(opt, readable(_)) == opt # None /\ readable(opt[1])

ReadableBalances(w) ==
  /\ Len(w.balances) = ASSETS
  /\ \A a \in 1 .. ASSETS :
       /\ Len(w.balances[a].balance) = PARTICIPANTS
       /\ \A p \in 1 .. PARTICIPANTS : ~ Len(w.balances[a].balance[p]) > HashLen

\* A length of at most AddressLen, and if it is not 0 an address after it.
ReadableAsset(b) ==
  LET holder_length == b[1] + b[2] * Base IN
  /\ ~ Len(b) < 2 /\ ~ holder_length > AddressLen
  /\ holder_length # 0 => Len(b) - 2 = AddressLen

ReadableAllocation(w) ==
  /\ \A k \in 1 .. ASSETS : k <= Len(w.assets) => ReadableAsset(w.assets[k])
  /\ Whole(w.balances, ReadableBalances)

ReadableState(w) == Len(w.id) = HashLen /\ w.data = <<>> /\ Whole(w.allocation, ReadableAllocation)

ReadableParams(w) ==
  /\ ~ Len(w.nonce) > HashLen
  /\ \A k \in 1 .. PARTICIPANTS : k <= Len(w.parts) => Len(w.parts[k]) = AddressLen

ReadableSigs(sigs) == Len(sigs) = PARTICIPANTS /\ \A i \in 1 .. PARTICIPANTS : Len(sigs[i]) = SignatureLen

ReadableProposal(base) ==
  /\ Len(base.proposal_id) = HashLen /\ Len(base.nonce_share) = HashLen
  /\ Whole(base.init_bals, ReadableAllocation) /\ Whole(base.funding_agreement, ReadableBalances)

ReadableProposalAcc(base) == Len(base.proposal_id) = HashLen /\ Len(base.nonce_share) = HashLen

ReadableUpdate(u) == Whole(u.state, ReadableState)

ReadableTransaction(w) == ReadableSigs(w.sigs) /\ Whole(w.state, ReadableState)

ReadableSigned(w) == ReadableTransaction(w) /\ Whole(w.params, ReadableParams)

ReadableRequest(w) ==
  Whole(w.params, ReadableParams) /\ Len(w.acc) = AddressLen /\ Whole(w.tx, ReadableTransaction)

ReadableWatch(w) ==
  /\ Whole(w.state, ReadableSigned)
  /\ Len(w.withdrawal_auths) = ASSETS
  /\ \A a \in 1 .. ASSETS : Len(w.withdrawal_auths[a].sig) = SignatureLen
                            /\ Len(w.withdrawal_auths[a].receiver) = AddressLen

Readable(kind, w) ==
  /\ kind = "ChannelProposal" => Whole(w.base_channel_proposal, ReadableProposal) /\ Len(w.participant) = AddressLen
  /\ kind = "ProposalAccepted" => Whole(w.base_channel_proposal_acc, ReadableProposalAcc) /\ Len(w.participant) = AddressLen
  /\ kind = "ProposalRejected" => Len(w.proposal_id) = HashLen
  /\ kind = "ChannelUpdate" => Whole(w.channel_update, ReadableUpdate) /\ Len(w.sig) = SignatureLen
  /\ kind = "ChannelUpdateAccepted" => Len(w.channel_id) = HashLen /\ Len(w.sig) = SignatureLen
  /\ kind = "ChannelUpdateRejected" => Len(w.channel_id) = HashLen
  /\ kind = "FundReq" => /\ Whole(w.agreement, ReadableBalances) /\ Whole(w.params, ReadableParams)
                         /\ Whole(w.state, ReadableState)
  /\ kind \in {"RegisterReq", "WithdrawReq"} => Whole(w.adj_req, ReadableRequest)
  /\ kind = "WatchRequest" => ReadableSigned(w)
  /\ kind = "StartDispute" => Whole(w.latest, ReadableWatch)

\* A struct becomes a message exactly if it is readable, whichever part is wrong
\* and at whichever depth: try_from refuses it (or panics) if a part is missing,
\* a field of bytes has the wrong length, an asset has no holder of its length, or
\* the number of balances, signatures or authorizations is wrong, and refuses
\* nothing else. In particular it accepts a list of assets or participants of any
\* length.
ReadExactly == stage = "received" => (result.res = "ok" <=> Readable(msg.kind, wire))
=============================================================================
