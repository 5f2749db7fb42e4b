----------------------------- MODULE MCWireConv -----------------------------
(***************************************************************************)
(* Instances of WireConv: messages of every kind, and malformed structs.   *)
(***************************************************************************)
EXTENDS WireConv

Addresses == {<<1, 2, 3>>, <<0, 0, 1>>}
Hashes == {<<1, 2>>}
Signatures == {<<1, 2, 3, 0>>, <<3, 3, 3, 3>>}
Amounts == {0, Base + 1}

Allocations == [assets : {<<a>> : a \in Addresses}, balances : {<<<<x, y>>>> : x \in Amounts, y \in Amounts}]
AllBalances == {<<<<x, y>>>> : x \in Amounts, y \in Amounts}
States == [id : Hashes, version : {0, 1}, outcome : Allocations, is_final : BOOLEAN]
AllParams ==
  [challenge_duration : {1}, nonce : Amounts, participants : {<<a, b>> : a \in Addresses, b \in Addresses},
   ledger_channel : {TRUE}, virtual_channel : {FALSE}]
SignaturePairs == {<<a, b>> : a \in Signatures, b \in Signatures}
OneParams == {CHOOSE p \in AllParams : p.nonce # 0}
OneState == {CHOOSE s \in States : s.version = 1 /\ s.outcome.assets[1] = <<1, 2, 3>>}
Requests == [params : OneParams, acc : Addresses, tx : [state : OneState, sigs : SignaturePairs],
             idx : {0, 1}, secondary : BOOLEAN]

AllMessages ==
  UNION {
    [kind : {"Auth"}],
    [kind : {"ChannelProposal"}, proposal_id : Hashes, challenge_duration : {1}, nonce_share : Hashes,
     init_bals : Allocations, funding_agreement : AllBalances, participant : Addresses, peers : {<<<<1>>, <<2>>>>}],
    [kind : {"ProposalAccepted"}, proposal_id : Hashes, nonce_share : Hashes, participant : Addresses],
    [kind : {"ProposalRejected"}, id : Hashes, reason : {"no"}],
    [kind : {"ChannelUpdate"}, state : States, actor_idx : {0, 1}, sig : Signatures],
    [kind : {"ChannelUpdateAccepted"}, channel : Hashes, version : {0, 1}, sig : Signatures],
    [kind : {"ChannelUpdateRejected"}, id : Hashes, version : {0, 1}, reason : {"no"}],
    [kind : {"FundReq"}, part_idx : {0, 1}, funding_agreement : AllBalances, params : AllParams, state : OneState],
    [kind : {"RegisterReq", "WithdrawReq"}, adj_req : Requests],
    [kind : {"WatchRequest"}, params : OneParams, state : States, sigs : SignaturePairs],
    [kind : {"StartDispute"}, part_idx : {0, 1}, params : OneParams, state : OneState, signatures : SignaturePairs,
     withdrawal_auths : {<<[sig |-> s, receiver |-> a]>> : s \in Signatures, a \in Addresses}] }

(* Malformed structs: one part of a struct, changed. *)

\* The structs of set s put into the Option f of w.
Inside(w, f, s) == {[w EXCEPT ![f] = Some(d)] : d \in s}

Missing(w, f) == {[w EXCEPT ![f] = None]}
Short(w, f) == {[w EXCEPT ![f] = SubSeq(@, 2, Len(@))]}
Long(w, f) == {[w EXCEPT ![f] = Append(@, @[1])]}

DamagedBalances(w) == Short(w, "balances") \cup Long(w, "balances")
                        \cup {[balances |-> <<[balance |-> <<>>]>>], [w EXCEPT !.balances[1].balance[1] = <<0>> \o @]}
\* One asset too few or too many, an asset too short, too long or without length,
\* with a length too large, and with a length of 0 before other bytes.
DamagedAssets(w) ==
  Short(w, "assets") \cup Long(w, "assets")
    \cup {[w EXCEPT !.assets[1] = b] :
            b \in LET asset == w.assets[1] IN
                  {SubSeq(asset, 1, Len(asset) - 1), asset \o <<1>>, <<0>>, <<0, 1>> \o asset, <<0, 0, 1>>, <<0, 0>> \o asset}}
DamagedAllocation(w) ==
  Missing(w, "balances") \cup Inside(w, "balances", DamagedBalances(w.balances[1])) \cup DamagedAssets(w)
DamagedState(w) ==
  Missing(w, "allocation") \cup Short(w, "id") \cup Inside(w, "allocation", DamagedAllocation(w.allocation[1]))
    \cup {[w EXCEPT !.data = <<0>>]}
DamagedParams(w) == {[w EXCEPT !.parts = SubSeq(@, 2, Len(@))], [w EXCEPT !.parts = <<<<>>>> \o @],
                     [w EXCEPT !.nonce = <<0>> \o @]}
DamagedStateIn(w) == Missing(w, "state") \cup Inside(w, "state", DamagedState(w.state[1]))
DamagedParamsIn(w) == Missing(w, "params") \cup Inside(w, "params", DamagedParams(w.params[1]))
DamagedSigs(w) == Short(w, "sigs") \cup Long(w, "sigs") \cup {[w EXCEPT !.sigs[1] = <<>>]}
DamagedRequest(w) ==
  DamagedParamsIn(w) \cup Short(w, "acc") \cup Missing(w, "tx")
    \cup Inside(w, "tx", DamagedStateIn(w.tx[1]) \cup DamagedSigs(w.tx[1]))
DamagedProposal(w) ==
  Short(w, "proposal_id") \cup Short(w, "nonce_share") \cup Missing(w, "init_bals") \cup Missing(w, "funding_agreement")
    \cup Inside(w, "init_bals", DamagedAllocation(w.init_bals[1]))
    \cup Inside(w, "funding_agreement", DamagedBalances(w.funding_agreement[1]))
DamagedAcc(w) == Short(w, "proposal_id") \cup Long(w, "nonce_share")
DamagedWatch(w) ==
  Missing(w, "state") \cup Short(w, "withdrawal_auths") \cup Long(w, "withdrawal_auths")
    \cup Inside(w, "state", DamagedStateIn(w.state[1]) \cup DamagedParamsIn(w.state[1]) \cup DamagedSigs(w.state[1]))
    \cup {[w EXCEPT !.withdrawal_auths[1].sig = <<>>], [w EXCEPT !.withdrawal_auths[1].receiver = <<>>]}

AllDamaged(m) ==
  LET w == m.body IN
  CASE m.kind = "Auth" -> {}
    [] m.kind = "ChannelProposal" ->
         Missing(w, "base_channel_proposal") \cup Short(w, "participant")
           \cup Inside(w, "base_channel_proposal", DamagedProposal(w.base_channel_proposal[1]))
    [] m.kind = "ProposalAccepted" ->
         Missing(w, "base_channel_proposal_acc") \cup Short(w, "participant")
           \cup Inside(w, "base_channel_proposal_acc", DamagedAcc(w.base_channel_proposal_acc[1]))
    [] m.kind = "ProposalRejected" -> Short(w, "proposal_id")
    [] m.kind = "ChannelUpdate" ->
         Missing(w, "channel_update") \cup Short(w, "sig") \cup Long(w, "sig")
           \cup Inside(w, "channel_update", DamagedStateIn(w.channel_update[1]))
    [] m.kind = "ChannelUpdateAccepted" -> Short(w, "channel_id") \cup Short(w, "sig")
    [] m.kind = "ChannelUpdateRejected" -> Short(w, "channel_id")
    [] m.kind = "FundReq" ->
         DamagedStateIn(w) \cup DamagedParamsIn(w) \cup Missing(w, "agreement")
           \cup Inside(w, "agreement", DamagedBalances(w.agreement[1]))
    [] m.kind \in {"RegisterReq", "WithdrawReq"} ->
         Missing(w, "adj_req") \cup Inside(w, "adj_req", DamagedRequest(w.adj_req[1]))
    [] m.kind = "WatchRequest" -> DamagedStateIn(w) \cup DamagedParamsIn(w) \cup DamagedSigs(w)
    [] m.kind = "StartDispute" -> Missing(w, "latest") \cup Inside(w, "latest", DamagedWatch(w.latest[1]))
=============================================================================
