# Formal verification of perun-rs

TLA+ models of perun-rs, a Rust library for two-party payment channels on
embedded devices, with TLC runs on small instances and TLAPS proofs for all
instances. `PROJECT.json` lists components, runs, hazards, theorems, and the
source lines every definition stands for.

## The system

| Part | Source | Status |
|---|---|---|
| Client: propose and receive channels | `src/src/client.rs` | modelled |
| Channel typestates Proposed, AgreedUpon, Signed, Active | `src/src/channel/*.rs` | modelled |
| Detached `ChannelUpdate` objects | `src/src/channel/channel_update.rs` | modelled |
| States, parameters, allocation | `src/src/channel/fixed_size_payment.rs` | modelled |
| Signing | `src/src/sig/*` | ideal signatures |
| Messages and their protobuf conversions | `src/src/messages*`, `src/src/wire*` | modelled; prost's codec is external |
| ABI encoder | `src/src/abiencode/*` | modelled |
| Embedded demo: channel, application, bus, button | `src/cortex-m-demo/src/*` | modelled; smoltcp and the remote ends are external |
| Embedded demo: start-up | `src/cortex-m-demo/src/main.rs` | main loop, clock and buffer sizes |
| Go watcher and funder service | `src/examples/go-integration/perun-remote/*.go` | one channel and connection; go-perun is external |
| Go command line, Rust example script, generated code | rest | not modelled, see below |

A participant's application owns a `PerunClient` and calls the operations of the
typestate its channel is in. Operations sign, and send messages through the
`MessageBus` to the other participant, to a watcher (which must know the newest
enforceable state) and to a funder (which funds, registers and withdraws). The
library has no threads and no timers: all concurrency is between the two
participants, and everything that can go wrong comes from the order of calls
and messages.

Opening: participant 0 proposes, participant 1 accepts with its nonce share,
both `build` the same initial state, sign it, exchange signatures, `build` again
(which sends the watch and funding requests) and are marked funded. Updating:
`update` signs a next state and sends it; the other side's `handle_update` makes
a `ChannelUpdate` out of it, `accept` signs it; with both signatures it can be
applied, which installs state and signatures and tells the watcher.

The demo is one device: a main loop that polls the network stack, an application
state machine over two TCP sockets (one to the config dealer and then the peer,
one to the service) and four buttons. Once a channel exists, received messages are
framed, converted and forwarded to an enum over the library's typestates. An `Err`
of a poll is unwrapped in `main.rs:253` and stops the device; an `Err` of a button
only toggles an LED.

The Go service watches, disputes and funds for a device. Its server starts a
goroutine for every request of a connection; the goroutines share one entry per
channel (newest state, its signatures, and an account of presigned withdrawals),
and another goroutine per channel waits for adjudicator events and withdraws.

## Modules

| Module | Content |
|---|---|
| `PaymentState` | states, `make_next_state`, `total_assets`, `check_valid_transition`, ideal signatures |
| `Channel` | both participants' clients, channels and updates, the bus, what watcher and funder were sent; the properties |
| `LockstepChannel` | abstract specification: one history of states, one participant at most one step ahead |
| `MCChannel` | the proposals of the TLC instances |
| `ChannelProofs` | inductive invariant `IInv`, each operation preserves it, the theorems that follow |
| `ChannelLockstep` | where channel ids come from (`OriginInv`) and what is accepted (`ForkInv`); proofs of `SameChannel`, `NoFork` and of the refinement |
| `DemoChannel` | the demo's `ChannelInner`, forwarding, buttons; a go-perun peer and the service |
| `DemoChannelProofs` | types, agreement with the peer, opening and closing of `DemoChannel`; what can be under way in each state (`PanicInv`) and the proof of `OnlyKnownPanics` |
| `DemoApplication` | the demo's `ApplicationState`, one action per poll handler, the two sockets |
| `DemoApplicationProofs` | inductive invariant `AppInv` and its theorems |
| `Framing` | length prefix, transmit buffer, in-place reading from the receive ring |
| `FramingProofs` | inductive invariant `FramingInv` and its theorems |
| `Button` | the debouncer in the main loop; its theorem |
| `WatcherService` | the Go service: requests, goroutines, the lock, the entry, the withdrawing goroutine |
| `WatcherProofs` | inductive invariant `ServiceInv` of `WatcherService`, its proof and what follows |
| `AbiEncode`, `MCAbiEncode` | all passes of the serializer, Solidity's definition as reference; the values of the runs |
| `WireConv`, `MCWireConv` | the types of messages, every `From` and `TryFrom` of them; the messages and damages of the run |
| `WireConvProofs` | induction and recursion over intervals, the round trip of every type, what every `TryFrom` requires; the two theorems |

### Correspondence with the code

- `phase[i]` is the Rust type participant i's channel object has. `Dropped` is an
  open channel whose object is gone (after `handle_dispute`, or after the panic
  in `total_assets`), `Panicked` is the panic in `ProposedChannel::accept`.
- `prop`, `resp`, `state`, `sigs` are the fields of the object, `pending[i]` the
  `ChannelUpdate` values the application holds. `signed[i]` is a history
  variable: everything i's key has signed.
- One action per public operation. Its guard is the `Ok` path; an operation that
  returns `Err` leaves everything as it was, except that `ChannelUpdate::reject`
  consumes the update, which the action does.
- `msgs` is the set of messages ever sent. A handler may be given any of them, at
  any time and repeatedly: this covers loss, delay, duplication and reordering,
  which is right because `MessageBus` promises nothing.
- An application is the most general client. `AppMay` says which optional things
  it does: answer again, abandon objects, reject, dispute, propose sums that
  overflow, and accept an update although it has signed another state of the same
  version ("conflicting").
- A hash is modelled by the value it hashes, a signature by its signer and the
  signed state. The two keys differ. (`Signer::new` in `sig/k256.rs` currently
  returns one fixed key; two such clients are outside this model.)
- A channel id is the proposal id and the accepting side's nonce share; proposal
  ids and nonce shares are drawn fresh.
- The participants follow the library: messages come from its operations.

The demo and the codecs:

- `DemoChannel`: `inner` is the variant of `ChannelInner`, `update` its
  `Option<ChannelUpdate>`, `ch` the state held; `toDevice` and its counterparts are
  the TCP streams, in order. A poll handles one message as `process_*` does; the
  last arms (`Err`) set `panic`. `UserMay` and `PeerMay` select behaviours. Peer,
  service and chain are modelled from how the demo uses them. Code and comments
  disagree about two replies, so `WatchReply` and `RegisterReply` allow both the
  ones the demo can read and the ones named after the requests it sends.
- `DemoApplication`: `app` is `ApplicationState`, `sock` and `rx` what smoltcp says
  of each socket. The channel is reduced to what it can do to the sockets. TCP
  states are merged where the code's queries cannot tell them apart.
- `Framing`: bytes are digits of a small base, so that both bytes of the length
  prefix and the wrap-around of the ring matter in a small instance.
- `Button`: ages instead of times, saturated just above the threshold.
- `AbiEncode`: a value is a tree of serde's data model; a pass is an operator.
- `WireConv`: a conversion yields `Ok`, `Err` or `Panic`, fields in the code's order.
  The sizes (bytes of an address, of a hash, number of assets) are constants. An amount
  goes through its big-endian bytes, computed digit by digit. Any struct may arrive
  instead of the one that was sent (`Damaged`).
  `from_big_endian` and a service that decodes requests are external. `session_id`
  is always empty and left out. `format` is who writes an asset: "bare" is the
  library (`AssetInto`), "prefixed" a go-perun peer (`GoPerunAsset`, external), which
  puts the length first as `Allocation::try_from` expects it.
- `WatcherService`: `pc[t]` is where the goroutine of the t-th request is, `entry` the
  `watchEntry`. State, signatures and account are each represented by the version they
  belong to, so that a mixture is visible. The three assignments under the lock are
  three steps, because `Watch` reads the entry of a final state without the lock
  (`watcher.go:105`), in steps of its own and in any order of the fields. Reads under
  the lock are one step. A failing call to go-perun is a choice. `crashed` is the
  `panic` in `StartDispute`, or the run-time panic of an index in
  `ParseWatchRequestMsg` (`IndexPanics`).

## Runs

The runs of the library use `MCChannel` and one unit of money (`MaxU256 = 1`), which
already gives two distinct allocations of the same total, wrong totals and an
overflow. Deadlock is checked for `Button` only: a channel may end, a device may
stop, a service may have no more requests, and a codec run ends with its value. The
runs of the library assume no fairness: it never acts by itself.

| Run | Shows |
|---|---|
| `channel_opening` | four proposals (one without a challenge duration, one with a wrong number of peers), three nonce shares, abandoned, rejected and twice answered: both sides end in the same, fully signed channel |
| `channel_updates` | crossing updates over two versions, any answers, drops, rejections and conflicting acceptances included: signatures, versions, finality, totals and watcher stay right; the asset cannot change |
| `channel_pending` | two updates per side, all may be pending: no fork, and `Channel` implements `LockstepChannel`, as long as nobody accepts two states of one version |
| `channel_dispute` | registering, withdrawing, disputes and the overflow panic at any time: everything submitted is fully signed |
| `channel_conflicting` | violated: conflicting acceptances fork the channel |
| `demo_channel` | every behaviour of user, peer and service at once: no two states of one version, Active means funded and watched, closed and stopped only for listed reasons; openings, updates and closes conclude |
| `demo_application` | connections closed, reset or refused at any moment, unexpected messages: sockets are free when used, the device listens again, openings progress |
| `framing` | messages are delivered whole, in order and eventually; too large ones are never delivered as something else |
| `button` | reported changes are more than the threshold apart |
| `watcher_service` | goroutines in any order, failing calls, damaged requests: what is submitted belongs together, an acknowledged state stays covered, a dispute registers its state or a newer one, requests are answered, the service withdraws; it panics only for four reasons |
| `abi_encode` | the encoder agrees with Solidity's definition for values nested up to three deep; unsupported ones are refused before output; no two signed values have one encoding |
| `wire_conv` | messages survive conversion (with assets as the library writes them they are refused or lose exactly their assets); damaged structs become messages exactly if they have every part and length the code looks at |

Bounds: `MaxVersion` 2 lets an update become outdated and be followed by another
one from either side; `MaxUpdates` 1 per side is enough for crossing updates, 2
for several pending ones of one side. `NonceSymmetry` permutes nonce shares,
which are only compared for equality, and is used with invariants only. In
`DemoChannel`, `MaxVersion` 2 and three messages in flight allow an outdated
acknowledgement, a crossing update and a close in one behaviour. In `Framing`
the ring holds one largest message or several small ones, and four messages move
the read position around it. `AbiEncode` has slots of four bytes: strings longer
than a slot and nested offsets occur. In `Button` polls are up to two thresholds
apart. Three requests let `WatcherService` create an entry and then have two
goroutines race for it, with the withdrawing goroutine as a third; two versions
tell newer from older.

Fairness: the main loop never ends, so polls are weakly fair (`FairSpec` of
`DemoChannel`, `DemoApplication` and `Framing`), as is TCP's transmission. In
`DemoChannel` peer and service answer requests; nobody has to press a button or
propose. In `DemoApplication` a remote end answers a FIN. `OpeningProgresses` has one
more assumption in its statement, `Served`: remote ends accept connections and send
what is due. Without it, `Connecting` and `WaitForProposal` can wait for ever, since
the code has no timeouts. In `WatcherService` every goroutine is scheduled, calls to
go-perun return and timeouts elapse; no request has to be sent and no adjudicator
event has to come. Weak fairness is enough for the lock because requests are
finitely many, so that the lock is free in the end.

### Departures

`channel_conflicting` is violated: `channel_update.rs:82-85` says several pending
updates come "without degregading security or introducing things the
user/application developer could accidentaly get wrong". When both sides propose
version v and each accepts the other's update, each can apply a different fully
signed state of version v.

Other places where the code does not do what its comments, docs or tests say. The
models follow the code. Where a property would not hold because of one, the
property names the case as an exception.

- `proposal.rs:30` documents `AlreadyAcceptedError`; the guard that would return it
  is commented out, so a proposal can be answered twice (`ProposedAccept`).
- `proposal.rs:98-99` says accepting an own proposal "will just return an Error";
  the index `part_idx - 1` at `:118` underflows (`ProposedAcceptOwn`).
- Demo `channel.rs:233`: in `Closing` any `Ack` closes the channel, also a late one for
  an earlier version. `ClosedForAReason` therefore allows that the watcher has not
  answered the final state yet; it requires that the state has been handed to it.
- Demo `channel.rs:397`: an update that arrives while an own one is pending stops the
  device; the comment at `:324-331` only says that it is rejected.
- Demo `channel.rs:181`: the balance check reads index 1 whoever the device is;
  participant 0 can then subtract below zero, which panics.
- `active.rs:274` and `encoding.rs:40`: `force_close` sends a `RegisterReq` and a watch
  request is sent as `StartWatchingLedgerChannelReq`; the replies of the same names are
  `unimplemented!()` in `application.rs:685` and `:689`. These, the two above and the
  demo's other stops are the disjuncts of `KnownPanic`.
- `application.rs:416`: handshake and acceptance do not wait for the service connection.
- `application.rs:289`: a peer that connects and closes without a complete handshake
  leaves the device in `Listening` without a listening socket. `ListensAgain` is about
  reaching `Listening`, not about this.
- `button.rs:59`: a bounce restarts the interval at every poll, so a level the pin
  comes to rest at can stay unreported.
- `ser.rs:546`: a negative `i128` is not sign-extended (exception of `MatchesSolidity`).
  The library itself encodes none.
- `fixed_size_payment.rs:382`: an asset is written without the length with which it is
  read. `MessageKept` says what can become of such a message: it is refused or panics,
  or, if the holder begins with two zeroes, arrives with the zero address for its
  assets. `:52` and `:310`: the numbers of participants in parameters and of assets in
  an allocation are not looked at, and `:343`: neither are the bytes of an asset after
  a length of 0 (the exceptions of `ReadExactly`). `:502-532`: the expected encoding in
  a test still contains the chain id.
- `server.go:116` and `:130` shadow `err`, so that the responses to disputes and funding
  requests always say success (`Respond`). `watcher.go:171` panics when the state of a
  dispute is refused, also when that is because a newer one is already watched. `wire.go:54` lets an index
  equal to the number of participants pass, and `:58` then panics (`IndexPanics`).

## Proofs

For all proposals, nonces, assets, amounts and version bounds, and every `AppMay`
(conflicting acceptances included), `ChannelProofs` proves that `Spec` implies:
`TypeOK`, `FullySigned`, `VersionGap`, `NothingAfterFinal`, `Conservation`,
`WatcherCurrent`, `SubmittedSigned` (always) and the action property
`OnlyForward`. `ChannelLockstep` proves `SameChannel` in the same generality. For
applications that do not accept two states of one version (`"conflicting" \notin
AppMay`), it also proves `NoFork` and that `Spec` implements
`LockstepChannel`; `channel_conflicting` shows that the assumption is needed. The
other assumptions are `ConstantsAssumption` (the constants have their types, `None` is
no participant), `AppAssumption`, and `NoneAssumption` (`None` is no nonce, state or
signature: an `Option` that is `Some` is not `None`), which only `ChannelLockstep`
uses.

None of these is inductive. Why a held state is fully signed depends on what
messages and pending updates can contain, so `IInv` says of every place a
signature can be that the signer really made it: `MessageInv` (messages), `SlotInv`
(signature slots of channels and pending updates) and `RequestInv` (watcher and
funder). `VersionGap` and `NothingAfterFinal` follow from `SignedInv`: a
participant signs at most one version ahead of what it holds and nothing after a
final state. A holder of version v has the other's signature on v, so the other
holds at least v - 1. `SignedInv` is preserved by `accept`, which does not repeat
the check of the transition, only because of `PendingInv`: a pending update was
checked against the state the channel still has, or its version is outdated.
`ProposalInv` carries the proposer's checks of the challenge duration and the
number of peers to the other side, whose own check is commented out in `client.rs:108`.

`SameChannel` needs to know where ids come from. `OriginInv` says that everything
signed is in a channel that participant 1 has answered to (`SignedIdInv`), that an
object belongs to the proposal and answer it was made from (`ObjectInv`), and, in
`ProposerInv`, that the proposer takes one answer to a proposal, and that a state it
signed for an earlier proposal is not in the channel participant 1 is in once the
present proposal was answered. Answers carry fresh nonce shares, which makes a new
answer different from everything signed before. Two objects that hold both
signatures then cannot be in different channels.

`NoFork` is about what is submitted, but follows from what is accepted. `ForkInv` says
that an accepted state is initial or has both signatures (`AcceptedBothInv`), that
there is one accepted state for each channel and version (`AcceptedOneInv`), and that
everything held or submitted was accepted (`HeldAcceptedInv`). `accept` preserves
`AcceptedOneInv` because the earlier acceptance means that this side has signed the
earlier state, and a careful application does not sign another one of that version.
For the refinement, `AgreedUponChannel::build` is `LOpen`, `apply` is `LAdvance` or
`LCatchUp`, depending on whether the other side has that version already, and
everything else is a stutter.

`Button` proves `ReportsApart` for every threshold and polling delay, from
`ButtonAssumption`. The inductive invariant `AgeInv` says that the last report is
not more recent than the last poll that saw a different level.

`WatcherProofs` proves the four invariants of `WatcherService` for any number of
requests and versions (`ServiceAssumption`: both bounds are natural numbers). The
run has only three requests and two versions. `ServiceInv` adds to them:

- `OrderInv`: requests carry versions in order, and a final state is the newest
  one. This is an assumption on the device, stated in `NextRequest`.
- `EntryInv`: the fields of the entry belong together whenever the lock is free.
  Whoever reads it under the lock (`Snapshot`, `WithdrawSnapshot`) thus gets one state.
- `Written`: what a goroutine wrote is still there, or something newer. A final
  state in front of `publish` and `read` is there unchanged: other writers of that
  version write what is there already, and older versions are refused. So the
  unlocked read (`watcher.go:105`) gets the fields of one version.
- `Place` and `Built`: where a goroutine can be for its kind of request, that it
  holds the lock exactly while it writes, and which fields it has read.

`OthersKeep` is the lemma most steps use. A step of one goroutine keeps the part of
all others if it takes the lock from nobody, makes the entry no older, and leaves
alone an entry another one is writing or has seen final.

`DemoChannelProofs` proves the four invariants of `DemoChannel` for any balances,
versions and number of messages under way, and for every `UserMay`, `PeerMay`,
`WatchReply` and `RegisterReply`. It assumes `DemoAssumption` (the constants have
their types) and `NoneAssumption` (`None` is no state). The peer is the one of the
model: it has at most one update in progress.

- `TypeInv`: every state that anybody holds or has sent has the same total. This is
  why no balance leaves its range; `TypeOK` alone is not inductive.
- `AgreementInv`: an update under way to the device is the one the peer has in
  progress, and there is at most one; an acceptance newer than the device's state is
  of the peer's state (`ToDeviceInv`). What is under way to the peer is not newer than
  the device allows (`ToPeerInv`). The device is ahead only by the update the peer
  waits for (`PendingInv`). A device that replaces a pending update therefore still
  cannot apply anything but the peer's state.
- `OpenInv`: until both replies are there, the service has only heard of version 0, so
  any `Ack` is for the initial state. `CloseInv`: a dispute is only told of after a
  registration, and in `Closing` the request to watch the final state is still with the
  service, or was answered and the state registered.

Its second half proves the action property `OnlyKnownPanics` in the same
generality. This needs to know that every other pair of state and message cannot occur:

- `StageInv`: the exact content of both queues during the opening, and the message
  types that are possible afterwards.
- `AskInv`: the funder is asked once, and asked to register only by a device that waits
  for the answer.
- `AheadInv`: a peer that is ahead has sent its acceptance before any update of its
  own. A device without a pending update thus finds every update valid.
- `PatientInv`: without "hasty", one own update or its answer is under way, and only
  while the update is pending. The panics that `KnownPanic` lists for "hasty"
  therefore need it.

`DemoApplicationProofs` proves `TypeOK`, `SocketsFree` and `HandshakeCanBeSent` for any
network faults and buffer size (`NetAssumption`). `AppInv` adds which socket states can
meet which application states: only `Listening` has a listening socket, with an empty
buffer, and the service socket is closed until a channel is opened.

`FramingProofs` proves `WholeMessagesInOrder` and `NeverTooLarge` for every base,
message size, ring and transmit buffer (`FramingAssumption`, which has the code's
relation between ring and `MAX_MESSAGE_SIZE`). `FramingInv` says that every message sent
and not returned is in the bytes under way, one frame after the other (`InStream`). It
is stated with a function from message numbers to offsets, because a recursive
definition of the stream could not be reasoned about. TLC cannot evaluate that
quantifier; it checks the two properties.

`WireConvProofs` proves `MessageKept` and `ReadExactly` for every base, every size
of addresses, hashes and signatures, every number of assets and participants, all
messages of the types in `WireConv` and any structs that arrive instead
(`WireAssumption`: sizes are positive, the length of an address fits two bytes, and
`Messages` are messages).

- Amounts need induction. The library's induction theorems take a predicate, which the
  provers cannot instantiate; `Induction` and `Recursion` take a set and a function
  instead, and follow from the well-foundedness of `<`. They give what `Power`,
  `Remaining` and `Values` compute, and `BigEndian`: `from_big_endian` undoes
  `to_big_endian` for all amounts below `Power[HashLen]`.
- One lemma per type (`BalancesKept`, `AllocationKept`, ... `StartDisputeKept`) says that
  `try_from` undoes `from`. An allocation from go-perun comes back whole
  (`AllocationKept`); of one the library wrote, `AllocationLost` says that it comes back
  without its assets if at all. `WayInv` is the inductive invariant: what is on the wire
  will be read as the message, with that exception.
- `AllExact` says that the operator `?` succeeds exactly if every conversion does. One
  lemma per type (`BalancesExact`, ... `MessageExact`) concludes that `try_from` succeeds
  exactly on what is `Readable`, a definition of its own. `MissingAsset` is why the number
  of assets does not matter. `ReadInv` is the inductive invariant.

Only model-checked: all liveness properties (`PeerUpdateAnswered`, `OpeningCompletes`,
`UpdateConcludes`, and those of `DemoApplication`, `Framing` and `WatcherService`),
which need fairness; and `AbiEncode`, whose operators are recursive over trees.

## Not modelled

- Key generation, elliptic curves and hash functions: ideal.
- `withdrawal_auth.rs`: what would be signed is in `AbiEncode`; nothing calls the
  function any more.
- `WatcherService` has one channel and one connection that stays. Not recorded: the
  dispute notification to the device (`watcher.go:126`), `StopWatching` (`:122`), and
  the order in which states are published to go-perun's watcher, which is decided after
  the lock is released (`:98`). Nothing in the service reads any of them back.
  Parsing is reduced to its outcome: success, an error, or the panic of an index. It is not composed with `DemoChannel`: the server
  reads `WatchRequest`, `ForceCloseRequest` and `FundingRequest`, not the requests the
  library sends now, so `DemoChannel` models its service from the device's side.
- The Go command line and wallet: a shell around the go-perun client, which is not in
  the repository.
- The Rust example script, peripheral configuration, generated protobuf code.
- Two participants with one key: `Signer::new` returns a fixed key, `Channel` assumes
  different ones.
- Versions near 2^64 (`version + 1` in `make_next_state`); more than one channel per
  client.
- The demo's modules are not composed: `DemoChannel` assumes whole messages in order
  (`Framing`) on connections that stay, `DemoApplication` abstracts the channel.

## Plan

1. The order of publications, with a model of go-perun's watcher.
2. A shared key in `Channel`.
