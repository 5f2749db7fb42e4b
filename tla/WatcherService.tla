--------------------------- MODULE WatcherService ---------------------------
(***************************************************************************)
(* The Go service that watches, disputes and funds for a device            *)
(* (examples/go-integration/perun-remote).  handleConn runs every request  *)
(* in a goroutine of its own; WatcherService.mutex protects the entry of a *)
(* channel, but not everything that reads it.                              *)
(*                                                                         *)
(* One channel.  A state, its signatures and the presigned account that    *)
(* belongs to it are represented by the state's version.  go-perun's       *)
(* watcher, adjudicator and funder are external: each call returns, with   *)
(* or without an error.                                                    *)
(***************************************************************************)
EXTENDS Integers, Sequences

CONSTANTS
  MaxRequests,     \* bound: requests on the connection
  MaxVersion       \* bound: versions of the channel

ASSUME ServiceAssumption == MaxRequests \in Nat /\ MaxVersion \in Nat

Goroutines == 1..MaxRequests

Versions == 0..MaxVersion

None == -1

\* Fields of a watchEntry that Watch replaces, and of an AdjudicatorReq
Fields == {"state", "sigs", "acc"}

\* latest: the WatchRequest part is present (always in a WatchRequest)
\* quality: what ParseWatchRequestMsg and VerifyIntegrity find. In a misindexed one
\* the participant's index is the number of participants, or there are more
\* withdrawal authorizations than assets.
Requests == [kind: {"Watch", "ForceClose", "Fund"}, latest: BOOLEAN, version: Versions,
             final: BOOLEAN, quality: {"good", "unsigned", "unparsable", "misindexed"}]

VARIABLES
  client,      \* version of the device's newest state, and whether it is final
  req,         \* requests received; goroutine t handles the t-th
  pc,          \* where goroutine t is
  err,         \* goroutine t: Watch returned an error
  tx,          \* goroutine t, 0 for watchAndWithdraw: AdjudicatorReq built so far
  mutex,       \* goroutine that holds service.mutex, None
  entry,       \* watchEntry of the channel, None
  withdrawer,  \* where watchAndWithdraw is
  submitted,   \* AdjudicatorReqs given to Register (by t) and Withdraw (by 0)
  responses,   \* responses sent
  crashed      \* panic in StartDispute or ParseWatchRequestMsg

vars == <<client, req, pc, err, tx, mutex, entry, withdrawer, submitted, responses, crashed>>

NoTx == [f \in Fields |-> None]

AllFields(v) == [f \in Fields |-> v]

Init ==
  /\ client = [version |-> None, final |-> FALSE]
  /\ req = <<>>
  /\ pc = [t \in Goroutines |-> "idle"]
  /\ err = [t \in Goroutines |-> FALSE]
  /\ tx = [t \in Goroutines \cup {0} |-> NoTx]
  /\ mutex = None
  /\ entry = NoTx
  /\ withdrawer = "none"
  /\ submitted = {}
  /\ responses = {}
  /\ crashed = FALSE

Known == entry # NoTx

Goto(t, l) == pc' = [pc EXCEPT ![t] = l]

-----------------------------------------------------------------------------
(***************************************************************************)
(* The device and Server.handleConn                                        *)
(***************************************************************************)
\* What the device sends next: versions in order, nothing after a final state, a
\* dispute or funding once the channel is watched. Damaged requests are possible;
\* those that cannot be parsed are alike, whatever their kind, and so are those
\* whose parsing panics.
NextRequest(r) ==
  /\ r.kind = "Watch" =>
       /\ r.latest
       /\ \/ r.version = client.version /\ r.final = client.final
          \/ r.version = client.version + 1 /\ ~ client.final
  /\ r.kind # "Watch" =>
       /\ client.version # None
       /\ r.version = client.version /\ r.final = client.final
       /\ r.kind = "Fund" => ~ r.latest
  /\ r.quality = "unsigned" => r.latest
  /\ r.quality = "unparsable" => r.kind = "Fund"
  /\ r.quality = "misindexed" => r.kind = "Watch"

Receive(r) ==
  /\ Len(req) < MaxRequests
  /\ NextRequest(r)
  /\ client' = [version |-> r.version, final |-> r.final]
  /\ req' = Append(req, r)
  /\ Goto(Len(req'), IF r.quality = "unparsable" THEN "done"
                      ELSE IF r.quality = "misindexed" THEN "parse"
                      ELSE CASE r.kind = "Watch" -> "verify"
                             [] r.kind = "ForceClose" -> "dispute"
                             [] r.kind = "Fund" -> "fund")
  /\ UNCHANGED <<err, tx, mutex, entry, withdrawer, submitted, responses, crashed>>

\* ParseWatchRequestMsg accepts an index equal to the number of participants and
\* does not compare the authorizations with the assets; using them as indices
\* panics.
IndexPanics(t) ==
  /\ pc[t] = "parse"
  /\ crashed' = TRUE
  /\ UNCHANGED <<client, req, pc, err, tx, mutex, entry, withdrawer, submitted, responses>>

\* Its error is shadowed in handleConn, as that of StartDispute is.
Fund(t) ==
  /\ pc[t] = "fund"
  /\ Goto(t, "respond")
  /\ UNCHANGED <<client, req, err, tx, mutex, entry, withdrawer, submitted, responses, crashed>>

Respond(t) ==
  /\ pc[t] = "respond"
  /\ responses' = responses \cup {[to |-> t, success |-> req[t].kind = "Watch" => ~ err[t]]}
  /\ Goto(t, "done")
  /\ UNCHANGED <<client, req, err, tx, mutex, entry, withdrawer, submitted, crashed>>

-----------------------------------------------------------------------------
(***************************************************************************)
(* Watch, called for a WatchRequest and by StartDispute                    *)
(***************************************************************************)
\* StartDispute panics when Watch fails, and does not register a final state,
\* which Watch has done already.
WatchReturns(t, e) ==
  /\ crashed' = (e /\ req[t].kind = "ForceClose")
  /\ err' = [err EXCEPT ![t] = e]
  /\ Goto(t, IF req[t].kind = "Watch" \/ e \/ req[t].final THEN "respond" ELSE "snapshot")

VerifyIntegrity(t) ==
  /\ pc[t] = "verify"
  /\ \/ req[t].quality = "good" /\ Goto(t, "lock") /\ UNCHANGED <<err, crashed>>
     \/ req[t].quality # "good" /\ WatchReturns(t, TRUE)
  /\ UNCHANGED <<client, req, tx, mutex, entry, withdrawer, submitted, responses>>

\* Variants: the mutex is kept when Watch refuses an outdated version
RefuseOutdatedLocked(t) ==
  /\ pc[t] = "lock" /\ mutex = None
  /\ Known /\ req[t].version < entry["state"]
  /\ mutex' = t
  /\ WatchReturns(t, TRUE)
  /\ UNCHANGED <<client, req, tx, entry, withdrawer, submitted, responses>>

\* ... the entry's own version is refused
RefuseCurrent(t) ==
  /\ pc[t] = "lock" /\ mutex = None
  /\ Known /\ req[t].version <= entry["state"]
  /\ WatchReturns(t, TRUE)
  /\ UNCHANGED <<client, req, tx, mutex, entry, withdrawer, submitted, responses>>

RefuseOutdated(t) ==
  /\ pc[t] = "lock" /\ mutex = None
  /\ Known /\ req[t].version < entry["state"]
  /\ WatchReturns(t, TRUE)
  /\ UNCHANGED <<client, req, tx, mutex, entry, withdrawer, submitted, responses>>

\* Variant: the version is not compared.
UpdateStateUnchecked(t) ==
  /\ pc[t] = "lock" /\ mutex = None
  /\ Known
  /\ mutex' = t
  /\ entry' = [entry EXCEPT !["state"] = req[t].version]
  /\ Goto(t, "sigs")
  /\ UNCHANGED <<client, req, err, tx, withdrawer, submitted, responses, crashed>>

\* State, signatures and account are written one after the other, under the lock.
UpdateState(t) ==
  /\ pc[t] = "lock" /\ mutex = None
  /\ Known /\ req[t].version >= entry["state"]
  /\ mutex' = t
  /\ entry' = [entry EXCEPT !["state"] = req[t].version]
  /\ Goto(t, "sigs")
  /\ UNCHANGED <<client, req, err, tx, withdrawer, submitted, responses, crashed>>

UpdateSigs(t) ==
  /\ pc[t] = "sigs"
  /\ entry' = [entry EXCEPT !["sigs"] = req[t].version]
  /\ Goto(t, "acc")
  /\ UNCHANGED <<client, req, err, tx, mutex, withdrawer, submitted, responses, crashed>>

UpdateAcc(t) ==
  /\ pc[t] = "acc"
  /\ entry' = [entry EXCEPT !["acc"] = req[t].version]
  /\ mutex' = None
  /\ Goto(t, "publish")
  /\ UNCHANGED <<client, req, err, tx, withdrawer, submitted, responses, crashed>>

\* The first request of a channel: StartWatchingLedgerChannel may fail, otherwise
\* a goroutine for watchAndWithdraw is started.
StartWatching(t) ==
  /\ pc[t] = "lock" /\ mutex = None
  /\ ~ Known
  /\ \/ WatchReturns(t, TRUE) /\ UNCHANGED <<entry, withdrawer>>
     \/ /\ entry' = AllFields(req[t].version)
        /\ withdrawer' = "listening"
        /\ Goto(t, "publish") /\ UNCHANGED <<err, crashed>>
  /\ UNCHANGED <<client, req, tx, mutex, submitted, responses>>

\* An error of Publish is logged only.
Publish(t) ==
  /\ pc[t] = "publish"
  /\ \/ req[t].final /\ Goto(t, "read") /\ UNCHANGED <<err, crashed>>
     \/ ~ req[t].final /\ WatchReturns(t, FALSE)
  /\ UNCHANGED <<client, req, tx, mutex, entry, withdrawer, submitted, responses>>

\* The AdjudicatorReq for a final state is read without the lock, field by field
\* and in no fixed order: writers may be at work.
ReadField(t, f) ==
  /\ pc[t] = "read"
  /\ tx[t][f] = None
  /\ tx' = [tx EXCEPT ![t][f] = entry[f]]
  /\ Goto(t, IF \A g \in Fields : g # f => tx[t][g] # None THEN "submit" ELSE "read")
  /\ UNCHANGED <<client, req, err, mutex, entry, withdrawer, submitted, responses, crashed>>

\* adj.Register, from Watch for a final state or from StartDispute. The latter's
\* error is shadowed in handleConn.
Register(t) ==
  /\ pc[t] = "submit"
  /\ submitted' = submitted \cup {[by |-> t, tx |-> tx[t]]}
  /\ \E e \in BOOLEAN :
       IF req[t].final /\ req[t].latest THEN WatchReturns(t, e)
       ELSE Goto(t, "respond") /\ UNCHANGED <<err, crashed>>
  /\ UNCHANGED <<client, req, tx, mutex, entry, withdrawer, responses>>

(***************************************************************************)
(* StartDispute                                                            *)
(***************************************************************************)
\* Variant: the state in the request is not watched first, the entry is registered
\* as it was before.
StartDisputeEarlier(t) ==
  /\ pc[t] = "dispute" /\ mutex = None
  /\ Goto(t, IF Known THEN "snapshot" ELSE "respond")
  /\ UNCHANGED <<client, req, err, tx, mutex, entry, withdrawer, submitted, responses, crashed>>

StartDispute(t) ==
  /\ pc[t] = "dispute" /\ mutex = None
  /\ Goto(t, IF ~ Known THEN "respond" ELSE IF req[t].latest THEN "verify" ELSE "snapshot")
  /\ UNCHANGED <<client, req, err, tx, mutex, entry, withdrawer, submitted, responses, crashed>>

Snapshot(t) ==
  /\ pc[t] = "snapshot" /\ mutex = None
  /\ tx' = [tx EXCEPT ![t] = entry]
  /\ Goto(t, "submit")
  /\ UNCHANGED <<client, req, err, mutex, entry, withdrawer, submitted, responses, crashed>>

(***************************************************************************)
(* watchAndWithdraw                                                        *)
(***************************************************************************)
\* The first adjudicator event ends the loop: at once when the channel is
\* concluded or the stream is closed, else when the event's timeout has elapsed.
\* (What this tells others is left out: the notification of the device, and
\* StopWatching when watchAndWithdraw returns.)
AdjudicatorEvent ==
  /\ withdrawer = "listening"
  /\ withdrawer' \in {"timeout", "elapsed"}
  /\ UNCHANGED <<client, req, pc, err, tx, mutex, entry, submitted, responses, crashed>>

TimeoutElapsed ==
  /\ withdrawer = "timeout"
  /\ withdrawer' = "elapsed"
  /\ UNCHANGED <<client, req, pc, err, tx, mutex, entry, submitted, responses, crashed>>

\* Variant: the request is built without the lock.
WithdrawSnapshotUnlocked ==
  /\ withdrawer = "elapsed"
  /\ tx' = [tx EXCEPT ![0] = entry]
  /\ withdrawer' = "withdraw"
  /\ UNCHANGED <<client, req, pc, err, mutex, entry, submitted, responses, crashed>>

WithdrawSnapshot ==
  /\ withdrawer = "elapsed" /\ mutex = None
  /\ tx' = [tx EXCEPT ![0] = entry]
  /\ withdrawer' = "withdraw"
  /\ UNCHANGED <<client, req, pc, err, mutex, entry, submitted, responses, crashed>>

Withdraw ==
  /\ withdrawer = "withdraw"
  /\ submitted' = submitted \cup {[by |-> 0, tx |-> tx[0]]}
  /\ withdrawer' = "done"
  /\ UNCHANGED <<client, req, pc, err, tx, mutex, entry, responses, crashed>>

-----------------------------------------------------------------------------
Step(t) ==
  \/ IndexPanics(t)
  \/ Fund(t)
  \/ Respond(t)
  \/ VerifyIntegrity(t)
  \/ RefuseOutdated(t)
  \/ UpdateState(t)
  \/ UpdateSigs(t)
  \/ UpdateAcc(t)
  \/ StartWatching(t)
  \/ Publish(t)
  \/ \E f \in Fields : ReadField(t, f)
  \/ Register(t)
  \/ StartDispute(t)
  \/ Snapshot(t)

watchAndWithdraw == AdjudicatorEvent \/ TimeoutElapsed \/ WithdrawSnapshot \/ Withdraw

Next ==
  /\ ~ crashed
  /\ \/ \E r \in Requests : Receive(r)
     \/ \E t \in Goroutines : Step(t)
     \/ watchAndWithdraw

Spec == Init /\ [][Next]_vars

\* Goroutines are scheduled, external calls return and timeouts elapse. Nobody
\* has to send a request, and no adjudicator event has to come.
FairSpec ==
  /\ Spec
  /\ \A t \in Goroutines : WF_vars(~ crashed /\ Step(t))
  /\ WF_vars(~ crashed /\ (TimeoutElapsed \/ WithdrawSnapshot \/ Withdraw))
-----------------------------------------------------------------------------
(***************************************************************************)
(* Properties                                                              *)
(***************************************************************************)
\* Everything submitted to the adjudicator has the signatures and the presigned
\* account of its state, although Watch reads the entry of a final state without
\* the lock: nothing older is written to it any more, and nothing newer exists.
SubmittedMatches == \A s \in submitted : \E v \in Versions : s.tx = AllFields(v)

\* A state the device was told is watched stays covered: what the service would
\* register or withdraw is that state or a newer one, in whatever order the
\* goroutines of the requests run.
AcknowledgedIsCovered ==
  \A a \in responses : a.success /\ req[a.to].kind = "Watch" =>
    entry["state"] >= req[a.to].version

\* A dispute registers the state it was requested for or a newer one.
DisputeCovers ==
  \A s \in submitted : s.by # 0 /\ req[s.by].latest => s.tx["state"] >= req[s.by].version

\* The service goes down only when an index in a request is out of range, or in
\* StartDispute when its state is not signed, when the final state could not be
\* registered, or when a newer state was watched before it ran.
PanicsForAReason ==
  crashed => \E t \in 1..Len(req) :
    \/ req[t].quality = "misindexed"
    \/ /\ req[t].kind = "ForceClose" /\ req[t].latest
       /\ req[t].quality = "unsigned" \/ req[t].final \/ entry["state"] > req[t].version

\* Every request that can be parsed is answered, unless the service crashes. (All
\* requests together: their number is bounded, and an answer is never taken back.)
RequestsAnswered ==
  []<>( \/ crashed
        \/ \A t \in 1..Len(req) :
             req[t].quality = "unparsable" \/ \E a \in responses : a.to = t )

\* After the first adjudicator event and its timeout the service withdraws.
Withdraws == withdrawer = "timeout" ~> crashed \/ withdrawer = "done"
=============================================================================
