--------------------------- MODULE WatcherProofs ----------------------------
(***************************************************************************)
(* The safety properties of WatcherService, for any number of requests and *)
(* versions.  The entry only moves to newer versions, and its fields       *)
(* belong together whenever the lock is free.  The one reader without the  *)
(* lock has seen the final state written, after which every write writes   *)
(* what is there already.                                                  *)
(***************************************************************************)
EXTENDS WatcherService, TLAPS

Labels == {"idle", "parse", "fund", "respond", "verify", "lock", "sigs", "acc", "publish", "read",
           "submit", "dispute", "snapshot", "done"}

\* Watch is running, and has not begun to build an AdjudicatorReq.
InWatch == {"verify", "lock", "sigs", "acc", "publish"}

ServiceTypes ==
  /\ client \in [version: Versions \cup {None}, final: BOOLEAN]
  /\ req \in Seq(Requests) /\ Len(req) <= MaxRequests
  /\ pc \in [Goroutines -> Labels]
  /\ err \in [Goroutines -> BOOLEAN]
  /\ tx \in [Goroutines \cup {0} -> [Fields -> Versions \cup {None}]]
  /\ mutex \in Goroutines \cup {None}
  /\ entry \in [Fields -> Versions \cup {None}]
  /\ crashed \in BOOLEAN

\* The device sends versions in order and nothing after a final state.
OrderInv ==
  \A t \in 1..Len(req) :
    /\ req[t].version <= client.version
    /\ req[t].final => client.final /\ req[t].version = client.version
    /\ req[t].kind = "Watch" => req[t].latest
    /\ req[t].kind = "Fund" => ~ req[t].latest
    /\ req[t].quality = "unparsable" => req[t].kind = "Fund"
    /\ req[t].quality = "misindexed" => req[t].kind = "Watch"

\* What goroutine t is doing fits its request.
Place(t) ==
  /\ pc[t] = "idle" <=> t \notin 1..Len(req)
  /\ mutex = t <=> pc[t] \in {"sigs", "acc"}
  /\ pc[t] \in InWatch \cup {"read"} => req[t].latest
  /\ pc[t] = "read" => req[t].final
  /\ pc[t] = "submit" /\ req[t].kind = "Watch" => req[t].final
  /\ pc[t] \in {"dispute", "snapshot"} => req[t].kind = "ForceClose"
  /\ pc[t] = "fund" => req[t].kind = "Fund"
  /\ pc[t] = "parse" => req[t].quality = "misindexed"
  /\ pc[t] \in InWatch /\ req[t].kind = "ForceClose" => Known
  /\ pc[t] = "snapshot" => Known

\* What t has written is there, or something newer; a final state stays as it is.
Written(t) ==
  /\ pc[t] \in {"sigs", "acc"} => entry["state"] = req[t].version
  /\ pc[t] = "acc" => entry["sigs"] = req[t].version
  /\ \/ pc[t] \in {"publish", "read"}
     \/ pc[t] = "submit" /\ req[t].kind = "Watch"
     \/ pc[t] = "respond" /\ req[t].kind = "Watch" /\ ~ err[t]
     \/ pc[t] = "snapshot" /\ req[t].latest
     => entry["state"] >= req[t].version
  /\ pc[t] \in {"publish", "read"} /\ req[t].final => entry = AllFields(req[t].version)

\* The AdjudicatorReq of t
Built(t) ==
  /\ pc[t] \in InWatch \cup {"idle", "dispute"} => tx[t] = NoTx
  /\ pc[t] = "read" => \A f \in Fields : tx[t][f] \in {None, req[t].version}
  /\ pc[t] = "submit" =>
       \E v \in Versions : tx[t] = AllFields(v) /\ (req[t].latest => v >= req[t].version)

GoroutineInv(t) == Place(t) /\ Written(t) /\ Built(t)

\* The fields of the entry belong together, unless they are being replaced.
EntryInv ==
  /\ entry["state"] = None => entry = NoTx
  /\ mutex = None => entry = AllFields(entry["state"])

WithdrawerInv ==
  /\ withdrawer # "none" => Known
  /\ withdrawer = "withdraw" => \E v \in Versions : tx[0] = AllFields(v)

\* What has left the service
SubmittedInv ==
  \A s \in submitted :
    /\ \E v \in Versions : s.tx = AllFields(v)
    /\ s.by = 0 \/ s.by \in 1..Len(req)
    /\ s.by # 0 /\ req[s.by].latest => s.tx["state"] >= req[s.by].version

ResponseInv ==
  \A a \in responses :
    /\ a.to \in 1..Len(req)
    /\ a.success /\ req[a.to].kind = "Watch" => entry["state"] >= req[a.to].version

ServiceInv ==
  /\ ServiceTypes /\ OrderInv /\ (\A t \in Goroutines : GoroutineInv(t))
  /\ EntryInv /\ WithdrawerInv /\ SubmittedInv /\ ResponseInv /\ PanicsForAReason

-----------------------------------------------------------------------------
\* Goroutines are numbered from 1; None and 0 are none.
LEMMA Numbers == \A t \in Goroutines : t \in Int /\ t > 0 /\ t # None /\ t # 0
BY ServiceAssumption DEF Goroutines, None

\* A goroutine that was started has a request.
LEMMA RequestFields ==
  ASSUME ServiceTypes, NEW t \in 1..Len(req)
  PROVE  /\ t \in Goroutines /\ req[t] \in Requests
         /\ req[t].version \in Versions /\ req[t].version \in Int /\ req[t].version >= 0
         /\ req[t].final \in BOOLEAN /\ req[t].latest \in BOOLEAN
         /\ req[t].kind \in {"Watch", "ForceClose", "Fund"}
         /\ req[t].quality \in {"good", "unsigned", "unparsable", "misindexed"}
<1>1. t \in Goroutines /\ req[t] \in Requests
  BY ServiceAssumption DEF ServiceTypes, Goroutines
<1>2. \A r \in Requests : /\ r.version \in Versions /\ r.final \in BOOLEAN /\ r.latest \in BOOLEAN
                          /\ r.kind \in {"Watch", "ForceClose", "Fund"}
                          /\ r.quality \in {"good", "unsigned", "unparsable", "misindexed"}
  BY DEF Requests
<1>3. \A v \in Versions : v \in Int /\ v >= 0
  BY ServiceAssumption DEF Versions
<1>. QED
  BY <1>1, <1>2, <1>3

\* The version of the entry is a number; it has one when the channel is known.
LEMMA EntryVersion ==
  ASSUME ServiceTypes, EntryInv
  PROVE  /\ entry["state"] \in Int /\ entry["state"] >= -1
         /\ Known <=> entry["state"] # None
         /\ Known <=> entry["state"] \in Versions
<1>1. entry["state"] \in Versions \cup {None}
  BY DEF ServiceTypes, Fields
<1>2. NoTx["state"] = None /\ None \notin Versions
  BY ServiceAssumption DEF NoTx, Fields, Versions, None
<1>. QED
  BY <1>1, <1>2, ServiceAssumption DEF EntryInv, Known, Versions, None

\* A step of goroutine t leaves the others as they are, if it does not take the
\* lock from them, makes the entry no older, and does not touch an entry that
\* another one is replacing or reading.
LEMMA OthersKeep ==
  ASSUME ServiceInv, ServiceTypes', EntryInv', NEW t,
         \A u \in Goroutines \ {t} :
           /\ pc'[u] = pc[u] /\ err'[u] = err[u] /\ tx'[u] = tx[u]
           /\ mutex' = u <=> mutex = u
           /\ u \in 1..Len(req') <=> u \in 1..Len(req)
           /\ u \in 1..Len(req) => req'[u] = req[u]
           /\ pc[u] \in {"sigs", "acc"} \/ (pc[u] \in {"publish", "read"} /\ req[u].final) =>
                entry' = entry,
         entry'["state"] >= entry["state"]
  PROVE  \A u \in Goroutines \ {t} : GoroutineInv(u)'
<1>. TAKE u \in Goroutines \ {t}
<1>. USE DEF ServiceInv, GoroutineInv
<1>1. CASE u \notin 1..Len(req)
  <2>1. pc[u] = "idle" /\ pc'[u] = "idle" /\ u \notin 1..Len(req')
    BY <1>1 DEF Place
  <2>. QED
    BY <2>1 DEF Place, Written, Built, InWatch
<1>2. CASE u \in 1..Len(req)
  <2>1. req'[u] = req[u] /\ u \in 1..Len(req') /\ req[u].version \in Int
    BY <1>2, RequestFields
  <2>2. entry["state"] \in Int /\ entry'["state"] \in Int /\ entry'["state"] >= entry["state"]
    BY EntryVersion DEF ServiceTypes, Fields, Versions, None
  <2>3. Known => Known'
    BY <2>2, EntryVersion DEF ServiceTypes, EntryInv, Known, NoTx, Fields, Versions, None
  <2>4. Place(u)'
    BY <1>2, <2>1, <2>3 DEF Place
  <2>5. Written(u)'
    BY <1>2, <2>1, <2>2 DEF Written
  <2>6. Built(u)'
    BY <1>2, <2>1 DEF Built
  <2>. QED
    BY <2>4, <2>5, <2>6
<1>. QED
  BY <1>1, <1>2

\* Steps of a goroutine that leave the entry and the lock alone
LEMMA LocalStep ==
  ASSUME ServiceInv, ServiceTypes', NEW t \in Goroutines,
         UNCHANGED <<client, req, mutex, entry, withdrawer>>,
         \A u \in Goroutines \ {t} : pc'[u] = pc[u] /\ err'[u] = err[u] /\ tx'[u] = tx[u],
         tx'[0] = tx[0],
         GoroutineInv(t)', SubmittedInv', ResponseInv', PanicsForAReason'
  PROVE  ServiceInv'
<1>1. OrderInv' /\ EntryInv' /\ WithdrawerInv'
  BY DEF ServiceInv, OrderInv, EntryInv, WithdrawerInv, Known
<1>2. entry'["state"] >= entry["state"]
  BY EntryVersion DEF ServiceInv
<1>3. \A u \in Goroutines \ {t} : GoroutineInv(u)'
  BY <1>1, <1>2, OthersKeep
<1>. QED
  BY <1>1, <1>3 DEF ServiceInv

\* What every step of a started goroutine can use
LEMMA Started ==
  ASSUME ServiceInv, NEW t \in Goroutines, pc[t] # "idle"
  PROVE  /\ t \in 1..Len(req) /\ t # None /\ t # 0 /\ GoroutineInv(t)
         /\ req[t].version \in Versions /\ req[t].version \in Int /\ req[t].version >= 0
         /\ req[t].final \in BOOLEAN /\ req[t].latest \in BOOLEAN
         /\ req[t].kind \in {"Watch", "ForceClose", "Fund"}
         /\ entry["state"] \in Int
<1>1. t \in 1..Len(req)
  BY DEF ServiceInv, GoroutineInv, Place
<1>. QED
  BY <1>1, Numbers, RequestFields, EntryVersion DEF ServiceInv

LEMMA FundKeeps ==
  ASSUME ServiceInv, NEW t \in Goroutines, Fund(t)
  PROVE  ServiceInv'
<1>inv. /\ ServiceTypes /\ OrderInv /\ EntryInv /\ WithdrawerInv /\ SubmittedInv /\ ResponseInv
        /\ PanicsForAReason
  BY DEF ServiceInv
<1>. USE <1>inv
<1>1. pc[t] = "fund" /\ pc' = [pc EXCEPT ![t] = "respond"]
      /\ UNCHANGED <<client, req, err, tx, mutex, entry, withdrawer, submitted, responses, crashed>>
  BY DEF Fund, Goto
<1>2. ServiceTypes' /\ pc'[t] = "respond"
  BY <1>1 DEF ServiceTypes, Labels
<1>3. GoroutineInv(t)'
  BY <1>1, <1>2, Started DEF GoroutineInv, Place, Written, Built, InWatch, Known
<1>4. SubmittedInv' /\ ResponseInv' /\ PanicsForAReason'
  BY <1>1 DEF SubmittedInv, ResponseInv, PanicsForAReason
<1>. QED
  BY <1>1, <1>2, <1>3, <1>4, LocalStep

\* A response of success to a WatchRequest follows Watch without an error.
LEMMA RespondKeeps ==
  ASSUME ServiceInv, NEW t \in Goroutines, Respond(t)
  PROVE  ServiceInv'
<1>inv. /\ ServiceTypes /\ OrderInv /\ EntryInv /\ WithdrawerInv /\ SubmittedInv /\ ResponseInv
        /\ PanicsForAReason
  BY DEF ServiceInv
<1>. USE <1>inv
<1>. DEFINE a == [to |-> t, success |-> req[t].kind = "Watch" => ~ err[t]]
<1>1. pc[t] = "respond" /\ pc' = [pc EXCEPT ![t] = "done"] /\ responses' = responses \cup {a}
      /\ UNCHANGED <<client, req, err, tx, mutex, entry, withdrawer, submitted, crashed>>
  BY DEF Respond, Goto
<1>2. ServiceTypes' /\ pc'[t] = "done"
  BY <1>1 DEF ServiceTypes, Labels
<1>3. GoroutineInv(t)'
  BY <1>1, <1>2, Started DEF GoroutineInv, Place, Written, Built, InWatch, Known
<1>4. ResponseInv'
  <2>1. t \in 1..Len(req) /\ (req[t].kind = "Watch" /\ ~ err[t] => entry["state"] >= req[t].version)
    BY <1>1, Started DEF GoroutineInv, Written
  <2>2. a.to = t /\ (a.success <=> (req[t].kind = "Watch" => ~ err[t]))
    OBVIOUS
  <2>. HIDE DEF a
  <2>. QED
    BY <1>1, <2>1, <2>2 DEF ResponseInv
<1>5. SubmittedInv' /\ PanicsForAReason'
  BY <1>1 DEF SubmittedInv, PanicsForAReason
<1>. QED
  BY <1>1, <1>2, <1>3, <1>4, <1>5, LocalStep

\* A panic while a request is parsed has the first reason.
LEMMA IndexPanicsKeeps ==
  ASSUME ServiceInv, NEW t \in Goroutines, IndexPanics(t)
  PROVE  ServiceInv'
<1>inv. ServiceTypes /\ SubmittedInv /\ ResponseInv
  BY DEF ServiceInv
<1>. USE <1>inv
<1>1. /\ pc[t] = "parse" /\ crashed' = TRUE
      /\ UNCHANGED <<client, req, pc, err, tx, mutex, entry, withdrawer, submitted, responses>>
  BY DEF IndexPanics
<1>2. GoroutineInv(t) /\ t \in 1..Len(req) /\ req[t].quality = "misindexed"
  BY <1>1, Started DEF GoroutineInv, Place
<1>3. ServiceTypes' /\ SubmittedInv' /\ ResponseInv'
  BY <1>1 DEF ServiceTypes, SubmittedInv, ResponseInv
<1>4. GoroutineInv(t)'
  BY <1>1, <1>2 DEF GoroutineInv, Place, Written, Built, Known
<1>5. PanicsForAReason'
  BY <1>1, <1>2 DEF PanicsForAReason
<1>. QED
  BY <1>1, <1>3, <1>4, <1>5, LocalStep

\* The crash of a dispute that Watch refused has one of the other three reasons.
LEMMA WatchFails ==
  ASSUME ServiceInv, NEW t \in Goroutines, pc[t] \in InWatch \cup {"read", "submit"}, req[t].latest,
         WatchReturns(t, TRUE), UNCHANGED <<req, entry>>,
         req[t].kind = "ForceClose" =>
           req[t].quality = "unsigned" \/ req[t].final \/ entry["state"] > req[t].version
  PROVE  PanicsForAReason'
<1>1. t \in 1..Len(req)
  BY Started DEF InWatch
<1>2. crashed' => req[t].kind = "ForceClose"
  BY DEF WatchReturns
<1>. QED
  BY <1>1, <1>2 DEF PanicsForAReason

\* Watch returns an error before it has written anything.
LEMMA RefusalKeeps ==
  ASSUME ServiceInv, NEW t \in Goroutines, pc[t] \in {"verify", "lock"}, WatchReturns(t, TRUE),
         UNCHANGED <<client, req, tx, mutex, entry, withdrawer, submitted, responses>>,
         req[t].kind = "ForceClose" => req[t].quality = "unsigned" \/ entry["state"] > req[t].version
  PROVE  ServiceInv'
<1>inv. /\ ServiceTypes /\ OrderInv /\ EntryInv /\ WithdrawerInv /\ SubmittedInv /\ ResponseInv
        /\ PanicsForAReason
  BY DEF ServiceInv
<1>. USE <1>inv
<1>1. pc' = [pc EXCEPT ![t] = "respond"] /\ err' = [err EXCEPT ![t] = TRUE] /\ crashed' \in BOOLEAN
  BY DEF WatchReturns, Goto
<1>2. ServiceTypes' /\ pc'[t] = "respond" /\ err'[t]
  BY <1>1 DEF ServiceTypes, Labels
<1>3. GoroutineInv(t)'
  BY <1>1, <1>2, Started DEF GoroutineInv, Place, Written, Built, InWatch, Known
<1>4. SubmittedInv' /\ ResponseInv'
  BY DEF SubmittedInv, ResponseInv
<1>5. PanicsForAReason'
  BY Started, WatchFails DEF GoroutineInv, Place, InWatch
<1>6. \A u \in Goroutines \ {t} : pc'[u] = pc[u] /\ err'[u] = err[u]
  BY <1>1 DEF ServiceTypes
<1>. QED
  BY <1>2, <1>3, <1>4, <1>5, <1>6, LocalStep

LEMMA VerifyIntegrityKeeps ==
  ASSUME ServiceInv, NEW t \in Goroutines, VerifyIntegrity(t)
  PROVE  ServiceInv'
<1>inv. /\ ServiceTypes /\ OrderInv /\ EntryInv /\ WithdrawerInv /\ SubmittedInv /\ ResponseInv
        /\ PanicsForAReason
  BY DEF ServiceInv
<1>. USE <1>inv
<1>1. CASE WatchReturns(t, TRUE) /\ req[t].quality # "good"
  <2>0. pc[t] = "verify" /\ UNCHANGED <<client, req, tx, mutex, entry, withdrawer, submitted, responses>>
    BY DEF VerifyIntegrity
  <2>1. t \in 1..Len(req) /\ req[t].quality \in {"good", "unsigned", "unparsable", "misindexed"}
    BY <2>0, Started, RequestFields
  <2>2. req[t].kind = "ForceClose" => req[t].quality = "unsigned"
    BY <1>1, <2>1 DEF OrderInv
  <2>. QED
    BY <1>1, <2>0, <2>2, RefusalKeeps
<1>2. CASE Goto(t, "lock") /\ UNCHANGED <<err, crashed>>
  <2>1. pc[t] = "verify" /\ pc' = [pc EXCEPT ![t] = "lock"]
        /\ UNCHANGED <<client, req, err, tx, mutex, entry, withdrawer, submitted, responses, crashed>>
    BY <1>2 DEF VerifyIntegrity, Goto
  <2>2. ServiceTypes' /\ pc'[t] = "lock"
    BY <2>1 DEF ServiceTypes, Labels
  <2>3. GoroutineInv(t)'
    BY <2>1, <2>2, Started DEF GoroutineInv, Place, Written, Built, InWatch, Known
  <2>4. SubmittedInv' /\ ResponseInv' /\ PanicsForAReason'
    BY <2>1 DEF SubmittedInv, ResponseInv, PanicsForAReason
  <2>. QED
    BY <2>1, <2>2, <2>3, <2>4, LocalStep
<1>. QED
  BY <1>1, <1>2 DEF VerifyIntegrity

LEMMA RefuseOutdatedKeeps ==
  ASSUME ServiceInv, NEW t \in Goroutines, RefuseOutdated(t)
  PROVE  ServiceInv'
<1>1. pc[t] = "lock" /\ entry["state"] > req[t].version
  BY Started DEF RefuseOutdated
<1>. QED
  BY <1>1, RefusalKeeps DEF RefuseOutdated

\* A step that replaces part of the entry, or makes it, by the version of t's
\* request. Nobody else has written a final state of another version, because
\* the device sends no other one.
LEMMA WriteStep ==
  ASSUME ServiceInv, ServiceTypes', NEW t \in Goroutines, pc[t] \in {"lock", "sigs", "acc"},
         UNCHANGED <<client, req, err, tx, submitted, responses, crashed>>,
         \A u \in Goroutines \ {t} : pc'[u] = pc[u],
         mutex \in {t, None}, mutex' \in {t, None},
         entry'["state"] = req[t].version, req[t].version >= entry["state"],
         \A f \in Fields : entry'[f] \in {entry[f], req[t].version},
         EntryInv', GoroutineInv(t)', WithdrawerInv'
  PROVE  ServiceInv'
<1>inv. /\ ServiceTypes /\ OrderInv /\ EntryInv /\ WithdrawerInv /\ SubmittedInv /\ ResponseInv
        /\ PanicsForAReason
  BY DEF ServiceInv
<1>. USE <1>inv
<1>1. /\ t \in 1..Len(req) /\ req[t].version \in Int /\ entry["state"] \in Int
      /\ entry'["state"] >= entry["state"]
  BY Started
<1>2. ASSUME NEW u \in Goroutines \ {t}
      PROVE  /\ mutex' = u <=> mutex = u
             /\ pc[u] \in {"sigs", "acc"} \/ (pc[u] \in {"publish", "read"} /\ req[u].final) =>
                  entry' = entry
  <2>1. mutex' # u /\ mutex # u /\ pc[u] \notin {"sigs", "acc"}
    BY Numbers DEF ServiceInv, GoroutineInv, Place
  <2>2. CASE pc[u] \in {"publish", "read"} /\ req[u].final
    <3>1. u \in 1..Len(req) /\ entry = AllFields(req[u].version) /\ req[u].version \in Int
      BY <2>2, Started DEF GoroutineInv, Written
    <3>2. entry["state"] = req[u].version
      BY <3>1 DEF AllFields, Fields
    <3>3. req[t].version = req[u].version
      BY <1>1, <2>2, <3>1, <3>2 DEF OrderInv
    <3>4. \A f \in Fields : entry'[f] = entry[f]
      BY <3>1, <3>3 DEF AllFields
    <3>5. entry \in [Fields -> Versions \cup {None}] /\ entry' \in [Fields -> Versions \cup {None}]
      BY DEF ServiceTypes
    <3>6. entry' = entry
      BY <3>4, <3>5
    <3>. QED
      BY <2>1, <3>6
  <2>. QED
    BY <2>1, <2>2
<1>3. \A u \in Goroutines \ {t} : GoroutineInv(u)'
  BY <1>1, <1>2, OthersKeep
<1>4. OrderInv' /\ SubmittedInv'
  BY DEF OrderInv, SubmittedInv
<1>5. ResponseInv'
  <2>1. \A u \in 1..Len(req) : req[u].version \in Int
    BY RequestFields
  <2>. QED
    BY <1>1, <2>1 DEF ResponseInv
<1>6. PanicsForAReason'
  <2>1. \A u \in 1..Len(req) : req[u].version \in Int
    BY RequestFields
  <2>. QED
    BY <1>1, <2>1 DEF PanicsForAReason
<1>. QED
  BY <1>3, <1>4, <1>5, <1>6 DEF ServiceInv

\* The withdrawing goroutine only needs a channel that is known.
LEMMA StillWithdrawing ==
  ASSUME ServiceInv, ServiceTypes', EntryInv', withdrawer' = withdrawer, tx' = tx,
         entry'["state"] # None
  PROVE  WithdrawerInv'
<1>1. Known'
  BY DEF Known, NoTx, Fields
<1>. QED
  BY <1>1 DEF ServiceInv, WithdrawerInv

LEMMA UpdateStateKeeps ==
  ASSUME ServiceInv, NEW t \in Goroutines, UpdateState(t)
  PROVE  ServiceInv'
<1>inv. /\ ServiceTypes /\ OrderInv /\ EntryInv /\ WithdrawerInv /\ SubmittedInv /\ ResponseInv
        /\ PanicsForAReason
  BY DEF ServiceInv
<1>. USE <1>inv
<1>1. /\ pc[t] = "lock" /\ mutex = None /\ Known /\ req[t].version >= entry["state"]
      /\ mutex' = t /\ entry' = [entry EXCEPT !["state"] = req[t].version]
      /\ pc' = [pc EXCEPT ![t] = "sigs"]
      /\ UNCHANGED <<client, req, err, tx, withdrawer, submitted, responses, crashed>>
  BY DEF UpdateState, Goto
<1>2. /\ t \in 1..Len(req) /\ req[t].version \in Versions /\ req[t].version # None /\ t # None
      /\ GoroutineInv(t)
  BY <1>1, Started DEF None
<1>3. ServiceTypes' /\ pc'[t] = "sigs" /\ entry'["state"] = req[t].version
  BY <1>1, <1>2 DEF ServiceTypes, Labels, Fields
<1>4. EntryInv' /\ Known'
  BY <1>1, <1>2, <1>3 DEF EntryInv, Known, NoTx, Fields
<1>5. GoroutineInv(t)'
  BY <1>1, <1>2, <1>3, <1>4 DEF GoroutineInv, Place, Written, Built, InWatch
<1>6. WithdrawerInv'
  BY <1>1, <1>2, <1>3, <1>4, StillWithdrawing
<1>7. /\ \A u \in Goroutines \ {t} : pc'[u] = pc[u]
      /\ \A f \in Fields : entry'[f] \in {entry[f], req[t].version}
  BY <1>1 DEF ServiceTypes
<1>. QED
  BY <1>1, <1>3, <1>4, <1>5, <1>6, <1>7, WriteStep

LEMMA UpdateSigsKeeps ==
  ASSUME ServiceInv, NEW t \in Goroutines, UpdateSigs(t)
  PROVE  ServiceInv'
<1>inv. /\ ServiceTypes /\ OrderInv /\ EntryInv /\ WithdrawerInv /\ SubmittedInv /\ ResponseInv
        /\ PanicsForAReason
  BY DEF ServiceInv
<1>. USE <1>inv
<1>1. /\ pc[t] = "sigs" /\ entry' = [entry EXCEPT !["sigs"] = req[t].version]
      /\ pc' = [pc EXCEPT ![t] = "acc"]
      /\ UNCHANGED <<client, req, err, tx, mutex, withdrawer, submitted, responses, crashed>>
  BY DEF UpdateSigs, Goto
<1>2. /\ t \in 1..Len(req) /\ req[t].version \in Versions /\ req[t].version # None /\ t # None
      /\ GoroutineInv(t) /\ mutex = t /\ entry["state"] = req[t].version
      /\ req[t].version >= entry["state"]
  <2>1. /\ t \in 1..Len(req) /\ req[t].version \in Versions /\ req[t].version \in Int
        /\ req[t].version >= 0 /\ t # None /\ GoroutineInv(t)
    BY <1>1, Started
  <2>. QED
    BY <1>1, <2>1 DEF None, GoroutineInv, Place, Written
<1>3. /\ ServiceTypes' /\ pc'[t] = "acc"
      /\ entry'["state"] = req[t].version /\ entry'["sigs"] = req[t].version
  BY <1>1, <1>2 DEF ServiceTypes, Labels, Fields
<1>4. EntryInv' /\ Known'
  BY <1>1, <1>2, <1>3 DEF EntryInv, Known, NoTx, Fields
<1>5. GoroutineInv(t)'
  BY <1>1, <1>2, <1>3, <1>4 DEF GoroutineInv, Place, Written, Built, InWatch
<1>6. WithdrawerInv'
  BY <1>1, <1>2, <1>3, <1>4, StillWithdrawing
<1>7. /\ \A u \in Goroutines \ {t} : pc'[u] = pc[u]
      /\ \A f \in Fields : entry'[f] \in {entry[f], req[t].version}
  BY <1>1 DEF ServiceTypes
<1>. QED
  BY <1>1, <1>2, <1>3, <1>4, <1>5, <1>6, <1>7, WriteStep

\* With the last field the entry belongs together again, before the lock is free.
LEMMA UpdateAccKeeps ==
  ASSUME ServiceInv, NEW t \in Goroutines, UpdateAcc(t)
  PROVE  ServiceInv'
<1>inv. /\ ServiceTypes /\ OrderInv /\ EntryInv /\ WithdrawerInv /\ SubmittedInv /\ ResponseInv
        /\ PanicsForAReason
  BY DEF ServiceInv
<1>. USE <1>inv
<1>1. /\ pc[t] = "acc" /\ entry' = [entry EXCEPT !["acc"] = req[t].version]
      /\ pc' = [pc EXCEPT ![t] = "publish"] /\ mutex' = None
      /\ UNCHANGED <<client, req, err, tx, withdrawer, submitted, responses, crashed>>
  BY DEF UpdateAcc, Goto
<1>2. /\ t \in 1..Len(req) /\ req[t].version \in Versions /\ req[t].version # None /\ t # None
      /\ GoroutineInv(t) /\ mutex = t
      /\ entry["state"] = req[t].version /\ entry["sigs"] = req[t].version
      /\ req[t].version >= entry["state"]
  <2>1. /\ t \in 1..Len(req) /\ req[t].version \in Versions /\ req[t].version \in Int
        /\ req[t].version >= 0 /\ t # None /\ GoroutineInv(t)
    BY <1>1, Started
  <2>. QED
    BY <1>1, <2>1 DEF None, GoroutineInv, Place, Written
<1>3. ServiceTypes' /\ pc'[t] = "publish" /\ entry' = AllFields(req[t].version)
  BY <1>1, <1>2 DEF ServiceTypes, Labels, Fields, AllFields
<1>4. entry'["state"] = req[t].version
  BY <1>3 DEF AllFields, Fields
<1>5. EntryInv' /\ Known'
  BY <1>2, <1>3, <1>4 DEF EntryInv, Known, NoTx, Fields
<1>6. GoroutineInv(t)'
  BY <1>1, <1>2, <1>3, <1>4, <1>5 DEF GoroutineInv, Place, Written, Built, InWatch
<1>7. WithdrawerInv'
  BY <1>1, <1>2, <1>3, <1>4, <1>5, StillWithdrawing
<1>8. /\ \A u \in Goroutines \ {t} : pc'[u] = pc[u]
      /\ \A f \in Fields : entry'[f] \in {entry[f], req[t].version}
  BY <1>1 DEF ServiceTypes
<1>. QED
  BY <1>1, <1>2, <1>3, <1>4, <1>5, <1>6, <1>7, <1>8, WriteStep

LEMMA StartWatchingKeeps ==
  ASSUME ServiceInv, NEW t \in Goroutines, StartWatching(t)
  PROVE  ServiceInv'
<1>inv. /\ ServiceTypes /\ OrderInv /\ EntryInv /\ WithdrawerInv /\ SubmittedInv /\ ResponseInv
        /\ PanicsForAReason
  BY DEF ServiceInv
<1>. USE <1>inv
<1>1. /\ pc[t] = "lock" /\ mutex = None /\ ~ Known
      /\ UNCHANGED <<client, req, tx, mutex, submitted, responses>>
  BY DEF StartWatching
<1>2. /\ t \in 1..Len(req) /\ req[t].version \in Versions /\ req[t].version # None /\ t # None
      /\ req[t].version \in Int /\ req[t].version >= 0 /\ GoroutineInv(t)
      /\ req[t].kind # "ForceClose"
  BY <1>1, Started DEF None, GoroutineInv, Place, InWatch
<1>3. CASE WatchReturns(t, TRUE) /\ UNCHANGED <<entry, withdrawer>>
  BY <1>1, <1>2, <1>3, RefusalKeeps
<1>4. CASE /\ entry' = AllFields(req[t].version) /\ withdrawer' = "listening"
           /\ Goto(t, "publish") /\ UNCHANGED <<err, crashed>>
  <2>1. /\ ServiceTypes' /\ pc' = [pc EXCEPT ![t] = "publish"] /\ pc'[t] = "publish"
        /\ entry'["state"] = req[t].version
    BY <1>1, <1>2, <1>4 DEF ServiceTypes, Labels, Fields, AllFields, Goto
  <2>2. EntryInv' /\ Known'
    BY <1>2, <1>4, <2>1 DEF EntryInv, Known, NoTx, Fields
  <2>3. GoroutineInv(t)'
    BY <1>1, <1>2, <1>4, <2>1, <2>2 DEF GoroutineInv, Place, Written, Built, InWatch
  <2>4. WithdrawerInv'
    BY <1>4, <2>2 DEF WithdrawerInv
  <2>5. req[t].version >= entry["state"]
    BY <1>1, <1>2, EntryVersion DEF None
  <2>6. /\ \A u \in Goroutines \ {t} : pc'[u] = pc[u]
        /\ \A f \in Fields : entry'[f] \in {entry[f], req[t].version}
    BY <1>4, <2>1 DEF ServiceTypes, AllFields
  <2>. QED
    BY <1>1, <1>4, <2>1, <2>2, <2>3, <2>4, <2>5, <2>6, WriteStep
<1>. QED
  BY <1>3, <1>4 DEF StartWatching

LEMMA PublishKeeps ==
  ASSUME ServiceInv, NEW t \in Goroutines, Publish(t)
  PROVE  ServiceInv'
<1>inv. /\ ServiceTypes /\ OrderInv /\ EntryInv /\ WithdrawerInv /\ SubmittedInv /\ ResponseInv
        /\ PanicsForAReason
  BY DEF ServiceInv
<1>. USE <1>inv
<1>1. /\ pc[t] = "publish"
      /\ UNCHANGED <<client, req, tx, mutex, entry, withdrawer, submitted, responses>>
  BY DEF Publish
<1>2. GoroutineInv(t) /\ req[t].latest /\ t # None /\ t \in 1..Len(req)
  BY <1>1, Started DEF GoroutineInv, Place, InWatch
<1>3. /\ Known /\ entry["state"] \in Int
      /\ req[t].kind \in {"Watch", "ForceClose", "Fund"} /\ req[t].kind # "Fund"
  <2>1. entry["state"] # None
    BY <1>1, Started, EntryVersion DEF GoroutineInv, Written, None
  <2>. QED
    BY <1>1, <1>2, <2>1, Started, EntryVersion DEF OrderInv
<1>4. /\ \A u \in Goroutines \ {t} : pc'[u] = pc[u] /\ err'[u] = err[u]
      /\ ServiceTypes'
      /\ crashed' = FALSE \/ crashed' = crashed
      /\ \/ pc'[t] = "read" /\ req[t].final
         \/ pc'[t] = "respond" /\ ~ err'[t]
         \/ pc'[t] = "snapshot" /\ req[t].kind = "ForceClose"
  <2>1. CASE req[t].final /\ Goto(t, "read") /\ UNCHANGED <<err, crashed>>
    BY <1>1, <2>1 DEF ServiceTypes, Labels, Goto
  <2>2. CASE ~ req[t].final /\ WatchReturns(t, FALSE)
    <3>1. \/ pc' = [pc EXCEPT ![t] = "respond"]
          \/ pc' = [pc EXCEPT ![t] = "snapshot"] /\ req[t].kind = "ForceClose"
      BY <1>3, <2>2 DEF WatchReturns, Goto
    <3>2. err' = [err EXCEPT ![t] = FALSE] /\ crashed' = FALSE
      BY <2>2 DEF WatchReturns
    <3>. QED
      BY <1>1, <3>1, <3>2 DEF ServiceTypes, Labels
  <2>. QED
    BY <2>1, <2>2 DEF Publish
<1>5. GoroutineInv(t)'
  <2>1. tx[t] = NoTx /\ \A f \in Fields : NoTx[f] = None
    BY <1>1, <1>2 DEF GoroutineInv, Built, InWatch, NoTx
  <2>2. Place(t)'
    BY <1>1, <1>2, <1>3, <1>4 DEF GoroutineInv, Place, InWatch, Known
  <2>3. Written(t)'
    BY <1>1, <1>2, <1>4 DEF GoroutineInv, Written
  <2>4. Built(t)'
    BY <1>1, <1>2, <1>4, <2>1 DEF Built, InWatch
  <2>. QED
    BY <2>2, <2>3, <2>4 DEF GoroutineInv
<1>6. SubmittedInv' /\ ResponseInv'
  BY <1>1 DEF SubmittedInv, ResponseInv
<1>7. PanicsForAReason'
  BY <1>1, <1>4 DEF PanicsForAReason
<1>. QED
  BY <1>1, <1>4, <1>5, <1>6, <1>7, LocalStep

\* Every field that is read without the lock is of the final version.
LEMMA ReadFieldKeeps ==
  ASSUME ServiceInv, NEW t \in Goroutines, NEW f \in Fields, ReadField(t, f)
  PROVE  ServiceInv'
<1>inv. /\ ServiceTypes /\ OrderInv /\ EntryInv /\ WithdrawerInv /\ SubmittedInv /\ ResponseInv
        /\ PanicsForAReason
  BY DEF ServiceInv
<1>. USE <1>inv
<1>1. /\ pc[t] = "read" /\ tx' = [tx EXCEPT ![t][f] = entry[f]]
      /\ UNCHANGED <<client, req, err, mutex, entry, withdrawer, submitted, responses, crashed>>
  BY DEF ReadField
<1>2. /\ GoroutineInv(t) /\ t # None /\ t # 0 /\ t \in 1..Len(req) /\ req[t].version \in Versions
      /\ req[t].version \in Int /\ req[t].latest /\ req[t].final
      /\ entry = AllFields(req[t].version)
  BY <1>1, Started DEF GoroutineInv, Place, Written, InWatch
<1>3. /\ ServiceTypes' /\ \A u \in Goroutines \ {t} : pc'[u] = pc[u] /\ tx'[u] = tx[u]
      /\ tx'[0] = tx[0]
  <2>1. pc' = [pc EXCEPT ![t] = "submit"] \/ pc' = [pc EXCEPT ![t] = "read"]
    BY DEF ReadField, Goto
  <2>. QED
    BY <1>1, <1>2, <2>1 DEF ServiceTypes, Labels
<1>4. \A g \in Fields : tx'[t][g] = (IF g = f THEN req[t].version ELSE tx[t][g])
  BY <1>1, <1>2 DEF ServiceTypes, AllFields
<1>5. \A g \in Fields : tx'[t][g] \in {None, req[t].version}
  BY <1>1, <1>2, <1>4 DEF GoroutineInv, Built
<1>6. /\ pc'[t] \in {"read", "submit"}
      /\ pc'[t] = "submit" => \A g \in Fields : tx'[t][g] # None
  <2>1. pc'[t] = IF \A g \in Fields : g # f => tx[t][g] # None THEN "submit" ELSE "read"
    BY DEF ReadField, Goto, ServiceTypes
  <2>2. req[t].version # None
    BY ServiceAssumption, <1>2 DEF Versions, None
  <2>. QED
    BY <1>4, <2>1, <2>2
<1>7. pc'[t] = "submit" => tx'[t] = AllFields(req[t].version)
  <2>1. tx'[t] \in [Fields -> Versions \cup {None}]
    BY <1>3 DEF ServiceTypes
  <2>. QED
    BY <1>5, <1>6, <2>1 DEF AllFields
<1>8. GoroutineInv(t)'
  <2>1. Place(t)' /\ Written(t)'
    BY <1>1, <1>2, <1>6 DEF GoroutineInv, Place, Written, InWatch, Known
  <2>2. Built(t)'
    BY <1>1, <1>2, <1>5, <1>6, <1>7 DEF Built, InWatch
  <2>. QED
    BY <2>1, <2>2 DEF GoroutineInv
<1>9. SubmittedInv' /\ ResponseInv' /\ PanicsForAReason'
  BY <1>1 DEF SubmittedInv, ResponseInv, PanicsForAReason
<1>. QED
  BY <1>1, <1>3, <1>8, <1>9, LocalStep

LEMMA RegisterKeeps ==
  ASSUME ServiceInv, NEW t \in Goroutines, Register(t)
  PROVE  ServiceInv'
<1>inv. /\ ServiceTypes /\ OrderInv /\ EntryInv /\ WithdrawerInv /\ SubmittedInv /\ ResponseInv
        /\ PanicsForAReason
  BY DEF ServiceInv
<1>. USE <1>inv
<1>. DEFINE s == [by |-> t, tx |-> tx[t]]
<1>1. /\ pc[t] = "submit" /\ submitted' = submitted \cup {s}
      /\ UNCHANGED <<client, req, tx, mutex, entry, withdrawer, responses>>
  BY DEF Register
<1>2. /\ GoroutineInv(t) /\ t # None /\ t # 0 /\ t \in 1..Len(req)
      /\ req[t].kind \in {"Watch", "ForceClose", "Fund"}
  BY <1>1, Started
<1>3. PICK e \in BOOLEAN :
        IF req[t].final /\ req[t].latest THEN WatchReturns(t, e)
        ELSE Goto(t, "respond") /\ UNCHANGED <<err, crashed>>
  BY DEF Register
<1>4. /\ pc' = [pc EXCEPT ![t] = "respond"]
      /\ err' = [err EXCEPT ![t] = e] \/ err' = err
      /\ crashed' \in BOOLEAN
  BY <1>3 DEF WatchReturns, Goto, ServiceTypes
<1>5. /\ ServiceTypes' /\ pc'[t] = "respond"
      /\ \A u \in Goroutines \ {t} : pc'[u] = pc[u] /\ err'[u] = err[u]
  BY <1>1, <1>4 DEF ServiceTypes, Labels
<1>6. GoroutineInv(t)'
  BY <1>1, <1>2, <1>5 DEF GoroutineInv, Place, Written, Built, InWatch, Known
<1>7. SubmittedInv'
  <2>1. PICK v \in Versions : tx[t] = AllFields(v) /\ (req[t].latest => v >= req[t].version)
    BY <1>1, <1>2 DEF GoroutineInv, Built
  <2>2. s.by = t /\ s.tx = AllFields(v) /\ s.tx["state"] = v
    BY <2>1 DEF AllFields, Fields
  <2>. HIDE DEF s
  <2>. QED
    BY <1>1, <1>2, <2>1, <2>2 DEF SubmittedInv
<1>8. ResponseInv'
  BY <1>1 DEF ResponseInv
<1>9. PanicsForAReason'
  <2>1. CASE req[t].final /\ req[t].latest
    BY <1>1, <1>2, <1>3, <2>1 DEF WatchReturns, PanicsForAReason
  <2>2. CASE ~ (req[t].final /\ req[t].latest)
    BY <1>1, <1>3, <2>2 DEF PanicsForAReason
  <2>. QED
    BY <2>1, <2>2
<1>. QED
  BY <1>1, <1>5, <1>6, <1>7, <1>8, <1>9, LocalStep

LEMMA StartDisputeKeeps ==
  ASSUME ServiceInv, NEW t \in Goroutines, StartDispute(t)
  PROVE  ServiceInv'
<1>inv. /\ ServiceTypes /\ OrderInv /\ EntryInv /\ WithdrawerInv /\ SubmittedInv /\ ResponseInv
        /\ PanicsForAReason
  BY DEF ServiceInv
<1>. USE <1>inv
<1>1. /\ pc[t] = "dispute"
      /\ UNCHANGED <<client, req, err, tx, mutex, entry, withdrawer, submitted, responses, crashed>>
  BY DEF StartDispute
<1>2. GoroutineInv(t) /\ t # None /\ t \in 1..Len(req) /\ req[t].kind = "ForceClose"
  BY <1>1, Started DEF GoroutineInv, Place
<1>3. /\ ServiceTypes' /\ \A u \in Goroutines \ {t} : pc'[u] = pc[u]
      /\ \/ pc'[t] = "respond"
         \/ pc'[t] = "verify" /\ Known /\ req[t].latest
         \/ pc'[t] = "snapshot" /\ Known /\ ~ req[t].latest
  <2>1. \/ pc' = [pc EXCEPT ![t] = "respond"]
        \/ pc' = [pc EXCEPT ![t] = "verify"] /\ Known /\ req[t].latest
        \/ pc' = [pc EXCEPT ![t] = "snapshot"] /\ Known /\ ~ req[t].latest
    BY DEF StartDispute, Goto
  <2>. QED
    BY <1>1, <2>1 DEF ServiceTypes, Labels
<1>4. GoroutineInv(t)'
  BY <1>1, <1>2, <1>3 DEF GoroutineInv, Place, Written, Built, InWatch, Known
<1>5. SubmittedInv' /\ ResponseInv' /\ PanicsForAReason'
  BY <1>1 DEF SubmittedInv, ResponseInv, PanicsForAReason
<1>. QED
  BY <1>1, <1>3, <1>4, <1>5, LocalStep

\* The lock is free: the fields of the entry belong together.
LEMMA SnapshotKeeps ==
  ASSUME ServiceInv, NEW t \in Goroutines, Snapshot(t)
  PROVE  ServiceInv'
<1>inv. /\ ServiceTypes /\ OrderInv /\ EntryInv /\ WithdrawerInv /\ SubmittedInv /\ ResponseInv
        /\ PanicsForAReason
  BY DEF ServiceInv
<1>. USE <1>inv
<1>1. /\ pc[t] = "snapshot" /\ mutex = None
      /\ tx' = [tx EXCEPT ![t] = entry] /\ pc' = [pc EXCEPT ![t] = "submit"]
      /\ UNCHANGED <<client, req, err, mutex, entry, withdrawer, submitted, responses, crashed>>
  BY DEF Snapshot, Goto
<1>2. /\ GoroutineInv(t) /\ t # None /\ t # 0 /\ t \in 1..Len(req)
      /\ req[t].kind = "ForceClose" /\ Known
  BY <1>1, Started DEF GoroutineInv, Place
<1>3. /\ ServiceTypes' /\ pc'[t] = "submit" /\ tx'[t] = entry /\ tx'[0] = tx[0]
      /\ \A u \in Goroutines \ {t} : pc'[u] = pc[u] /\ err'[u] = err[u] /\ tx'[u] = tx[u]
  BY <1>1, <1>2 DEF ServiceTypes, Labels
<1>4. /\ entry = AllFields(entry["state"]) /\ entry["state"] \in Versions
      /\ req[t].latest => entry["state"] >= req[t].version
  BY <1>1, <1>2, EntryVersion DEF EntryInv, GoroutineInv, Written
<1>5. GoroutineInv(t)'
  <2>1. Place(t)'
    BY <1>1, <1>2, <1>3 DEF GoroutineInv, Place, InWatch, Known
  <2>2. Written(t)' /\ Built(t)'
    BY <1>1, <1>2, <1>3, <1>4 DEF Written, Built, InWatch
  <2>. QED
    BY <2>1, <2>2 DEF GoroutineInv
<1>6. SubmittedInv' /\ ResponseInv' /\ PanicsForAReason'
  BY <1>1 DEF SubmittedInv, ResponseInv, PanicsForAReason
<1>. QED
  BY <1>1, <1>3, <1>5, <1>6, LocalStep

\* Steps of watchAndWithdraw leave the goroutines alone.
LEMMA WithdrawerStep ==
  ASSUME ServiceInv, WithdrawerInv', SubmittedInv',
         UNCHANGED <<client, req, pc, err, mutex, entry, responses, crashed>>,
         tx' \in [Goroutines \cup {0} -> [Fields -> Versions \cup {None}]],
         \A t \in Goroutines : tx'[t] = tx[t]
  PROVE  ServiceInv'
<1>inv. /\ ServiceTypes /\ OrderInv /\ EntryInv /\ WithdrawerInv /\ SubmittedInv /\ ResponseInv
        /\ PanicsForAReason
  BY DEF ServiceInv
<1>. USE <1>inv
<1>1. ServiceTypes' /\ OrderInv' /\ EntryInv' /\ ResponseInv' /\ PanicsForAReason'
  BY DEF ServiceTypes, OrderInv, EntryInv, ResponseInv, PanicsForAReason
<1>2. ASSUME NEW t \in Goroutines PROVE GoroutineInv(t)'
  <2>1. GoroutineInv(t) /\ tx'[t] = tx[t]
    BY DEF ServiceInv
  <2>2. Place(t)'
    BY <2>1 DEF GoroutineInv, Place, Known
  <2>3. Written(t)'
    BY <2>1 DEF GoroutineInv, Written
  <2>4. Built(t)'
    BY <2>1 DEF GoroutineInv, Built
  <2>. QED
    BY <2>2, <2>3, <2>4 DEF GoroutineInv
<1>. QED
  BY <1>1, <1>2 DEF ServiceInv

LEMMA WatchAndWithdrawKeeps ==
  ASSUME ServiceInv, watchAndWithdraw
  PROVE  ServiceInv'
<1>inv. /\ ServiceTypes /\ OrderInv /\ EntryInv /\ WithdrawerInv /\ SubmittedInv /\ ResponseInv
        /\ PanicsForAReason
  BY DEF ServiceInv
<1>. USE <1>inv
<1>1. CASE AdjudicatorEvent \/ TimeoutElapsed
  <2>1. /\ withdrawer # "none" /\ withdrawer' \in {"timeout", "elapsed"}
        /\ UNCHANGED <<client, req, pc, err, tx, mutex, entry, submitted, responses, crashed>>
    BY <1>1 DEF AdjudicatorEvent, TimeoutElapsed
  <2>2. WithdrawerInv' /\ SubmittedInv'
    BY <2>1 DEF WithdrawerInv, SubmittedInv, Known
  <2>. QED
    BY <2>1, <2>2, WithdrawerStep DEF ServiceTypes
<1>2. CASE WithdrawSnapshot
  <2>1. /\ withdrawer = "elapsed" /\ mutex = None /\ withdrawer' = "withdraw"
        /\ tx' = [tx EXCEPT ![0] = entry]
        /\ UNCHANGED <<client, req, pc, err, mutex, entry, submitted, responses, crashed>>
    BY <1>2 DEF WithdrawSnapshot
  <2>2. /\ tx' \in [Goroutines \cup {0} -> [Fields -> Versions \cup {None}]]
        /\ \A t \in Goroutines : tx'[t] = tx[t]
        /\ tx'[0] = entry
    BY <2>1, Numbers DEF ServiceTypes
  <2>3. Known /\ entry = AllFields(entry["state"]) /\ entry["state"] \in Versions
    BY <2>1, EntryVersion DEF WithdrawerInv, EntryInv
  <2>4. WithdrawerInv' /\ SubmittedInv'
    BY <2>1, <2>2, <2>3 DEF WithdrawerInv, SubmittedInv, Known
  <2>. QED
    BY <2>1, <2>2, <2>4, WithdrawerStep
<1>3. CASE Withdraw
  <2>. DEFINE s == [by |-> 0, tx |-> tx[0]]
  <2>1. /\ withdrawer = "withdraw" /\ withdrawer' = "done" /\ submitted' = submitted \cup {s}
        /\ UNCHANGED <<client, req, pc, err, tx, mutex, entry, responses, crashed>>
    BY <1>3 DEF Withdraw
  <2>2. s.by = 0 /\ \E v \in Versions : s.tx = AllFields(v)
    BY <2>1 DEF WithdrawerInv
  <2>. HIDE DEF s
  <2>3. WithdrawerInv' /\ SubmittedInv'
    BY <2>1, <2>2 DEF WithdrawerInv, SubmittedInv, Known
  <2>. QED
    BY <2>1, <2>3, WithdrawerStep DEF ServiceTypes
<1>. QED
  BY <1>1, <1>2, <1>3 DEF watchAndWithdraw

\* A new request is no older than those before it, and starts a new goroutine.
LEMMA ReceiveKeeps ==
  ASSUME ServiceInv, NEW r \in Requests, Receive(r)
  PROVE  ServiceInv'
<1>inv. /\ ServiceTypes /\ OrderInv /\ EntryInv /\ WithdrawerInv /\ SubmittedInv /\ ResponseInv
        /\ PanicsForAReason
  BY DEF ServiceInv
<1>. USE <1>inv
<1>1. /\ client' = [version |-> r.version, final |-> r.final] /\ req' = Append(req, r)
      /\ Len(req) < MaxRequests /\ NextRequest(r)
      /\ UNCHANGED <<err, tx, mutex, entry, withdrawer, submitted, responses, crashed>>
  BY DEF Receive
<1>0. PICK t \in Goroutines : t = Len(req) + 1
  BY <1>1, ServiceAssumption DEF ServiceTypes, Goroutines
<1>2. /\ t \in Goroutines /\ t \notin 1..Len(req) /\ Len(req') = t /\ t \in 1..Len(req')
      /\ req'[t] = r /\ (\A u \in 1..Len(req) : u \in 1..Len(req') /\ req'[u] = req[u])
      /\ \A u \in 1..Len(req') : u \in 1..Len(req) \/ u = t
  BY <1>0, <1>1 DEF ServiceTypes
<1>3. /\ r.version \in Versions /\ r.version \in Int /\ r.final \in BOOLEAN /\ r.latest \in BOOLEAN
      /\ r.kind \in {"Watch", "ForceClose", "Fund"}
      /\ client.version \in Int /\ client.final \in BOOLEAN
  BY ServiceAssumption DEF ServiceTypes, Requests, Versions, None
<1>4. \/ pc' = [pc EXCEPT ![t] = "done"]
      \/ pc' = [pc EXCEPT ![t] = "parse"] /\ r.quality = "misindexed"
      \/ pc' = [pc EXCEPT ![t] = "verify"] /\ r.kind = "Watch"
      \/ pc' = [pc EXCEPT ![t] = "dispute"] /\ r.kind = "ForceClose"
      \/ pc' = [pc EXCEPT ![t] = "fund"] /\ r.kind = "Fund"
  BY <1>2, <1>3 DEF Receive, Goto
<1>5. ServiceTypes'
  <2>1. req' \in Seq(Requests) /\ Len(req') <= MaxRequests
    BY <1>1, <1>2, ServiceAssumption DEF ServiceTypes
  <2>2. pc' \in [Goroutines -> Labels]
    BY <1>2, <1>4 DEF ServiceTypes, Labels
  <2>. QED
    BY <1>1, <1>3, <2>1, <2>2 DEF ServiceTypes
<1>6. OrderInv'
  <2>1. /\ client.version <= r.version
        /\ client.final => r.final /\ r.version = client.version
    <3>1. \/ r.version = client.version /\ r.final = client.final
          \/ r.version = client.version + 1 /\ ~ client.final
      BY <1>1 DEF NextRequest
    <3>. QED
      BY <1>3, <3>1
  <2>2. /\ r.kind = "Watch" => r.latest
        /\ r.kind = "Fund" => ~ r.latest
        /\ r.quality = "unparsable" => r.kind = "Fund"
        /\ r.quality = "misindexed" => r.kind = "Watch"
    BY <1>1, <1>3 DEF NextRequest
  <2>3. client'.version = r.version /\ client'.final = r.final
    BY <1>1
  <2>4. \A u \in 1..Len(req) : req[u].version \in Int
    BY RequestFields
  <2>5. ASSUME NEW u \in 1..Len(req)
        PROVE  /\ req[u].version <= r.version
               /\ req[u].final => r.final /\ req[u].version = r.version
    BY <1>3, <2>1, <2>4 DEF OrderInv
  <2>6. ASSUME NEW u \in 1..Len(req')
        PROVE  /\ req'[u].version <= client'.version
               /\ req'[u].final => client'.final /\ req'[u].version = client'.version
               /\ req'[u].kind = "Watch" => req'[u].latest
               /\ req'[u].kind = "Fund" => ~ req'[u].latest
               /\ req'[u].quality = "unparsable" => req'[u].kind = "Fund"
               /\ req'[u].quality = "misindexed" => req'[u].kind = "Watch"
    <3>1. CASE u = t
      <4>1. req'[u] = r
        BY <1>2, <3>1
      <4>. QED
        BY <1>3, <2>2, <2>3, <4>1
    <3>2. CASE u \in 1..Len(req)
      <4>1. req'[u] = req[u]
        BY <1>2, <3>2
      <4>. QED
        BY <2>3, <2>5, <3>2, <4>1 DEF OrderInv
    <3>. QED
      BY <1>2, <3>1, <3>2
  <2>. QED
    BY <2>6 DEF OrderInv
<1>7. /\ GoroutineInv(t) /\ pc[t] = "idle" /\ t # None
      /\ \A u \in Goroutines \ {t} : pc'[u] = pc[u]
      /\ \/ pc'[t] = "done"
         \/ pc'[t] = "parse" /\ r.quality = "misindexed"
         \/ pc'[t] = "verify" /\ r.kind = "Watch"
         \/ pc'[t] = "dispute" /\ r.kind = "ForceClose"
         \/ pc'[t] = "fund" /\ r.kind = "Fund"
  <2>1. GoroutineInv(t) /\ t # None
    BY <1>2, Numbers DEF ServiceInv
  <2>2. pc[t] = "idle"
    BY <1>2, <2>1 DEF GoroutineInv, Place
  <2>. QED
    BY <1>2, <1>4, <2>1, <2>2 DEF ServiceTypes
<1>8. GoroutineInv(t)'
  <2>1. Place(t)'
    BY <1>1, <1>2, <1>3, <1>7 DEF GoroutineInv, Place, InWatch, NextRequest
  <2>2. Written(t)' /\ Built(t)'
    BY <1>1, <1>7 DEF GoroutineInv, Written, Built, InWatch
  <2>. QED
    BY <2>1, <2>2 DEF GoroutineInv
<1>9. \A u \in Goroutines \ {t} : GoroutineInv(u)'
  <2>1. EntryInv' /\ entry'["state"] >= entry["state"]
    BY <1>1, EntryVersion DEF EntryInv
  <2>2. \A u \in Goroutines \ {t} :
          /\ u \in 1..Len(req') <=> u \in 1..Len(req)
          /\ u \in 1..Len(req) => req'[u] = req[u]
    BY <1>2
  <2>. QED
    BY <1>1, <1>5, <1>7, <2>1, <2>2, OthersKeep
<1>10. EntryInv' /\ WithdrawerInv'
  BY <1>1 DEF EntryInv, WithdrawerInv, Known
<1>11. SubmittedInv' /\ ResponseInv'
  BY <1>1, <1>2 DEF SubmittedInv, ResponseInv
<1>12. PanicsForAReason'
  BY <1>1, <1>2 DEF PanicsForAReason
<1>. QED
  BY <1>1, <1>5, <1>6, <1>8, <1>9, <1>10, <1>11, <1>12 DEF ServiceInv

LEMMA InitService == Init => ServiceInv
<1>. SUFFICES ASSUME Init PROVE ServiceInv
  OBVIOUS
<1>1. req = <<>> /\ Len(req) = 0 /\ 1..Len(req) = {}
  BY DEF Init
<1>2. ServiceTypes
  <2>1. client \in [version: Versions \cup {None}, final: BOOLEAN]
    BY DEF Init
  <2>2. req \in Seq(Requests) /\ Len(req) <= MaxRequests
    BY <1>1, ServiceAssumption
  <2>. QED
    BY <2>1, <2>2 DEF Init, ServiceTypes, Labels, NoTx
<1>3. \A t \in Goroutines : GoroutineInv(t)
  BY <1>1, Numbers DEF Init, GoroutineInv, Place, Written, Built, InWatch
<1>4. NoTx["state"] = None /\ NoTx = AllFields(None)
  BY DEF NoTx, AllFields, Fields
<1>5. OrderInv /\ EntryInv /\ WithdrawerInv /\ SubmittedInv /\ ResponseInv /\ PanicsForAReason
  BY <1>1, <1>4 DEF Init, OrderInv, EntryInv, WithdrawerInv, SubmittedInv, ResponseInv,
                    PanicsForAReason
<1>. QED
  BY <1>2, <1>3, <1>5 DEF ServiceInv

-----------------------------------------------------------------------------
\* ServiceInv is inductive: whatever the goroutines of the requests and
\* watchAndWithdraw do, in whatever order.
THEOREM ServiceCorrect == Spec => []ServiceInv
<1>1. ServiceInv /\ [Next]_vars => ServiceInv'
  <2>. SUFFICES ASSUME ServiceInv, [Next]_vars PROVE ServiceInv'
    OBVIOUS
  <2>1. CASE \E r \in Requests : Receive(r)
    BY <2>1, ReceiveKeeps
  <2>2. CASE \E t \in Goroutines : Step(t)
    <3>. PICK t \in Goroutines : Step(t)
      BY <2>2
    <3>1. CASE IndexPanics(t) \/ Fund(t) \/ Respond(t) \/ VerifyIntegrity(t) \/ RefuseOutdated(t)
      BY <3>1, IndexPanicsKeeps, FundKeeps, RespondKeeps, VerifyIntegrityKeeps, RefuseOutdatedKeeps
    <3>2. CASE UpdateState(t) \/ UpdateSigs(t) \/ UpdateAcc(t) \/ StartWatching(t)
      BY <3>2, UpdateStateKeeps, UpdateSigsKeeps, UpdateAccKeeps, StartWatchingKeeps
    <3>3. CASE Publish(t) \/ (\E f \in Fields : ReadField(t, f)) \/ Register(t)
      BY <3>3, PublishKeeps, ReadFieldKeeps, RegisterKeeps
    <3>4. CASE StartDispute(t) \/ Snapshot(t)
      BY <3>4, StartDisputeKeeps, SnapshotKeeps
    <3>. QED
      BY <3>1, <3>2, <3>3, <3>4 DEF Step
  <2>3. CASE watchAndWithdraw
    BY <2>3, WatchAndWithdrawKeeps
  <2>4. CASE UNCHANGED vars
    <3>1. WithdrawerInv' /\ SubmittedInv'
      BY <2>4 DEF vars, ServiceInv, WithdrawerInv, SubmittedInv, Known
    <3>. QED
      BY <2>4, <3>1, WithdrawerStep DEF vars, ServiceInv, ServiceTypes
  <2>. QED
    BY <2>1, <2>2, <2>3, <2>4 DEF Next
<1>. QED
  BY InitService, <1>1, PTL DEF Spec

\* What Watch, StartDispute and watchAndWithdraw give to the adjudicator is one
\* state with its signatures and its account, also when it was read unlocked.
THEOREM AlwaysSubmittedMatches == Spec => []SubmittedMatches
<1>1. ServiceInv => SubmittedMatches
  BY DEF ServiceInv, SubmittedInv, SubmittedMatches
<1>. QED
  BY ServiceCorrect, <1>1, PTL

\* A successful response to a WatchRequest stays true.
THEOREM AlwaysCovered == Spec => []AcknowledgedIsCovered
<1>1. ServiceInv => AcknowledgedIsCovered
  BY DEF ServiceInv, ResponseInv, AcknowledgedIsCovered
<1>. QED
  BY ServiceCorrect, <1>1, PTL

\* StartDispute never registers an older state than it was asked to.
THEOREM DisputesAlwaysCover == Spec => []DisputeCovers
<1>1. ServiceInv => DisputeCovers
  BY DEF ServiceInv, SubmittedInv, DisputeCovers
<1>. QED
  BY ServiceCorrect, <1>1, PTL

\* A panic of ParseWatchRequestMsg or StartDispute has no other cause than the four.
THEOREM PanicsExplained == Spec => []PanicsForAReason
<1>1. ServiceInv => PanicsForAReason
  BY DEF ServiceInv
<1>. QED
  BY ServiceCorrect, <1>1, PTL
=============================================================================
