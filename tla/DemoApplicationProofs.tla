----------------------- MODULE DemoApplicationProofs ------------------------
(***************************************************************************)
(* The sockets of the demo are free whenever they are needed and take the  *)
(* handshake whenever it is sent, whatever faults the network has and      *)
(* however much is buffered.  The invariant says which socket states can   *)
(* meet which application states: only Listening has a socket that         *)
(* listens, and the service socket is closed until a channel is opened.    *)
(***************************************************************************)
EXTENDS DemoApplication, TLAPS

\* Before a channel is opened the service socket is not in use.
ServiceUnused ==
  app \in {"InitialState", "ConnectingToConfigDealer", "Listening"} => sock["s"] = "Closed"

\* The participant socket listens in no other state, with an empty buffer, and
\* in that state it is never closing from this side.
ListensOnlyThere ==
  /\ sock["p"] = "Listen" => app = "Listening" /\ rx["p"] = <<>>
  /\ app = "Listening" => sock["p"] \in {"Listen", "Established", "CloseWait", "Closed"}

AppInv == TypeOK /\ ServiceUnused /\ ListensOnlyThere /\ SocketsFree /\ HandshakeCanBeSent

-----------------------------------------------------------------------------
\* What is left of a buffer after its first message was read is a buffer.
LEMMA ReadBuffer ==
  ASSUME TypeOK, NEW x \in Sockets, rx[x] # <<>>
  PROVE  /\ Head(rx[x]) \in MessageKinds
         /\ [rx EXCEPT ![x] = Tail(@)] \in [Sockets -> Seq(MessageKinds)]
<1>1. rx[x] \in Seq(MessageKinds)
  BY DEF TypeOK
<1>2. Head(rx[x]) \in MessageKinds /\ Tail(rx[x]) \in Seq(MessageKinds)
  BY <1>1
<1>. QED
  BY <1>2 DEF TypeOK

\* close() keeps a socket closed and leaves none listening or connecting.
LEMMA ClosedSocket ==
  ASSUME NEW t \in TcpStates
  PROVE  AfterClose(t) \in TcpStates \ {"Listen", "SynSent"}
BY DEF AfterClose, TcpStates

\* Every state before the device starts satisfies the invariant.
LEMMA AppInitial == Init => AppInv
BY DEF Init, AppInv, TypeOK, ServiceUnused, ListensOnlyThere, SocketsFree, HandshakeCanBeSent,
       ApplicationState, Sockets, TcpStates

\* The poll handlers keep the invariant.
LEMMA PollKeeps == AppInv /\ poll => AppInv'
<1>. SUFFICES ASSUME AppInv, poll PROVE AppInv'
  OBVIOUS
<1>inv. TypeOK /\ ServiceUnused /\ ListensOnlyThere /\ SocketsFree /\ HandshakeCanBeSent
  BY DEF AppInv
<1>ty. /\ sock \in [Sockets -> TcpStates] /\ rx \in [Sockets -> Seq(MessageKinds)]
       /\ sock["s"] # "Listen" /\ "p" \in Sockets /\ "s" \in Sockets
  BY <1>inv DEF TypeOK, Sockets
<1>. USE DEF AppInv, ServiceUnused, ListensOnlyThere, SocketsFree, HandshakeCanBeSent, Poll
<1>1. CASE connect_config_dealer
  BY <1>1, <1>inv, <1>ty DEF connect_config_dealer, Opened, TypeOK, ApplicationState, TcpStates
<1>2. CASE wait_connected_and_read_config
  <2>1. [rx EXCEPT !["p"] = Tail(@)] \in [Sockets -> Seq(MessageKinds)]
    BY <1>2, <1>inv, <1>ty, ReadBuffer DEF wait_connected_and_read_config
  <2>2. AfterClose(sock["p"]) \in TcpStates \ {"Listen", "SynSent"}
    BY <1>ty, ClosedSocket
  <2>. QED
    BY <1>2, <1>inv, <1>ty, <2>1, <2>2 DEF wait_connected_and_read_config, TypeOK, ApplicationState
<1>3. CASE wait_connections_closed
  <2>1. ~ is_open("p") /\ sock["s"] = "Closed"
    BY <1>3, <1>inv DEF wait_connections_closed, is_active, is_open, TypeOK
  <2>2. /\ sock' = [sock EXCEPT !["p"] = "Listen"] /\ rx' = [rx EXCEPT !["p"] = <<>>]
        /\ app' = "Listening" /\ panic' = panic /\ panic = "no"
    BY <1>3, <2>1 DEF wait_connections_closed, Opened
  <2>3. /\ sock' \in [Sockets -> TcpStates] /\ sock'["p"] = "Listen" /\ sock'["s"] = "Closed"
        /\ rx' \in [Sockets -> Seq(MessageKinds)] /\ rx'["p"] = <<>>
    BY <2>1, <2>2, <1>ty DEF TcpStates
  <2>. QED
    BY <2>2, <2>3 DEF TypeOK, ApplicationState
<1>4. CASE check_incomming_connection
  <2>1. may_send("p") /\ sock["p"] \in {"Established", "CloseWait"} /\ ~ is_open("s")
    BY <1>4, <1>inv DEF check_incomming_connection, is_open, may_send
  <2>2. [rx EXCEPT !["p"] = Tail(@)] \in [Sockets -> Seq(MessageKinds)]
    BY <1>4, <1>inv, <1>ty, ReadBuffer DEF check_incomming_connection
  <2>3. CASE Head(rx["p"]) # "Auth"
    BY <1>4, <1>inv, <1>ty, <2>1, <2>2, <2>3 DEF check_incomming_connection, Panics, TypeOK
  <2>4. CASE Head(rx["p"]) = "Auth"
    <3>1. /\ sock' = [sock EXCEPT !["s"] = "SynSent"]
          /\ rx' = [rx EXCEPT !["p"] = Tail(@), !["s"] = <<>>]
          /\ app' = "WaitForProposal" /\ panic' = panic
      BY <1>4, <2>1, <2>4 DEF check_incomming_connection
    <3>2. rx' \in [Sockets -> Seq(MessageKinds)]
      <4>1. Tail(rx["p"]) \in Seq(MessageKinds)
        BY <2>2, <1>ty
      <4>2. rx' = [x \in Sockets |-> IF x = "s" THEN <<>> ELSE Tail(rx["p"])]
        BY <3>1, <1>ty DEF Sockets
      <4>. QED
        BY <4>1, <4>2
    <3>3. /\ sock' \in [Sockets -> TcpStates] /\ sock'["s"] = "SynSent"
          /\ sock'["p"] \in {"Established", "CloseWait"} /\ panic = "no"
      BY <1>4, <1>ty, <2>1, <3>1 DEF check_incomming_connection, TcpStates
    <3>. QED
      BY <3>1, <3>2, <3>3 DEF TypeOK, ApplicationState
  <2>. QED
    BY <2>3, <2>4
<1>5. CASE wait_connected_and_proposal_msg
  <2>1. [rx EXCEPT !["p"] = Tail(@)] \in [Sockets -> Seq(MessageKinds)]
    BY <1>5, <1>inv, <1>ty, ReadBuffer DEF wait_connected_and_proposal_msg
  <2>. QED
    BY <1>5, <1>inv, <1>ty, <2>1
    DEF wait_connected_and_proposal_msg, Panics, may_send, TypeOK, ApplicationState
<1>6. CASE wait_connected_and_send_handshake
  BY <1>6, <1>inv, <1>ty DEF wait_connected_and_send_handshake, may_send, TypeOK, ApplicationState
<1>7. CASE wait_handshake_and_propose_channel
  <2>1. [rx EXCEPT !["p"] = Tail(@)] \in [Sockets -> Seq(MessageKinds)]
    BY <1>7, <1>inv, <1>ty, ReadBuffer DEF wait_handshake_and_propose_channel
  <2>. QED
    BY <1>7, <1>inv, <1>ty, <2>1
    DEF wait_handshake_and_propose_channel, Panics, may_send, TypeOK, ApplicationState
<1>8. ASSUME NEW sends \in SUBSET Sockets, forward_participant_msg(sends) PROVE AppInv'
  <2>1. [rx EXCEPT !["p"] = Tail(@)] \in [Sockets -> Seq(MessageKinds)]
    BY <1>8, <1>inv, <1>ty, ReadBuffer DEF forward_participant_msg
  <2>. QED
    BY <1>8, <1>inv, <1>ty, <2>1 DEF forward_participant_msg, Panics, TypeOK
<1>9. ASSUME NEW closes \in BOOLEAN, forward_service_msg(closes) PROVE AppInv'
  <2>1. [rx EXCEPT !["s"] = Tail(@)] \in [Sockets -> Seq(MessageKinds)]
    BY <1>9, <1>inv, <1>ty, ReadBuffer DEF forward_service_msg
  <2>2. \A x \in Sockets : AfterClose(sock[x]) \in TcpStates \ {"Listen", "SynSent"}
    BY <1>ty, ClosedSocket
  <2>. QED
    BY <1>9, <1>inv, <1>ty, <2>1, <2>2 DEF forward_service_msg, Panics, TypeOK, ApplicationState
<1>. QED
  BY <1>1, <1>2, <1>3, <1>4, <1>5, <1>6, <1>7, <1>8, <1>9 DEF poll

\* Buttons, the network and the remote ends keep the invariant.
LEMMA OutsideKeeps == AppInv /\ Next => poll \/ AppInv'
<1>. SUFFICES ASSUME AppInv, Next, ~ poll PROVE AppInv'
  OBVIOUS
<1>inv. TypeOK /\ ServiceUnused /\ ListensOnlyThere /\ SocketsFree /\ HandshakeCanBeSent
  BY DEF AppInv
<1>ty. /\ sock \in [Sockets -> TcpStates] /\ rx \in [Sockets -> Seq(MessageKinds)]
       /\ sock["s"] # "Listen" /\ "p" \in Sockets /\ "s" \in Sockets
       /\ \A x \in Sockets : x = "p" \/ x = "s"
  BY <1>inv DEF TypeOK, Sockets
<1>. USE DEF AppInv, ServiceUnused, ListensOnlyThere, SocketsFree, HandshakeCanBeSent
<1>1. CASE propose_channel
  <2>1. ~ is_open("s") /\ app = "Listening" /\ panic = "no"
    BY <1>1, <1>inv DEF propose_channel, Poll, is_open
  <2>2. {x \in {"s"} : is_open(x)} = {}
    BY <2>1
  <2>3. /\ sock' = [x \in Sockets |-> "SynSent"] /\ rx' = [x \in Sockets |-> <<>>]
        /\ app' = "Connecting" /\ panic' = panic
    BY <1>1, <2>2 DEF propose_channel
  <2>. QED
    BY <1>inv, <1>ty, <2>1, <2>3 DEF TypeOK, ApplicationState, TcpStates
<1>2. CASE PeerConnects
  BY <1>2, <1>inv, <1>ty DEF PeerConnects, Net, TypeOK, TcpStates
<1>3. ASSUME NEW x \in Sockets, button_in_active(x) PROVE AppInv'
  BY <1>3, <1>inv, <1>ty DEF button_in_active, Poll, Panics, TypeOK
<1>4. ASSUME NEW x \in Sockets, Accepts(x) PROVE AppInv'
  BY <1>4, <1>inv, <1>ty DEF Accepts, Net, TypeOK, TcpStates
<1>5. ASSUME NEW x \in Sockets, AnswersClose(x) PROVE AppInv'
  BY <1>5, <1>inv, <1>ty DEF AnswersClose, Net, TypeOK, TcpStates
<1>6. ASSUME NEW x \in Sockets, Loses(x) PROVE AppInv'
  BY <1>6, <1>inv, <1>ty DEF Loses, Net, is_active, TypeOK, TcpStates
<1>7. ASSUME NEW x \in Sockets, NEW m \in MessageKinds, Delivers(x, m) PROVE AppInv'
  <2>1. rx' = [rx EXCEPT ![x] = Append(@, m)] /\ sock[x] = "Established"
        /\ UNCHANGED <<app, sock, panic>>
    BY <1>7 DEF Delivers
  <2>2. rx' \in [Sockets -> Seq(MessageKinds)]
    BY <2>1, <1>ty
  <2>. QED
    BY <1>inv, <1>ty, <2>1, <2>2 DEF TypeOK
<1>. QED
  BY <1>1, <1>2, <1>3, <1>4, <1>5, <1>6, <1>7 DEF Next

\* The invariant holds of every state the demo reaches.
LEMMA AlwaysAppInv == Spec => []AppInv
<1>1. AppInv /\ UNCHANGED vars => AppInv'
  BY DEF vars, AppInv, TypeOK, ServiceUnused, ListensOnlyThere, SocketsFree, HandshakeCanBeSent
<1>2. AppInv /\ [Next]_vars => AppInv'
  BY <1>1, PollKeeps, OutsideKeeps
<1>. QED
  BY AppInitial, <1>2, PTL DEF Spec

-----------------------------------------------------------------------------
\* The application state, its sockets and its buffers keep their types.
THEOREM AppTypeCorrect == Spec => []TypeOK
<1>1. AppInv => TypeOK
  BY DEF AppInv
<1>. QED
  BY <1>1, AlwaysAppInv, PTL

\* Over any number of channels, with any faults of the network, poll never
\* finds a socket in use that it wants to listen or connect with, and a failed
\* propose_channel never leaves the participant socket connecting.
THEOREM AlwaysSocketsFree == Spec => []SocketsFree
<1>1. AppInv => SocketsFree
  BY DEF AppInv
<1>. QED
  BY <1>1, AlwaysAppInv, PTL

\* However the peer closes or resets the connection, a handshake is only sent
\* on a connection that takes it.
THEOREM AlwaysHandshakeCanBeSent == Spec => []HandshakeCanBeSent
<1>1. AppInv => HandshakeCanBeSent
  BY DEF AppInv
<1>. QED
  BY <1>1, AlwaysAppInv, PTL
=============================================================================
