-------------------------- MODULE DemoApplication --------------------------
(***************************************************************************)
(* The connections of the embedded demo (cortex-m-demo/src/application.rs):*)
(* one action per poll handler, the propose button, and the two smoltcp    *)
(* sockets: "p" towards the config dealer and then the other participant,  *)
(* "s" towards the watcher and funder.                                     *)
(*                                                                         *)
(* smoltcp and the remote ends are external: a connection is accepted,     *)
(* refused, closed or reset at any moment.  The channel of state Active is *)
(* the subject of DemoChannel; here it may send on either socket for a     *)
(* message of the peer, and may be closed by a message of the service.     *)
(* An Err of poll and a send that fails stop the device (panic).           *)
(***************************************************************************)
EXTENDS Naturals, Sequences

CONSTANTS
  NetMay,    \* faults of the network and the remote ends, see NetFaults
  MaxRx      \* bound: messages in a receive buffer

\* "close", "reset", "refuse": a connection ends; "misbehave": unexpected messages
NetFaults == {"close", "reset", "refuse", "misbehave"}

ASSUME NetAssumption == NetMay \subseteq NetFaults /\ MaxRx \in Nat \ {0}

VARIABLES
  app,     \* variant of ApplicationState
  sock,    \* TCP state of each socket
  rx,      \* complete messages in the receive buffer of each socket
  panic    \* "no", or why the device panicked

vars == <<app, sock, rx, panic>>

Sockets == {"p", "s"}

\* TimeWait is Closed: neither open nor active. SynReceived is Established.
TcpStates == {"Closed", "Listen", "SynSent", "Established", "CloseWait", "FinWait", "LastAck"}

MessageKinds == {"Config", "Auth", "Proposal", "Other"}

ApplicationState ==
  {"InitialState", "ConnectingToConfigDealer", "ClosingSockets", "Listening",
   "WaitForProposal", "Connecting", "WaitForHandshake", "Active"}

TypeOK ==
  /\ app \in ApplicationState
  /\ sock \in [Sockets -> TcpStates] /\ sock["s"] # "Listen"
  /\ rx \in [Sockets -> Seq(MessageKinds)]
  /\ panic \in {"no", "socket", "send", "message"}

Init ==
  /\ app = "InitialState"
  /\ sock = [x \in Sockets |-> "Closed"]
  /\ rx = [x \in Sockets |-> <<>>]
  /\ panic = "no"

-----------------------------------------------------------------------------
\* External: queries and calls of smoltcp::socket::TcpSocket
is_open(x) == sock[x] # "Closed"
is_active(x) == sock[x] \notin {"Closed", "Listen"}
may_send(x) == sock[x] \in {"Established", "CloseWait"}
may_recv(x) == sock[x] \in {"Established", "FinWait"} \/ rx[x] # <<>>

\* Socket state after close()
AfterClose(t) ==
  CASE t = "Established" -> "FinWait"
    [] t = "CloseWait" -> "LastAck"
    [] t \in {"Listen", "SynSent"} -> "Closed"
    [] OTHER -> t

\* connect and listen fail with Illegal on an open socket and clear its buffers.
Opened(x, t) == sock' = [sock EXCEPT ![x] = t] /\ rx' = [rx EXCEPT ![x] = <<>>]

Poll(state) == app = state /\ panic = "no"

Panics(why) == panic' = why /\ UNCHANGED <<app, sock>>

(***************************************************************************)
(* Poll handlers                                                           *)
(***************************************************************************)
connect_config_dealer ==
  /\ Poll("InitialState")
  /\ ~is_open("p")
  /\ Opened("p", "SynSent")
  /\ app' = "ConnectingToConfigDealer"
  /\ UNCHANGED panic

wait_connected_and_read_config ==
  /\ Poll("ConnectingToConfigDealer")
  /\ is_active("p") /\ rx["p"] # <<>>
  /\ rx' = [rx EXCEPT !["p"] = Tail(@)]
  /\ sock' = [sock EXCEPT !["p"] = AfterClose(@)]
  /\ app' = "ClosingSockets"
  /\ UNCHANGED panic

\* Variant: the service socket is not waited for.
wait_participant_closed ==
  /\ Poll("ClosingSockets")
  /\ ~is_active("p")
  /\ Opened("p", "Listen") /\ app' = "Listening" /\ UNCHANGED panic

\* Variant: the wrong socket listens.
wait_closed_and_listen_on_service ==
  /\ Poll("ClosingSockets")
  /\ ~is_active("s") /\ ~is_active("p")
  /\ Opened("s", "Listen") /\ app' = "Listening" /\ UNCHANGED panic

wait_connections_closed ==
  /\ Poll("ClosingSockets")
  /\ ~is_active("s") /\ ~is_active("p")
  /\ IF is_open("p") THEN Panics("socket") /\ UNCHANGED rx
     ELSE Opened("p", "Listen") /\ app' = "Listening" /\ UNCHANGED panic

\* Variant: data in the buffer is taken for an open connection.
check_buffered_connection ==
  /\ Poll("Listening")
  /\ may_recv("p") /\ rx["p"] # <<>> /\ Head(rx["p"]) = "Auth"
  /\ IF ~may_send("p")
     THEN Panics("send") /\ rx' = [rx EXCEPT !["p"] = Tail(@)]
     ELSE /\ sock' = [sock EXCEPT !["s"] = "SynSent"]
          /\ rx' = [rx EXCEPT !["p"] = Tail(@), !["s"] = <<>>]
          /\ app' = "WaitForProposal"
          /\ UNCHANGED panic

\* Answers the handshake, then opens the service connection.
check_incomming_connection ==
  /\ Poll("Listening")
  /\ is_open("p") /\ may_recv("p") /\ rx["p"] # <<>>
  /\ LET why == IF Head(rx["p"]) # "Auth" THEN "message"
                ELSE IF ~may_send("p") THEN "send"
                ELSE IF is_open("s") THEN "socket"
                ELSE "no"
     IN IF why # "no" THEN Panics(why) /\ rx' = [rx EXCEPT !["p"] = Tail(@)]
        ELSE
           /\ sock' = [sock EXCEPT !["s"] = "SynSent"]
           /\ rx' = [rx EXCEPT !["p"] = Tail(@), !["s"] = <<>>]
           /\ app' = "WaitForProposal"
           /\ UNCHANGED panic

\* Only asks whether the service socket is open, which a connecting one is.
wait_connected_and_proposal_msg ==
  /\ Poll("WaitForProposal")
  /\ is_open("s") /\ rx["p"] # <<>>
  /\ rx' = [rx EXCEPT !["p"] = Tail(@)]
  /\ \/ Head(rx["p"]) # "Proposal" /\ Panics("message")
     \/ Head(rx["p"]) = "Proposal" /\ ~may_send("p") /\ Panics("send")
     \/ /\ Head(rx["p"]) = "Proposal" /\ may_send("p")
        /\ app' = "Active" /\ UNCHANGED <<sock, panic>>

\* Variant: the peer's handshake is waited for first.
wait_handshake_and_send_handshake ==
  /\ Poll("Connecting")
  /\ is_active("p") /\ rx["p"] # <<>> /\ may_send("p")
  /\ app' = "WaitForHandshake"
  /\ UNCHANGED <<sock, rx, panic>>

wait_connected_and_send_handshake ==
  /\ Poll("Connecting")
  /\ is_active("p") /\ may_recv("p") /\ may_send("p")
  /\ app' = "WaitForHandshake"
  /\ UNCHANGED <<sock, rx, panic>>

wait_handshake_and_propose_channel ==
  /\ Poll("WaitForHandshake")
  /\ rx["p"] # <<>>
  /\ rx' = [rx EXCEPT !["p"] = Tail(@)]
  /\ \/ Head(rx["p"]) # "Auth" /\ Panics("message")
     \/ Head(rx["p"]) = "Auth" /\ ~may_send("p") /\ Panics("send")
     \/ /\ Head(rx["p"]) = "Auth" /\ may_send("p")
        /\ app' = "Active" /\ UNCHANGED <<sock, panic>>

\* A message of the peer: the channel sends on some of the sockets or fails.
forward_participant_msg(sends) ==
  /\ Poll("Active")
  /\ rx["p"] # <<>>
  /\ rx' = [rx EXCEPT !["p"] = Tail(@)]
  /\ \/ (\A x \in sends : may_send(x)) /\ UNCHANGED <<app, sock, panic>>
     \/ (\E x \in sends : ~may_send(x)) /\ Panics("send")
     \/ "misbehave" \in NetMay /\ Panics("message")

\* Variant: only the connection to the peer is closed.
forward_and_close_one(closes) ==
  /\ Poll("Active")
  /\ rx["p"] = <<>> /\ rx["s"] # <<>>
  /\ rx' = [rx EXCEPT !["s"] = Tail(@)]
  /\ closes
  /\ app' = "ClosingSockets"
  /\ sock' = [sock EXCEPT !["p"] = AfterClose(@)]
  /\ UNCHANGED panic

\* A reply of the service when there is no message of the peer: only these
\* close the channel, and then both sockets.
forward_service_msg(closes) ==
  /\ Poll("Active")
  /\ rx["p"] = <<>> /\ rx["s"] # <<>>
  /\ rx' = [rx EXCEPT !["s"] = Tail(@)]
  /\ \/ ~closes /\ UNCHANGED <<app, sock, panic>>
     \/ /\ closes
        /\ app' = "ClosingSockets"
        /\ sock' = [x \in Sockets |-> AfterClose(sock[x])]
        /\ UNCHANGED panic
     \/ "misbehave" \in NetMay /\ Panics("message")

poll ==
  \/ connect_config_dealer \/ wait_connected_and_read_config
  \/ wait_connections_closed
  \/ check_incomming_connection \/ wait_connected_and_proposal_msg
  \/ wait_connected_and_send_handshake \/ wait_handshake_and_propose_channel
  \/ \E sends \in SUBSET Sockets : forward_participant_msg(sends)
  \/ \E closes \in BOOLEAN : forward_service_msg(closes)

(***************************************************************************)
(* Buttons                                                                 *)
(***************************************************************************)
\* propose_channel calls connect. A listening socket is aborted first; when it
\* is open otherwise, connect fails and nothing changes. The participant socket
\* is already connecting when the second connect fails.
propose_channel ==
  /\ Poll("Listening")
  /\ ~is_active("p")
  /\ LET failing == {x \in {"s"} : is_open(x)} IN
       /\ sock' = [x \in Sockets |-> IF x \in failing THEN sock[x] ELSE "SynSent"]
       /\ rx' = [x \in Sockets |-> IF x \in failing THEN rx[x] ELSE <<>>]
       /\ app' = IF failing = {} THEN "Connecting" ELSE app
  /\ UNCHANGED panic

\* update sends on "p" and force_close on "s", whatever became of the socket.
button_in_active(x) ==
  /\ Poll("Active") /\ ~may_send(x)
  /\ Panics("send")
  /\ UNCHANGED rx

(***************************************************************************)
(* External: the network and the remote ends                               *)
(***************************************************************************)
Net(x, from, to) ==
  /\ sock[x] = from
  /\ sock' = [sock EXCEPT ![x] = to]
  /\ UNCHANGED <<app, rx, panic>>

Accepts(x) == Net(x, "SynSent", "Established")
PeerConnects == Net("p", "Listen", "Established")
AnswersClose(x) == Net(x, "FinWait", "Closed") \/ Net(x, "LastAck", "Closed")

Loses(x) ==
  \/ "close" \in NetMay /\ Net(x, "Established", "CloseWait")
  \/ "reset" \in NetMay /\ is_active(x) /\ Net(x, sock[x], "Closed")
  \/ "refuse" \in NetMay /\ Net(x, "SynSent", "Closed")

\* What a well-behaved remote end sends in each state
Expected ==
  CASE app = "ConnectingToConfigDealer" -> "Config"
    [] app \in {"Listening", "WaitForHandshake"} -> "Auth"
    [] app = "WaitForProposal" -> "Proposal"
    [] OTHER -> "Other"

\* Nothing is due before the handshake was sent and after a close.
Due == rx["p"] = <<>> /\ app \notin {"Connecting", "ClosingSockets"}

Delivers(x, m) ==
  /\ sock[x] = "Established" /\ Len(rx[x]) < MaxRx
  /\ x = "s" => m = "Other" /\ app = "Active"
  /\ x = "p" => \/ m = Expected /\ Due
                \/ "misbehave" \in NetMay /\ app # "ConnectingToConfigDealer" /\ m # "Config"
  /\ rx' = [rx EXCEPT ![x] = Append(@, m)]
  /\ UNCHANGED <<app, sock, panic>>

Next ==
  \/ poll
  \/ propose_channel
  \/ PeerConnects
  \/ \E x \in Sockets :
       \/ button_in_active(x) \/ Accepts(x) \/ AnswersClose(x) \/ Loses(x)
       \/ \E m \in MessageKinds : Delivers(x, m)

Spec == Init /\ [][Next]_vars

\* The main loop polls for ever and a remote end answers a FIN.
FairSpec ==
  /\ Spec
  /\ WF_vars(poll)
  /\ \A x \in Sockets : WF_vars(AnswersClose(x))

\* Remote ends that are there also accept connections and send what is due.
Served ==
  /\ \A x \in Sockets : WF_vars(Accepts(x))
  /\ WF_vars(Due /\ Delivers("p", Expected))

(***************************************************************************)
(* Properties                                                              *)
(***************************************************************************)
\* No poll finds a socket in use that it wants to listen or connect with, and
\* no failed propose_channel leaves the participant socket connecting without
\* the state Connecting, over any number of channels on the same two sockets.
SocketsFree ==
  /\ panic # "socket"
  /\ sock["p"] = "SynSent" => app \in {"ConnectingToConfigDealer", "Connecting"}

\* A handshake is only sent on a connection that takes it: before the channel
\* exists no send can fail, whenever the peer closes or resets the connection.
HandshakeCanBeSent == panic = "send" => app \notin {"Listening", "Connecting"}

\* After a channel, or the configuration, both sockets become free and the
\* device listens again (wait_connections_closed).
ListensAgain == app = "ClosingSockets" ~> app = "Listening"

\* With remote ends that answer, a device that was started gets to Listening,
\* and one that has begun to open a channel gets to Active, unless a connection
\* it needs is lost or a message out of turn stops it.
OpeningProgresses ==
  LET Up(x) == sock[x] \in {"SynSent", "Established"} IN
  Served =>
    /\ app = "InitialState" ~> (app = "Listening" \/ (app = "ConnectingToConfigDealer" /\ ~Up("p")))
    /\ app \in {"Connecting", "WaitForProposal"}
         ~> (app = "Active" \/ panic = "message" \/ ~Up("p") \/ ~Up("s"))
=============================================================================
