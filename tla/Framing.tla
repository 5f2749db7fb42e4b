------------------------------ MODULE Framing ------------------------------
(***************************************************************************)
(* Messages over the byte stream of one TCP connection: the length prefix  *)
(* of ProtoBufEncodingLayer::encode (src/src/wire/encoding.rs), Bus::send  *)
(* into a transmit buffer (cortex-m-demo/src/bus.rs), and                  *)
(* Application::try_recv out of the receive ring of smoltcp                *)
(* (cortex-m-demo/src/application.rs).                                     *)
(*                                                                         *)
(* TCP is external: it moves bytes in order, in pieces of any size, when   *)
(* the receive ring has room.  A byte is a digit of base Base (256 in the  *)
(* code), so both bytes of a length matter on a small instance.            *)
(***************************************************************************)
EXTENDS Integers, Sequences

CONSTANTS
  Base,               \* values of a byte
  TxCap,              \* size of the sender's transmit buffer
  RxCap,              \* recv_capacity: size of the receive ring
  MAX_MESSAGE_SIZE,   \* local array of try_recv
  Sizes,              \* encoded sizes of the messages sent
  MaxSent             \* bound: messages sent

ASSUME FramingAssumption ==
  /\ Base \in Nat \ {0, 1}
  /\ {TxCap, RxCap, MaxSent} \subseteq Nat \ {0}
  /\ Sizes \subseteq Nat
  /\ RxCap = MAX_MESSAGE_SIZE + 2

VARIABLES
  sent,      \* messages handed to the bus
  tx,        \* bytes in the transmit buffer
  rx,        \* bytes in the receive ring, oldest first
  read_at,   \* place of the oldest byte in the ring
  got,       \* messages returned by try_recv
  sender,    \* "run", or how the sender stopped
  receiver   \* "run", or how the receiver stopped

vars == <<sent, tx, rx, read_at, got, sender, receiver>>

Init ==
  /\ sent = <<>> /\ tx = <<>> /\ rx = <<>> /\ got = <<>>
  /\ read_at = 0
  /\ sender = "run" /\ receiver = "run"

\* The n-th message, of len bytes: the bytes tell messages and places apart.
Message(n, len) == [k \in 1 .. len |-> (n + k) % Base]

-----------------------------------------------------------------------------
(* The sender *)

encode(msg) == <<Len(msg) \div Base, Len(msg) % Base>> \o msg

\* send_slice: queues what fits.
Written(bytes) == SubSeq(bytes, 1, IF Len(bytes) <= TxCap - Len(tx) THEN Len(bytes) ELSE TxCap - Len(tx))

\* Bus::send, after the assertion of encode. A send that panics never returned:
\* its message does not count as sent.
send(msg) ==
  /\ sender = "run"
  /\ IF Len(msg) >= Base * Base
     THEN sender' = "too_long" /\ UNCHANGED <<sent, tx>>
     ELSE /\ tx' = tx \o Written(encode(msg))
          /\ IF Len(encode(msg)) = Len(Written(encode(msg)))
             THEN sent' = Append(sent, msg) /\ UNCHANGED sender
             ELSE sender' = "buffer_full" /\ UNCHANGED sent
  /\ UNCHANGED <<rx, read_at, got, receiver>>

\* TCP: the next n bytes arrive. A device that panicked polls no more.
Transmit(n) ==
  /\ sender = "run" /\ receiver = "run"
  /\ n <= Len(tx) /\ n <= RxCap - Len(rx)
  /\ rx' = rx \o SubSeq(tx, 1, n)
  /\ tx' = SubSeq(tx, n + 1, Len(tx))
  /\ UNCHANGED <<sent, read_at, got, sender, receiver>>

-----------------------------------------------------------------------------
(* The receiver *)

\* peek_slice: the bytes up to the end of the ring.
Peekable == IF Len(rx) <= RxCap - read_at THEN Len(rx) ELSE RxCap - read_at

length == rx[1] * Base + rx[2]

\* The length is discarded, the message is read across the end of the ring.
Take(n) ==
  /\ got' = Append(got, SubSeq(rx, 3, 2 + n))
  /\ rx' = SubSeq(rx, 3 + n, Len(rx))
  /\ read_at' = (read_at + 2 + n) % RxCap
  /\ UNCHANGED receiver

\* Variant: the length stays in the ring.
try_recv_undiscarded ==
  /\ receiver = "run"
  /\ Len(rx) >= 2 /\ Peekable >= 2
  /\ Len(rx) >= 2 + length
  /\ got' = Append(got, SubSeq(rx, 3, 2 + length))
  /\ rx' = SubSeq(rx, 1 + length, Len(rx))
  /\ read_at' = (read_at + length) % RxCap
  /\ UNCHANGED <<sent, tx, sender, receiver>>

\* Variant: a message as large as the ring is refused.
try_recv_strict_capacity ==
  /\ receiver = "run"
  /\ Len(rx) >= 2
  /\ IF Peekable < 2 THEN receiver' = "ring_end" /\ UNCHANGED <<rx, read_at, got>>
     ELSE IF 2 + length >= RxCap THEN receiver' = "too_large" /\ UNCHANGED <<rx, read_at, got>>
     ELSE Len(rx) >= 2 + length /\ Take(length)
  /\ UNCHANGED <<sent, tx, sender>>

\* Variant: waits for a byte beyond the message.
try_recv_waits_for_more ==
  /\ receiver = "run"
  /\ Len(rx) >= 2
  /\ IF Peekable < 2 THEN receiver' = "ring_end" /\ UNCHANGED <<rx, read_at, got>>
     ELSE IF 2 + length > RxCap THEN receiver' = "too_large" /\ UNCHANGED <<rx, read_at, got>>
     ELSE Len(rx) > 2 + length /\ Take(length)
  /\ UNCHANGED <<sent, tx, sender>>

\* try_recv. None while the message is incomplete: no step. An Err and the panic
\* at the end of the ring stop the device.
try_recv ==
  /\ receiver = "run"
  /\ Len(rx) >= 2
  /\ IF Peekable < 2 THEN receiver' = "ring_end" /\ UNCHANGED <<rx, read_at, got>>
     ELSE IF 2 + length > RxCap THEN receiver' = "too_large" /\ UNCHANGED <<rx, read_at, got>>
     ELSE Len(rx) >= 2 + length /\ Take(length)
  /\ UNCHANGED <<sent, tx, sender>>

-----------------------------------------------------------------------------

Send == Len(sent) < MaxSent /\ \E len \in Sizes : send(Message(Len(sent), len))

Network == \E n \in 1 .. RxCap : Transmit(n)

Next == Send \/ Network \/ try_recv

Spec == Init /\ [][Next]_vars

\* The main loop polls the interface and the application for ever.
FairSpec == Spec /\ WF_vars(Network) /\ WF_vars(try_recv)

-----------------------------------------------------------------------------
(* Properties *)

\* try_recv returns the messages that were sent, each one whole, in order,
\* however TCP cuts the stream and wherever the ring wraps; a message whose send
\* panicked half-way is never returned.
WholeMessagesInOrder == Len(got) <= Len(sent) /\ \A k \in 1 .. Len(got) : got[k] = sent[k]

\* "Note that such messages won't happen under normal protocol completion as
\* long as the rx_buffer is large enough to hold the largest possible message
\* type" (application.rs:522): try_recv refuses a length only when the message
\* that is due really exceeds the ring, never because of how the stream was cut
\* or where an earlier message ended.
NeverTooLarge ==
  receiver = "too_large" => Len(got) < Len(sent) /\ Len(sent[Len(got) + 1]) + 2 > RxCap

\* A message that was sent is returned, a message that fills the whole ring
\* included, unless one of the two devices stopped.
Delivered ==
  \A k \in 1 .. MaxSent :
    Len(sent) >= k ~> (Len(got) >= k \/ sender # "run" \/ receiver # "run")
=============================================================================
