--------------------------- MODULE FramingProofs ----------------------------
(***************************************************************************)
(* The receiver gets whole messages in order, for buffers and messages of  *)
(* any size and however TCP cuts the stream.  The invariant places every   *)
(* message that was sent and not yet returned in the bytes under way: a    *)
(* function maps the number of a message to the offset of its frame.       *)
(***************************************************************************)
EXTENDS Framing, SequenceTheorems, TLAPS

Bytes == 0 .. Base - 1

ByteStrings == Seq(Bytes)

\* For each message, the number of bytes before its frame.
Offsets == [Nat -> Nat]

FramingTypes ==
  /\ sent \in Seq(ByteStrings) /\ got \in Seq(ByteStrings)
  /\ tx \in Seq(Bytes) /\ rx \in Seq(Bytes)
  /\ sender \in {"run", "too_long", "buffer_full"}
  /\ receiver \in {"run", "ring_end", "too_large"}

\* The bytes that were queued and not read, oldest first.
Stream == rx \o tx

\* The encoding of msg is in bytes, after the first at bytes.
FrameAt(bytes, at, msg) ==
  /\ at + 2 + Len(msg) <= Len(bytes)
  /\ bytes[at + 1] = Len(msg) \div Base
  /\ bytes[at + 2] = Len(msg) % Base
  /\ \A i \in 1 .. Len(msg) : bytes[at + 2 + i] = msg[i]

\* The first d bytes of bytes were read, rest is left.
Read(bytes, d, rest) ==
  Len(rest) = Len(bytes) - d /\ \A i \in 1 .. Len(rest) : rest[i] = bytes[d + i]

\* Messages n + 1 .. total of msgs are in bytes one after the other, with nothing
\* before them: the frame of message k starts after at[k] bytes.
Framed(at, bytes, msgs, n, total) ==
  /\ at[n + 1] = 0
  /\ \A k \in n + 1 .. total :
       at[k + 1] = at[k] + 2 + Len(msgs[k]) /\ FrameAt(bytes, at[k], msgs[k])
  /\ \A i, j \in n + 1 .. total + 1 : i <= j => at[i] <= at[j]
  /\ at[total + 1] <= Len(bytes)

\* Every message that was sent and not returned is in the stream. What follows
\* the last one is the rest of a send that panicked, none of it transmitted.
InStream ==
  \E at \in Offsets :
    /\ Framed(at, Stream, sent, Len(got), Len(sent))
    /\ Len(rx) <= at[Len(sent) + 1]
    /\ sender = "run" => at[Len(sent) + 1] = Len(Stream)

FramingInv ==
  /\ FramingTypes
  /\ WholeMessagesInOrder
  /\ InStream
  /\ NeverTooLarge

-----------------------------------------------------------------------------
\* The two bytes of the prefix stand for the length, and each one is a byte.
LEMMA Prefix ==
  ASSUME NEW n \in Nat
  PROVE  /\ (n \div Base) * Base + (n % Base) = n
         /\ n % Base \in Bytes
         /\ n \div Base \in Nat
         /\ n < Base * Base => n \div Base \in Bytes
<1>. Base \in Nat /\ Base > 1
  BY FramingAssumption
<1>1. (n \div Base) * Base + (n % Base) = n /\ n % Base \in Bytes /\ n \div Base \in Nat
  BY DEF Bytes
<1>2. ASSUME n < Base * Base PROVE n \div Base < Base
  <2>. DEFINE q == n \div Base
  <2>1. q \in Nat /\ q * Base <= n
    BY <1>1 DEF Bytes
  <2>2. q * Base < Base * Base
    BY <2>1, <1>2
  <2>. HIDE DEF q
  <2>3. ASSUME q >= Base PROVE FALSE
    BY <2>1, <2>2, <2>3
  <2>. QED
    BY <2>1, <2>3 DEF q
<1>. QED
  BY <1>1, <1>2 DEF Bytes

\* encode is a sequence of bytes that holds the frame.
LEMMA Encoded ==
  ASSUME NEW msg \in Seq(Bytes), Len(msg) < Base * Base
  PROVE  /\ encode(msg) \in Seq(Bytes)
         /\ Len(encode(msg)) = 2 + Len(msg)
         /\ FrameAt(encode(msg), 0, msg)
<1>. DEFINE prefix == <<Len(msg) \div Base, Len(msg) % Base>>
<1>1. prefix \in Seq(Bytes) /\ Len(prefix) = 2
      /\ prefix[1] = Len(msg) \div Base /\ prefix[2] = Len(msg) % Base
  BY Prefix
<1>. HIDE DEF prefix
<1>2. /\ prefix \o msg \in Seq(Bytes) /\ Len(prefix \o msg) = Len(prefix) + Len(msg)
      /\ \A i \in 1 .. Len(prefix) + Len(msg) :
           (prefix \o msg)[i] = IF i <= Len(prefix) THEN prefix[i] ELSE msg[i - Len(prefix)]
  BY <1>1, ConcatProperties, Zenon
<1>3. encode(msg) = prefix \o msg
  BY DEF encode, prefix
<1>. QED
  BY <1>1, <1>2, <1>3 DEF FrameAt

\* Concatenation of byte sequences.
LEMMA Joined ==
  ASSUME NEW s \in Seq(Bytes), NEW t \in Seq(Bytes)
  PROVE  /\ s \o t \in Seq(Bytes) /\ Len(s \o t) = Len(s) + Len(t)
         /\ \A i \in 1 .. Len(s) + Len(t) :
              (s \o t)[i] = IF i <= Len(s) THEN s[i] ELSE t[i - Len(s)]
BY ConcatProperties, Zenon

\* Concatenation of byte sequences is associative.
LEMMA JoinedTwice ==
  ASSUME NEW s \in Seq(Bytes), NEW t \in Seq(Bytes), NEW u \in Seq(Bytes)
  PROVE  (s \o t) \o u = s \o (t \o u)
OBVIOUS

\* A frame stays where it is when bytes are appended.
LEMMA FrameKept ==
  ASSUME NEW s \in Seq(Bytes), NEW t \in Seq(Bytes), NEW msg \in Seq(Bytes), NEW at \in Nat,
         FrameAt(s, at, msg)
  PROVE  FrameAt(s \o t, at, msg)
<1>. DEFINE st == s \o t
<1>1. /\ Len(st) = Len(s) + Len(t)
      /\ \A i \in 1 .. Len(s) + Len(t) : st[i] = IF i <= Len(s) THEN s[i] ELSE t[i - Len(s)]
  BY Joined, Zenon
<1>. HIDE DEF st
<1>2. FrameAt(st, at, msg)
  BY <1>1 DEF FrameAt
<1>. QED
  BY <1>2 DEF st

\* An appended frame comes after all bytes that were there.
LEMMA FrameAppended ==
  ASSUME NEW s \in Seq(Bytes), NEW t \in Seq(Bytes), NEW msg \in Seq(Bytes), FrameAt(t, 0, msg)
  PROVE  FrameAt(s \o t, Len(s), msg)
<1>. DEFINE st == s \o t
<1>1. /\ Len(st) = Len(s) + Len(t)
      /\ \A i \in 1 .. Len(s) + Len(t) : st[i] = IF i <= Len(s) THEN s[i] ELSE t[i - Len(s)]
  BY Joined, Zenon
<1>. HIDE DEF st
<1>2. /\ Len(s) \in Nat /\ Len(t) \in Nat /\ Len(msg) \in Nat
      /\ 2 + Len(msg) <= Len(t)
      /\ t[1] = Len(msg) \div Base /\ t[2] = Len(msg) % Base
      /\ \A i \in 1 .. Len(msg) : t[2 + i] = msg[i]
  BY DEF FrameAt
<1>3. ASSUME NEW i \in 1 .. 2 + Len(msg) PROVE st[Len(s) + i] = t[i]
  <2>1. Len(s) + i \in 1 .. Len(s) + Len(t) /\ ~ (Len(s) + i <= Len(s)) /\ (Len(s) + i) - Len(s) = i
    BY <1>2
  <2>. QED
    BY <1>1, <2>1, Zenon
<1>4. \A i \in 1 .. Len(msg) : st[Len(s) + 2 + i] = msg[i]
  BY <1>2, <1>3
<1>5. FrameAt(st, Len(s), msg)
  BY <1>1, <1>2, <1>3, <1>4 DEF FrameAt
<1>. QED
  BY <1>5 DEF st

\* The bytes of a message are bytes.
LEMMA MessageBytes ==
  ASSUME NEW n \in Nat, NEW len \in Sizes
  PROVE  Message(n, len) \in Seq(Bytes) /\ Len(Message(n, len)) = len
BY FramingAssumption DEF Message, Bytes

\* What send_slice queues is a prefix of the bytes, and all of them when their
\* number says so.
LEMMA WrittenBytes ==
  ASSUME FramingTypes, NEW bytes \in Seq(Bytes), Len(bytes) > 0
  PROVE  /\ Written(bytes) \in Seq(Bytes)
         /\ Len(bytes) = Len(Written(bytes)) => Written(bytes) = bytes
<1>. DEFINE n == IF Len(bytes) <= TxCap - Len(tx) THEN Len(bytes) ELSE TxCap - Len(tx)
<1>0. TxCap \in Nat /\ Len(tx) \in Nat /\ Len(bytes) \in Nat
  BY FramingAssumption DEF FramingTypes
<1>1. n \in Int /\ n <= Len(bytes)
  BY <1>0
<1>2. Written(bytes) = SubSeq(bytes, 1, n)
  BY DEF Written
<1>. HIDE DEF n
<1>3. \A i \in 1 .. n : bytes[i] \in Bytes
  BY <1>1
<1>4. /\ SubSeq(bytes, 1, n) \in Seq(Bytes)
      /\ Len(SubSeq(bytes, 1, n)) = IF 1 <= n THEN n - 1 + 1 ELSE 0
  BY <1>0, <1>1, <1>3, SubSeqProperties
<1>5. ASSUME Len(bytes) = Len(SubSeq(bytes, 1, n)) PROVE n = Len(bytes)
  BY <1>0, <1>1, <1>4, <1>5
<1>. QED
  BY <1>2, <1>4, <1>5, SubSeqFull

\* The stream is what is in the two buffers.
LEMMA StreamBytes ==
  ASSUME FramingTypes
  PROVE  /\ Stream \in Seq(Bytes) /\ Len(Stream) = Len(rx) + Len(tx)
         /\ \A i \in 1 .. Len(rx) : Stream[i] = rx[i]
<1>1. rx \in Seq(Bytes) /\ tx \in Seq(Bytes) /\ Len(rx) \in Nat /\ Len(tx) \in Nat
  BY DEF FramingTypes
<1>2. /\ Stream \in Seq(Bytes) /\ Len(Stream) = Len(rx) + Len(tx)
      /\ \A i \in 1 .. Len(rx) + Len(tx) :
           Stream[i] = IF i <= Len(rx) THEN rx[i] ELSE tx[i - Len(rx)]
  BY <1>1, Joined, Zenon DEF Stream
<1>. QED
  BY <1>1, <1>2

-----------------------------------------------------------------------------
\* Bytes appended to the stream disturb no frame.
LEMMA FramedGrows ==
  ASSUME NEW n \in Nat, NEW total \in Nat, NEW msgs,
         \A k \in n + 1 .. total : msgs[k] \in ByteStrings,
         NEW s \in ByteStrings, NEW t \in ByteStrings, NEW at \in Offsets,
         Framed(at, s, msgs, n, total)
  PROVE  Framed(at, s \o t, msgs, n, total)
<1>1. ASSUME NEW k \in n + 1 .. total PROVE FrameAt(s \o t, at[k], msgs[k])
  <2>1. at[k] \in Nat
    BY DEF Offsets
  <2>2. FrameAt(s, at[k], msgs[k])
    BY Zenon DEF Framed
  <2>. QED
    BY <2>1, <2>2, FrameKept, Zenon DEF ByteStrings
<1>2. at[total + 1] <= Len(s \o t)
  <2>1. Len(s \o t) = Len(s) + Len(t)
    BY Joined, Zenon DEF ByteStrings
  <2>2. at[total + 1] <= Len(s)
    BY Zenon DEF Framed
  <2>3. Len(s) \in Nat /\ Len(t) \in Nat
    BY DEF ByteStrings
  <2>4. at[total + 1] \in Nat
    BY DEF Offsets
  <2>. QED
    BY <2>1, <2>2, <2>3, <2>4
<1>. QED
  BY <1>1, <1>2, Zenon DEF Framed

\* Offsets that add to those of messages n + 1 .. total the end v of one more.
EndsAt(at, n, total, v) ==
  \E at2 \in Offsets :
    at2[total + 2] = v /\ \A k \in n + 1 .. total + 1 : at2[k] = at[k]

\* The offset of one more message.
LEMMA OneMore ==
  ASSUME NEW at \in Offsets, NEW n \in Nat, NEW total \in Nat, NEW v \in Nat
  PROVE  EndsAt(at, n, total, v)
<1>. DEFINE at2 == [at EXCEPT ![total + 2] = v]
<1>1. at2 \in Offsets /\ at2[total + 2] = v /\ \A k \in n + 1 .. total + 1 : at2[k] = at[k]
  BY DEF Offsets
<1>. HIDE DEF at2
<1>. QED
  BY <1>1, Zenon DEF EndsAt

\* Messages n + 1 .. total of msgs are the first end bytes.
UpTo(bytes, msgs, n, total, end) ==
  \E at \in Offsets : Framed(at, bytes, msgs, n, total) /\ at[total + 1] = end

\* All messages are in the stream s, which ends with them; msgs2 has one more
\* message, of which t is the frame.
MayAppend(at, s, t, msgs, msgs2, n, total) ==
  /\ n \in Nat /\ total \in Nat /\ n <= total /\ at \in Offsets
  /\ \A k \in n + 1 .. total : msgs[k] \in ByteStrings /\ msgs2[k] = msgs[k]
  /\ s \in ByteStrings /\ Framed(at, s, msgs, n, total) /\ at[total + 1] = Len(s)
  /\ msgs2[total + 1] \in ByteStrings
  /\ t \in ByteStrings /\ FrameAt(t, 0, msgs2[total + 1]) /\ Len(t) = 2 + Len(msgs2[total + 1])

\* A frame appended to a stream that ends with the last message is one more.
LEMMA FramedSend ==
  ASSUME NEW n, NEW total, NEW msgs, NEW msgs2, NEW s, NEW t, NEW at,
         MayAppend(at, s, t, msgs, msgs2, n, total)
  PROVE  UpTo(s \o t, msgs2, n, total + 1, Len(s \o t))
<1>. DEFINE msg == msgs2[total + 1]
<1>0. /\ n \in Nat /\ total \in Nat /\ n <= total /\ msg \in ByteStrings
      /\ s \in ByteStrings /\ t \in ByteStrings /\ at \in Offsets
      /\ \A k \in n + 1 .. total : msgs[k] \in ByteStrings /\ msgs2[k] = msgs[k]
      /\ msgs2[total + 1] = msg
      /\ Framed(at, s, msgs, n, total) /\ at[total + 1] = Len(s)
      /\ FrameAt(t, 0, msg) /\ Len(t) = 2 + Len(msg)
  BY Zenon DEF MayAppend
<1>. HIDE DEF msg
<1>. USE <1>0
<1>1. PICK at2 \in Offsets :
        at2[total + 2] = Len(s) + Len(t) /\ \A k \in n + 1 .. total + 1 : at2[k] = at[k]
  <2>1. Len(s) + Len(t) \in Nat
    BY DEF ByteStrings
  <2>2. EndsAt(at, n, total, Len(s) + Len(t))
    BY <2>1, OneMore
  <2>. QED
    BY <2>2, Zenon DEF EndsAt
<1>2. Framed(at, s \o t, msgs, n, total)
  BY FramedGrows
<1>3. Len(s \o t) = Len(s) + Len(t)
  BY Joined, Zenon DEF ByteStrings
<1>4. Len(s) \in Nat /\ Len(t) \in Nat /\ Len(msg) \in Nat
  BY DEF ByteStrings
<1>5. at2[n + 1] = 0
  <2>0. n + 1 \in n + 1 .. total + 1
    OBVIOUS
  <2>1. at[n + 1] = 0 /\ n + 1 \in n + 1 .. total + 1
    BY <2>0, Zenon DEF Framed
  <2>. QED
    BY <2>1, <1>1
<1>6. ASSUME NEW k \in n + 1 .. total + 1
      PROVE  at2[k + 1] = at2[k] + 2 + Len(msgs2[k]) /\ FrameAt(s \o t, at2[k], msgs2[k])
  <2>1. CASE k = total + 1
    <3>1. FrameAt(s \o t, Len(s), msg)
      BY FrameAppended, Zenon DEF ByteStrings
    <3>2. k + 1 = total + 2 /\ at2[k] = Len(s)
      BY <2>1, <1>1
    <3>3. msgs2[k] = msg
      BY <2>1
    <3>. QED
      BY <3>1, <3>2, <3>3, <1>1, <1>4
  <2>2. CASE k # total + 1
    <3>1. k \in n + 1 .. total /\ k + 1 \in n + 1 .. total + 1
      BY <2>2
    <3>2. at[k + 1] = at[k] + 2 + Len(msgs[k]) /\ FrameAt(s \o t, at[k], msgs[k])
      BY <3>1, <1>2, Zenon DEF Framed
    <3>3. at2[k] = at[k] /\ at2[k + 1] = at[k + 1] /\ msgs2[k] = msgs[k]
      BY <3>1, <1>1
    <3>. QED
      BY <3>2, <3>3
  <2>. QED
    BY <2>1, <2>2
<1>7. ASSUME NEW i \in n + 1 .. total + 2, NEW j \in n + 1 .. total + 2, i <= j
      PROVE  at2[i] <= at2[j]
  <2>1. \A a, b \in n + 1 .. total + 1 : a <= b => at[a] <= at[b]
    BY Zenon DEF Framed
  <2>2. CASE j = total + 2 /\ i = total + 2
    BY <2>2, <1>1, <1>4
  <2>3. CASE j = total + 2 /\ i # total + 2
    <3>1. i \in n + 1 .. total + 1 /\ total + 1 \in n + 1 .. total + 1 /\ i <= total + 1 /\ i \in Nat
      BY <2>3
    <3>2. at[i] <= at[total + 1] /\ at[i] \in Nat
      BY <2>1, <3>1 DEF Offsets
    <3>. QED
      BY <3>1, <3>2, <2>3, <1>1, <1>4
  <2>4. CASE j # total + 2
    <3>1. i \in n + 1 .. total + 1 /\ j \in n + 1 .. total + 1
      BY <2>4, <1>7
    <3>. QED
      BY <3>1, <2>1, <1>1, <1>7
  <2>. QED
    BY <2>2, <2>3, <2>4
<1>8. Framed(at2, s \o t, msgs2, n, total + 1)
  <2>1. (total + 1) + 1 = total + 2 /\ at2[total + 2] <= Len(s \o t)
    BY <1>1, <1>3, <1>4
  <2>. QED
    BY <2>1, <1>5, <1>6, <1>7, Zenon DEF Framed
<1>9. (total + 1) + 1 = total + 2
  OBVIOUS
<1>. QED
  BY <1>1, <1>3, <1>8, <1>9, Zenon DEF UpTo

\* A frame moves to the front when the bytes before it are read.
LEMMA FrameShifted ==
  ASSUME NEW s \in ByteStrings, NEW s2 \in ByteStrings, NEW msg \in ByteStrings,
         NEW d \in Nat, NEW at \in Nat, at >= d, Read(s, d, s2), FrameAt(s, at, msg)
  PROVE  FrameAt(s2, at - d, msg)
<1>1. Len(s) \in Nat /\ Len(s2) \in Nat /\ Len(msg) \in Nat
  BY DEF ByteStrings
<1>2. ASSUME NEW i \in 1 .. 2 + Len(msg) PROVE s2[(at - d) + i] = s[at + i]
  <2>1. (at - d) + i \in 1 .. Len(s2) /\ d + ((at - d) + i) = at + i
    BY <1>1 DEF FrameAt, Read
  <2>. QED
    BY <2>1, Zenon DEF Read
<1>3. ASSUME NEW i \in 1 .. Len(msg) PROVE s2[(at - d) + 2 + i] = msg[i]
  <2>1. 2 + i \in 1 .. 2 + Len(msg) /\ (at - d) + (2 + i) = (at - d) + 2 + i /\ at + (2 + i) = at + 2 + i
    BY <1>1
  <2>2. s[at + 2 + i] = msg[i]
    BY DEF FrameAt
  <2>3. s2[(at - d) + (2 + i)] = s[at + (2 + i)]
    BY <2>1, <1>2, Zenon
  <2>. QED
    BY <2>1, <2>2, <2>3, Zenon
<1>4. 1 \in 1 .. 2 + Len(msg) /\ 2 \in 1 .. 2 + Len(msg)
  BY <1>1
<1>5. s2[(at - d) + 1] = Len(msg) \div Base /\ s2[(at - d) + 2] = Len(msg) % Base
  BY <1>2, <1>4 DEF FrameAt
<1>6. (at - d) + 2 + Len(msg) <= Len(s2)
  BY <1>1 DEF FrameAt, Read
<1>. QED
  BY <1>3, <1>5, <1>6 DEF FrameAt

\* The offsets of the messages that follow one of d bytes.
LEMMA Shifted ==
  ASSUME NEW at \in Offsets, NEW d \in Nat
  PROVE  \E at2 \in Offsets : \A k \in Nat : at[k] >= d => at2[k] = at[k] - d
<1>. DEFINE at2 == [k \in Nat |-> IF at[k] >= d THEN at[k] - d ELSE 0]
<1>1. at2 \in Offsets /\ \A k \in Nat : at[k] >= d => at2[k] = at[k] - d
  BY DEF Offsets
<1>. HIDE DEF at2
<1>. QED
  BY <1>1, Zenon

\* The first d bytes of s are the frame of message n + 1; s2 is the rest.
MayRead(at, s, s2, msgs, n, total, d) ==
  /\ n \in Nat /\ total \in Nat /\ n < total /\ at \in Offsets
  /\ \A k \in n + 1 .. total : msgs[k] \in ByteStrings
  /\ s \in ByteStrings /\ Framed(at, s, msgs, n, total)
  /\ d \in Nat /\ d = 2 + Len(msgs[n + 1])
  /\ s2 \in ByteStrings /\ Read(s, d, s2)

\* When its frame was read, the first message is no longer in the stream and
\* the others are.
LEMMA FramedTake ==
  ASSUME NEW n, NEW total, NEW msgs, NEW s, NEW s2, NEW at, NEW d,
         MayRead(at, s, s2, msgs, n, total, d)
  PROVE  UpTo(s2, msgs, n + 1, total, at[total + 1] - d)
<1>0. /\ n \in Nat /\ total \in Nat /\ n < total /\ d \in Nat
      /\ \A k \in n + 1 .. total : msgs[k] \in ByteStrings
      /\ s \in ByteStrings /\ s2 \in ByteStrings /\ at \in Offsets
      /\ Framed(at, s, msgs, n, total) /\ d = 2 + Len(msgs[n + 1]) /\ Read(s, d, s2)
  BY Zenon DEF MayRead
<1>. USE <1>0
<1>1. PICK at2 \in Offsets : \A k \in Nat : at[k] >= d => at2[k] = at[k] - d
  BY Shifted, Zenon
<1>2. /\ at[n + 1] = 0
      /\ \A k \in n + 1 .. total :
           at[k + 1] = at[k] + 2 + Len(msgs[k]) /\ FrameAt(s, at[k], msgs[k])
      /\ \A i, j \in n + 1 .. total + 1 : i <= j => at[i] <= at[j]
      /\ at[total + 1] <= Len(s)
  BY Zenon DEF Framed
<1>3. \A k \in Nat : at[k] \in Nat
  BY DEF Offsets
<1>4. Len(s) \in Nat /\ Len(s2) \in Nat /\ Len(msgs[n + 1]) \in Nat
  <2>1. msgs[n + 1] \in ByteStrings
    OBVIOUS
  <2>. QED
    BY <2>1 DEF ByteStrings
<1>5. at[n + 2] = d
  <2>1. n + 1 \in n + 1 .. total /\ (n + 1) + 1 = n + 2
    OBVIOUS
  <2>2. at[n + 2] = 0 + 2 + Len(msgs[n + 1])
    BY <2>1, <1>2, Zenon
  <2>. QED
    BY <2>2, <1>4
<1>6. ASSUME NEW k \in n + 2 .. total + 1
      PROVE  k \in Nat /\ at[k] >= d /\ at2[k] = at[k] - d
  <2>1. k \in Nat /\ k \in n + 1 .. total + 1 /\ n + 2 \in n + 1 .. total + 1 /\ n + 2 <= k
    OBVIOUS
  <2>2. d <= at[k]
    BY <2>1, <1>2, <1>5, Zenon
  <2>3. at[k] >= d
    BY <2>2, <2>1, <1>3
  <2>. QED
    BY <2>1, <2>3, <1>1, Zenon
<1>7. ASSUME NEW k \in n + 2 .. total
      PROVE  at2[k + 1] = at2[k] + 2 + Len(msgs[k]) /\ FrameAt(s2, at2[k], msgs[k])
  <2>1. /\ k \in n + 1 .. total /\ k \in n + 2 .. total + 1 /\ k + 1 \in n + 2 .. total + 1
        /\ k \in Nat /\ k + 1 \in Nat
    OBVIOUS
  <2>2. msgs[k] \in ByteStrings /\ FrameAt(s, at[k], msgs[k]) /\ at[k + 1] = at[k] + 2 + Len(msgs[k])
    BY <2>1, <1>2, Zenon
  <2>3. /\ at2[k] = at[k] - d /\ at2[k + 1] = at[k + 1] - d /\ at[k] >= d
        /\ at[k] \in Nat /\ at[k + 1] \in Nat
    BY <2>1, <1>3, <1>6, Zenon
  <2>4. FrameAt(s2, at[k] - d, msgs[k])
    BY <2>2, <2>3, FrameShifted, Zenon
  <2>5. Len(msgs[k]) \in Nat
    BY <2>2 DEF ByteStrings
  <2>6. at2[k + 1] = at2[k] + 2 + Len(msgs[k])
    <3>. DEFINE a == at[k]
                b == at[k + 1]
                l == Len(msgs[k])
    <3>1. a \in Nat /\ b \in Nat /\ l \in Nat /\ b = a + 2 + l
      BY <2>2, <2>3, <2>5, Zenon
    <3>2. at2[k] = a - d /\ at2[k + 1] = b - d
      BY <2>3, Zenon
    <3>. HIDE DEF a, b, l
    <3>3. b - d = (a - d) + 2 + l
      BY <3>1
    <3>4. at2[k + 1] = at2[k] + 2 + l
      BY <3>2, <3>3, Zenon
    <3>. QED
      BY <3>4 DEF l
  <2>. QED
    BY <2>3, <2>4, <2>6, Zenon
<1>8. ASSUME NEW i \in n + 2 .. total + 1, NEW j \in n + 2 .. total + 1, i <= j
      PROVE  at2[i] <= at2[j]
  <2>1. i \in n + 1 .. total + 1 /\ j \in n + 1 .. total + 1 /\ i \in Nat /\ j \in Nat
    OBVIOUS
  <2>2. at[i] <= at[j]
    BY <2>1, <1>2, <1>8, Zenon
  <2>3. at2[i] = at[i] - d /\ at2[j] = at[j] - d /\ at[i] \in Nat /\ at[j] \in Nat
    BY <2>1, <1>3, <1>6, Zenon
  <2>. QED
    BY <2>2, <2>3
<1>9. total + 1 \in n + 2 .. total + 1 /\ total + 1 \in Nat /\ n + 2 \in n + 2 .. total + 1
  OBVIOUS
<1>10. Framed(at2, s2, msgs, n + 1, total)
  <2>1. (n + 1) + 1 = n + 2 /\ at2[n + 2] = 0
    BY <1>5, <1>6, <1>9
  <2>2. at2[total + 1] <= Len(s2)
    <3>1. at2[total + 1] = at[total + 1] - d /\ at[total + 1] \in Nat /\ at[total + 1] <= Len(s)
      BY <1>2, <1>3, <1>6, <1>9, Zenon
    <3>2. Len(s2) = Len(s) - d
      BY DEF Read
    <3>3. \A a, b, x, y : a \in Nat /\ b \in Nat /\ x = a - d /\ a <= b /\ y = b - d => x <= y
      OBVIOUS
    <3>. QED
      BY <3>1, <3>2, <3>3, <1>4, Zenon
  <2>. QED
    BY <2>1, <2>2, <1>7, <1>8, Zenon DEF Framed
<1>11. at2[total + 1] = at[total + 1] - d
  BY <1>6, <1>9, Zenon
<1>. QED
  BY <1>10, <1>11, Zenon DEF UpTo

-----------------------------------------------------------------------------
\* A message that was sent is a sequence of bytes.
LEMMA SentBytes ==
  ASSUME FramingTypes
  PROVE  /\ Len(sent) \in Nat /\ Len(got) \in Nat /\ Len(rx) \in Nat /\ Len(tx) \in Nat
         /\ \A k \in 1 .. Len(sent) : sent[k] \in ByteStrings
         /\ \A k \in Len(got) + 1 .. Len(sent) : sent[k] \in ByteStrings
<1>1. sent \in Seq(ByteStrings) /\ got \in Seq(ByteStrings)
  BY DEF FramingTypes
<1>2. rx \in Seq(Bytes) /\ tx \in Seq(Bytes)
  BY DEF FramingTypes
<1>. QED
  BY <1>1, <1>2

\* Both buffers and all lists are empty.
LEMMA FramingInitial == Init => FramingInv
<1>. SUFFICES ASSUME Init PROVE FramingInv
  OBVIOUS
<1>1. FramingTypes /\ Len(got) = 0 /\ Len(sent) = 0 /\ Len(rx) = 0 /\ Len(tx) = 0
  BY DEF Init, FramingTypes
<1>2. Len(Stream) = 0
  BY <1>1, StreamBytes
<1>3. InStream
  <2>. DEFINE at == [k \in Nat |-> 0]
  <2>1. at \in Offsets /\ \A k \in Nat : at[k] = 0
    BY DEF Offsets
  <2>. HIDE DEF at
  <2>2. Framed(at, Stream, sent, Len(got), Len(sent)) /\ at[Len(sent) + 1] = 0
    BY <1>1, <1>2, <2>1 DEF Framed
  <2>. QED
    BY <1>1, <1>2, <2>1, <2>2 DEF InStream
<1>. QED
  BY <1>1, <1>3 DEF FramingInv, WholeMessagesInOrder, NeverTooLarge, Init

\* A send that fits adds a message, one that does not only bytes nobody reads,
\* and one that fails the length assertion nothing.
LEMMA SendKeeps ==
  ASSUME FramingInv, NEW msg \in ByteStrings, send(msg)
  PROVE  FramingInv'
<1>same. sender = "run" /\ UNCHANGED <<rx, read_at, got, receiver>>
  BY DEF send
<1>0. CASE Len(msg) >= Base * Base
  <2>1. sender' = "too_long" /\ UNCHANGED <<sent, tx>>
    BY <1>0 DEF send
  <2>2. FramingTypes' /\ NeverTooLarge'
    BY <1>same, <2>1 DEF FramingInv, WholeMessagesInOrder, FramingTypes, NeverTooLarge
  <2>3. InStream'
    BY <1>same, <2>1 DEF FramingInv, WholeMessagesInOrder, InStream, Stream, Framed, FrameAt
  <2>. QED
    BY <1>same, <2>1, <2>2, <2>3 DEF FramingInv, WholeMessagesInOrder
<1>. SUFFICES ASSUME ~ (Len(msg) >= Base * Base) PROVE FramingInv'
  BY <1>0
<1>. DEFINE w == Written(encode(msg))
<1>step. /\ tx' = tx \o w
         /\ Len(encode(msg)) = Len(w) => sent' = Append(sent, msg) /\ sender' = sender
         /\ Len(encode(msg)) # Len(w) => sender' = "buffer_full" /\ sent' = sent
  BY DEF send
<1>len. Len(msg) < Base * Base
  <2>1. Len(msg) \in Nat /\ Base * Base \in Nat
    BY FramingAssumption DEF ByteStrings
  <2>. QED
    BY <2>1
<1>ty. FramingTypes
  BY DEF FramingInv, WholeMessagesInOrder
<1>nat. /\ Len(sent) \in Nat /\ Len(got) \in Nat /\ Len(rx) \in Nat /\ Len(tx) \in Nat
        /\ \A k \in Len(got) + 1 .. Len(sent) : sent[k] \in ByteStrings
  BY <1>ty, SentBytes
<1>le. Len(got) <= Len(sent) /\ \A k \in 1 .. Len(got) : got[k] = sent[k]
  BY DEF FramingInv, WholeMessagesInOrder
<1>1. encode(msg) \in ByteStrings /\ Len(encode(msg)) = 2 + Len(msg) /\ FrameAt(encode(msg), 0, msg)
  BY <1>len, Encoded, Zenon DEF ByteStrings
<1>2. w \in ByteStrings /\ (Len(encode(msg)) = Len(w) => w = encode(msg))
  <2>1. Len(encode(msg)) > 0 /\ encode(msg) \in Seq(Bytes)
    BY <1>1 DEF ByteStrings
  <2>. QED
    BY <2>1, <1>ty, WrittenBytes, Zenon DEF ByteStrings
<1>. HIDE DEF w
<1>3. PICK at \in Offsets :
        /\ Framed(at, Stream, sent, Len(got), Len(sent))
        /\ Len(rx) <= at[Len(sent) + 1]
        /\ sender = "run" => at[Len(sent) + 1] = Len(Stream)
  BY DEF FramingInv, WholeMessagesInOrder, InStream
<1>4. Stream \in ByteStrings /\ Stream' = Stream \o w
  <2>1. Stream \in Seq(Bytes)
    BY <1>ty, StreamBytes, Zenon
  <2>2. rx \in Seq(Bytes) /\ tx \in Seq(Bytes) /\ w \in Seq(Bytes)
    BY <1>ty, <1>2, Zenon DEF FramingTypes, ByteStrings
  <2>3. Stream' = rx \o (tx \o w)
    BY <1>step, <1>same DEF Stream
  <2>4. (rx \o tx) \o w = rx \o (tx \o w)
    BY <2>2, JoinedTwice, Zenon
  <2>. QED
    BY <2>1, <2>3, <2>4 DEF Stream, ByteStrings
<1>5. tx' \in Seq(Bytes)
  BY <1>ty, <1>2, <1>step, Joined, Zenon DEF FramingTypes, ByteStrings
<1>6. CASE Len(encode(msg)) = Len(w)
  <2>1. w = encode(msg) /\ sent' = Append(sent, msg) /\ sender' = sender
    BY <1>2, <1>6, <1>step, Zenon
  <2>2. /\ sent' \in Seq(ByteStrings) /\ Len(sent') = Len(sent) + 1 /\ sent'[Len(sent) + 1] = msg
        /\ \A k \in 1 .. Len(sent) : sent'[k] = sent[k]
    <3>1. sent \in Seq(ByteStrings)
      BY <1>ty DEF FramingTypes
    <3>. QED
      BY <2>1, <3>1
  <2>3. FramingTypes'
    BY <1>ty, <1>5, <1>same, <2>1, <2>2 DEF FramingTypes
  <2>4. \A k \in 1 .. Len(got') : got'[k] = sent'[k]
    BY <1>le, <1>nat, <1>same, <2>2
  <2>5. NeverTooLarge'
    <3>1. ASSUME receiver' = "too_large"
          PROVE  Len(got) < Len(sent) /\ Len(sent[Len(got) + 1]) + 2 > RxCap
      BY <3>1, <1>same DEF FramingInv, WholeMessagesInOrder, NeverTooLarge
    <3>2. Len(got) < Len(sent) => Len(got) + 1 \in 1 .. Len(sent) /\ Len(got) < Len(sent) + 1
      BY <1>nat
    <3>3. ASSUME receiver' = "too_large"
          PROVE  Len(got') < Len(sent') /\ Len(sent'[Len(got') + 1]) + 2 > RxCap
      BY <3>1, <3>2, <3>3, <1>same, <2>2
    <3>. QED
      BY <3>3 DEF NeverTooLarge
  <2>6. UpTo(Stream \o w, sent', Len(got), Len(sent) + 1, Len(Stream \o w))
    <3>1. /\ Len(sent) \in Nat /\ Len(got) \in Nat /\ Len(got) <= Len(sent)
          /\ \A k \in Len(got) + 1 .. Len(sent) : sent[k] \in ByteStrings /\ sent'[k] = sent[k]
          /\ sent'[Len(sent) + 1] = msg /\ msg \in ByteStrings
      BY <1>nat, <1>le, <2>2
    <3>2. /\ Stream \in ByteStrings /\ w \in ByteStrings
          /\ Framed(at, Stream, sent, Len(got), Len(sent)) /\ at[Len(sent) + 1] = Len(Stream)
          /\ FrameAt(w, 0, msg) /\ Len(w) = 2 + Len(msg)
      BY <1>1, <1>2, <1>3, <1>4, <1>same, <2>1, Zenon
    <3>3. /\ sent'[Len(sent) + 1] \in ByteStrings
          /\ FrameAt(w, 0, sent'[Len(sent) + 1]) /\ Len(w) = 2 + Len(sent'[Len(sent) + 1])
      BY <3>1, <3>2, Zenon
    <3>4. MayAppend(at, Stream, w, sent, sent', Len(got), Len(sent))
      BY <3>1, <3>2, <3>3 DEF MayAppend
    <3>. QED
      BY <3>4, FramedSend, Zenon
  <2>7. Len(rx) <= Len(Stream \o w)
    <3>1. Len(Stream \o w) = Len(Stream) + Len(w)
      BY <1>2, <1>4, Joined, Zenon DEF ByteStrings
    <3>2. Len(Stream) = Len(rx) + Len(tx) /\ Len(w) \in Nat
      BY <1>ty, <1>2, StreamBytes DEF ByteStrings
    <3>. QED
      BY <3>1, <3>2, <1>nat
  <2>8. InStream'
    <3>1. Len(sent') + 1 = Len(sent) + 2 /\ Len(got') = Len(got) /\ Len(rx') = Len(rx)
      BY <1>nat, <1>same, <2>2
    <3>2. PICK at2 \in Offsets :
            /\ Framed(at2, Stream', sent', Len(got'), Len(sent'))
            /\ at2[Len(sent') + 1] = Len(Stream')
      BY <3>1, <2>2, <2>6, <1>4, Zenon DEF UpTo
    <3>3. Framed(at2, Stream, sent, Len(got), Len(sent))'
      BY <3>2 DEF Framed, FrameAt
    <3>4. Len(rx') <= at2[Len(sent') + 1]
      BY <3>1, <3>2, <2>7, <1>4, Zenon
    <3>. QED
      BY <3>2, <3>3, <3>4 DEF InStream
  <2>. QED
    BY <1>le, <1>nat, <1>same, <2>2, <2>3, <2>4, <2>5, <2>8 DEF FramingInv, WholeMessagesInOrder
<1>7. CASE Len(encode(msg)) # Len(w)
  <2>1. sent' = sent /\ sender' = "buffer_full"
    BY <1>7, <1>step, Zenon
  <2>2. FramingTypes' /\ NeverTooLarge'
    BY <1>ty, <1>5, <1>same, <2>1 DEF FramingTypes, FramingInv, WholeMessagesInOrder, NeverTooLarge
  <2>3. Framed(at, Stream \o w, sent, Len(got), Len(sent))
    BY <1>nat, <1>2, <1>3, <1>4, FramedGrows, Zenon
  <2>4. Framed(at, Stream, sent, Len(got), Len(sent))'
    <3>1. Framed(at, Stream', sent', Len(got'), Len(sent'))
      BY <2>1, <2>3, <1>4, <1>same
    <3>. QED
      BY <3>1 DEF Framed, FrameAt
  <2>5. InStream'
    <3>1. Len(rx') <= at[Len(sent') + 1]
      BY <1>3, <2>1, <1>same
    <3>. QED
      BY <2>1, <2>4, <3>1 DEF InStream
  <2>. QED
    BY <1>le, <1>same, <2>1, <2>2, <2>5 DEF FramingInv, WholeMessagesInOrder
<1>. QED
  BY <1>6, <1>7

-----------------------------------------------------------------------------
\* A stream cut at any place is the same stream.
LEMMA Cut ==
  ASSUME NEW s \in Seq(Bytes), NEW t \in Seq(Bytes), NEW n \in 1 .. Len(t)
  PROVE  /\ SubSeq(t, 1, n) \in Seq(Bytes) /\ SubSeq(t, n + 1, Len(t)) \in Seq(Bytes)
         /\ (s \o SubSeq(t, 1, n)) \o SubSeq(t, n + 1, Len(t)) = s \o t
<1>1. SubSeq(t, 1, n) \in Seq(Bytes) /\ SubSeq(t, n + 1, Len(t)) \in Seq(Bytes)
  OBVIOUS
<1>2. SubSeq(t, 1, n) \o SubSeq(t, n + 1, Len(t)) = t
  <2>1. 1 \in 1 .. Len(t) + 1 /\ n \in 1 - 1 .. Len(t) /\ Len(t) \in n .. Len(t)
    OBVIOUS
  <2>2. SubSeq(t, 1, n) \o SubSeq(t, n + 1, Len(t)) = SubSeq(t, 1, Len(t))
    BY <2>1, ConcatAdjacentSubSeq, Zenon
  <2>3. SubSeq(t, 1, Len(t)) = t
    BY SubSeqFull, Zenon
  <2>. QED
    BY <2>2, <2>3, Zenon
<1>. DEFINE a == SubSeq(t, 1, n)
            b == SubSeq(t, n + 1, Len(t))
<1>3. a \in Seq(Bytes) /\ b \in Seq(Bytes) /\ a \o b = t
  BY <1>1, <1>2, Zenon
<1>. HIDE DEF a, b
<1>4. (s \o a) \o b = s \o (a \o b)
  BY <1>3, JoinedTwice, Zenon
<1>5. (s \o a) \o b = s \o t
  BY <1>3, <1>4
<1>. QED
  BY <1>1, <1>5 DEF a, b

\* TCP moves bytes from one buffer to the other.
LEMMA TransmitKeeps ==
  ASSUME FramingInv, NEW n \in 1 .. RxCap, Transmit(n)
  PROVE  FramingInv'
<1>step. /\ sender = "run" /\ n <= Len(tx)
         /\ rx' = rx \o SubSeq(tx, 1, n) /\ tx' = SubSeq(tx, n + 1, Len(tx))
         /\ UNCHANGED <<sent, read_at, got, sender, receiver>>
  BY DEF Transmit
<1>ty. FramingTypes
  BY DEF FramingInv, WholeMessagesInOrder
<1>nat. Len(tx) \in Nat /\ Len(rx) \in Nat /\ rx \in Seq(Bytes) /\ tx \in Seq(Bytes)
  BY <1>ty, SentBytes DEF FramingTypes
<1>1. n \in 1 .. Len(tx)
  BY <1>nat, <1>step
<1>2. /\ SubSeq(tx, 1, n) \in Seq(Bytes) /\ tx' \in Seq(Bytes)
      /\ Stream' = Stream
  <2>1. /\ SubSeq(tx, 1, n) \in Seq(Bytes) /\ SubSeq(tx, n + 1, Len(tx)) \in Seq(Bytes)
        /\ (rx \o SubSeq(tx, 1, n)) \o SubSeq(tx, n + 1, Len(tx)) = rx \o tx
    BY <1>1, <1>nat, Cut, Zenon
  <2>2. Stream' = rx' \o tx' /\ Stream = rx \o tx
    BY DEF Stream
  <2>. QED
    BY <2>1, <2>2, <1>step, Zenon
<1>3. rx' \in Seq(Bytes)
  BY <1>2, <1>nat, <1>step, Joined, Zenon
<1>4. FramingTypes' /\ NeverTooLarge'
  BY <1>ty, <1>2, <1>3, <1>step DEF FramingTypes, FramingInv, WholeMessagesInOrder, NeverTooLarge
<1>5. Len(rx') <= Len(Stream)
  <2>1. Len(Stream') = Len(rx') + Len(tx')
    <3>1. Len(rx' \o tx') = Len(rx') + Len(tx')
      BY <1>2, <1>3, Joined, Zenon
    <3>. QED
      BY <3>1 DEF Stream
  <2>2. Len(rx') \in Nat /\ Len(tx') \in Nat
    BY <1>2, <1>3
  <2>. QED
    BY <1>2, <2>1, <2>2
<1>6. InStream'
  <2>1. PICK at \in Offsets :
          /\ Framed(at, Stream, sent, Len(got), Len(sent))
          /\ Len(rx) <= at[Len(sent) + 1]
          /\ sender = "run" => at[Len(sent) + 1] = Len(Stream)
    BY DEF FramingInv, WholeMessagesInOrder, InStream
  <2>2. Framed(at, Stream, sent, Len(got), Len(sent))'
    <3>1. Framed(at, Stream', sent', Len(got'), Len(sent'))
      BY <2>1, <1>2, <1>step
    <3>. QED
      BY <3>1 DEF Framed, FrameAt
  <2>3. Len(rx') <= at[Len(sent') + 1] /\ at[Len(sent') + 1] = Len(Stream')
    BY <2>1, <1>2, <1>5, <1>step, Zenon
  <2>. QED
    BY <2>2, <2>3 DEF InStream
<1>. QED
  BY <1>4, <1>6, <1>step DEF FramingInv, WholeMessagesInOrder

-----------------------------------------------------------------------------
\* What is left when the first d bytes of the ring were read.
LEMMA Dropped ==
  ASSUME NEW s \in Seq(Bytes), NEW t \in Seq(Bytes), NEW d \in 0 .. Len(s)
  PROVE  /\ SubSeq(s, d + 1, Len(s)) \in Seq(Bytes)
         /\ Len(SubSeq(s, d + 1, Len(s))) = Len(s) - d
         /\ SubSeq(s, d + 1, Len(s)) \o t \in Seq(Bytes)
         /\ Read(s \o t, d, SubSeq(s, d + 1, Len(s)) \o t)
<1>. DEFINE r == SubSeq(s, d + 1, Len(s))
<1>1. /\ r \in Seq(Bytes) /\ Len(r) = Len(s) - d
      /\ \A i \in 1 .. Len(s) - d : r[i] = s[d + i]
  OBVIOUS
<1>. HIDE DEF r
<1>. DEFINE st == s \o t
            rt == r \o t
<1>2. /\ rt \in Seq(Bytes) /\ Len(rt) = Len(r) + Len(t)
      /\ \A i \in 1 .. Len(r) + Len(t) : rt[i] = IF i <= Len(r) THEN r[i] ELSE t[i - Len(r)]
  BY <1>1, Joined, Zenon
<1>3. /\ Len(st) = Len(s) + Len(t)
      /\ \A i \in 1 .. Len(s) + Len(t) : st[i] = IF i <= Len(s) THEN s[i] ELSE t[i - Len(s)]
  BY Joined, Zenon
<1>. HIDE DEF st, rt
<1>4. Len(s) \in Nat /\ Len(t) \in Nat /\ d \in Nat /\ d <= Len(s) /\ Len(rt) = Len(st) - d
  BY <1>1, <1>2, <1>3
<1>5. ASSUME NEW i \in 1 .. Len(rt) PROVE rt[i] = st[d + i]
  <2>1. i \in 1 .. Len(r) + Len(t) /\ d + i \in 1 .. Len(s) + Len(t)
    BY <1>1, <1>2, <1>4
  <2>2. CASE i <= Len(r)
    <3>1. d + i <= Len(s) /\ i \in 1 .. Len(s) - d
      BY <2>1, <2>2, <1>1, <1>4
    <3>. QED
      BY <2>1, <2>2, <3>1, <1>1, <1>2, <1>3, Zenon
  <2>3. CASE ~ (i <= Len(r))
    <3>1. ~ (d + i <= Len(s)) /\ (d + i) - Len(s) = i - Len(r)
      BY <2>1, <2>3, <1>1, <1>4
    <3>. QED
      BY <2>1, <2>3, <3>1, <1>2, <1>3, Zenon
  <2>. QED
    BY <2>2, <2>3
<1>6. Read(st, d, rt)
  BY <1>4, <1>5, Zenon DEF Read
<1>. QED
  BY <1>1, <1>2, <1>6 DEF r, st, rt

\* The bytes after the prefix are the message.
LEMMA Payload ==
  ASSUME NEW s \in Seq(Bytes), NEW st, NEW msg \in Seq(Bytes), FrameAt(st, 0, msg),
         \A i \in 1 .. Len(s) : st[i] = s[i], Len(s) >= 2 + Len(msg)
  PROVE  SubSeq(s, 3, 2 + Len(msg)) = msg
<1>. DEFINE r == SubSeq(s, 3, 2 + Len(msg))
<1>0. Len(s) \in Nat /\ Len(msg) \in Nat
  OBVIOUS
<1>1. r \in Seq(Bytes) /\ Len(r) = Len(msg) /\ \A i \in 1 .. Len(msg) : r[i] = s[2 + i]
  BY <1>0
<1>. HIDE DEF r
<1>2. ASSUME NEW i \in 1 .. Len(r) PROVE r[i] = msg[i]
  <2>1. i \in 1 .. Len(msg) /\ 2 + i \in 1 .. Len(s) /\ 0 + 2 + i = 2 + i
    BY <1>0, <1>1
  <2>2. st[0 + 2 + i] = msg[i]
    BY <2>1, Zenon DEF FrameAt
  <2>. QED
    BY <2>1, <2>2, <1>1, Zenon
<1>3. r = msg
  BY <1>1, <1>2, SeqEqual, Zenon
<1>. QED
  BY <1>3 DEF r

\* When the prefix has arrived, a message is due, and length is its length.
LEMMA LengthIsRight ==
  ASSUME FramingInv, Len(rx) >= 2
  PROVE  /\ Len(got) < Len(sent)
         /\ Len(got) + 1 \in Len(got) + 1 .. Len(sent)
         /\ sent[Len(got) + 1] \in ByteStrings
         /\ length = Len(sent[Len(got) + 1])
         /\ FrameAt(Stream, 0, sent[Len(got) + 1])
<1>ty. FramingTypes
  BY DEF FramingInv, WholeMessagesInOrder
<1>nat. /\ Len(sent) \in Nat /\ Len(got) \in Nat /\ Len(rx) \in Nat
        /\ \A k \in Len(got) + 1 .. Len(sent) : sent[k] \in ByteStrings
  BY <1>ty, SentBytes
<1>1. PICK at \in Offsets :
        /\ Framed(at, Stream, sent, Len(got), Len(sent))
        /\ Len(rx) <= at[Len(sent) + 1]
  BY DEF FramingInv, WholeMessagesInOrder, InStream
<1>2. Len(got) < Len(sent)
  <2>1. at[Len(got) + 1] = 0
    BY <1>1, Zenon DEF Framed
  <2>2. Len(got) <= Len(sent)
    BY DEF FramingInv, WholeMessagesInOrder
  <2>3. Len(got) # Len(sent)
    <3>1. ASSUME Len(got) = Len(sent) PROVE Len(rx) <= 0
      BY <3>1, <2>1, <1>1, Zenon
    <3>. QED
      BY <3>1, <1>nat
  <2>. QED
    BY <2>2, <2>3, <1>nat
<1>3. Len(got) + 1 \in Len(got) + 1 .. Len(sent)
  BY <1>2, <1>nat
<1>4. sent[Len(got) + 1] \in ByteStrings /\ FrameAt(Stream, 0, sent[Len(got) + 1])
  <2>1. at[Len(got) + 1] = 0 /\ FrameAt(Stream, at[Len(got) + 1], sent[Len(got) + 1])
    BY <1>1, <1>3, Zenon DEF Framed
  <2>. QED
    BY <2>1, <1>nat, <1>3, Zenon
<1>5. length = Len(sent[Len(got) + 1])
  <2>. DEFINE l == Len(sent[Len(got) + 1])
  <2>1. l \in Nat
    BY <1>4 DEF ByteStrings
  <2>2. Stream[1] = l \div Base /\ Stream[2] = l % Base
    BY <1>4 DEF FrameAt
  <2>3. Stream[1] = rx[1] /\ Stream[2] = rx[2]
    <3>1. 1 \in 1 .. Len(rx) /\ 2 \in 1 .. Len(rx)
      BY <1>nat
    <3>. QED
      BY <3>1, <1>ty, StreamBytes, Zenon
  <2>. HIDE DEF l
  <2>4. (l \div Base) * Base + (l % Base) = l
    BY <2>1, Prefix, Zenon
  <2>5. length = l
    BY <2>2, <2>3, <2>4 DEF length
  <2>. QED
    BY <2>5 DEF l
<1>. QED
  BY <1>2, <1>3, <1>4, <1>5

\* try_recv refuses a message, or returns the next one and leaves the rest.
LEMMA RecvKeeps ==
  ASSUME FramingInv, try_recv
  PROVE  FramingInv'
<1>same. Len(rx) >= 2 /\ UNCHANGED <<sent, tx, sender>>
  BY DEF try_recv
<1>ty. FramingTypes
  BY DEF FramingInv, WholeMessagesInOrder
<1>nat. /\ Len(sent) \in Nat /\ Len(got) \in Nat /\ Len(rx) \in Nat /\ Len(tx) \in Nat
        /\ \A k \in Len(got) + 1 .. Len(sent) : sent[k] \in ByteStrings
  BY <1>ty, SentBytes
<1>. DEFINE msg == sent[Len(got) + 1]
            d == 2 + length
<1>due. /\ Len(got) < Len(sent) /\ msg \in ByteStrings /\ length = Len(msg)
        /\ FrameAt(Stream, 0, msg) /\ Len(got) + 1 \in Len(got) + 1 .. Len(sent)
  BY <1>same, LengthIsRight, Zenon
<1>len. length \in Nat /\ d \in Nat
  <2>1. Len(msg) \in Nat
    BY <1>due DEF ByteStrings
  <2>. QED
    BY <2>1, <1>due
<1>1. CASE UNCHANGED <<rx, read_at, got>> /\ receiver' = "ring_end"
  <2>1. FramingTypes' /\ NeverTooLarge'
    BY <1>1, <1>same, <1>ty DEF FramingTypes, NeverTooLarge
  <2>2. InStream'
    BY <1>1, <1>same DEF FramingInv, WholeMessagesInOrder, InStream, Stream, Framed, FrameAt
  <2>. QED
    BY <1>1, <1>same, <2>1, <2>2 DEF FramingInv, WholeMessagesInOrder
<1>2. CASE UNCHANGED <<rx, read_at, got>> /\ receiver' = "too_large" /\ d > RxCap
  <2>1. FramingTypes'
    BY <1>2, <1>same, <1>ty DEF FramingTypes
  <2>2. Len(msg) + 2 > RxCap
    BY <1>2, <1>due, <1>len, FramingAssumption
  <2>3. NeverTooLarge'
    BY <1>2, <1>same, <1>due, <2>2 DEF NeverTooLarge
  <2>4. InStream'
    BY <1>2, <1>same DEF FramingInv, WholeMessagesInOrder, InStream, Stream, Framed, FrameAt
  <2>. QED
    BY <1>2, <1>same, <2>1, <2>3, <2>4 DEF FramingInv, WholeMessagesInOrder
<1>3. CASE Len(rx) >= d /\ Take(length)
  <2>step. /\ got' = Append(got, SubSeq(rx, 3, d)) /\ rx' = SubSeq(rx, 3 + length, Len(rx))
           /\ receiver' = receiver
    BY <1>3 DEF Take
  <2>nt. receiver = "run"
    BY DEF try_recv
  <2>1. rx \in Seq(Bytes) /\ tx \in Seq(Bytes) /\ d \in 0 .. Len(rx) /\ d + 1 = 3 + length
    BY <1>3, <1>ty, <1>len, <1>nat DEF FramingTypes
  <2>2. SubSeq(rx, 3, d) = msg
    <3>1. msg \in Seq(Bytes)
      BY <1>due DEF ByteStrings
    <3>2. \A i \in 1 .. Len(rx) : Stream[i] = rx[i]
      BY <1>ty, StreamBytes, Zenon
    <3>3. d = 2 + Len(msg) /\ Len(rx) >= 2 + Len(msg)
      BY <1>3, <1>due
    <3>4. rx \in Seq(Bytes) /\ FrameAt(Stream, 0, msg)
      BY <2>1, <1>due
    <3>. HIDE DEF msg
    <3>5. SubSeq(rx, 3, 2 + Len(msg)) = msg
      BY <3>1, <3>2, <3>3, <3>4, Payload, Zenon
    <3>. QED
      BY <3>3, <3>5, Zenon
  <2>3. /\ rx' \in Seq(Bytes) /\ Len(rx') = Len(rx) - d
        /\ Stream' \in ByteStrings /\ Read(Stream, d, Stream')
    <3>1. rx' = SubSeq(rx, d + 1, Len(rx))
      BY <2>step, <2>1, Zenon
    <3>2. /\ rx' \in Seq(Bytes) /\ Len(rx') = Len(rx) - d
          /\ rx' \o tx \in Seq(Bytes) /\ Read(rx \o tx, d, rx' \o tx)
      BY <3>1, <2>1, Dropped, Zenon
    <3>3. Stream' = rx' \o tx /\ Stream = rx \o tx
      BY <1>same DEF Stream
    <3>. QED
      BY <3>2, <3>3, Zenon DEF ByteStrings
  <2>4. /\ got' \in Seq(ByteStrings) /\ Len(got') = Len(got) + 1 /\ got'[Len(got) + 1] = msg
        /\ \A k \in 1 .. Len(got) : got'[k] = got[k]
    <3>1. got \in Seq(ByteStrings) /\ got' = Append(got, msg)
      BY <1>ty, <2>step, <2>2 DEF FramingTypes
    <3>. HIDE DEF msg
    <3>. QED
      BY <3>1, <1>due
  <2>5. FramingTypes' /\ NeverTooLarge'
    BY <1>ty, <1>same, <2>step, <2>nt, <2>3, <2>4 DEF FramingTypes, NeverTooLarge
  <2>6. Len(got') <= Len(sent') /\ \A k \in 1 .. Len(got') : got'[k] = sent'[k]
    <3>1. \A k \in 1 .. Len(got) : got[k] = sent[k]
      BY DEF FramingInv, WholeMessagesInOrder
    <3>2. ASSUME NEW k \in 1 .. Len(got') PROVE got'[k] = sent'[k]
      <4>1. k \in 1 .. Len(got) \/ k = Len(got) + 1
        BY <2>4, <1>nat
      <4>. QED
        BY <4>1, <3>1, <2>4, <1>same, Zenon
    <3>. QED
      BY <3>2, <2>4, <1>same, <1>due, <1>nat
  <2>7. PICK at \in Offsets :
          /\ Framed(at, Stream, sent, Len(got), Len(sent))
          /\ Len(rx) <= at[Len(sent) + 1]
          /\ sender = "run" => at[Len(sent) + 1] = Len(Stream)
    BY DEF FramingInv, WholeMessagesInOrder, InStream
  <2>8. UpTo(Stream', sent, Len(got) + 1, Len(sent), at[Len(sent) + 1] - d)
    <3>1. Stream \in ByteStrings /\ d = 2 + Len(sent[Len(got) + 1])
      BY <1>ty, <1>due, StreamBytes, Zenon DEF ByteStrings
    <3>2. MayRead(at, Stream, Stream', sent, Len(got), Len(sent), d)
      BY <3>1, <1>nat, <1>due, <1>len, <2>3, <2>7, Zenon DEF MayRead
    <3>. QED
      BY <3>2, FramedTake, Zenon
  <2>9. InStream'
    <3>1. PICK at2 \in Offsets :
            /\ Framed(at2, Stream', sent, Len(got) + 1, Len(sent))
            /\ at2[Len(sent) + 1] = at[Len(sent) + 1] - d
      BY <2>8, Zenon DEF UpTo
    <3>2. Framed(at2, Stream, sent, Len(got), Len(sent))'
      <4>1. Framed(at2, Stream', sent', Len(got'), Len(sent'))
        BY <3>1, <2>4, <1>same
      <4>. QED
        BY <4>1 DEF Framed, FrameAt
    <3>3. Len(Stream') = Len(Stream) - d
      BY <2>3, Zenon DEF Read
    <3>4. at[Len(sent) + 1] \in Nat /\ Len(Stream) \in Nat
      <4>1. Len(Stream) \in Nat
        BY <1>ty, <1>nat, StreamBytes
      <4>2. at[Len(sent) + 1] \in Nat
        BY <1>nat DEF Offsets
      <4>. QED
        BY <4>1, <4>2
    <3>5. Len(rx') <= at2[Len(sent) + 1]
      BY <3>1, <3>4, <2>3, <2>7, <1>nat, <1>len
    <3>6. sender = "run" => at2[Len(sent) + 1] = Len(Stream')
      BY <3>1, <3>3, <2>7
    <3>. QED
      BY <3>2, <3>5, <3>6, <1>same DEF InStream
  <2>. QED
    BY <2>5, <2>6, <2>9 DEF FramingInv, WholeMessagesInOrder
<1>. QED
  BY <1>1, <1>2, <1>3 DEF try_recv

-----------------------------------------------------------------------------
\* The invariant holds of every state of the connection.
LEMMA AlwaysFramed == Spec => []FramingInv
<1>1. FramingInv /\ Send => FramingInv'
  <2>. SUFFICES ASSUME FramingInv, Send PROVE FramingInv'
    OBVIOUS
  <2>1. PICK len \in Sizes : send(Message(Len(sent), len))
    BY DEF Send
  <2>2. Len(sent) \in Nat
    BY SentBytes DEF FramingInv, WholeMessagesInOrder
  <2>3. Message(Len(sent), len) \in ByteStrings
    BY <2>2, MessageBytes, Zenon DEF ByteStrings
  <2>. QED
    BY <2>1, <2>3, SendKeeps, Zenon
<1>2. FramingInv /\ Network => FramingInv'
  BY TransmitKeeps DEF Network
<1>3. FramingInv /\ try_recv => FramingInv'
  BY RecvKeeps
<1>4. FramingInv /\ UNCHANGED vars => FramingInv'
  <2>. SUFFICES ASSUME FramingInv, UNCHANGED vars PROVE FramingInv'
    OBVIOUS
  <2>1. UNCHANGED <<sent, tx, rx, got, sender, receiver>>
    BY DEF vars
  <2>2. FramingTypes' /\ NeverTooLarge'
    BY <2>1 DEF FramingInv, WholeMessagesInOrder, FramingTypes, NeverTooLarge
  <2>3. InStream'
    BY <2>1 DEF FramingInv, WholeMessagesInOrder, InStream, Stream, Framed, FrameAt
  <2>. QED
    BY <2>1, <2>2, <2>3 DEF FramingInv, WholeMessagesInOrder
<1>5. FramingInv /\ [Next]_vars => FramingInv'
  BY <1>1, <1>2, <1>3, <1>4 DEF Next
<1>. QED
  BY FramingInitial, <1>5, PTL DEF Spec

\* However TCP cuts the stream, wherever the ring wraps and whatever the sizes,
\* try_recv returns the messages that were sent, whole and in order.
THEOREM AlwaysWholeMessagesInOrder == Spec => []WholeMessagesInOrder
<1>1. FramingInv => WholeMessagesInOrder
  BY DEF FramingInv
<1>. QED
  BY <1>1, AlwaysFramed, PTL

\* try_recv refuses a length only when the message that is due exceeds the ring.
THEOREM AlwaysNeverTooLarge == Spec => []NeverTooLarge
<1>1. FramingInv => NeverTooLarge
  BY DEF FramingInv
<1>. QED
  BY <1>1, AlwaysFramed, PTL
=============================================================================
