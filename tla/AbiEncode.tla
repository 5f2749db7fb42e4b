----------------------------- MODULE AbiEncode -----------------------------
(***************************************************************************)
(* The ABI encoder (src/src/abiencode/ser.rs): a serializer that goes over *)
(* a value several times instead of buffering it, and the values the       *)
(* library hashes and signs.                                               *)
(*                                                                         *)
(* A value is a tree in the data model of serde.  A slot is a sequence of  *)
(* SLOT_SIZE bytes (32 in the code), a byte a digit of base Base (256).    *)
(* Sizes and offsets count bytes.  Tracing and explaining are left out.    *)
(***************************************************************************)
EXTENDS Integers, Sequences, SequencesExt

CONSTANTS
  SLOT_SIZE,   \* bytes of a slot
  Base,        \* values of a byte
  Values,      \* values to serialize
  Signed       \* those of them that are hashed and signed

ASSUME AbiAssumption == SLOT_SIZE \in Nat \ {0, 1} /\ Base \in Nat \ {0, 1} /\ Signed \subseteq Values

\* usize::MAX: the offset handed to values that write none
MAX == Base ^ SLOT_SIZE - 1

-----------------------------------------------------------------------------
(* Values *)

Uint(v) == [kind |-> "uint", v |-> v]                     \* bool, u8 .. u128, usize
Sint(n, v) == [kind |-> "int", n |-> n, v |-> v]           \* i8 .. i64, n bytes
I128(n, v) == [kind |-> "i128", n |-> n, v |-> v]
Bytes(b) == [kind |-> "bytes", bytes |-> b]               \* bytesN and U256
Address(b) == [kind |-> "address", bytes |-> b]
Str(b) == [kind |-> "str", bytes |-> b]
DynamicMarker == [kind |-> "marker"]
Tuple(es) == [kind |-> "tuple", es |-> es]                \* tuple, struct, [T; N]
Newtype(v) == [kind |-> "newtype", of |-> v]
ListOf(es) == [kind |-> "seq", es |-> es]                  \* Vec<T>, as_dyn_array
AsBytes(b) == [kind |-> "as_bytes", bytes |-> b]          \* a field with as_bytes
Unsupported == [kind |-> "unsupported"]                   \* f32, char, Option, unit, enum, map

-----------------------------------------------------------------------------
(* Slots *)

Digits(n, v) == [k \in 1 .. n |-> (v \div Base ^ (n - k)) % Base]

Filled(n, b) == [k \in 1 .. n |-> b]

write_right_aligned(bytes) == Filled(SLOT_SIZE - Len(bytes), 0) \o bytes

write_signed(negative, bytes) ==
  Filled(SLOT_SIZE - Len(bytes), IF negative THEN Base - 1 ELSE 0) \o bytes

write_left_aligned_slice(bytes) == bytes \o Filled(SLOT_SIZE - Len(bytes), 0)

\* Two's complement of n bytes.
to_be_bytes(n, v) == Digits(n, IF v < 0 THEN v + Base ^ n ELSE v)

Usize(v) == write_right_aligned(Digits(SLOT_SIZE, v))

\* chunks_exact and the remainder.
Slots(bytes) ==
  LET r == Len(bytes) % SLOT_SIZE
      whole == (Len(bytes) - r) \div SLOT_SIZE IN
  [i \in 1 .. whole |-> SubSeq(bytes, (i - 1) * SLOT_SIZE + 1, i * SLOT_SIZE)]
    \o (IF r = 0 THEN <<>> ELSE <<write_left_aligned_slice(SubSeq(bytes, Len(bytes) - r + 1, Len(bytes)))>>)

-----------------------------------------------------------------------------
(* The serializer: its pass with the fields of the pass, what it wrote, *)
(* and whether it returned an Err                                       *)

Serializer(pass, offset, out) ==
  [pass |-> pass, size |-> 0, is_dynamic |-> FALSE, is_fake_dynamic |-> FALSE,
   offset |-> offset, out |-> out, err |-> FALSE]

RECURSIVE serialize(_, _), serialize_tuple_element(_, _, _)

\* Variant: an Err of the size computation is not passed on.
compute_size_lenient(v) == [serialize(v, Serializer("HeadSize", 0, <<>>)) EXCEPT !.err = FALSE]

\* What a fresh HeadSize or TailSize pass finds out about v.
compute_size(v) == serialize(v, Serializer("HeadSize", 0, <<>>))

get_tail_size(v) == serialize(v, Serializer("TailSize", 0, <<>>))

\* A value without a tail: all slots are written in Pass::Head.
serialize_static(s, slots) ==
  CASE s.pass = "HeadSize" -> [s EXCEPT !.size = @ + SLOT_SIZE * Len(slots)]
    [] s.pass = "Head" -> [s EXCEPT !.out = @ \o slots]
    [] OTHER -> s

serialize_str(s, v) ==
  CASE s.pass = "HeadSize" -> [s EXCEPT !.is_dynamic = TRUE]
    [] s.pass = "Head" -> s
    [] s.pass = "TailSize" -> [s EXCEPT !.size = @ + SLOT_SIZE + SLOT_SIZE * Len(Slots(v))]
    [] s.pass = "Tail" -> [s EXCEPT !.out = @ \o <<Usize(Len(v))>> \o Slots(v)]

serialize_unit_struct(s) == IF s.pass = "HeadSize" THEN [s EXCEPT !.is_fake_dynamic = TRUE] ELSE s

serialize_seq(s, n) ==
  CASE s.pass = "HeadSize" -> [s EXCEPT !.is_dynamic = TRUE, !.size = @ + SLOT_SIZE]
    [] s.pass = "Head" -> [s EXCEPT !.out = Append(@, Usize(n))]
    [] OTHER -> s

serialize_elements(s, es, offset_reduction) ==
  FoldLeft(LAMBDA acc, e : IF acc.err THEN acc ELSE serialize_tuple_element(acc, e, offset_reduction), s, es)

(* The structs that are hashed and signed *)

U256(v) == Bytes(Digits(SLOT_SIZE, v))

\* Balances and ParticipantBalances are transparent.
BalancesValue(b) == ListOf([a \in DOMAIN b |-> ListOf([p \in DOMAIN b[a] |-> U256(b[a][p])])])

AllocationValue(assets, balances) ==
  Tuple(<<ListOf([a \in DOMAIN assets |-> Tuple(<<Address(assets[a])>>)]), BalancesValue(balances), ListOf(<<>>)>>)

\* Variant: the version is not serialized.
StateFields_unversioned(v) ==
  <<Bytes(v.id), AllocationValue(v.assets, v.balances), AsBytes(<<>>), Uint(v.is_final)>>

StateFields(v) ==
  <<Bytes(v.id), Uint(v.version), AllocationValue(v.assets, v.balances), AsBytes(<<>>), Uint(v.is_final)>>

\* The app of a payment channel is the zero address.
ParamsFields(v) ==
  <<Uint(v.challenge_duration), U256(v.nonce),
    ListOf([p \in DOMAIN v.participants |-> Address(v.participants[p])]),
    Address(Filled(Len(v.participants[1]), 0)), Uint(v.ledger_channel), Uint(v.virtual_channel)>>

WithdrawalAuthFields(v) ==
  <<Bytes(v.channel_id), Address(v.participant), Address(v.receiver), U256(v.amount)>>

Structs == {"State", "Params", "WithdrawalAuth"}

Fields(v) ==
  CASE v.kind = "State" -> StateFields(v)
    [] v.kind = "Params" -> ParamsFields(v)
    [] v.kind = "WithdrawalAuth" -> WithdrawalAuthFields(v)

as_bytes(b) == Tuple(<<DynamicMarker, Uint(Len(b)), Bytes(b)>>)

serialize(v, s) ==
  CASE v.kind = "uint" -> serialize_static(s, <<write_right_aligned(Digits(SLOT_SIZE, v.v))>>)
    [] v.kind = "int" -> serialize_static(s, <<write_signed(v.v < 0, to_be_bytes(v.n, v.v))>>)
    [] v.kind = "i128" -> serialize_static(s, <<write_right_aligned(to_be_bytes(v.n, v.v))>>)
    [] v.kind = "bytes" -> serialize_static(s, Slots(v.bytes))
    [] v.kind = "address" -> serialize_static(s, Slots(write_right_aligned(v.bytes)))
    [] v.kind = "str" -> serialize_str(s, v.bytes)
    [] v.kind = "marker" -> serialize_unit_struct(s)
    [] v.kind = "newtype" -> serialize_tuple_element(s, v.of, 0)
    [] v.kind = "seq" -> serialize_elements(serialize_seq(s, Len(v.es)), v.es, SLOT_SIZE)
    [] v.kind = "tuple" -> serialize_elements(s, v.es, 0)
    [] v.kind \in Structs -> serialize_elements(s, Fields(v), 0)
    [] v.kind = "as_bytes" -> serialize(as_bytes(v.bytes), s)
    [] v.kind = "unsupported" -> [s EXCEPT !.err = TRUE]

\* Variant: the length of a sequence counts in the offsets of its elements.
serialize_tuple_element_unreduced(s, value, offset_reduction) ==
  LET c == compute_size(value)
      t == get_tail_size(value)
      apart == c.is_dynamic /\ ~c.is_fake_dynamic IN
  CASE c.err -> [s EXCEPT !.err = TRUE]
    [] ~c.err /\ s.pass = "HeadSize" ->
         [s EXCEPT !.size = @ + (IF apart THEN SLOT_SIZE ELSE c.size),
                   !.is_dynamic = @ \/ c.is_dynamic \/ c.is_fake_dynamic]
    [] ~c.err /\ s.pass = "Head" ->
         IF apart THEN [s EXCEPT !.out = Append(@, Usize(s.offset)),
                                 !.offset = @ + c.size + t.size]
         ELSE [s EXCEPT !.out = serialize(value, Serializer("Head", MAX, @)).out]
    [] ~c.err /\ s.pass = "TailSize" ->
         [s EXCEPT !.size = @ + (IF apart THEN c.size ELSE 0) + t.size]
    [] ~c.err /\ s.pass = "Tail" ->
         IF apart
         THEN LET h == serialize(value, Serializer("Head", c.size, s.out)) IN
              [s EXCEPT !.out = serialize(value, Serializer("Tail", 0, h.out)).out]
         ELSE s

\* An element of a tuple, struct or sequence. Only a real dynamic element is
\* apart: an offset in the head, the value in the tail. An Err of value was
\* returned by compute_size already, so the passes after it succeed.
serialize_tuple_element(s, value, offset_reduction) ==
  LET c == compute_size(value)
      t == get_tail_size(value)
      apart == c.is_dynamic /\ ~c.is_fake_dynamic IN
  CASE c.err -> [s EXCEPT !.err = TRUE]
    [] ~c.err /\ s.pass = "HeadSize" ->
         [s EXCEPT !.size = @ + (IF apart THEN SLOT_SIZE ELSE c.size),
                   !.is_dynamic = @ \/ c.is_dynamic \/ c.is_fake_dynamic]
    [] ~c.err /\ s.pass = "Head" ->
         IF apart THEN [s EXCEPT !.out = Append(@, Usize(s.offset - offset_reduction)),
                                 !.offset = @ + c.size + t.size]
         ELSE [s EXCEPT !.out = serialize(value, Serializer("Head", MAX, @)).out]
    [] ~c.err /\ s.pass = "TailSize" ->
         [s EXCEPT !.size = @ + (IF apart THEN c.size ELSE 0) + t.size]
    [] ~c.err /\ s.pass = "Tail" ->
         IF apart
         THEN LET h == serialize(value, Serializer("Head", c.size, s.out)) IN
              [s EXCEPT !.out = serialize(value, Serializer("Tail", 0, h.out)).out]
         ELSE s

-----------------------------------------------------------------------------
(* to_writer_internal, one action per pass *)

VARIABLES
  value,         \* the value
  outer,         \* include_outer_struct
  is_dynamic,    \* of value
  serializer,    \* the serializer of the caller's writer
  stage          \* "new", "head", "tail", "done" or "err"

vars == <<value, outer, is_dynamic, serializer, stage>>

Init ==
  /\ value \in Values /\ outer \in BOOLEAN
  /\ (~outer => value.kind = "tuple")
  /\ is_dynamic = FALSE
  /\ serializer = Serializer("Head", 0, <<>>)
  /\ stage = "new"

Size ==
  LET c == compute_size(value) IN
  /\ stage = "new"
  /\ stage' = IF c.err THEN "err" ELSE "head"
  /\ is_dynamic' = c.is_dynamic
  /\ serializer' = Serializer("Head", c.size,
                     IF ~c.err /\ c.is_dynamic /\ outer THEN <<Usize(SLOT_SIZE)>> ELSE <<>>)
  /\ UNCHANGED <<value, outer>>

HeadPass ==
  LET s == serialize(value, serializer) IN
  /\ stage = "head"
  /\ serializer' = s
  /\ stage' = IF s.err THEN "err" ELSE IF is_dynamic THEN "tail" ELSE "done"
  /\ UNCHANGED <<value, outer, is_dynamic>>

TailPass ==
  LET s == serialize(value, [serializer EXCEPT !.pass = "Tail"]) IN
  /\ stage = "tail"
  /\ serializer' = s
  /\ stage' = IF s.err THEN "err" ELSE "done"
  /\ UNCHANGED <<value, outer, is_dynamic>>

Next == Size \/ HeadPass \/ TailPass

Spec == Init /\ [][Next]_vars

-----------------------------------------------------------------------------
(* abi.encode of the Solidity documentation *)

RECURSIVE Dynamic(_), Enc(_)

Dynamic(v) ==
  \/ v.kind \in {"str", "seq", "as_bytes"}
  \/ v.kind = "newtype" /\ Dynamic(v.of)
  \/ v.kind = "tuple" /\ \E i \in DOMAIN v.es : Dynamic(v.es[i])
  \/ v.kind \in Structs /\ \E i \in DOMAIN Fields(v) : Dynamic(Fields(v)[i])

ByteLen(slots) == SLOT_SIZE * Len(slots)

\* The heads of all elements, then the tails of the dynamic ones; the head of a
\* dynamic element is the place of its tail.
HeadsAndTails(es) ==
  LET enc == [i \in DOMAIN es |-> Enc(es[i])]
      tail == [i \in DOMAIN es |-> IF Dynamic(es[i]) THEN enc[i] ELSE <<>>]
      headLen == [i \in DOMAIN es |-> IF Dynamic(es[i]) THEN SLOT_SIZE ELSE ByteLen(enc[i])]
      Sum(f, n) == FoldLeft(+, 0, SubSeq(f, 1, n))
      place(i) == Sum(headLen, Len(es)) + ByteLen(FlattenSeq(SubSeq(tail, 1, i - 1)))
      head == [i \in DOMAIN es |-> IF Dynamic(es[i]) THEN <<Digits(SLOT_SIZE, place(i))>> ELSE enc[i]]
  IN FlattenSeq(head) \o FlattenSeq(tail)

Enc(v) ==
  CASE v.kind \in {"uint", "int", "i128"} -> <<to_be_bytes(SLOT_SIZE, v.v)>>
    [] v.kind = "bytes" -> Slots(v.bytes)
    [] v.kind = "address" -> <<Filled(SLOT_SIZE - Len(v.bytes), 0) \o v.bytes>>
    [] v.kind \in {"str", "as_bytes"} -> <<Digits(SLOT_SIZE, Len(v.bytes))>> \o Slots(v.bytes)
    [] v.kind = "newtype" -> HeadsAndTails(<<v.of>>)
    [] v.kind = "tuple" -> HeadsAndTails(v.es)
    [] v.kind \in Structs -> HeadsAndTails(Fields(v))
    [] v.kind = "seq" -> <<Digits(SLOT_SIZE, Len(v.es))>> \o HeadsAndTails(v.es)

RECURSIVE Representable(_)

Representable(v) ==
  /\ v.kind # "unsupported"
  /\ v.kind = "newtype" => Representable(v.of)
  /\ v.kind \in {"tuple", "seq"} => \A i \in DOMAIN v.es : Representable(v.es[i])

-----------------------------------------------------------------------------
(* Properties *)

\* "Serialize Rust types (including structs) like Solidity's `abi.encode(...)`"
\* (ser.rs:1): the slots that the passes write one by one are the encoding that
\* Solidity defines recursively, every offset included; without the outer struct
\* they are the encoding of function arguments. The exception are negative i128,
\* whose sign is not extended.
MatchesSolidity ==
  stage = "done" /\ Representable(value) /\ ~(value.kind = "i128" /\ value.v < 0) =>
    serializer.out = (IF outer THEN HeadsAndTails(<<value>>) ELSE Enc(value))

\* A value with a part that Solidity cannot represent, however deep, is refused
\* before the first slot reaches the writer (a hasher), and no other value is.
RefusedBeforeWriting ==
  /\ stage = "err" => ~Representable(value) /\ serializer.out = <<>>
  /\ stage = "done" => Representable(value)

\* A signature is for one thing: two different values that are hashed and signed
\* (states, parameters, withdrawal authorizations) are never written as the same
\* slots, also when they are of different types.
SignedDataDistinct ==
  stage = "done" /\ outer /\ value \in Signed =>
    \A w \in Signed \ {value} : HeadsAndTails(<<w>>) # serializer.out
=============================================================================
