---------------------------- MODULE MCAbiEncode ----------------------------
(***************************************************************************)
(* Instances of AbiEncode: values of all types up to a nesting depth, and  *)
(* the types of the library that are hashed and signed.                    *)
(***************************************************************************)
EXTENDS AbiEncode

(* A type is the set of its values. *)

UintT == {Uint(0), Uint(Base + 1)}
IntT == {Sint(1, -1), Sint(1, 1)}
BytesT == {Bytes(<<1, 2>>), Bytes(<<1, 2, 3, 0>>), Bytes(<<3, 2, 1, 0, 3>>)}
AddressT == {Address(<<1, 2, 3>>)}
StrT == {Str(<<>>), Str(<<1, 2, 3, 1, 2>>)}
AsBytesT == {AsBytes(<<>>), AsBytes(<<1, 2, 3, 1>>)}

Leaves == {UintT, IntT, BytesT, AddressT, StrT, AsBytesT}

PairsOf(A, B) == {Tuple(<<a, b>>) : a \in A, b \in B}
ArraysOf(A) == {ListOf(<<>>)} \cup {ListOf(<<a>>) : a \in A} \cup {ListOf(<<a, b>>) : a \in A, b \in A}
NewtypesOf(A) == {Newtype(a) : a \in A}

Pairs == {PairsOf(A, B) : A \in {UintT, StrT, AsBytesT}, B \in {UintT, StrT, AsBytesT}}
Arrays == {ArraysOf(A) : A \in {UintT, StrT, AsBytesT}}
Nested == {PairsOf(A, B) : A \in Arrays \cup {UintT}, B \in Pairs}
            \cup {ArraysOf(A) : A \in {PairsOf(UintT, StrT), PairsOf(UintT, UintT), ArraysOf(StrT)}}
            \cup {NewtypesOf(A) : A \in Leaves \cup Pairs}

(* The signed types *)

Ids == {<<1, 1, 1, 1>>, <<1, 0, 0, 2>>}
Addresses == {<<1, 2, 3>>, <<3, 2, 1>>}
Amounts == 0 .. 2

States ==
  [kind : {"State"}, id : Ids, version : 0 .. 2, assets : {<<h>> : h \in Addresses},
   balances : {<<<<x, y>>>> : x \in Amounts, y \in Amounts}, is_final : 0 .. 1]
ParamsValues ==
  [kind : {"Params"}, challenge_duration : 1 .. 2, nonce : Amounts, ledger_channel : {1}, virtual_channel : {0},
   participants : {<<p, q>> : p \in Addresses, q \in Addresses}]
Auths ==
  [kind : {"WithdrawalAuth"}, channel_id : Ids, participant : Addresses, receiver : Addresses, amount : Amounts]

(* Values of the runs *)

Supported == UNION (Leaves \cup Pairs \cup Arrays \cup Nested)

Refused == {Unsupported, Newtype(Unsupported)}
             \cup {Tuple(<<a, b>>) : a \in {Uint(1), Str(<<1>>)}, b \in {Unsupported, ListOf(<<Unsupported>>)}}
             \cup {ListOf(<<Uint(1), Tuple(<<Str(<<1>>), Unsupported>>)>>)}

SignedValues == States \cup ParamsValues \cup Auths
AllValues == Supported \cup Refused \cup SignedValues \cup {I128(2, -1), I128(2, 1)}
=============================================================================
