--------------------------- MODULE WireConvProofs ---------------------------
(***************************************************************************)
(* The conversions of messages, for any sizes of bytes, addresses, hashes  *)
(* and signatures, any number of assets and participants, and all          *)
(* messages: what from writes, try_from reads back, and try_from reads     *)
(* exactly the structs that are readable.                                  *)
(***************************************************************************)
EXTENDS WireConv, WellFoundedInduction, SequenceTheorems, TLAPS

-----------------------------------------------------------------------------
(* Induction and recursion over an interval.  The induction theorems of the
   library take a predicate; these take a set, which is what the provers can
   instantiate. *)

\* A set of numbers has a least element.
LEMMA Least ==
  ASSUME NEW S \in SUBSET Nat, S # {}
  PROVE  \E n \in S : \A k \in S : n <= k
<1>. DEFINE R == OpToRel(<, Nat)
<1>1. IsWellFoundedOn(R, Nat)
  BY NatLessThanWellFounded, Zenon
<1>2. PICK n \in S : \A k \in S : <<k, n>> \notin R
  <2>. HIDE DEF R
  <2>. QED
    BY <1>1, WFMin, Zenon
<1>3. \A k \in S : ~ (k < n)
  BY <1>2 DEF OpToRel
<1>. QED
  BY <1>3

\* Induction over 0 .. n.
LEMMA Induction ==
  ASSUME NEW n \in Nat, NEW S, 0 \in S, \A k \in 1 .. n : k - 1 \in S => k \in S
  PROVE  0 .. n \subseteq S
<1>1. SUFFICES ASSUME (0 .. n) \ S # {} PROVE FALSE
  OBVIOUS
<1>2. PICK m \in (0 .. n) \ S : \A k \in (0 .. n) \ S : m <= k
  <2>1. (0 .. n) \ S \in SUBSET Nat
    OBVIOUS
  <2>. QED
    BY <1>1, <2>1, Least, Zenon
<1>3. m # 0 /\ m \in 1 .. n /\ m - 1 \in 0 .. n /\ ~ (m <= m - 1)
  BY <1>2
<1>4. m - 1 \in S
  BY <1>2, <1>3
<1>. QED
  BY <1>2, <1>3, <1>4

\* f is computed by going from 0 to n, c first and then F of what was before.
Computes(f, n, c, F) == f = [k \in 0 .. n |-> IF k = 0 THEN c ELSE F[k][f[k - 1]]]

Computable(n, T, c, F) == \E f \in [0 .. n -> T] : Computes(f, n, c, F)

\* One more value.
LEMMA ComputeNext ==
  ASSUME NEW T, NEW c \in T, NEW F \in [Nat -> [T -> T]], NEW m \in Nat, Computable(m, T, c, F)
  PROVE  Computable(m + 1, T, c, F)
<1>1. PICK f \in [0 .. m -> T] : Computes(f, m, c, F)
  BY Zenon DEF Computable
<1>. DEFINE g == [k \in 0 .. m + 1 |-> IF k = m + 1 THEN F[k][f[m]] ELSE f[k]]
<1>2. f[m] \in T /\ F[m + 1][f[m]] \in T
  OBVIOUS
<1>3. g \in [0 .. m + 1 -> T]
  BY <1>2
<1>4. ASSUME NEW k \in 0 .. m + 1
      PROVE  g[k] = IF k = 0 THEN c ELSE F[k][g[k - 1]]
  <2>1. CASE k = m + 1
    <3>1. g[k] = F[k][f[m]] /\ g[k - 1] = f[m]
      BY <2>1
    <3>. QED
      BY <2>1, <3>1
  <2>2. CASE k # m + 1
    <3>1. k \in 0 .. m /\ g[k] = f[k] /\ (k # 0 => g[k - 1] = f[k - 1])
      BY <2>2
    <3>2. f[k] = IF k = 0 THEN c ELSE F[k][f[k - 1]]
      BY <1>1, <3>1 DEF Computes
    <3>. QED
      BY <3>1, <3>2
  <2>. QED
    BY <2>1, <2>2
<1>5. Computes(g, m + 1, c, F)
  BY <1>4 DEF Computes
<1>. HIDE DEF g
<1>. QED
  BY <1>3, <1>5, Zenon DEF Computable

\* Every such computation has a result.
LEMMA Recursion ==
  ASSUME NEW n \in Nat, NEW T, NEW c \in T, NEW F \in [Nat -> [T -> T]]
  PROVE  Computable(n, T, c, F)
<1>. DEFINE S == {m \in Nat : Computable(m, T, c, F)}
<1>1. 0 \in S
  <2>. DEFINE g == [k \in 0 .. 0 |-> c]
  <2>1. g \in [0 .. 0 -> T] /\ Computes(g, 0, c, F)
    BY DEF Computes
  <2>. HIDE DEF g
  <2>. QED
    BY <2>1 DEF Computable
<1>2. ASSUME NEW k \in 1 .. n, k - 1 \in S PROVE k \in S
  <2>1. k - 1 \in Nat /\ k \in Nat /\ (k - 1) + 1 = k
    OBVIOUS
  <2>2. Computable((k - 1) + 1, T, c, F)
    BY <1>2, <2>1, ComputeNext, Zenon
  <2>. QED
    BY <2>1, <2>2
<1>. HIDE DEF S
<1>3. 0 .. n \subseteq S
  BY <1>1, <1>2, Induction
<1>4. n \in 0 .. n
  OBVIOUS
<1>. QED
  BY <1>3, <1>4 DEF S

-----------------------------------------------------------------------------
(* Numbers and their digits *)

\* The sizes are positive.
LEMMA Sizes ==
  /\ AddressLen \in Nat /\ HashLen \in Nat /\ SignatureLen \in Nat
  /\ ASSETS \in Nat /\ PARTICIPANTS \in Nat /\ Base \in Nat
  /\ AddressLen # 0 /\ HashLen # 0 /\ ASSETS # 0 /\ PARTICIPANTS # 0 /\ Base # 0 /\ Base # 1
  /\ AddressLen < Base * Base
BY WireAssumption

\* Power is what its recursive definition says.
LEMMA PowerDef ==
  /\ Power[0] = 1
  /\ \A k \in 1 .. HashLen : Power[k] = Power[k - 1] * Base
  /\ \A k \in 0 .. HashLen : Power[k] \in Nat \ {0}
<1>. DEFINE T == Nat \ {0}
            F == [k \in Nat |-> [x \in T |-> x * Base]]
            Rec(f) == f = [k \in 0 .. HashLen |-> IF k = 0 THEN 1 ELSE f[k - 1] * Base]
<1>1. F \in [Nat -> [T -> T]] /\ 1 \in T
  BY Sizes
<1>2. PICK f \in [0 .. HashLen -> T] : Computes(f, HashLen, 1, F)
  <2>. HIDE DEF F, T
  <2>. QED
    BY <1>1, Sizes, Recursion, Zenon DEF Computable
<1>3. \A k \in 0 .. HashLen : k # 0 => F[k][f[k - 1]] = f[k - 1] * Base
  BY Sizes
<1>4. Rec(f)
  BY <1>2, <1>3 DEF Computes
<1>5. Rec(Power)
  <2>1. Power = CHOOSE g : Rec(g)
    BY DEF Power
  <2>. HIDE DEF Rec
  <2>. QED
    BY <1>4, <2>1, Zenon
<1>6. Power[0] = 1 /\ \A k \in 1 .. HashLen : Power[k] = Power[k - 1] * Base
  <2>1. ASSUME NEW g, Rec(g), NEW k \in 0 .. HashLen
        PROVE  g[k] = IF k = 0 THEN 1 ELSE g[k - 1] * Base
    BY <2>1, Zenon
  <2>2. \A k \in 0 .. HashLen : Power[k] = IF k = 0 THEN 1 ELSE Power[k - 1] * Base
    <3>. HIDE DEF Rec
    <3>. QED
      BY <1>5, <2>1, Zenon
  <2>. QED
    BY <2>2, Sizes
<1>7. 0 .. HashLen \subseteq {k \in 0 .. HashLen : Power[k] \in Nat \ {0}}
  <2>. DEFINE S == {k \in 0 .. HashLen : Power[k] \in Nat \ {0}}
  <2>1. 0 \in S
    BY <1>6, Sizes
  <2>2. ASSUME NEW k \in 1 .. HashLen, k - 1 \in S PROVE k \in S
    <3>1. Power[k - 1] * Base \in Nat \ {0}
      BY <2>2, Sizes
    <3>. QED
      BY <1>6, <3>1, Sizes
  <2>. HIDE DEF S
  <2>3. 0 .. HashLen \subseteq S
    BY <2>1, <2>2, Sizes, Induction
  <2>. QED
    BY <2>3 DEF S
<1>. QED
  BY <1>6, <1>7

\* Division with remainder.
LEMMA Division ==
  ASSUME NEW x \in Nat, NEW b \in Nat, b # 0
  PROVE  /\ x \div b \in Nat /\ x % b \in 0 .. b - 1
         /\ (x \div b) * b + (x % b) = x
         /\ (x \div b) * b <= x
<1>1. x \div b \in Nat /\ x % b \in 0 .. b - 1 /\ (x \div b) * b + (x % b) = x
  OBVIOUS
<1>. DEFINE y == (x \div b) * b
            z == x % b
<1>2. y \in Nat /\ z \in Nat /\ y + z = x
  BY <1>1
<1>. HIDE DEF y, z
<1>3. y <= x
  BY <1>2
<1>. QED
  BY <1>1, <1>3 DEF y

\* Multiplication keeps the order.
LEMMA Monotonic ==
  ASSUME NEW x \in Nat, NEW a \in Nat, NEW p \in Nat, x <= a
  PROVE  x * p \in Nat /\ a * p \in Nat /\ x * p <= a * p
<1>1. PICK d \in Nat : a = x + d
  <2>1. a - x \in Nat /\ a = x + (a - x)
    OBVIOUS
  <2>. QED
    BY <2>1
<1>. DEFINE y == x * p
            z == d * p
<1>2. a * p = y + z /\ y \in Nat /\ z \in Nat
  BY <1>1
<1>. HIDE DEF y, z
<1>3. a * p \in Nat /\ y <= a * p
  BY <1>2
<1>. QED
  BY <1>2, <1>3 DEF y

\* So is Remaining.
LEMMA RemainingDef ==
  ASSUME NEW v \in Nat
  PROVE  /\ Remaining(v)[0] = v
         /\ \A k \in 1 .. HashLen : Remaining(v)[k] = Remaining(v)[k - 1] \div Base
         /\ \A k \in 0 .. HashLen : Remaining(v)[k] \in Nat
<1>. DEFINE F == [k \in Nat |-> [x \in Nat |-> x \div Base]]
            Rec(f) == f = [k \in 0 .. HashLen |-> IF k = 0 THEN v ELSE f[k - 1] \div Base]
            r == Remaining(v)
<1>1. F \in [Nat -> [Nat -> Nat]]
  <2>1. \A x \in Nat : x \div Base \in Nat
    BY Sizes, Division
  <2>. QED
    BY <2>1
<1>2. PICK f \in [0 .. HashLen -> Nat] : Computes(f, HashLen, v, F)
  <2>. HIDE DEF F
  <2>. QED
    BY <1>1, Sizes, Recursion, Zenon DEF Computable
<1>3. \A k \in 0 .. HashLen : k # 0 => F[k][f[k - 1]] = f[k - 1] \div Base
  BY Sizes
<1>4. Rec(f)
  BY <1>2, <1>3 DEF Computes
<1>5. Rec(r)
  <2>1. r = CHOOSE g : Rec(g)
    BY DEF Remaining
  <2>. HIDE DEF Rec, r
  <2>. QED
    BY <1>4, <2>1, Zenon
<1>. HIDE DEF r
<1>6. r[0] = v /\ \A k \in 1 .. HashLen : r[k] = r[k - 1] \div Base
  <2>1. ASSUME NEW g, Rec(g), NEW k \in 0 .. HashLen
        PROVE  g[k] = IF k = 0 THEN v ELSE g[k - 1] \div Base
    BY <2>1, Zenon
  <2>2. \A k \in 0 .. HashLen : r[k] = IF k = 0 THEN v ELSE r[k - 1] \div Base
    <3>. HIDE DEF Rec
    <3>. QED
      BY <1>5, <2>1, Zenon
  <2>. QED
    BY <2>2, Sizes
<1>7. \A k \in 0 .. HashLen : r[k] \in Nat
  <2>. DEFINE S == {k \in 0 .. HashLen : r[k] \in Nat}
  <2>1. 0 \in S
    BY <1>6, Sizes
  <2>2. ASSUME NEW k \in 1 .. HashLen, k - 1 \in S PROVE k \in S
    <3>1. r[k - 1] \div Base \in Nat
      BY <2>2, Sizes, Division
    <3>. QED
      BY <1>6, <3>1, Sizes
  <2>. HIDE DEF S
  <2>3. 0 .. HashLen \subseteq S
    BY <2>1, <2>2, Sizes, Induction
  <2>. QED
    BY <2>3 DEF S
<1>. QED
  BY <1>6, <1>7 DEF r

\* And Values.
LEMMA ValuesDef ==
  ASSUME NEW bytes \in Seq(Byte)
  PROVE  /\ Values(bytes)[0] = 0
         /\ \A k \in 1 .. Len(bytes) : Values(bytes)[k] = Values(bytes)[k - 1] * Base + bytes[k]
<1>. DEFINE n == Len(bytes)
            F == [k \in Nat |-> [x \in Nat |-> IF k \in 1 .. n THEN x * Base + bytes[k] ELSE 0]]
            Rec(f) == f = [k \in 0 .. n |-> IF k = 0 THEN 0 ELSE f[k - 1] * Base + bytes[k]]
            r == Values(bytes)
<1>0. n \in Nat /\ \A k \in 1 .. n : bytes[k] \in Nat
  BY Sizes DEF Byte
<1>1. F \in [Nat -> [Nat -> Nat]]
  BY <1>0, Sizes
<1>2. PICK f \in [0 .. n -> Nat] : Computes(f, n, 0, F)
  <2>1. 0 \in Nat
    OBVIOUS
  <2>. HIDE DEF F, n
  <2>. QED
    BY <1>0, <1>1, <2>1, Recursion, Zenon DEF Computable
<1>3. \A k \in 0 .. n : k # 0 => F[k][f[k - 1]] = f[k - 1] * Base + bytes[k]
  BY <1>0
<1>4. Rec(f)
  BY <1>2, <1>3 DEF Computes
<1>5. Rec(r)
  <2>1. r = CHOOSE g : Rec(g)
    BY DEF Values
  <2>. HIDE DEF Rec, r
  <2>. QED
    BY <1>4, <2>1, Zenon
<1>. HIDE DEF r
<1>6. r[0] = 0 /\ \A k \in 1 .. n : r[k] = r[k - 1] * Base + bytes[k]
  <2>1. ASSUME NEW g, Rec(g), NEW k \in 0 .. n
        PROVE  g[k] = IF k = 0 THEN 0 ELSE g[k - 1] * Base + bytes[k]
    BY <2>1, Zenon
  <2>2. \A k \in 0 .. n : r[k] = IF k = 0 THEN 0 ELSE r[k - 1] * Base + bytes[k]
    <3>. HIDE DEF Rec
    <3>. QED
      BY <1>5, <2>1, Zenon
  <2>. QED
    BY <1>0, <2>2
<1>. QED
  BY <1>6 DEF r

\* A number below Power[HashLen] has no more than HashLen digits.
LEMMA NothingRemains ==
  ASSUME NEW v \in U256
  PROVE  v \in Nat /\ Remaining(v)[HashLen] = 0
<1>. DEFINE r == Remaining(v)
            S == {k \in 0 .. HashLen : r[k] * Power[k] <= v}
<1>1. v \in Nat /\ v < Power[HashLen]
  BY PowerDef, Sizes DEF U256
<1>2. /\ r[0] = v /\ \A k \in 1 .. HashLen : r[k] = r[k - 1] \div Base
      /\ \A k \in 0 .. HashLen : r[k] \in Nat
  BY <1>1, RemainingDef, Zenon
<1>. HIDE DEF r
<1>3. 0 \in S
  BY <1>1, <1>2, PowerDef, Sizes
<1>4. ASSUME NEW k \in 1 .. HashLen, k - 1 \in S PROVE k \in S
  <2>1. /\ r[k - 1] \in Nat /\ r[k] = r[k - 1] \div Base
        /\ Power[k - 1] \in Nat /\ Power[k] = Power[k - 1] * Base
        /\ r[k - 1] * Power[k - 1] <= v
    <3>1. k - 1 \in 0 .. HashLen
      BY Sizes
    <3>. QED
      BY <1>2, <1>4, <3>1, PowerDef
  <2>2. PICK a \in Nat, p \in Nat : a = r[k - 1] /\ p = Power[k - 1]
    BY <2>1, Zenon
  <2>. DEFINE q == a \div Base
  <2>3. q \in Nat /\ q * Base \in Nat /\ q * Base <= a
    BY Division, Sizes
  <2>. HIDE DEF q
  <2>4. (q * Base) * p \in Nat /\ a * p \in Nat /\ (q * Base) * p <= a * p
    BY <2>3, Monotonic, Zenon
  <2>5. q * (p * Base) = (q * Base) * p
    BY <2>3, Sizes
  <2>6. (q * Base) * p <= v
    <3>. DEFINE x == (q * Base) * p
                y == a * p
    <3>1. x \in Nat /\ y \in Nat /\ x <= y /\ y <= v
      BY <2>1, <2>2, <2>4
    <3>. HIDE DEF x, y
    <3>2. x <= v
      BY <1>1, <3>1
    <3>. QED
      BY <3>2 DEF x
  <2>7. r[k] * Power[k] <= v
    BY <2>1, <2>2, <2>5, <2>6 DEF q
  <2>. QED
    BY <2>7, Sizes
<1>. HIDE DEF S
<1>5. 0 .. HashLen \subseteq S
  BY <1>3, <1>4, Sizes, Induction
<1>6. r[HashLen] * Power[HashLen] <= v
  BY <1>5, Sizes DEF S
<1>7. r[HashLen] = 0
  <2>0. HashLen \in 0 .. HashLen
    BY Sizes
  <2>1. PICK q \in Nat, p \in Nat : q = r[HashLen] /\ p = Power[HashLen]
    BY <1>2, <2>0, PowerDef, Zenon
  <2>2. q * p <= v /\ v < p
    BY <1>1, <1>6, <2>1
  <2>3. CASE q # 0
    <3>1. 1 * p \in Nat /\ q * p \in Nat /\ 1 * p <= q * p
      BY <2>3, Monotonic
    <3>2. p <= q * p
      BY <3>1
    <3>. DEFINE y == q * p
    <3>3. y \in Nat /\ p <= y /\ y <= v /\ v < p
      BY <2>2, <3>1, <3>2
    <3>. HIDE DEF y
    <3>. QED
      BY <1>1, <3>3
  <2>. QED
    BY <2>1, <2>3
<1>. QED
  BY <1>1, <1>7 DEF r

\* to_big_endian and from_big_endian are inverse: the digits of a number have
\* its value.
LEMMA BigEndian ==
  ASSUME NEW v \in U256
  PROVE  from_big_endian(to_big_endian(v)) = Ok(v)
<1>. DEFINE r == Remaining(v)
            d == to_big_endian(v)
            a == Values(d)
            S == {k \in 0 .. HashLen : a[k] = r[HashLen - k]}
<1>1. v \in Nat /\ r[HashLen] = 0
  BY NothingRemains, Zenon
<1>2. /\ r[0] = v /\ \A k \in 1 .. HashLen : r[k] = r[k - 1] \div Base
      /\ \A k \in 0 .. HashLen : r[k] \in Nat
  BY <1>1, RemainingDef, Zenon
<1>3. d = [k \in 1 .. HashLen |-> r[HashLen - k] % Base]
  BY DEF to_big_endian
<1>. HIDE DEF r, d
<1>4. d \in Seq(Byte) /\ Len(d) = HashLen
  <2>1. \A k \in 1 .. HashLen : r[HashLen - k] % Base \in Byte
    <3>1. \A k \in 1 .. HashLen : r[HashLen - k] \in Nat
      BY <1>2, Sizes
    <3>. QED
      BY <3>1, Sizes DEF Byte
  <2>. QED
    BY <1>3, <2>1, Sizes
<1>5. a[0] = 0 /\ \A k \in 1 .. HashLen : a[k] = a[k - 1] * Base + d[k]
  BY <1>4, ValuesDef, Zenon
<1>. HIDE DEF a
<1>6. 0 \in S
  BY <1>1, <1>5, Sizes
<1>7. ASSUME NEW k \in 1 .. HashLen, k - 1 \in S PROVE k \in S
  <2>. DEFINE j == HashLen - k
  <2>1. j \in 0 .. HashLen /\ j + 1 \in 1 .. HashLen /\ HashLen - (k - 1) = j + 1 /\ (j + 1) - 1 = j
    BY Sizes
  <2>2. a[k - 1] = r[j + 1] /\ r[j + 1] = r[j] \div Base /\ r[j] \in Nat
    BY <1>2, <1>7, <2>1
  <2>3. d[k] = r[j] % Base
    BY <1>3
  <2>4. (r[j] \div Base) * Base + (r[j] % Base) = r[j]
    BY <2>2, Sizes, Division
  <2>5. a[k] = r[j]
    BY <1>5, <2>2, <2>3, <2>4
  <2>. QED
    BY <2>1, <2>5, Sizes
<1>. HIDE DEF S
<1>8. 0 .. HashLen \subseteq S
  BY <1>6, <1>7, Sizes, Induction
<1>9. a[HashLen] = v
  <2>1. HashLen \in S
    BY <1>8, Sizes
  <2>2. HashLen - HashLen = 0
    BY Sizes
  <2>. QED
    BY <1>2, <2>1, <2>2 DEF S
<1>10. ~ (Len(d) > HashLen)
  BY <1>4, Sizes
<1>. QED
  BY <1>4, <1>9, <1>10 DEF from_big_endian, a, d

-----------------------------------------------------------------------------
(* Conversions that succeed *)

\* What Ok holds.
LEMMA OkFields ==
  ASSUME NEW v
  PROVE  Ok(v).res = "ok" /\ Ok(v).v = v
BY DEF Ok

\* The operator ? goes on to the end when every conversion succeeds.
LEMMA AllOk ==
  ASSUME NEW rs, NEW v, \A i \in DOMAIN rs : rs[i].res = "ok"
  PROVE  All(rs, v) = Ok(v)
<1>1. {i \in DOMAIN rs : rs[i].res # "ok"} = {}
  OBVIOUS
<1>. QED
  BY <1>1, Zenon DEF All

\* The fields of a struct, converted one by one.
LEMMA Fields1 ==
  ASSUME NEW a, NEW v
  PROVE  All(<<Ok(a)>>, v) = Ok(v)
<1>. DEFINE rs == <<Ok(a)>>
<1>1. \A i \in DOMAIN rs : rs[i].res = "ok"
  BY OkFields
<1>. HIDE DEF rs
<1>2. All(rs, v) = Ok(v)
  BY <1>1, AllOk, Zenon
<1>. QED
  BY <1>2, Zenon DEF rs

\* Two fields.
LEMMA Fields2 ==
  ASSUME NEW a, NEW b, NEW v
  PROVE  All(<<Ok(a), Ok(b)>>, v) = Ok(v)
<1>. DEFINE rs == <<Ok(a), Ok(b)>>
<1>1. \A i \in DOMAIN rs : rs[i].res = "ok"
  BY OkFields
<1>. HIDE DEF rs
<1>2. All(rs, v) = Ok(v)
  BY <1>1, AllOk, Zenon
<1>. QED
  BY <1>2, Zenon DEF rs

\* Three fields.
LEMMA Fields3 ==
  ASSUME NEW a, NEW b, NEW c, NEW v
  PROVE  All(<<Ok(a), Ok(b), Ok(c)>>, v) = Ok(v)
<1>. DEFINE rs == <<Ok(a), Ok(b), Ok(c)>>
<1>1. \A i \in DOMAIN rs : rs[i].res = "ok"
  BY OkFields
<1>. HIDE DEF rs
<1>2. All(rs, v) = Ok(v)
  BY <1>1, AllOk, Zenon
<1>. QED
  BY <1>2, Zenon DEF rs

\* Four fields.
LEMMA Fields4 ==
  ASSUME NEW a, NEW b, NEW c, NEW d, NEW v
  PROVE  All(<<Ok(a), Ok(b), Ok(c), Ok(d)>>, v) = Ok(v)
<1>. DEFINE rs == <<Ok(a), Ok(b), Ok(c), Ok(d)>>
<1>1. \A i \in DOMAIN rs : rs[i].res = "ok"
  BY OkFields
<1>. HIDE DEF rs
<1>2. All(rs, v) = Ok(v)
  BY <1>1, AllOk, Zenon
<1>. QED
  BY <1>2, Zenon DEF rs

\* Five fields.
LEMMA Fields5 ==
  ASSUME NEW a, NEW b, NEW c, NEW d, NEW e, NEW v
  PROVE  All(<<Ok(a), Ok(b), Ok(c), Ok(d), Ok(e)>>, v) = Ok(v)
<1>. DEFINE rs == <<Ok(a), Ok(b), Ok(c), Ok(d), Ok(e)>>
<1>1. \A i \in DOMAIN rs : rs[i].res = "ok"
  BY OkFields
<1>. HIDE DEF rs
<1>2. All(rs, v) = Ok(v)
  BY <1>1, AllOk, Zenon
<1>. QED
  BY <1>2, Zenon DEF rs

\* The elements of an array, converted one by one.
LEMMA Elements ==
  ASSUME NEW n \in Nat, NEW T, NEW x \in Array(n, T), NEW s, Len(s) = n,
         NEW rs, DOMAIN rs = 1 .. n, \A i \in 1 .. n : rs[i] = Ok(x[i])
  PROVE  All(rs, [i \in 1 .. Len(s) |-> rs[i].v]) = Ok(x)
<1>1. \A i \in DOMAIN rs : rs[i].res = "ok" /\ rs[i].v = x[i]
  BY DEF Ok
<1>2. [i \in 1 .. Len(s) |-> rs[i].v] = x
  BY <1>1 DEF Array
<1>. QED
  BY <1>1, <1>2, AllOk, Zenon

\* An array is a sequence of its length.
LEMMA ArrayLen ==
  ASSUME NEW n \in Nat, NEW T, NEW x \in Array(n, T)
  PROVE  x \in Seq(T) /\ Len(x) = n /\ DOMAIN x = 1 .. n /\ \A i \in 1 .. n : x[i] \in T
BY DEF Array

\* An array of the right length passes try_into.
LEMMA ExactlyOk ==
  ASSUME NEW n \in Nat, NEW T, NEW x \in Array(n, T)
  PROVE  Exactly(x, n) = Ok(x)
BY ArrayLen, Zenon DEF Exactly

\* So do addresses, hashes and signatures.
LEMMA BytesOk ==
  /\ \A x \in Address : Exactly(x, AddressLen) = Ok(x)
  /\ \A x \in Hash : Exactly(x, HashLen) = Ok(x)
  /\ \A x \in Signature : Exactly(x, SignatureLen) = Ok(x)
BY ExactlyOk, Sizes, Zenon DEF Address, Hash, Signature

\* A field that is there.
LEMMA SomeField ==
  ASSUME NEW x
  PROVE  Some(x) # None /\ Some(x)[1] = x
BY DEF Some, None

-----------------------------------------------------------------------------
(* The structs that are read *)

\* Err and a panic are not Ok.
LEMMA NotOk == Err.res # "ok" /\ Panic.res # "ok"
BY DEF Err, Panic

\* All succeeds only if every conversion does: the first that fails decides.
LEMMA AllOkOnly ==
  ASSUME NEW n \in Nat, NEW rs, DOMAIN rs = 1 .. n, NEW v, All(rs, v).res = "ok"
  PROVE  \A i \in 1 .. n : rs[i].res = "ok"
<1>. DEFINE failed == {i \in DOMAIN rs : rs[i].res # "ok"}
            first == CHOOSE i \in failed : \A j \in failed : i <= j
<1>1. ASSUME failed # {} PROVE FALSE
  <2>1. failed \in SUBSET Nat
    OBVIOUS
  <2>. HIDE DEF failed
  <2>2. \E i \in failed : \A j \in failed : i <= j
    BY <1>1, <2>1, Least, Zenon
  <2>3. first \in failed
    BY <2>2, Zenon
  <2>4. All(rs, v) = rs[first]
    BY <1>1, Zenon DEF All, failed
  <2>. HIDE DEF first
  <2>5. rs[first].res # "ok"
    BY <2>3 DEF failed
  <2>. QED
    BY <2>4, <2>5, Zenon
<1>. QED
  BY <1>1

\* All succeeds exactly if every conversion does.
LEMMA AllExact ==
  ASSUME NEW n \in Nat, NEW rs, DOMAIN rs = 1 .. n, NEW v
  PROVE  All(rs, v).res = "ok" <=> \A i \in 1 .. n : rs[i].res = "ok"
<1>1. ASSUME \A i \in 1 .. n : rs[i].res = "ok" PROVE All(rs, v).res = "ok"
  <2>1. All(rs, v) = Ok(v)
    BY <1>1, AllOk, Zenon
  <2>. QED
    BY <2>1, OkFields, Zenon
<1>2. ASSUME All(rs, v).res = "ok" PROVE \A i \in 1 .. n : rs[i].res = "ok"
  BY <1>2, AllOkOnly, Zenon
<1>. QED
  BY <1>1, <1>2, Zenon

\* A struct is converted exactly if its fields are.
LEMMA FieldsExact1 ==
  ASSUME NEW a, NEW v
  PROVE  All(<<a>>, v).res = "ok" <=> a.res = "ok"
<1>. DEFINE rs == <<a>>
<1>1. DOMAIN rs = 1 .. 1 /\ rs[1] = a
  OBVIOUS
<1>. HIDE DEF rs
<1>2. All(rs, v).res = "ok" <=> \A i \in 1 .. 1 : rs[i].res = "ok"
  BY <1>1, AllExact
<1>3. All(rs, v).res = "ok" <=> a.res = "ok"
  BY <1>1, <1>2
<1>. QED
  BY <1>3, Zenon DEF rs

\* Two fields.
LEMMA FieldsExact2 ==
  ASSUME NEW a, NEW b, NEW v
  PROVE  All(<<a, b>>, v).res = "ok" <=> a.res = "ok" /\ b.res = "ok"
<1>. DEFINE rs == <<a, b>>
<1>1. DOMAIN rs = 1 .. 2 /\ rs[1] = a /\ rs[2] = b
  OBVIOUS
<1>. HIDE DEF rs
<1>2. All(rs, v).res = "ok" <=> \A i \in 1 .. 2 : rs[i].res = "ok"
  BY <1>1, AllExact
<1>3. All(rs, v).res = "ok" <=> a.res = "ok" /\ b.res = "ok"
  BY <1>1, <1>2
<1>. QED
  BY <1>3, Zenon DEF rs

\* Three fields.
LEMMA FieldsExact3 ==
  ASSUME NEW a, NEW b, NEW c, NEW v
  PROVE  All(<<a, b, c>>, v).res = "ok" <=> a.res = "ok" /\ b.res = "ok" /\ c.res = "ok"
<1>. DEFINE rs == <<a, b, c>>
<1>1. DOMAIN rs = 1 .. 3 /\ rs[1] = a /\ rs[2] = b /\ rs[3] = c
  OBVIOUS
<1>. HIDE DEF rs
<1>2. All(rs, v).res = "ok" <=> \A i \in 1 .. 3 : rs[i].res = "ok"
  BY <1>1, AllExact
<1>3. All(rs, v).res = "ok" <=> a.res = "ok" /\ b.res = "ok" /\ c.res = "ok"
  BY <1>1, <1>2
<1>. QED
  BY <1>3, Zenon DEF rs

\* Four fields.
LEMMA FieldsExact4 ==
  ASSUME NEW a, NEW b, NEW c, NEW d, NEW v
  PROVE  All(<<a, b, c, d>>, v).res = "ok" <=> a.res = "ok" /\ b.res = "ok" /\ c.res = "ok" /\ d.res = "ok"
<1>. DEFINE rs == <<a, b, c, d>>
<1>1. DOMAIN rs = 1 .. 4 /\ rs[1] = a /\ rs[2] = b /\ rs[3] = c /\ rs[4] = d
  OBVIOUS
<1>. HIDE DEF rs
<1>2. All(rs, v).res = "ok" <=> \A i \in 1 .. 4 : rs[i].res = "ok"
  BY <1>1, AllExact
<1>3. All(rs, v).res = "ok" <=> a.res = "ok" /\ b.res = "ok" /\ c.res = "ok" /\ d.res = "ok"
  BY <1>1, <1>2
<1>. QED
  BY <1>3, Zenon DEF rs

\* Five fields.
LEMMA FieldsExact5 ==
  ASSUME NEW a, NEW b, NEW c, NEW d, NEW e, NEW v
  PROVE  All(<<a, b, c, d, e>>, v).res = "ok" <=> a.res = "ok" /\ b.res = "ok" /\ c.res = "ok" /\ d.res = "ok" /\ e.res = "ok"
<1>. DEFINE rs == <<a, b, c, d, e>>
<1>1. DOMAIN rs = 1 .. 5 /\ rs[1] = a /\ rs[2] = b /\ rs[3] = c /\ rs[4] = d /\ rs[5] = e
  OBVIOUS
<1>. HIDE DEF rs
<1>2. All(rs, v).res = "ok" <=> \A i \in 1 .. 5 : rs[i].res = "ok"
  BY <1>1, AllExact
<1>3. All(rs, v).res = "ok" <=> a.res = "ok" /\ b.res = "ok" /\ c.res = "ok" /\ d.res = "ok" /\ e.res = "ok"
  BY <1>1, <1>2
<1>. QED
  BY <1>3, Zenon DEF rs

\* Exactly takes no other length.
LEMMA ExactlyExact ==
  ASSUME NEW b, NEW n
  PROVE  Exactly(b, n).res = "ok" <=> Len(b) = n
BY NotOk, OkFields, Zenon DEF Exactly

\* from_big_endian panics exactly if there are too many bytes.
LEMMA BigEndianExact ==
  ASSUME NEW b
  PROVE  from_big_endian(b).res = "ok" <=> ~ Len(b) > HashLen
BY NotOk, OkFields, Zenon DEF from_big_endian

\* Balances::try_from succeeds exactly with every amount there.
LEMMA BalancesExact ==
  ASSUME NEW w
  PROVE  BalancesTry(w).res = "ok" <=> ReadableBalances(w)
<1>1. ASSUME NEW b
      PROVE  ParticipantBalancesTry(b).res = "ok" <=>
               Len(b.balance) = PARTICIPANTS /\ \A p \in 1 .. PARTICIPANTS : ~ Len(b.balance[p]) > HashLen
  <2>. DEFINE t == b.balance
              ps == [i \in 1 .. Len(t) |-> from_big_endian(t[i])]
  <2>1. CASE Len(t) # PARTICIPANTS
    BY <2>1, NotOk, Zenon DEF ParticipantBalancesTry
  <2>2. CASE Len(t) = PARTICIPANTS
    <3>1. ParticipantBalancesTry(b) = All(ps, [i \in 1 .. Len(t) |-> ps[i].v])
      BY <2>2, Zenon DEF ParticipantBalancesTry, Each
    <3>2. DOMAIN ps = 1 .. PARTICIPANTS /\ \A p \in 1 .. PARTICIPANTS : ps[p] = from_big_endian(t[p])
      BY <2>2
    <3>. HIDE DEF t, ps
    <3>3. All(ps, [i \in 1 .. Len(t) |-> ps[i].v]).res = "ok" <=> \A p \in 1 .. PARTICIPANTS : ps[p].res = "ok"
      BY <3>2, AllExact, Sizes
    <3>4. \A p \in 1 .. PARTICIPANTS : ps[p].res = "ok" <=> ~ Len(t[p]) > HashLen
      BY <3>2, BigEndianExact, Zenon
    <3>5. ParticipantBalancesTry(b).res = "ok" <=> \A p \in 1 .. PARTICIPANTS : ~ Len(t[p]) > HashLen
      BY <3>1, <3>3, <3>4, Zenon
    <3>. QED
      BY <2>2, <3>5, Zenon DEF t
  <2>. QED
    BY <2>1, <2>2, Zenon
<1>. DEFINE s == w.balances
            rs == [i \in 1 .. Len(s) |-> ParticipantBalancesTry(s[i])]
<1>2. CASE Len(s) # ASSETS
  BY <1>2, NotOk, Zenon DEF BalancesTry, ReadableBalances
<1>3. CASE Len(s) = ASSETS
  <2>1. BalancesTry(w) = All(rs, [i \in 1 .. Len(s) |-> rs[i].v])
    BY <1>3, Zenon DEF BalancesTry, Each
  <2>2. DOMAIN rs = 1 .. ASSETS /\ \A a \in 1 .. ASSETS : rs[a] = ParticipantBalancesTry(s[a])
    BY <1>3
  <2>. HIDE DEF s, rs
  <2>3. All(rs, [i \in 1 .. Len(s) |-> rs[i].v]).res = "ok" <=> \A a \in 1 .. ASSETS : rs[a].res = "ok"
    BY <2>2, AllExact, Sizes
  <2>4. BalancesTry(w).res = "ok" <=> \A a \in 1 .. ASSETS : ParticipantBalancesTry(s[a]).res = "ok"
    BY <2>1, <2>2, <2>3, Zenon
  <2>5. ReadableBalances(w) <=> \A a \in 1 .. ASSETS :
          Len(s[a].balance) = PARTICIPANTS /\ \A p \in 1 .. PARTICIPANTS : ~ Len(s[a].balance[p]) > HashLen
    BY <1>3, Zenon DEF ReadableBalances, s
  <2>. QED
    BY <1>1, <2>4, <2>5, Zenon
<1>. QED
  BY <1>2, <1>3, Zenon

\* An asset is read exactly if it has a length of at most AddressLen, and if that
\* is not 0 an address.
LEMMA AssetExact ==
  ASSUME NEW b
  PROVE  AssetTry(b).res = "ok" <=> ReadableAsset(b)
BY NotOk, OkFields, Zenon DEF AssetTry, ReadableAsset

\* The zero address that stands for an asset that is missing is read.
LEMMA MissingAsset == AssetTry(Zeros(AddressLen + 2)).res = "ok"
<1>. DEFINE z == Zeros(AddressLen + 2)
<1>1. z[1] + z[2] * Base = 0 /\ ~ Len(z) < 2 /\ ~ 0 > AddressLen
  BY Sizes DEF Zeros
<1>. HIDE DEF z
<1>2. ReadableAsset(z)
  BY <1>1, Zenon DEF ReadableAsset
<1>. QED
  BY <1>2, AssetExact, Zenon DEF z

\* Allocation::try_from succeeds exactly with complete balances and with assets
\* that can be read, however many.
LEMMA AllocationExact ==
  ASSUME NEW w
  PROVE  AllocationTry(w).res = "ok" <=> ReadableAllocation(w)
<1>. DEFINE s == [k \in 1 .. ASSETS |-> IF k <= Len(w.assets) THEN w.assets[k] ELSE Zeros(AddressLen + 2)]
            rs == [i \in 1 .. Len(s) |-> AssetTry(s[i])]
            assets == All(rs, [i \in 1 .. Len(s) |-> rs[i].v])
            balances == Required(w.balances, BalancesTry)
            v == [assets |-> assets.v, balances |-> balances.v]
<1>1. AllocationTry(w) = All(<<assets, balances>>, v)
  BY Zenon DEF AllocationTry, Each
<1>2. /\ Len(s) = ASSETS
      /\ \A k \in 1 .. ASSETS : s[k] = IF k <= Len(w.assets) THEN w.assets[k] ELSE Zeros(AddressLen + 2)
  BY Sizes
<1>. HIDE DEF s, v
<1>3. DOMAIN rs = 1 .. ASSETS /\ \A i \in 1 .. ASSETS : rs[i] = AssetTry(s[i])
  BY <1>2
<1>. HIDE DEF rs
<1>4. assets.res = "ok" <=> \A i \in 1 .. ASSETS : rs[i].res = "ok"
  BY <1>3, AllExact, Sizes
<1>5. \A k \in 1 .. ASSETS : rs[k].res = "ok" <=> (k <= Len(w.assets) => ReadableAsset(w.assets[k]))
  BY <1>2, <1>3, AssetExact, MissingAsset, Zenon
<1>6. balances.res = "ok" <=> Whole(w.balances, ReadableBalances)
  BY NotOk, BalancesExact, Zenon DEF Required, Whole
<1>. HIDE DEF assets, balances
<1>7. AllocationTry(w).res = "ok" <=> assets.res = "ok" /\ balances.res = "ok"
  BY <1>1, FieldsExact2
<1>. QED
  BY <1>4, <1>5, <1>6, <1>7, Zenon DEF ReadableAllocation

\* State::try_from succeeds exactly with an id, an allocation and no data.
LEMMA StateExact ==
  ASSUME NEW w
  PROVE  StateTry(w).res = "ok" <=> ReadableState(w)
<1>. DEFINE id == Exactly(w.id, HashLen)
            outcome == Required(w.allocation, AllocationTry)
            v == [id |-> id.v, version |-> w.version, outcome |-> outcome.v, is_final |-> w.is_final]
<1>1. StateTry(w) = IF w.data # <<>> THEN Err ELSE All(<<id, outcome>>, v)
  BY Zenon DEF StateTry
<1>2. id.res = "ok" <=> Len(w.id) = HashLen
  BY ExactlyExact, Zenon
<1>3. outcome.res = "ok" <=> Whole(w.allocation, ReadableAllocation)
  BY NotOk, AllocationExact, Zenon DEF Required, Whole
<1>. HIDE DEF id, outcome, v
<1>4. All(<<id, outcome>>, v).res = "ok" <=> id.res = "ok" /\ outcome.res = "ok"
  BY FieldsExact2
<1>. QED
  BY <1>1, <1>2, <1>3, <1>4, NotOk, Zenon DEF ReadableState

\* Params::try_from succeeds exactly if every participant it reads is an address,
\* however many there are.
LEMMA ParamsExact ==
  ASSUME NEW w
  PROVE  ParamsTry(w).res = "ok" <=> ReadableParams(w)
<1>. DEFINE s == [k \in 1 .. PARTICIPANTS |-> IF k <= Len(w.parts) THEN w.parts[k] ELSE Zeros(AddressLen)]
            rs == [i \in 1 .. Len(s) |-> Exactly(s[i], AddressLen)]
            parts == All(rs, [i \in 1 .. Len(s) |-> rs[i].v])
            nonce == from_big_endian(w.nonce)
            v == [challenge_duration |-> w.challenge_duration, nonce |-> nonce.v, participants |-> parts.v,
                  ledger_channel |-> w.ledger_channel, virtual_channel |-> w.virtual_channel]
<1>1. ParamsTry(w) = All(<<parts, nonce>>, v)
  BY Zenon DEF ParamsTry, Each
<1>2. /\ Len(s) = PARTICIPANTS
      /\ \A k \in 1 .. PARTICIPANTS : s[k] = IF k <= Len(w.parts) THEN w.parts[k] ELSE Zeros(AddressLen)
  BY Sizes
<1>3. Len(Zeros(AddressLen)) = AddressLen
  BY Sizes DEF Zeros
<1>. HIDE DEF s, v
<1>4. DOMAIN rs = 1 .. PARTICIPANTS /\ \A i \in 1 .. PARTICIPANTS : rs[i] = Exactly(s[i], AddressLen)
  BY <1>2
<1>. HIDE DEF rs
<1>5. parts.res = "ok" <=> \A i \in 1 .. PARTICIPANTS : rs[i].res = "ok"
  BY <1>4, AllExact, Sizes
<1>6. \A k \in 1 .. PARTICIPANTS : rs[k].res = "ok" <=> (k <= Len(w.parts) => Len(w.parts[k]) = AddressLen)
  <2>1. \A k \in 1 .. PARTICIPANTS : rs[k].res = "ok" <=> Len(s[k]) = AddressLen
    <3>. TAKE k \in 1 .. PARTICIPANTS
    <3>1. rs[k] = Exactly(s[k], AddressLen)
      BY <1>4
    <3>. QED
      BY <3>1, ExactlyExact
  <2>. QED
    BY <1>2, <1>3, <2>1
<1>7. nonce.res = "ok" <=> ~ Len(w.nonce) > HashLen
  BY BigEndianExact, Zenon
<1>. HIDE DEF parts, nonce
<1>8. ParamsTry(w).res = "ok" <=> parts.res = "ok" /\ nonce.res = "ok"
  BY <1>1, FieldsExact2
<1>. QED
  BY <1>5, <1>6, <1>7, <1>8, Zenon DEF ReadableParams

\* There is one signature of each participant, of the right length.
LEMMA SignaturesExact ==
  ASSUME NEW s
  PROVE  SignaturesTry(s).res = "ok" <=> ReadableSigs(s)
<1>. DEFINE rs == [i \in 1 .. Len(s) |-> Exactly(s[i], SignatureLen)]
<1>1. CASE Len(s) # PARTICIPANTS
  BY <1>1, NotOk, Zenon DEF SignaturesTry, ReadableSigs
<1>2. CASE Len(s) = PARTICIPANTS
  <2>1. SignaturesTry(s) = All(rs, [i \in 1 .. Len(s) |-> rs[i].v])
    BY <1>2, Zenon DEF SignaturesTry, Each
  <2>2. DOMAIN rs = 1 .. PARTICIPANTS /\ \A i \in 1 .. PARTICIPANTS : rs[i] = Exactly(s[i], SignatureLen)
    BY <1>2
  <2>. HIDE DEF rs
  <2>3. All(rs, [i \in 1 .. Len(s) |-> rs[i].v]).res = "ok" <=> \A i \in 1 .. PARTICIPANTS : rs[i].res = "ok"
    BY <2>2, AllExact, Sizes
  <2>4. \A i \in 1 .. PARTICIPANTS : rs[i].res = "ok" <=> Len(s[i]) = SignatureLen
    <3>. TAKE i \in 1 .. PARTICIPANTS
    <3>1. rs[i] = Exactly(s[i], SignatureLen)
      BY <2>2
    <3>. QED
      BY <3>1, ExactlyExact
  <2>. QED
    BY <1>2, <2>1, <2>3, <2>4, Zenon DEF ReadableSigs
<1>. QED
  BY <1>1, <1>2, Zenon

\* Transaction::try_from succeeds exactly with signatures and a state.
LEMMA TransactionExact ==
  ASSUME NEW w
  PROVE  TransactionTry(w).res = "ok" <=> ReadableTransaction(w)
<1>. DEFINE sigs == SignaturesTry(w.sigs)
            state == StateTry(w.state[1])
            v == [state |-> state.v, sigs |-> sigs.v]
<1>1. TransactionTry(w) = IF w.state = None THEN Err ELSE All(<<sigs, state>>, v)
  BY Zenon DEF TransactionTry
<1>2. (sigs.res = "ok" <=> ReadableSigs(w.sigs)) /\ (state.res = "ok" <=> ReadableState(w.state[1]))
  BY SignaturesExact, StateExact, Zenon
<1>. HIDE DEF sigs, state, v
<1>3. All(<<sigs, state>>, v).res = "ok" <=> sigs.res = "ok" /\ state.res = "ok"
  BY FieldsExact2
<1>. QED
  BY <1>1, <1>2, <1>3, NotOk, Zenon DEF ReadableTransaction, Whole

\* AdjudicatorReq::try_from succeeds exactly with all its parts.
LEMMA AdjudicatorReqExact ==
  ASSUME NEW w
  PROVE  AdjudicatorReqTry(w).res = "ok" <=> ReadableRequest(w)
<1>. DEFINE params == Required(w.params, ParamsTry)
            acc == Exactly(w.acc, AddressLen)
            tx == Required(w.tx, TransactionTry)
            v == [params |-> params.v, acc |-> acc.v, tx |-> tx.v, idx |-> w.idx, secondary |-> w.secondary]
<1>1. AdjudicatorReqTry(w) = All(<<params, acc, tx>>, v)
  BY Zenon DEF AdjudicatorReqTry
<1>2. params.res = "ok" <=> Whole(w.params, ReadableParams)
  BY NotOk, ParamsExact, Zenon DEF Required, Whole
<1>3. acc.res = "ok" <=> Len(w.acc) = AddressLen
  BY ExactlyExact, Zenon
<1>4. tx.res = "ok" <=> Whole(w.tx, ReadableTransaction)
  BY NotOk, TransactionExact, Zenon DEF Required, Whole
<1>. HIDE DEF params, acc, tx, v
<1>5. AdjudicatorReqTry(w).res = "ok" <=> params.res = "ok" /\ acc.res = "ok" /\ tx.res = "ok"
  BY <1>1, FieldsExact3
<1>. QED
  BY <1>2, <1>3, <1>4, <1>5, Zenon DEF ReadableRequest

\* Each authorization has a signature and a receiver.
LEMMA AuthsExact ==
  ASSUME NEW x, Len(x) = ASSETS
  PROVE  Each(x, SignedWithdrawalAuthTry).res = "ok" <=>
           \A a \in 1 .. ASSETS : Len(x[a].sig) = SignatureLen /\ Len(x[a].receiver) = AddressLen
<1>. DEFINE rs == [i \in 1 .. Len(x) |-> SignedWithdrawalAuthTry(x[i])]
<1>1. Each(x, SignedWithdrawalAuthTry) = All(rs, [i \in 1 .. Len(x) |-> rs[i].v])
  BY Zenon DEF Each
<1>2. DOMAIN rs = 1 .. ASSETS /\ \A a \in 1 .. ASSETS : rs[a] = SignedWithdrawalAuthTry(x[a])
  OBVIOUS
<1>. HIDE DEF rs
<1>3. All(rs, [i \in 1 .. Len(x) |-> rs[i].v]).res = "ok" <=> \A a \in 1 .. ASSETS : rs[a].res = "ok"
  BY <1>2, AllExact, Sizes
<1>4. ASSUME NEW w
      PROVE  SignedWithdrawalAuthTry(w).res = "ok" <=> Len(w.sig) = SignatureLen /\ Len(w.receiver) = AddressLen
  <2>. DEFINE sig == Exactly(w.sig, SignatureLen)
              receiver == Exactly(w.receiver, AddressLen)
              v == [sig |-> sig.v, receiver |-> receiver.v]
  <2>1. SignedWithdrawalAuthTry(w) = All(<<sig, receiver>>, v)
    BY Zenon DEF SignedWithdrawalAuthTry
  <2>2. (sig.res = "ok" <=> Len(w.sig) = SignatureLen) /\ (receiver.res = "ok" <=> Len(w.receiver) = AddressLen)
    BY ExactlyExact, Zenon
  <2>. HIDE DEF sig, receiver, v
  <2>3. SignedWithdrawalAuthTry(w).res = "ok" <=> sig.res = "ok" /\ receiver.res = "ok"
    BY <2>1, FieldsExact2
  <2>. QED
    BY <2>2, <2>3, Zenon
<1>. QED
  BY <1>1, <1>2, <1>3, <1>4, Zenon

\* The messages between participants.
LEMMA ParticipantExact ==
  ASSUME NEW w, NEW kind \in {"Auth", "ChannelProposal", "ProposalAccepted", "ProposalRejected",
                              "ChannelUpdate", "ChannelUpdateAccepted", "ChannelUpdateRejected"}
  PROVE  MessageTry(kind, w).res = "ok" <=> Readable(kind, w)
<1>0. kind \notin WatcherKinds \cup FunderKinds
  BY DEF WatcherKinds, FunderKinds
<1>1. MessageTry(kind, w) = ParticipantTry(kind, w)
  BY <1>0, Zenon DEF MessageTry
<1>2. CASE kind = "Auth"
  <2>1. MessageTry(kind, w) = Ok([kind |-> kind])
    BY <1>1, <1>2 DEF ParticipantTry
  <2>2. Readable(kind, w)
    BY <1>2 DEF Readable
  <2>. QED
    BY <2>1, <2>2, OkFields, Zenon
<1>3. CASE kind = "ChannelProposal"
  <2>. DEFINE base == w.base_channel_proposal[1]
              proposal_id == Exactly(base.proposal_id, HashLen)
              nonce_share == Exactly(base.nonce_share, HashLen)
              init_bals == AllocationTry(base.init_bals[1])
              funding_agreement == BalancesTry(base.funding_agreement[1])
              participant == Exactly(w.participant, AddressLen)
              v == [kind |-> "ChannelProposal", proposal_id |-> proposal_id.v,
                    challenge_duration |-> base.challenge_duration, nonce_share |-> nonce_share.v,
                    init_bals |-> init_bals.v, funding_agreement |-> funding_agreement.v,
                    participant |-> participant.v, peers |-> w.peers]
              some == w.base_channel_proposal # None /\ base.init_bals # None /\ base.funding_agreement # None
  <2>1. MessageTry(kind, w) = ChannelProposalTry(w)
    BY <1>1, <1>3 DEF ParticipantTry
  <2>2. /\ some => ChannelProposalTry(w) = All(<<proposal_id, nonce_share, init_bals, funding_agreement, participant>>, v)
        /\ ~ some => ChannelProposalTry(w) = Err
    BY Zenon DEF ChannelProposalTry
  <2>3. /\ proposal_id.res = "ok" <=> Len(base.proposal_id) = HashLen
        /\ nonce_share.res = "ok" <=> Len(base.nonce_share) = HashLen
        /\ participant.res = "ok" <=> Len(w.participant) = AddressLen
    BY ExactlyExact, Zenon
  <2>4. /\ init_bals.res = "ok" <=> ReadableAllocation(base.init_bals[1])
        /\ funding_agreement.res = "ok" <=> ReadableBalances(base.funding_agreement[1])
    BY AllocationExact, BalancesExact, Zenon
  <2>5. Readable(kind, w) <=> Whole(w.base_channel_proposal, ReadableProposal) /\ Len(w.participant) = AddressLen
    BY <1>3 DEF Readable
  <2>6. Whole(w.base_channel_proposal, ReadableProposal) <=>
          /\ some /\ Len(base.proposal_id) = HashLen /\ Len(base.nonce_share) = HashLen
          /\ ReadableAllocation(base.init_bals[1]) /\ ReadableBalances(base.funding_agreement[1])
    BY Zenon DEF Whole, ReadableProposal
  <2>. HIDE DEF proposal_id, nonce_share, init_bals, funding_agreement, participant, v
  <2>7. All(<<proposal_id, nonce_share, init_bals, funding_agreement, participant>>, v).res = "ok" <=>
          /\ proposal_id.res = "ok" /\ nonce_share.res = "ok" /\ init_bals.res = "ok"
          /\ funding_agreement.res = "ok" /\ participant.res = "ok"
    BY FieldsExact5
  <2>. HIDE DEF base, some
  <2>. QED
    BY <2>1, <2>2, <2>3, <2>4, <2>5, <2>6, <2>7, NotOk, Zenon
<1>4. CASE kind = "ProposalAccepted"
  <2>. DEFINE base == w.base_channel_proposal_acc[1]
              proposal_id == Exactly(base.proposal_id, HashLen)
              nonce_share == Exactly(base.nonce_share, HashLen)
              participant == Exactly(w.participant, AddressLen)
              v == [kind |-> "ProposalAccepted", proposal_id |-> proposal_id.v, nonce_share |-> nonce_share.v,
                    participant |-> participant.v]
  <2>1. MessageTry(kind, w) = ProposalAcceptedTry(w)
    BY <1>1, <1>4 DEF ParticipantTry
  <2>2. ProposalAcceptedTry(w) =
          IF w.base_channel_proposal_acc = None THEN Err ELSE All(<<proposal_id, nonce_share, participant>>, v)
    BY Zenon DEF ProposalAcceptedTry
  <2>3. /\ proposal_id.res = "ok" <=> Len(base.proposal_id) = HashLen
        /\ nonce_share.res = "ok" <=> Len(base.nonce_share) = HashLen
        /\ participant.res = "ok" <=> Len(w.participant) = AddressLen
    BY ExactlyExact, Zenon
  <2>4. Readable(kind, w) <=> Whole(w.base_channel_proposal_acc, ReadableProposalAcc) /\ Len(w.participant) = AddressLen
    BY <1>4 DEF Readable
  <2>5. Whole(w.base_channel_proposal_acc, ReadableProposalAcc) <=>
          w.base_channel_proposal_acc # None /\ Len(base.proposal_id) = HashLen /\ Len(base.nonce_share) = HashLen
    BY Zenon DEF Whole, ReadableProposalAcc
  <2>. HIDE DEF proposal_id, nonce_share, participant, v
  <2>6. All(<<proposal_id, nonce_share, participant>>, v).res = "ok" <=>
          proposal_id.res = "ok" /\ nonce_share.res = "ok" /\ participant.res = "ok"
    BY FieldsExact3
  <2>. QED
    BY <2>1, <2>2, <2>3, <2>4, <2>5, <2>6, NotOk, Zenon
<1>5. CASE kind = "ProposalRejected"
  <2>1. MessageTry(kind, w) =
          IF Len(w.proposal_id) # HashLen THEN Panic ELSE Ok([kind |-> kind, id |-> w.proposal_id, reason |-> w.reason])
    BY <1>1, <1>5 DEF ParticipantTry
  <2>2. Readable(kind, w) <=> Len(w.proposal_id) = HashLen
    BY <1>5 DEF Readable
  <2>. QED
    BY <2>1, <2>2, NotOk, OkFields, Zenon
<1>6. CASE kind = "ChannelUpdate"
  <2>. DEFINE update == w.channel_update[1]
              state == Required(update.state, StateTry)
              sig == Exactly(w.sig, SignatureLen)
              v == [kind |-> "ChannelUpdate", state |-> state.v, actor_idx |-> update.actor_idx, sig |-> sig.v]
  <2>1. MessageTry(kind, w) = ChannelUpdateTry(w)
    BY <1>1, <1>6 DEF ParticipantTry
  <2>2. ChannelUpdateTry(w) = IF w.channel_update = None THEN Err ELSE All(<<state, sig>>, v)
    BY Zenon DEF ChannelUpdateTry
  <2>3. sig.res = "ok" <=> Len(w.sig) = SignatureLen
    BY ExactlyExact, Zenon
  <2>4. state.res = "ok" <=> ReadableUpdate(update)
    BY NotOk, StateExact, Zenon DEF Required, Whole, ReadableUpdate
  <2>5. Readable(kind, w) <=> Whole(w.channel_update, ReadableUpdate) /\ Len(w.sig) = SignatureLen
    BY <1>6 DEF Readable
  <2>. HIDE DEF state, sig, v
  <2>6. All(<<state, sig>>, v).res = "ok" <=> state.res = "ok" /\ sig.res = "ok"
    BY FieldsExact2
  <2>. QED
    BY <2>1, <2>2, <2>3, <2>4, <2>5, <2>6, NotOk, Zenon DEF Whole
<1>7. CASE kind = "ChannelUpdateAccepted"
  <2>. DEFINE channel == Exactly(w.channel_id, HashLen)
              sig == Exactly(w.sig, SignatureLen)
              v == [kind |-> "ChannelUpdateAccepted", channel |-> channel.v, version |-> w.version, sig |-> sig.v]
  <2>1. MessageTry(kind, w) = ChannelUpdateAcceptedTry(w)
    BY <1>1, <1>7 DEF ParticipantTry
  <2>2. ChannelUpdateAcceptedTry(w) = All(<<channel, sig>>, v)
    BY Zenon DEF ChannelUpdateAcceptedTry
  <2>3. (channel.res = "ok" <=> Len(w.channel_id) = HashLen) /\ (sig.res = "ok" <=> Len(w.sig) = SignatureLen)
    BY ExactlyExact, Zenon
  <2>4. Readable(kind, w) <=> Len(w.channel_id) = HashLen /\ Len(w.sig) = SignatureLen
    BY <1>7 DEF Readable
  <2>. HIDE DEF channel, sig, v
  <2>5. All(<<channel, sig>>, v).res = "ok" <=> channel.res = "ok" /\ sig.res = "ok"
    BY FieldsExact2
  <2>. QED
    BY <2>1, <2>2, <2>3, <2>4, <2>5, Zenon
<1>8. CASE kind = "ChannelUpdateRejected"
  <2>1. MessageTry(kind, w) =
          IF Len(w.channel_id) # HashLen THEN Panic
          ELSE Ok([kind |-> kind, id |-> w.channel_id, version |-> w.version, reason |-> w.reason])
    BY <1>1, <1>8 DEF ParticipantTry
  <2>2. Readable(kind, w) <=> Len(w.channel_id) = HashLen
    BY <1>8 DEF Readable
  <2>. QED
    BY <2>1, <2>2, NotOk, OkFields, Zenon
<1>. QED
  BY <1>2, <1>3, <1>4, <1>5, <1>6, <1>7, <1>8

\* WatchInfo::try_from, inside the request for a dispute.
LEMMA WatchInfoExact ==
  ASSUME NEW w
  PROVE  WatchInfoTry(w).res = "ok" <=> ReadableWatch(w)
<1>. DEFINE signed == w.state[1]
            signatures == SignaturesTry(signed.sigs)
            auths == Each(w.withdrawal_auths, SignedWithdrawalAuthTry)
            params == Required(signed.params, ParamsTry)
            state == Required(signed.state, StateTry)
            v == [kind |-> "StartDispute", part_idx |-> w.participant, params |-> params.v, state |-> state.v,
                  signatures |-> signatures.v, withdrawal_auths |-> auths.v]
            some == w.state # None /\ Len(w.withdrawal_auths) = ASSETS
<1>1. /\ some => WatchInfoTry(w) = All(<<signatures, auths, params, state>>, v)
      /\ ~ some => WatchInfoTry(w) = Err
  BY Zenon DEF WatchInfoTry
<1>2. signatures.res = "ok" <=> ReadableSigs(signed.sigs)
  BY SignaturesExact, Zenon
<1>3. some => (auths.res = "ok" <=>
        \A a \in 1 .. ASSETS : Len(w.withdrawal_auths[a].sig) = SignatureLen
                               /\ Len(w.withdrawal_auths[a].receiver) = AddressLen)
  BY AuthsExact, Zenon
<1>4. params.res = "ok" <=> Whole(signed.params, ReadableParams)
  BY NotOk, ParamsExact, Zenon DEF Required, Whole
<1>5. state.res = "ok" <=> Whole(signed.state, ReadableState)
  BY NotOk, StateExact, Zenon DEF Required, Whole
<1>6. ReadableWatch(w) <=>
        /\ some /\ ReadableSigs(signed.sigs) /\ Whole(signed.params, ReadableParams) /\ Whole(signed.state, ReadableState)
        /\ \A a \in 1 .. ASSETS : Len(w.withdrawal_auths[a].sig) = SignatureLen
                                  /\ Len(w.withdrawal_auths[a].receiver) = AddressLen
  <2>1. Whole(w.state, ReadableSigned) <=> w.state # None /\ ReadableSigned(signed)
    BY Zenon DEF Whole
  <2>2. ReadableSigned(signed) <=>
          ReadableSigs(signed.sigs) /\ Whole(signed.params, ReadableParams) /\ Whole(signed.state, ReadableState)
    BY Zenon DEF ReadableSigned, ReadableTransaction
  <2>. HIDE DEF signed
  <2>. QED
    BY <2>1, <2>2, Zenon DEF ReadableWatch
<1>. HIDE DEF signatures, auths, params, state, v
<1>7. All(<<signatures, auths, params, state>>, v).res = "ok" <=>
        signatures.res = "ok" /\ auths.res = "ok" /\ params.res = "ok" /\ state.res = "ok"
  BY FieldsExact4
<1>. HIDE DEF some
<1>. QED
  BY <1>1, <1>2, <1>3, <1>4, <1>5, <1>6, <1>7, NotOk, Zenon

\* The requests to the services.
LEMMA ServiceExact ==
  ASSUME NEW w, NEW kind \in WatcherKinds \cup FunderKinds
  PROVE  MessageTry(kind, w).res = "ok" <=> Readable(kind, w)
<1>1. MessageTry(kind, w) = ServiceTry(kind, w)
  BY Zenon DEF MessageTry
<1>2. CASE kind = "FundReq"
  <2>. DEFINE agreement == Required(w.agreement, BalancesTry)
              params == Required(w.params, ParamsTry)
              state == Required(w.state, StateTry)
              v == [kind |-> "FundReq", part_idx |-> w.idx, funding_agreement |-> agreement.v,
                    params |-> params.v, state |-> state.v]
  <2>1. MessageTry(kind, w) = FundReqTry(w)
    BY <1>1, <1>2 DEF ServiceTry
  <2>2. FundReqTry(w) = All(<<agreement, params, state>>, v)
    BY Zenon DEF FundReqTry
  <2>3. agreement.res = "ok" <=> Whole(w.agreement, ReadableBalances)
    BY NotOk, BalancesExact, Zenon DEF Required, Whole
  <2>4. params.res = "ok" <=> Whole(w.params, ReadableParams)
    BY NotOk, ParamsExact, Zenon DEF Required, Whole
  <2>5. state.res = "ok" <=> Whole(w.state, ReadableState)
    BY NotOk, StateExact, Zenon DEF Required, Whole
  <2>6. Readable(kind, w) <=>
          Whole(w.agreement, ReadableBalances) /\ Whole(w.params, ReadableParams) /\ Whole(w.state, ReadableState)
    BY <1>2 DEF Readable
  <2>. HIDE DEF agreement, params, state, v
  <2>7. All(<<agreement, params, state>>, v).res = "ok" <=>
          agreement.res = "ok" /\ params.res = "ok" /\ state.res = "ok"
    BY FieldsExact3
  <2>. QED
    BY <2>1, <2>2, <2>3, <2>4, <2>5, <2>6, <2>7, Zenon
<1>3. CASE kind \in {"RegisterReq", "WithdrawReq"}
  <2>. DEFINE adj_req == Required(w.adj_req, AdjudicatorReqTry)
              v == [kind |-> kind, adj_req |-> adj_req.v]
  <2>1. MessageTry(kind, w) = All(<<adj_req>>, v)
    <3>1. CASE kind = "RegisterReq"
      <4>1. MessageTry(kind, w) = RegisterReqTry(w)
        BY <1>1, <3>1 DEF ServiceTry
      <4>. QED
        BY <3>1, <4>1, Zenon DEF RegisterReqTry
    <3>2. CASE kind = "WithdrawReq"
      <4>1. MessageTry(kind, w) = WithdrawReqTry(w)
        BY <1>1, <3>2 DEF ServiceTry
      <4>. QED
        BY <3>2, <4>1, Zenon DEF WithdrawReqTry
    <3>. QED
      BY <1>3, <3>1, <3>2, Zenon
  <2>2. adj_req.res = "ok" <=> Whole(w.adj_req, ReadableRequest)
    BY NotOk, AdjudicatorReqExact, Zenon DEF Required, Whole
  <2>3. Readable(kind, w) <=> Whole(w.adj_req, ReadableRequest)
    BY <1>3 DEF Readable
  <2>. HIDE DEF adj_req, v
  <2>4. All(<<adj_req>>, v).res = "ok" <=> adj_req.res = "ok"
    BY FieldsExact1
  <2>. QED
    BY <2>1, <2>2, <2>3, <2>4, Zenon
<1>4. CASE kind = "WatchRequest"
  <2>. DEFINE sigs == SignaturesTry(w.sigs)
              params == Required(w.params, ParamsTry)
              state == Required(w.state, StateTry)
              v == [kind |-> "WatchRequest", params |-> params.v, state |-> state.v, sigs |-> sigs.v]
  <2>1. MessageTry(kind, w) = WatchRequestTry(w)
    BY <1>1, <1>4 DEF ServiceTry
  <2>2. WatchRequestTry(w) = All(<<sigs, params, state>>, v)
    BY Zenon DEF WatchRequestTry
  <2>3. sigs.res = "ok" <=> ReadableSigs(w.sigs)
    BY SignaturesExact, Zenon
  <2>4. params.res = "ok" <=> Whole(w.params, ReadableParams)
    BY NotOk, ParamsExact, Zenon DEF Required, Whole
  <2>5. state.res = "ok" <=> Whole(w.state, ReadableState)
    BY NotOk, StateExact, Zenon DEF Required, Whole
  <2>6. Readable(kind, w) <=> ReadableSigned(w)
    BY <1>4 DEF Readable
  <2>. HIDE DEF sigs, params, state, v
  <2>7. All(<<sigs, params, state>>, v).res = "ok" <=> sigs.res = "ok" /\ params.res = "ok" /\ state.res = "ok"
    BY FieldsExact3
  <2>. QED
    BY <2>1, <2>2, <2>3, <2>4, <2>5, <2>6, <2>7, Zenon DEF ReadableSigned, ReadableTransaction
<1>5. CASE kind = "StartDispute"
  <2>1. MessageTry(kind, w) = StartDisputeTry(w)
    BY <1>1, <1>5 DEF ServiceTry
  <2>2. Readable(kind, w) <=> Whole(w.latest, ReadableWatch)
    BY <1>5 DEF Readable
  <2>. QED
    BY <2>1, <2>2, NotOk, WatchInfoExact, Zenon DEF StartDisputeTry, Required, Whole
<1>. QED
  BY <1>2, <1>3, <1>4, <1>5 DEF WatcherKinds, FunderKinds

\* Every message is of one of these kinds.
LEMMA MessageExact ==
  ASSUME NEW m \in Messages, NEW w
  PROVE  MessageTry(m.kind, w).res = "ok" <=> Readable(m.kind, w)
<1>1. CASE m \in ParticipantMessage
  <2>1. m.kind \in {"Auth", "ChannelProposal", "ProposalAccepted", "ProposalRejected",
                    "ChannelUpdate", "ChannelUpdateAccepted", "ChannelUpdateRejected"}
    BY <1>1 DEF ParticipantMessage, LedgerChannelProposal, LedgerChannelProposalAcc, LedgerChannelUpdate,
                LedgerChannelUpdateAccepted
  <2>. QED
    BY <2>1, ParticipantExact, Zenon
<1>2. CASE m \in FunderRequestMessage \cup WatcherRequestMessage
  <2>1. m.kind \in WatcherKinds \cup FunderKinds
    BY <1>2 DEF FunderRequestMessage, WatcherRequestMessage, LedgerChannelFundingRequest,
                StartWatchingLedgerChannelReq, WatchInfo, WatcherKinds, FunderKinds
  <2>. QED
    BY <2>1, ServiceExact, Zenon
<1>. QED
  BY <1>1, <1>2, WireAssumption, Zenon

-----------------------------------------------------------------------------
(* The parts of messages, there and back *)

\* ParticipantBalances::try_from undoes from: each amount through its bytes.
LEMMA ParticipantBalancesKept ==
  ASSUME NEW x \in Array(PARTICIPANTS, U256)
  PROVE  ParticipantBalancesTry([balance |-> [p \in DOMAIN x |-> to_big_endian(x[p])]]) = Ok(x)
<1>. DEFINE s == [p \in DOMAIN x |-> to_big_endian(x[p])]
            rs == [i \in 1 .. Len(s) |-> from_big_endian(s[i])]
<1>1. DOMAIN x = 1 .. PARTICIPANTS /\ \A i \in 1 .. PARTICIPANTS : x[i] \in U256
  BY ArrayLen, Sizes, Zenon
<1>2. DOMAIN s = 1 .. PARTICIPANTS /\ Len(s) = PARTICIPANTS
  BY <1>1, Sizes
<1>3. DOMAIN rs = 1 .. PARTICIPANTS /\ \A i \in 1 .. PARTICIPANTS : rs[i] = Ok(x[i])
  <2>1. \A i \in 1 .. PARTICIPANTS : s[i] = to_big_endian(x[i])
    BY <1>1
  <2>2. DOMAIN rs = 1 .. PARTICIPANTS /\ \A i \in 1 .. PARTICIPANTS : rs[i] = from_big_endian(s[i])
    BY <1>2
  <2>. QED
    BY <1>1, <2>1, <2>2, BigEndian, Zenon
<1>4. Each(s, from_big_endian) = All(rs, [i \in 1 .. Len(s) |-> rs[i].v])
  BY Zenon DEF Each
<1>. HIDE DEF s, rs
<1>5. Each(s, from_big_endian) = Ok(x)
  <2>1. All(rs, [i \in 1 .. Len(s) |-> rs[i].v]) = Ok(x)
    BY <1>2, <1>3, Elements, Sizes
  <2>. QED
    BY <1>4, <2>1, Zenon
<1>6. [balance |-> s].balance = s
  OBVIOUS
<1>7. ParticipantBalancesTry([balance |-> s]) = Ok(x)
  BY <1>2, <1>5, <1>6, Zenon DEF ParticipantBalancesTry
<1>. QED
  BY <1>7, Zenon DEF s

\* Balances::try_from undoes from.
LEMMA BalancesKept ==
  ASSUME NEW x \in Balances
  PROVE  BalancesTry(BalancesInto(x)) = Ok(x)
<1>. DEFINE s == [a \in DOMAIN x |-> [balance |-> [p \in DOMAIN x[a] |-> to_big_endian(x[a][p])]]]
            rs == [i \in 1 .. Len(s) |-> ParticipantBalancesTry(s[i])]
<1>0. x \in Array(ASSETS, Array(PARTICIPANTS, U256))
  BY DEF Balances
<1>1. DOMAIN x = 1 .. ASSETS /\ \A i \in 1 .. ASSETS : x[i] \in Array(PARTICIPANTS, U256)
  BY <1>0, ArrayLen, Sizes, Zenon
<1>2. DOMAIN s = 1 .. ASSETS /\ Len(s) = ASSETS
  BY <1>1, Sizes
<1>3. DOMAIN rs = 1 .. ASSETS /\ \A i \in 1 .. ASSETS : rs[i] = Ok(x[i])
  <2>1. \A i \in 1 .. ASSETS : s[i] = [balance |-> [p \in DOMAIN x[i] |-> to_big_endian(x[i][p])]]
    BY <1>1
  <2>2. DOMAIN rs = 1 .. ASSETS /\ \A i \in 1 .. ASSETS : rs[i] = ParticipantBalancesTry(s[i])
    BY <1>2
  <2>. QED
    BY <1>1, <2>1, <2>2, ParticipantBalancesKept, Zenon
<1>4. Each(s, ParticipantBalancesTry) = All(rs, [i \in 1 .. Len(s) |-> rs[i].v])
  BY Zenon DEF Each
<1>5. BalancesInto(x) = [balances |-> s]
  BY Zenon DEF BalancesInto
<1>. HIDE DEF s, rs
<1>6. Each(s, ParticipantBalancesTry) = Ok(x)
  <2>1. All(rs, [i \in 1 .. Len(s) |-> rs[i].v]) = Ok(x)
    BY <1>0, <1>2, <1>3, Elements, Sizes
  <2>. QED
    BY <1>4, <2>1, Zenon
<1>7. [balances |-> s].balances = s
  OBVIOUS
<1>. QED
  BY <1>2, <1>5, <1>6, <1>7, Zenon DEF BalancesTry

\* An asset with its length in front.
LEMMA AssetKept ==
  ASSUME NEW x \in Address, format # "bare"
  PROVE  AssetTry(WrittenAsset(x)) = Ok(x)
<1>. DEFINE pre == <<AddressLen % Base, AddressLen \div Base>>
            b == pre \o x
<1>1. x \in Seq(Byte) /\ Len(x) = AddressLen
  BY ArrayLen, Sizes, Zenon DEF Address
<1>2. AddressLen % Base \in Nat /\ AddressLen \div Base \in Nat
      /\ (AddressLen \div Base) * Base + (AddressLen % Base) = AddressLen
  BY Sizes, Division
<1>3. pre \in Seq(Nat) /\ Len(pre) = 2 /\ pre[1] = AddressLen % Base /\ pre[2] = AddressLen \div Base
  BY <1>2
<1>4. x \in Seq(Nat)
  BY <1>1, Sizes DEF Byte
<1>. HIDE DEF pre
<1>5. /\ b \in Seq(Nat) /\ Len(b) = 2 + AddressLen
      /\ b[1] = AddressLen % Base /\ b[2] = AddressLen \div Base
      /\ \A k \in 1 .. AddressLen : b[k + 2] = x[k]
  <2>1. /\ b \in Seq(Nat) /\ Len(b) = Len(pre) + Len(x)
        /\ \A i \in 1 .. Len(pre) + Len(x) : b[i] = IF i <= Len(pre) THEN pre[i] ELSE x[i - Len(pre)]
    BY <1>3, <1>4, ConcatProperties
  <2>. HIDE DEF b
  <2>2. \A k \in 1 .. AddressLen : k + 2 \in 1 .. 2 + AddressLen /\ ~ (k + 2 <= 2) /\ (k + 2) - 2 = k
    BY Sizes
  <2>3. \A k \in 1 .. AddressLen : b[k + 2] = x[k]
    BY <1>1, <1>3, <2>1, <2>2
  <2>. QED
    BY <1>1, <1>3, <2>1, <2>3, Sizes
<1>6. WrittenAsset(x) = b
  BY DEF WrittenAsset, GoPerunAsset, pre
<1>. HIDE DEF b
<1>7. SubSeq(b, 3, Len(b)) = x
  <2>. DEFINE t == SubSeq(b, 3, Len(b))
  <2>1. t \in Seq(Nat) /\ Len(t) = AddressLen /\ \A k \in 1 .. AddressLen : t[k] = b[k + 2]
    BY <1>5, Sizes
  <2>. HIDE DEF t
  <2>2. t = x
    BY <1>1, <1>4, <1>5, <2>1, SeqEqual
  <2>. QED
    BY <2>2 DEF t
<1>8. b[1] + b[2] * Base = AddressLen
  BY <1>2, <1>5, Sizes
<1>9. ~ (Len(b) < 2) /\ ~ (AddressLen > AddressLen) /\ Len(b) - 2 = AddressLen
  BY <1>5, Sizes
<1>. QED
  BY <1>6, <1>7, <1>8, <1>9, Sizes, Zenon DEF AssetTry

\* A bare asset that is read at all is read as the zero address: it has no bytes
\* for an address after its first two.
LEMMA AssetLost ==
  ASSUME NEW x \in Address, format = "bare", AssetTry(WrittenAsset(x)).res = "ok"
  PROVE  AssetTry(WrittenAsset(x)) = Ok(Zeros(AddressLen))
<1>1. WrittenAsset(x) = x
  BY DEF WrittenAsset, AssetInto
<1>2. Len(x) = AddressLen
  BY ArrayLen, Sizes, Zenon DEF Address
<1>3. Len(x) - 2 # AddressLen
  BY <1>2, Sizes
<1>. QED
  BY <1>1, <1>3, NotOk, Zenon DEF AssetTry

\* Allocation::try_from undoes from, if the assets have their lengths.
LEMMA AllocationKept ==
  ASSUME NEW o \in Allocation, format # "bare"
  PROVE  AllocationTry(AllocationInto(o)) = Ok(o)
<1>. DEFINE x == o.assets
            wa == [a \in DOMAIN x |-> WrittenAsset(x[a])]
            wb == BalancesInto(o.balances)
            w == [assets |-> wa, balances |-> Some(wb), locked |-> <<>>]
            s == [k \in 1 .. ASSETS |-> IF k <= Len(w.assets) THEN w.assets[k] ELSE Zeros(AddressLen + 2)]
            rs == [i \in 1 .. Len(s) |-> AssetTry(s[i])]
<1>0. x \in Array(ASSETS, Address) /\ o.balances \in Balances
      /\ o = [assets |-> x, balances |-> o.balances]
  BY DEF Allocation
<1>1. AllocationInto(o) = w
  BY Zenon DEF AllocationInto
<1>. HIDE DEF x, wb
<1>2. DOMAIN x = 1 .. ASSETS /\ \A i \in 1 .. ASSETS : x[i] \in Address
  BY <1>0, ArrayLen, Sizes, Zenon
<1>3. DOMAIN wa = 1 .. ASSETS /\ Len(wa) = ASSETS /\ \A i \in 1 .. ASSETS : wa[i] = WrittenAsset(x[i])
  BY <1>2, Sizes
<1>4. w.assets = wa /\ w.balances = Some(wb)
  OBVIOUS
<1>. HIDE DEF wa, w
<1>5. Len(s) = ASSETS /\ \A i \in 1 .. ASSETS : s[i] = WrittenAsset(x[i])
  BY <1>3, <1>4, Sizes
<1>6. Each(s, AssetTry) = All(rs, [i \in 1 .. Len(s) |-> rs[i].v])
  BY Zenon DEF Each
<1>7. AllocationTry(w) = All(<<Each(s, AssetTry), Required(w.balances, BalancesTry)>>,
                             [assets |-> Each(s, AssetTry).v, balances |-> Required(w.balances, BalancesTry).v])
  BY Zenon DEF AllocationTry
<1>. HIDE DEF s
<1>8. DOMAIN rs = 1 .. ASSETS /\ \A i \in 1 .. ASSETS : rs[i] = Ok(x[i])
  BY <1>2, <1>5, AssetKept, Zenon
<1>. HIDE DEF rs
<1>9. All(rs, [i \in 1 .. Len(s) |-> rs[i].v]) = Ok(x)
  <2>1. x \in Array(ASSETS, Address) /\ Len(s) = ASSETS
    BY <1>0, <1>5, Zenon
  <2>. QED
    BY <1>8, <2>1, Elements, Sizes
<1>10. Required(w.balances, BalancesTry) = Ok(o.balances)
  BY <1>0, <1>4, SomeField, BalancesKept, Zenon DEF Required, wb
<1>11. AllocationTry(w) = All(<<Ok(x), Ok(o.balances)>>, [assets |-> x, balances |-> o.balances])
  BY <1>6, <1>7, <1>9, <1>10, OkFields, Zenon
<1>12. AllocationTry(w) = Ok([assets |-> x, balances |-> o.balances])
  BY <1>11, Fields2
<1>. QED
  BY <1>0, <1>1, <1>12, Zenon

\* An allocation with bare assets that is read at all is read without its assets.
LEMMA AllocationLost ==
  ASSUME NEW o \in Allocation, format = "bare", AllocationTry(AllocationInto(o)).res = "ok"
  PROVE  AllocationTry(AllocationInto(o)) = Ok(WithoutAssets(o))
<1>. DEFINE x == o.assets
            z == [a \in 1 .. ASSETS |-> Zeros(AddressLen)]
            wa == [a \in DOMAIN x |-> WrittenAsset(x[a])]
            wb == BalancesInto(o.balances)
            w == [assets |-> wa, balances |-> Some(wb), locked |-> <<>>]
            s == [k \in 1 .. ASSETS |-> IF k <= Len(w.assets) THEN w.assets[k] ELSE Zeros(AddressLen + 2)]
            rs == [i \in 1 .. Len(s) |-> AssetTry(s[i])]
            assets == All(rs, [i \in 1 .. Len(s) |-> rs[i].v])
            balances == Required(w.balances, BalancesTry)
<1>0. x \in Array(ASSETS, Address) /\ o.balances \in Balances
  BY DEF Allocation
<1>1. AllocationInto(o) = w
  BY Zenon DEF AllocationInto
<1>2. DOMAIN x = 1 .. ASSETS /\ \A i \in 1 .. ASSETS : x[i] \in Address
  BY <1>0, ArrayLen, Sizes, Zenon
<1>3. WithoutAssets(o) = [assets |-> z, balances |-> o.balances]
  <2>. DEFINE y == [a \in DOMAIN o.assets |-> Zeros(AddressLen)]
  <2>1. WithoutAssets(o) = [o EXCEPT !.assets = y]
    BY DEF WithoutAssets
  <2>2. y = z
    BY <1>2, Zenon
  <2>. HIDE DEF y, z
  <2>3. [o EXCEPT !.assets = z] = [assets |-> z, balances |-> o.balances]
    BY DEF Allocation
  <2>. QED
    BY <2>1, <2>2, <2>3, Zenon
<1>. HIDE DEF x, wb
<1>4. DOMAIN wa = 1 .. ASSETS /\ Len(wa) = ASSETS /\ \A i \in 1 .. ASSETS : wa[i] = WrittenAsset(x[i])
  BY <1>2, Sizes
<1>5. w.assets = wa /\ w.balances = Some(wb)
  OBVIOUS
<1>. HIDE DEF wa, w
<1>6. Len(s) = ASSETS /\ \A i \in 1 .. ASSETS : s[i] = WrittenAsset(x[i])
  BY <1>4, <1>5, Sizes
<1>7. AllocationTry(w) = All(<<assets, balances>>, [assets |-> assets.v, balances |-> balances.v])
  BY Zenon DEF AllocationTry, Each
<1>. HIDE DEF s
<1>8. DOMAIN rs = 1 .. ASSETS /\ \A i \in 1 .. ASSETS : rs[i] = AssetTry(WrittenAsset(x[i]))
  BY <1>6
<1>. HIDE DEF rs
<1>9. assets.res = "ok"
  <2>. DEFINE v == [assets |-> assets.v, balances |-> balances.v]
  <2>1. All(<<assets, balances>>, v).res = "ok"
    BY <1>1, <1>7, Zenon
  <2>. HIDE DEF assets, balances, v
  <2>. QED
    BY <2>1, FieldsExact2
<1>10. \A i \in 1 .. ASSETS : rs[i] = Ok(z[i])
  <2>1. \A i \in 1 .. ASSETS : rs[i].res = "ok"
    BY <1>8, <1>9, AllExact, Sizes
  <2>2. \A i \in 1 .. ASSETS : rs[i] = Ok(Zeros(AddressLen))
    BY <1>2, <1>8, <2>1, AssetLost, Zenon
  <2>3. \A i \in 1 .. ASSETS : z[i] = Zeros(AddressLen)
    OBVIOUS
  <2>. HIDE DEF z
  <2>. QED
    BY <2>2, <2>3, Zenon
<1>11. z \in Array(ASSETS, {Zeros(AddressLen)})
  BY DEF Array
<1>. HIDE DEF z
<1>12. assets = Ok(z)
  BY <1>6, <1>8, <1>10, <1>11, Elements, Sizes
<1>13. balances = Ok(o.balances)
  BY <1>0, <1>5, SomeField, BalancesKept, Zenon DEF Required, wb
<1>14. AllocationTry(w) = All(<<Ok(z), Ok(o.balances)>>, [assets |-> z, balances |-> o.balances])
  BY <1>7, <1>12, <1>13, OkFields, Zenon
<1>15. AllocationTry(w) = Ok([assets |-> z, balances |-> o.balances])
  BY <1>14, Fields2
<1>. QED
  BY <1>1, <1>3, <1>15, Zenon

\* The allocation that is sent can be read.
Legible(o) == AllocationTry(AllocationInto(o)).res = "ok"

\* What is read of an allocation that can be read, and of what contains it.
ReadAllocation(o) == IF format = "bare" THEN WithoutAssets(o) ELSE o
ReadState(s) == [s EXCEPT !.outcome = ReadAllocation(@)]
ReadTransaction(t) == [t EXCEPT !.state = ReadState(@)]
ReadRequest(r) == [r EXCEPT !.tx = ReadTransaction(@)]
ReadMessage(m) == IF format = "bare" THEN MessageWithoutAssets(m) ELSE m

\* With their lengths assets can always be read.
LEMMA AllocationRead ==
  ASSUME NEW o \in Allocation
  PROVE  /\ format # "bare" => Legible(o)
         /\ Legible(o) => AllocationTry(AllocationInto(o)) = Ok(ReadAllocation(o))
BY AllocationKept, AllocationLost, OkFields, Zenon DEF Legible, ReadAllocation

\* State::try_from undoes from.
LEMMA StateKept ==
  ASSUME NEW s \in State, Legible(s.outcome)
  PROVE  StateTry(StateInto(s)) = Ok(ReadState(s))
<1>. DEFINE o == ReadAllocation(s.outcome)
            a == AllocationInto(s.outcome)
            w == [id |-> s.id, version |-> s.version, allocation |-> Some(a),
                  app |-> <<>>, data |-> <<>>, is_final |-> s.is_final]
<1>0. s.id \in Hash /\ s.outcome \in Allocation
      /\ ReadState(s) = [id |-> s.id, version |-> s.version, outcome |-> o, is_final |-> s.is_final]
  BY DEF State, ReadState
<1>1. StateInto(s) = w
  BY Zenon DEF StateInto
<1>. HIDE DEF o, a
<1>2. w.id = s.id /\ w.version = s.version /\ w.allocation = Some(a) /\ w.data = <<>> /\ w.is_final = s.is_final
  OBVIOUS
<1>. HIDE DEF w
<1>3. Exactly(w.id, HashLen) = Ok(s.id)
  BY <1>0, <1>2, BytesOk, Zenon
<1>4. Required(w.allocation, AllocationTry) = Ok(o)
  BY <1>0, <1>2, SomeField, AllocationRead, Zenon DEF Required, o, a
<1>5. StateTry(w) = All(<<Exactly(w.id, HashLen), Required(w.allocation, AllocationTry)>>,
        [id |-> Exactly(w.id, HashLen).v, version |-> w.version,
         outcome |-> Required(w.allocation, AllocationTry).v, is_final |-> w.is_final])
  BY <1>2, Zenon DEF StateTry
<1>6. StateTry(w) = All(<<Ok(s.id), Ok(o)>>,
        [id |-> s.id, version |-> s.version, outcome |-> o, is_final |-> s.is_final])
  BY <1>2, <1>3, <1>4, <1>5, OkFields, Zenon
<1>7. StateTry(w) = Ok([id |-> s.id, version |-> s.version, outcome |-> o, is_final |-> s.is_final])
  BY <1>6, Fields2
<1>. QED
  BY <1>0, <1>1, <1>7, Zenon

\* Params::try_from undoes from.
LEMMA ParamsKept ==
  ASSUME NEW p \in Params
  PROVE  ParamsTry(ParamsInto(p)) = Ok(p)
<1>. DEFINE x == p.participants
            w == ParamsInto(p)
            s == [k \in 1 .. PARTICIPANTS |-> IF k <= Len(w.parts) THEN w.parts[k] ELSE Zeros(AddressLen)]
            rs == [i \in 1 .. Len(s) |-> Exactly(s[i], AddressLen)]
            parts == All(rs, [i \in 1 .. Len(s) |-> rs[i].v])
<1>0. x \in Array(PARTICIPANTS, Address) /\ p.nonce \in U256
      /\ p = [challenge_duration |-> p.challenge_duration, nonce |-> p.nonce, participants |-> x,
              ledger_channel |-> p.ledger_channel, virtual_channel |-> p.virtual_channel]
  BY DEF Params
<1>1. /\ w.challenge_duration = p.challenge_duration /\ w.nonce = to_big_endian(p.nonce) /\ w.parts = x
      /\ w.ledger_channel = p.ledger_channel /\ w.virtual_channel = p.virtual_channel
  BY DEF ParamsInto
<1>2. ParamsTry(w) = All(<<parts, from_big_endian(w.nonce)>>,
        [challenge_duration |-> w.challenge_duration, nonce |-> from_big_endian(w.nonce).v, participants |-> parts.v,
         ledger_channel |-> w.ledger_channel, virtual_channel |-> w.virtual_channel])
  BY Zenon DEF ParamsTry, Each
<1>. HIDE DEF x, w
<1>3. DOMAIN x = 1 .. PARTICIPANTS /\ Len(x) = PARTICIPANTS /\ \A i \in 1 .. PARTICIPANTS : x[i] \in Address
  BY <1>0, ArrayLen, Sizes, Zenon
<1>4. Len(s) = PARTICIPANTS /\ \A i \in 1 .. PARTICIPANTS : s[i] = x[i]
  BY <1>1, <1>3, Sizes
<1>. HIDE DEF s
<1>5. DOMAIN rs = 1 .. PARTICIPANTS /\ \A i \in 1 .. PARTICIPANTS : rs[i] = Ok(x[i])
  BY <1>3, <1>4, BytesOk, Zenon
<1>. HIDE DEF rs
<1>6. parts = Ok(x)
  <2>1. x \in Array(PARTICIPANTS, Address) /\ Len(s) = PARTICIPANTS
    BY <1>0, <1>4, Zenon
  <2>. QED
    BY <1>5, <2>1, Elements, Sizes
<1>. HIDE DEF parts
<1>7. from_big_endian(w.nonce) = Ok(p.nonce)
  BY <1>0, <1>1, BigEndian, Zenon
<1>8. ParamsTry(w) = All(<<Ok(x), Ok(p.nonce)>>,
        [challenge_duration |-> p.challenge_duration, nonce |-> p.nonce, participants |-> x,
         ledger_channel |-> p.ledger_channel, virtual_channel |-> p.virtual_channel])
  BY <1>1, <1>2, <1>6, <1>7, OkFields, Zenon
<1>9. ParamsTry(w) = Ok([challenge_duration |-> p.challenge_duration, nonce |-> p.nonce, participants |-> x,
         ledger_channel |-> p.ledger_channel, virtual_channel |-> p.virtual_channel])
  BY <1>8, Fields2
<1>. QED
  BY <1>0, <1>9, Zenon DEF w

\* The signatures of all participants.
LEMMA SignaturesKept ==
  ASSUME NEW x \in Sigs
  PROVE  SignaturesTry(x) = Ok(x)
<1>. DEFINE rs == [i \in 1 .. Len(x) |-> Exactly(x[i], SignatureLen)]
            sigs == All(rs, [i \in 1 .. Len(x) |-> rs[i].v])
<1>0. x \in Array(PARTICIPANTS, Signature)
  BY DEF Sigs
<1>1. DOMAIN x = 1 .. PARTICIPANTS /\ Len(x) = PARTICIPANTS /\ \A i \in 1 .. PARTICIPANTS : x[i] \in Signature
  BY <1>0, ArrayLen, Sizes, Zenon
<1>2. SignaturesTry(x) = sigs
  BY <1>1, Zenon DEF SignaturesTry, Each
<1>3. DOMAIN rs = 1 .. PARTICIPANTS /\ \A i \in 1 .. PARTICIPANTS : rs[i] = Ok(x[i])
  BY <1>1, BytesOk, Zenon
<1>. HIDE DEF rs
<1>. QED
  BY <1>0, <1>1, <1>2, <1>3, Elements, Sizes

\* Transaction::try_from undoes from.
LEMMA TransactionKept ==
  ASSUME NEW t \in Transaction, Legible(t.state.outcome)
  PROVE  TransactionTry(TransactionInto(t)) = Ok(ReadTransaction(t))
<1>. DEFINE x == ReadState(t.state)
            st == StateInto(t.state)
            w == [state |-> Some(st), sigs |-> t.sigs]
<1>0. t.state \in State /\ t.sigs \in Sigs /\ ReadTransaction(t) = [state |-> x, sigs |-> t.sigs]
  BY DEF Transaction, ReadTransaction
<1>1. TransactionInto(t) = w
  BY Zenon DEF TransactionInto
<1>. HIDE DEF x, st
<1>2. w.state = Some(st) /\ w.sigs = t.sigs
  OBVIOUS
<1>. HIDE DEF w
<1>3. SignaturesTry(w.sigs) = Ok(t.sigs)
  BY <1>0, <1>2, SignaturesKept, Zenon
<1>4. w.state # None /\ StateTry(w.state[1]) = Ok(x)
  BY <1>0, <1>2, SomeField, StateKept, Zenon DEF x, st
<1>5. TransactionTry(w) = All(<<Ok(t.sigs), Ok(x)>>, [state |-> x, sigs |-> t.sigs])
  BY <1>3, <1>4, OkFields, Zenon DEF TransactionTry
<1>6. TransactionTry(w) = Ok([state |-> x, sigs |-> t.sigs])
  BY <1>5, Fields2
<1>. QED
  BY <1>0, <1>1, <1>6, Zenon

\* AdjudicatorReq::try_from undoes from.
LEMMA AdjudicatorReqKept ==
  ASSUME NEW r \in AdjudicatorReq, Legible(r.tx.state.outcome)
  PROVE  AdjudicatorReqTry(AdjudicatorReqInto(r)) = Ok(ReadRequest(r))
<1>. DEFINE x == ReadTransaction(r.tx)
            p == ParamsInto(r.params)
            t == TransactionInto(r.tx)
            w == [params |-> Some(p), acc |-> r.acc, tx |-> Some(t), idx |-> r.idx, secondary |-> r.secondary]
<1>0. r.params \in Params /\ r.acc \in Address /\ r.tx \in Transaction
      /\ ReadRequest(r) = [params |-> r.params, acc |-> r.acc, tx |-> x, idx |-> r.idx, secondary |-> r.secondary]
  BY DEF AdjudicatorReq, ReadRequest
<1>1. AdjudicatorReqInto(r) = w
  BY Zenon DEF AdjudicatorReqInto
<1>. HIDE DEF x, p, t
<1>2. w.params = Some(p) /\ w.acc = r.acc /\ w.tx = Some(t) /\ w.idx = r.idx /\ w.secondary = r.secondary
  OBVIOUS
<1>. HIDE DEF w
<1>3. Required(w.params, ParamsTry) = Ok(r.params)
  BY <1>0, <1>2, SomeField, ParamsKept, Zenon DEF Required, p
<1>4. Exactly(w.acc, AddressLen) = Ok(r.acc)
  BY <1>0, <1>2, BytesOk, Zenon
<1>5. Required(w.tx, TransactionTry) = Ok(x)
  BY <1>0, <1>2, SomeField, TransactionKept, Zenon DEF Required, x, t
<1>6. AdjudicatorReqTry(w) = All(<<Ok(r.params), Ok(r.acc), Ok(x)>>,
        [params |-> r.params, acc |-> r.acc, tx |-> x, idx |-> r.idx, secondary |-> r.secondary])
  BY <1>2, <1>3, <1>4, <1>5, OkFields, Zenon DEF AdjudicatorReqTry
<1>7. AdjudicatorReqTry(w) =
        Ok([params |-> r.params, acc |-> r.acc, tx |-> x, idx |-> r.idx, secondary |-> r.secondary])
  BY <1>6, Fields3
<1>. QED
  BY <1>0, <1>1, <1>7, Zenon

-----------------------------------------------------------------------------
(* The messages, there and back *)

\* LedgerChannelProposal::try_from undoes from.
LEMMA ChannelProposalKept ==
  ASSUME NEW m \in LedgerChannelProposal, Legible(m.init_bals)
  PROVE  ChannelProposalTry(ChannelProposalInto(m)) = Ok(ReadMessage(m))
<1>. DEFINE x == ReadAllocation(m.init_bals)
            a == AllocationInto(m.init_bals)
            f == BalancesInto(m.funding_agreement)
            base == [proposal_id |-> m.proposal_id, challenge_duration |-> m.challenge_duration,
                     nonce_share |-> m.nonce_share, app |-> <<>>, init_data |-> <<>>,
                     init_bals |-> Some(a), funding_agreement |-> Some(f)]
            w == [base_channel_proposal |-> Some(base), participant |-> m.participant, peers |-> m.peers]
            n == [kind |-> "ChannelProposal", proposal_id |-> m.proposal_id,
                  challenge_duration |-> m.challenge_duration, nonce_share |-> m.nonce_share,
                  init_bals |-> x, funding_agreement |-> m.funding_agreement,
                  participant |-> m.participant, peers |-> m.peers]
<1>0. /\ m.proposal_id \in Hash /\ m.nonce_share \in Hash /\ m.participant \in Address
      /\ m.init_bals \in Allocation /\ m.funding_agreement \in Balances
  BY DEF LedgerChannelProposal
<1>1. ReadMessage(m) = n
  BY DEF LedgerChannelProposal, ReadMessage, MessageWithoutAssets, ReadAllocation
<1>2. ChannelProposalInto(m) = w
  BY Zenon DEF ChannelProposalInto
<1>. HIDE DEF x, a, f
<1>3. /\ base.proposal_id = m.proposal_id /\ base.challenge_duration = m.challenge_duration
      /\ base.nonce_share = m.nonce_share /\ base.init_bals = Some(a) /\ base.funding_agreement = Some(f)
  OBVIOUS
<1>. HIDE DEF base
<1>4. w.base_channel_proposal = Some(base) /\ w.participant = m.participant /\ w.peers = m.peers
  OBVIOUS
<1>. HIDE DEF w
<1>5. w.base_channel_proposal # None /\ w.base_channel_proposal[1] = base
  BY <1>4, SomeField, Zenon
<1>6. base.init_bals # None /\ base.funding_agreement # None
  BY <1>3, SomeField, Zenon
<1>7. Exactly(base.proposal_id, HashLen) = Ok(m.proposal_id) /\ Exactly(base.nonce_share, HashLen) = Ok(m.nonce_share)
  BY <1>0, <1>3, BytesOk, Zenon
<1>8. AllocationTry(base.init_bals[1]) = Ok(x)
  BY <1>0, <1>3, SomeField, AllocationRead, Zenon DEF x, a
<1>9. BalancesTry(base.funding_agreement[1]) = Ok(m.funding_agreement)
  BY <1>0, <1>3, SomeField, BalancesKept, Zenon DEF f
<1>10. Exactly(w.participant, AddressLen) = Ok(m.participant)
  BY <1>0, <1>4, BytesOk, Zenon
<1>11. ChannelProposalTry(w) =
         All(<<Ok(m.proposal_id), Ok(m.nonce_share), Ok(x), Ok(m.funding_agreement), Ok(m.participant)>>, n)
  BY <1>3, <1>4, <1>5, <1>6, <1>7, <1>8, <1>9, <1>10, OkFields, Zenon DEF ChannelProposalTry
<1>. HIDE DEF n
<1>12. ChannelProposalTry(w) = Ok(n)
  BY <1>11, Fields5
<1>. QED
  BY <1>1, <1>2, <1>12, Zenon

\* LedgerChannelProposalAcc::try_from undoes from; it has no assets.
LEMMA ProposalAcceptedKept ==
  ASSUME NEW m \in LedgerChannelProposalAcc
  PROVE  ProposalAcceptedTry(ProposalAcceptedInto(m)) = Ok(m)
<1>. DEFINE base == [proposal_id |-> m.proposal_id, nonce_share |-> m.nonce_share]
            w == [base_channel_proposal_acc |-> Some(base), participant |-> m.participant]
            n == [kind |-> "ProposalAccepted", proposal_id |-> m.proposal_id, nonce_share |-> m.nonce_share,
                  participant |-> m.participant]
<1>0. m.proposal_id \in Hash /\ m.nonce_share \in Hash /\ m.participant \in Address
  BY DEF LedgerChannelProposalAcc
<1>1. m = n
  BY DEF LedgerChannelProposalAcc
<1>2. ProposalAcceptedInto(m) = w
  BY Zenon DEF ProposalAcceptedInto
<1>3. base.proposal_id = m.proposal_id /\ base.nonce_share = m.nonce_share
  OBVIOUS
<1>. HIDE DEF base
<1>4. w.base_channel_proposal_acc = Some(base) /\ w.participant = m.participant
  OBVIOUS
<1>. HIDE DEF w
<1>5. w.base_channel_proposal_acc # None /\ w.base_channel_proposal_acc[1] = base
  BY <1>4, SomeField, Zenon
<1>6. /\ Exactly(base.proposal_id, HashLen) = Ok(m.proposal_id) /\ Exactly(base.nonce_share, HashLen) = Ok(m.nonce_share)
      /\ Exactly(w.participant, AddressLen) = Ok(m.participant)
  BY <1>0, <1>3, <1>4, BytesOk, Zenon
<1>7. ProposalAcceptedTry(w) = All(<<Ok(m.proposal_id), Ok(m.nonce_share), Ok(m.participant)>>, n)
  BY <1>5, <1>6, OkFields, Zenon DEF ProposalAcceptedTry
<1>. HIDE DEF n
<1>8. ProposalAcceptedTry(w) = Ok(n)
  BY <1>7, Fields3
<1>. QED
  BY <1>1, <1>2, <1>8, Zenon

\* LedgerChannelUpdate::try_from undoes from.
LEMMA ChannelUpdateKept ==
  ASSUME NEW m \in LedgerChannelUpdate, Legible(m.state.outcome)
  PROVE  ChannelUpdateTry(ChannelUpdateInto(m)) = Ok(ReadMessage(m))
<1>. DEFINE x == ReadState(m.state)
            st == StateInto(m.state)
            update == [state |-> Some(st), actor_idx |-> m.actor_idx]
            w == [channel_update |-> Some(update), sig |-> m.sig]
            n == [kind |-> "ChannelUpdate", state |-> x, actor_idx |-> m.actor_idx, sig |-> m.sig]
<1>0. m.state \in State /\ m.sig \in Signature
  BY DEF LedgerChannelUpdate
<1>1. ReadMessage(m) = n
  BY DEF LedgerChannelUpdate, ReadMessage, MessageWithoutAssets, ReadState, ReadAllocation, State
<1>2. ChannelUpdateInto(m) = w
  BY Zenon DEF ChannelUpdateInto
<1>. HIDE DEF x, st
<1>3. update.state = Some(st) /\ update.actor_idx = m.actor_idx
  OBVIOUS
<1>. HIDE DEF update
<1>4. w.channel_update = Some(update) /\ w.sig = m.sig
  OBVIOUS
<1>. HIDE DEF w
<1>5. w.channel_update # None /\ w.channel_update[1] = update
  BY <1>4, SomeField, Zenon
<1>6. Required(update.state, StateTry) = Ok(x)
  BY <1>0, <1>3, SomeField, StateKept, Zenon DEF Required, x, st
<1>7. Exactly(w.sig, SignatureLen) = Ok(m.sig)
  BY <1>0, <1>4, BytesOk, Zenon
<1>8. ChannelUpdateTry(w) = All(<<Ok(x), Ok(m.sig)>>, n)
  BY <1>3, <1>5, <1>6, <1>7, OkFields, Zenon DEF ChannelUpdateTry
<1>. HIDE DEF n
<1>9. ChannelUpdateTry(w) = Ok(n)
  BY <1>8, Fields2
<1>. QED
  BY <1>1, <1>2, <1>9, Zenon

\* LedgerChannelUpdateAccepted::try_from undoes from; it has no assets.
LEMMA ChannelUpdateAcceptedKept ==
  ASSUME NEW m \in LedgerChannelUpdateAccepted
  PROVE  ChannelUpdateAcceptedTry(ChannelUpdateAcceptedInto(m)) = Ok(m)
<1>. DEFINE w == ChannelUpdateAcceptedInto(m)
            n == [kind |-> "ChannelUpdateAccepted", channel |-> m.channel, version |-> m.version, sig |-> m.sig]
<1>0. m.channel \in Hash /\ m.sig \in Signature
  BY DEF LedgerChannelUpdateAccepted
<1>1. m = n
  BY DEF LedgerChannelUpdateAccepted
<1>2. w.channel_id = m.channel /\ w.version = m.version /\ w.sig = m.sig
  BY DEF ChannelUpdateAcceptedInto
<1>. HIDE DEF w
<1>3. Exactly(w.channel_id, HashLen) = Ok(m.channel) /\ Exactly(w.sig, SignatureLen) = Ok(m.sig)
  BY <1>0, <1>2, BytesOk, Zenon
<1>4. ChannelUpdateAcceptedTry(w) = All(<<Ok(m.channel), Ok(m.sig)>>, n)
  BY <1>2, <1>3, OkFields, Zenon DEF ChannelUpdateAcceptedTry
<1>. HIDE DEF n
<1>5. ChannelUpdateAcceptedTry(w) = Ok(n)
  BY <1>4, Fields2
<1>. QED
  BY <1>1, <1>5, Zenon DEF w

\* LedgerChannelFundingRequest::try_from undoes from.
LEMMA FundReqKept ==
  ASSUME NEW m \in LedgerChannelFundingRequest, Legible(m.state.outcome)
  PROVE  FundReqTry(FundReqInto(m)) = Ok(ReadMessage(m))
<1>. DEFINE x == ReadState(m.state)
            b == BalancesInto(m.funding_agreement)
            p == ParamsInto(m.params)
            st == StateInto(m.state)
            w == [agreement |-> Some(b), params |-> Some(p), state |-> Some(st), idx |-> m.part_idx]
            n == [kind |-> "FundReq", part_idx |-> m.part_idx, funding_agreement |-> m.funding_agreement,
                  params |-> m.params, state |-> x]
<1>0. m.funding_agreement \in Balances /\ m.params \in Params /\ m.state \in State
  BY DEF LedgerChannelFundingRequest
<1>1. ReadMessage(m) = n
  BY DEF LedgerChannelFundingRequest, ReadMessage, MessageWithoutAssets, ReadState, ReadAllocation, State
<1>2. FundReqInto(m) = w
  BY Zenon DEF FundReqInto
<1>. HIDE DEF x, b, p, st
<1>3. w.agreement = Some(b) /\ w.params = Some(p) /\ w.state = Some(st) /\ w.idx = m.part_idx
  OBVIOUS
<1>. HIDE DEF w
<1>4. Required(w.agreement, BalancesTry) = Ok(m.funding_agreement)
  BY <1>0, <1>3, SomeField, BalancesKept, Zenon DEF Required, b
<1>5. Required(w.params, ParamsTry) = Ok(m.params)
  BY <1>0, <1>3, SomeField, ParamsKept, Zenon DEF Required, p
<1>6. Required(w.state, StateTry) = Ok(x)
  BY <1>0, <1>3, SomeField, StateKept, Zenon DEF Required, x, st
<1>7. FundReqTry(w) = All(<<Ok(m.funding_agreement), Ok(m.params), Ok(x)>>, n)
  BY <1>3, <1>4, <1>5, <1>6, OkFields, Zenon DEF FundReqTry
<1>. HIDE DEF n
<1>8. FundReqTry(w) = Ok(n)
  BY <1>7, Fields3
<1>. QED
  BY <1>1, <1>2, <1>8, Zenon

\* The requests to register and to withdraw.
LEMMA RequestsKept ==
  ASSUME NEW m \in [kind : {"RegisterReq", "WithdrawReq"}, adj_req : AdjudicatorReq], 
         Legible(m.adj_req.tx.state.outcome)
  PROVE  /\ m.kind = "RegisterReq" => RegisterReqTry(RegisterReqInto(m)) = Ok(ReadMessage(m))
         /\ m.kind = "WithdrawReq" => WithdrawReqTry(WithdrawReqInto(m)) = Ok(ReadMessage(m))
<1>. DEFINE x == ReadRequest(m.adj_req)
            r == AdjudicatorReqInto(m.adj_req)
            w == [adj_req |-> Some(r)]
            reg == [kind |-> "RegisterReq", adj_req |-> x]
            wit == [kind |-> "WithdrawReq", adj_req |-> x]
<1>0. m.adj_req \in AdjudicatorReq
  OBVIOUS
<1>1. (m.kind = "RegisterReq" => ReadMessage(m) = reg) /\ (m.kind = "WithdrawReq" => ReadMessage(m) = wit)
  BY DEF ReadMessage, MessageWithoutAssets, ReadRequest, ReadTransaction, ReadState, ReadAllocation,
         AdjudicatorReq, Transaction, State
<1>2. RegisterReqInto(m) = w /\ WithdrawReqInto(m) = w
  BY Zenon DEF RegisterReqInto, WithdrawReqInto
<1>. HIDE DEF x, r
<1>3. w.adj_req = Some(r)
  OBVIOUS
<1>. HIDE DEF w
<1>4. Required(w.adj_req, AdjudicatorReqTry) = Ok(x)
  BY <1>0, <1>3, SomeField, AdjudicatorReqKept, Zenon DEF Required, x, r
<1>5. RegisterReqTry(w) = All(<<Ok(x)>>, reg)
  BY <1>4, OkFields, Zenon DEF RegisterReqTry
<1>6. WithdrawReqTry(w) = All(<<Ok(x)>>, wit)
  BY <1>4, OkFields, Zenon DEF WithdrawReqTry
<1>. HIDE DEF reg, wit
<1>7. RegisterReqTry(w) = Ok(reg) /\ WithdrawReqTry(w) = Ok(wit)
  BY <1>5, <1>6, Fields1
<1>. QED
  BY <1>1, <1>2, <1>7, Zenon

\* StartWatchingLedgerChannelReq::try_from undoes from.
LEMMA WatchRequestKept ==
  ASSUME NEW m \in StartWatchingLedgerChannelReq, Legible(m.state.outcome)
  PROVE  WatchRequestTry(WatchRequestInto(m)) = Ok(ReadMessage(m))
<1>. DEFINE x == ReadState(m.state)
            p == ParamsInto(m.params)
            st == StateInto(m.state)
            w == [params |-> Some(p), state |-> Some(st), sigs |-> m.sigs]
            n == [kind |-> "WatchRequest", params |-> m.params, state |-> x, sigs |-> m.sigs]
<1>0. m.params \in Params /\ m.state \in State /\ m.sigs \in Sigs
  BY DEF StartWatchingLedgerChannelReq
<1>1. ReadMessage(m) = n
  BY DEF StartWatchingLedgerChannelReq, ReadMessage, MessageWithoutAssets, ReadState, ReadAllocation, State
<1>2. WatchRequestInto(m) = w
  BY Zenon DEF WatchRequestInto
<1>. HIDE DEF x, p, st
<1>3. w.params = Some(p) /\ w.state = Some(st) /\ w.sigs = m.sigs
  OBVIOUS
<1>. HIDE DEF w
<1>4. SignaturesTry(w.sigs) = Ok(m.sigs)
  BY <1>0, <1>3, SignaturesKept, Zenon
<1>5. Required(w.params, ParamsTry) = Ok(m.params)
  BY <1>0, <1>3, SomeField, ParamsKept, Zenon DEF Required, p
<1>6. Required(w.state, StateTry) = Ok(x)
  BY <1>0, <1>3, SomeField, StateKept, Zenon DEF Required, x, st
<1>7. WatchRequestTry(w) = All(<<Ok(m.sigs), Ok(m.params), Ok(x)>>, n)
  BY <1>4, <1>5, <1>6, OkFields, Zenon DEF WatchRequestTry
<1>. HIDE DEF n
<1>8. WatchRequestTry(w) = Ok(n)
  BY <1>7, Fields3
<1>. QED
  BY <1>1, <1>2, <1>8, Zenon

\* The withdrawal authorizations: one for each asset, of a signature and a receiver.
LEMMA AuthsKept ==
  ASSUME NEW x \in Array(ASSETS, SignedWithdrawalAuth)
  PROVE  Len(x) = ASSETS /\ Each(x, SignedWithdrawalAuthTry) = Ok(x)
<1>. DEFINE rs == [i \in 1 .. Len(x) |-> SignedWithdrawalAuthTry(x[i])]
<1>1. DOMAIN x = 1 .. ASSETS /\ Len(x) = ASSETS /\ \A i \in 1 .. ASSETS : x[i] \in SignedWithdrawalAuth
  BY ArrayLen, Sizes, Zenon
<1>2. ASSUME NEW a \in SignedWithdrawalAuth
      PROVE  SignedWithdrawalAuthTry(a) = Ok(a)
  <2>. DEFINE n == [sig |-> a.sig, receiver |-> a.receiver]
  <2>1. a.sig \in Signature /\ a.receiver \in Address /\ a = n
    BY DEF SignedWithdrawalAuth
  <2>2. Exactly(a.sig, SignatureLen) = Ok(a.sig) /\ Exactly(a.receiver, AddressLen) = Ok(a.receiver)
    BY <2>1, BytesOk, Zenon
  <2>3. SignedWithdrawalAuthTry(a) = All(<<Ok(a.sig), Ok(a.receiver)>>, n)
    BY <2>2, OkFields, Zenon DEF SignedWithdrawalAuthTry
  <2>. HIDE DEF n
  <2>4. SignedWithdrawalAuthTry(a) = Ok(n)
    BY <2>3, Fields2
  <2>. QED
    BY <2>1, <2>4, Zenon
<1>3. DOMAIN rs = 1 .. ASSETS /\ \A i \in 1 .. ASSETS : rs[i] = Ok(x[i])
  BY <1>1, <1>2, Zenon
<1>4. Each(x, SignedWithdrawalAuthTry) = All(rs, [i \in 1 .. Len(x) |-> rs[i].v])
  BY Zenon DEF Each
<1>. HIDE DEF rs
<1>5. All(rs, [i \in 1 .. Len(x) |-> rs[i].v]) = Ok(x)
  BY <1>1, <1>3, Elements, Sizes
<1>. QED
  BY <1>1, <1>4, <1>5, Zenon

\* WatchInfo::try_from undoes from, inside the request for a dispute.
LEMMA StartDisputeKept ==
  ASSUME NEW m \in WatchInfo, Legible(m.state.outcome)
  PROVE  StartDisputeTry(StartDisputeInto(m)) = Ok(ReadMessage(m))
<1>. DEFINE x == ReadState(m.state)
            p == ParamsInto(m.params)
            st == StateInto(m.state)
            signed == [params |-> Some(p), state |-> Some(st), sigs |-> m.signatures]
            w == [participant |-> m.part_idx, state |-> Some(signed), withdrawal_auths |-> m.withdrawal_auths]
            n == [kind |-> "StartDispute", part_idx |-> m.part_idx, params |-> m.params, state |-> x,
                  signatures |-> m.signatures, withdrawal_auths |-> m.withdrawal_auths]
<1>0. /\ m.params \in Params /\ m.state \in State /\ m.signatures \in Sigs
      /\ m.withdrawal_auths \in Array(ASSETS, SignedWithdrawalAuth)
  BY DEF WatchInfo
<1>1. ReadMessage(m) = n
  BY DEF WatchInfo, ReadMessage, MessageWithoutAssets, ReadState, ReadAllocation, State
<1>2. WatchInfoInto(m) = w
  BY Zenon DEF WatchInfoInto
<1>. HIDE DEF x, p, st
<1>3. signed.params = Some(p) /\ signed.state = Some(st) /\ signed.sigs = m.signatures
  OBVIOUS
<1>. HIDE DEF signed
<1>4. w.participant = m.part_idx /\ w.state = Some(signed) /\ w.withdrawal_auths = m.withdrawal_auths
  OBVIOUS
<1>. HIDE DEF w
<1>5. w.state # None /\ w.state[1] = signed
  BY <1>4, SomeField, Zenon
<1>6. SignaturesTry(signed.sigs) = Ok(m.signatures)
  BY <1>0, <1>3, SignaturesKept, Zenon
<1>7. Len(w.withdrawal_auths) = ASSETS
  BY <1>0, <1>4, AuthsKept, Zenon
<1>8. Each(w.withdrawal_auths, SignedWithdrawalAuthTry) = Ok(m.withdrawal_auths)
  BY <1>0, <1>4, AuthsKept, Zenon
<1>9. Required(signed.params, ParamsTry) = Ok(m.params)
  BY <1>0, <1>3, SomeField, ParamsKept, Zenon DEF Required, p
<1>10. Required(signed.state, StateTry) = Ok(x)
  BY <1>0, <1>3, SomeField, StateKept, Zenon DEF Required, x, st
<1>11. WatchInfoTry(w) = All(<<Ok(m.signatures), Ok(m.withdrawal_auths), Ok(m.params), Ok(x)>>, n)
  BY <1>4, <1>5, <1>6, <1>7, <1>8, <1>9, <1>10, OkFields, Zenon DEF WatchInfoTry
<1>. HIDE DEF n
<1>12. WatchInfoTry(w) = Ok(n)
  BY <1>11, Fields4
<1>. DEFINE v == [channel_id |-> m.state.id, latest |-> Some(w)]
<1>13. StartDisputeInto(m) = v
  BY <1>2, Zenon DEF StartDisputeInto
<1>14. v.latest = Some(w)
  OBVIOUS
<1>. HIDE DEF v
<1>15. StartDisputeTry(v) = Ok(n)
  BY <1>12, <1>14, SomeField, Zenon DEF StartDisputeTry, Required
<1>. QED
  BY <1>1, <1>13, <1>15, Zenon

-----------------------------------------------------------------------------
(* The way of a message *)

\* A state that can be read has an allocation that can be.
LEMMA StateLegible ==
  ASSUME NEW s, ReadableState(StateInto(s))
  PROVE  Legible(s.outcome)
<1>1. StateInto(s).allocation = Some(AllocationInto(s.outcome))
  BY DEF StateInto
<1>. QED
  BY <1>1, SomeField, AllocationExact, Zenon DEF ReadableState, Whole, Legible

\* So has every message.
LEMMA ProposalLegible ==
  ASSUME NEW m, Whole(ChannelProposalInto(m).base_channel_proposal, ReadableProposal)
  PROVE  Legible(m.init_bals)
<1>. DEFINE base == [proposal_id |-> m.proposal_id, challenge_duration |-> m.challenge_duration,
                     nonce_share |-> m.nonce_share, app |-> <<>>, init_data |-> <<>>,
                     init_bals |-> Some(AllocationInto(m.init_bals)),
                     funding_agreement |-> Some(BalancesInto(m.funding_agreement))]
<1>1. ChannelProposalInto(m).base_channel_proposal = Some(base)
  BY DEF ChannelProposalInto
<1>2. base.init_bals = Some(AllocationInto(m.init_bals))
  OBVIOUS
<1>. HIDE DEF base
<1>3. ReadableProposal(base)
  BY <1>1, SomeField, Zenon DEF Whole
<1>. QED
  BY <1>2, <1>3, SomeField, AllocationExact, Zenon DEF ReadableProposal, Whole, Legible

\* An update.
LEMMA UpdateLegible ==
  ASSUME NEW m, Whole(ChannelUpdateInto(m).channel_update, ReadableUpdate)
  PROVE  Legible(m.state.outcome)
<1>. DEFINE update == [state |-> Some(StateInto(m.state)), actor_idx |-> m.actor_idx]
<1>1. ChannelUpdateInto(m).channel_update = Some(update)
  BY DEF ChannelUpdateInto
<1>2. update.state = Some(StateInto(m.state))
  OBVIOUS
<1>. HIDE DEF update
<1>3. ReadableUpdate(update)
  BY <1>1, SomeField, Zenon DEF Whole
<1>. QED
  BY <1>2, <1>3, SomeField, StateLegible, Zenon DEF ReadableUpdate, Whole

\* A request to register or to withdraw.
LEMMA RequestLegible ==
  ASSUME NEW m, Whole(RegisterReqInto(m).adj_req, ReadableRequest)
  PROVE  Legible(m.adj_req.tx.state.outcome)
<1>. DEFINE r == AdjudicatorReqInto(m.adj_req)
            t == TransactionInto(m.adj_req.tx)
<1>1. RegisterReqInto(m).adj_req = Some(r)
  BY DEF RegisterReqInto
<1>2. r.tx = Some(t)
  BY DEF AdjudicatorReqInto
<1>3. t.state = Some(StateInto(m.adj_req.tx.state))
  BY DEF TransactionInto
<1>. HIDE DEF r, t
<1>4. ReadableRequest(r)
  BY <1>1, SomeField, Zenon DEF Whole
<1>5. ReadableTransaction(t)
  BY <1>2, <1>4, SomeField, Zenon DEF ReadableRequest, Whole
<1>6. ReadableState(StateInto(m.adj_req.tx.state))
  BY <1>3, <1>5, SomeField, Zenon DEF ReadableTransaction, Whole
<1>. QED
  BY <1>6, StateLegible, Zenon

\* A request for a dispute.
LEMMA DisputeLegible ==
  ASSUME NEW m, Whole(StartDisputeInto(m).latest, ReadableWatch)
  PROVE  Legible(m.state.outcome)
<1>. DEFINE info == WatchInfoInto(m)
            signed == [params |-> Some(ParamsInto(m.params)), state |-> Some(StateInto(m.state)), sigs |-> m.signatures]
<1>1. StartDisputeInto(m).latest = Some(info)
  BY DEF StartDisputeInto
<1>2. info.state = Some(signed)
  BY DEF WatchInfoInto
<1>3. signed.state = Some(StateInto(m.state))
  OBVIOUS
<1>. HIDE DEF info, signed
<1>4. ReadableWatch(info)
  BY <1>1, SomeField, Zenon DEF Whole
<1>5. ReadableSigned(signed)
  BY <1>2, <1>4, SomeField, Zenon DEF ReadableWatch, Whole
<1>. QED
  BY <1>3, <1>5, SomeField, StateLegible, Zenon DEF ReadableSigned, ReadableTransaction, Whole

\* The message m arrives as r: as it was sent, but without bare assets, if such a
\* message arrives at all.
Arrives(m, r) ==
  IF m.kind \in Assetless THEN r = Ok(m) ELSE format # "bare" \/ r.res = "ok" => r = Ok(ReadMessage(m))

\* The receiver reads the message that the sender wrote.
LEMMA ParticipantKept ==
  ASSUME NEW m \in ParticipantMessage
  PROVE  Arrives(m, MessageTry(m.kind, MessageInto(m)))
<1>1. CASE m \in [kind : {"Auth"}]
  <2>1. m = [kind |-> "Auth"] /\ m.kind = "Auth"
    BY <1>1
  <2>2. MessageTry(m.kind, MessageInto(m)) = Ok(m)
    BY <2>1 DEF MessageTry, ParticipantTry, WatcherKinds, FunderKinds
  <2>3. m.kind \in Assetless
    BY <2>1 DEF Assetless
  <2>. QED
    BY <2>2, <2>3, Zenon DEF Arrives
<1>2. CASE m \in LedgerChannelProposal
  <2>1. m.kind = "ChannelProposal"
    BY <1>2 DEF LedgerChannelProposal
  <2>2. m.kind \notin Assetless
    BY <2>1 DEF Assetless
  <2>3. MessageInto(m) = ChannelProposalInto(m)
    BY <2>1 DEF MessageInto, ParticipantInto, WatcherKinds, FunderKinds
  <2>4. \A w : MessageTry(m.kind, w) = ChannelProposalTry(w)
    BY <2>1 DEF MessageTry, ParticipantTry, WatcherKinds, FunderKinds
  <2>5. ASSUME format # "bare" \/ MessageTry(m.kind, MessageInto(m)).res = "ok"
        PROVE  Legible(m.init_bals)
    <3>1. CASE format # "bare"
      <4>1. m.init_bals \in Allocation
        BY <1>2 DEF LedgerChannelProposal
      <4>. QED
        BY <3>1, <4>1, AllocationRead, Zenon
    <3>2. CASE MessageTry(m.kind, MessageInto(m)).res = "ok"
      <4>1. Readable(m.kind, MessageInto(m))
        BY <2>1, <3>2, ParticipantExact
      <4>2. Whole(ChannelProposalInto(m).base_channel_proposal, ReadableProposal)
        BY <2>1, <2>3, <4>1 DEF Readable
      <4>. QED
        BY <4>2, ProposalLegible, Zenon
    <3>. QED
      BY <2>5, <3>1, <3>2, Zenon
  <2>. QED
    BY <1>2, <2>2, <2>3, <2>4, <2>5, ChannelProposalKept, Zenon DEF Arrives
<1>3. CASE m \in LedgerChannelProposalAcc
  <2>1. m.kind = "ProposalAccepted"
    BY <1>3 DEF LedgerChannelProposalAcc
  <2>2. MessageInto(m) = ProposalAcceptedInto(m)
    BY <2>1 DEF MessageInto, ParticipantInto, WatcherKinds, FunderKinds
  <2>3. \A w : MessageTry(m.kind, w) = ProposalAcceptedTry(w)
    BY <2>1 DEF MessageTry, ParticipantTry, WatcherKinds, FunderKinds
  <2>4. m.kind \in Assetless
    BY <2>1 DEF Assetless
  <2>. QED
    BY <1>3, <2>2, <2>3, <2>4, ProposalAcceptedKept, Zenon DEF Arrives
<1>4. CASE m \in [kind : {"ProposalRejected"}, id : Hash, reason : STRING]
  <2>. DEFINE w == [proposal_id |-> m.id, reason |-> m.reason]
  <2>1. m.kind = "ProposalRejected" /\ m.id \in Hash /\ m = [kind |-> m.kind, id |-> m.id, reason |-> m.reason]
    BY <1>4
  <2>2. MessageInto(m) = w
    BY <2>1 DEF MessageInto, ParticipantInto, WatcherKinds, FunderKinds
  <2>3. w.proposal_id = m.id /\ w.reason = m.reason
    OBVIOUS
  <2>. HIDE DEF w
  <2>4. Len(m.id) = HashLen
    BY <2>1, ArrayLen, Sizes, Zenon DEF Hash
  <2>5. MessageTry(m.kind, w) =
          IF Len(w.proposal_id) # HashLen THEN Panic ELSE Ok([kind |-> m.kind, id |-> w.proposal_id, reason |-> w.reason])
    <3>1. m.kind = "ProposalRejected"
      BY <2>1
    <3>. QED
      BY <3>1 DEF MessageTry, ParticipantTry, WatcherKinds, FunderKinds
  <2>6. m.kind \in Assetless
    BY <2>1 DEF Assetless
  <2>. QED
    BY <2>1, <2>2, <2>3, <2>4, <2>5, <2>6, Zenon DEF Arrives
<1>5. CASE m \in LedgerChannelUpdate
  <2>1. m.kind = "ChannelUpdate"
    BY <1>5 DEF LedgerChannelUpdate
  <2>2. m.kind \notin Assetless
    BY <2>1 DEF Assetless
  <2>3. MessageInto(m) = ChannelUpdateInto(m)
    BY <2>1 DEF MessageInto, ParticipantInto, WatcherKinds, FunderKinds
  <2>4. \A w : MessageTry(m.kind, w) = ChannelUpdateTry(w)
    BY <2>1 DEF MessageTry, ParticipantTry, WatcherKinds, FunderKinds
  <2>5. ASSUME format # "bare" \/ MessageTry(m.kind, MessageInto(m)).res = "ok"
        PROVE  Legible(m.state.outcome)
    <3>1. CASE format # "bare"
      <4>1. m.state.outcome \in Allocation
        BY <1>5 DEF LedgerChannelUpdate, State
      <4>. QED
        BY <3>1, <4>1, AllocationRead, Zenon
    <3>2. CASE MessageTry(m.kind, MessageInto(m)).res = "ok"
      <4>1. Readable(m.kind, MessageInto(m))
        BY <2>1, <3>2, ParticipantExact
      <4>2. Whole(ChannelUpdateInto(m).channel_update, ReadableUpdate)
        BY <2>1, <2>3, <4>1 DEF Readable
      <4>. QED
        BY <4>2, UpdateLegible, Zenon
    <3>. QED
      BY <2>5, <3>1, <3>2, Zenon
  <2>. QED
    BY <1>5, <2>2, <2>3, <2>4, <2>5, ChannelUpdateKept, Zenon DEF Arrives
<1>6. CASE m \in LedgerChannelUpdateAccepted
  <2>1. m.kind = "ChannelUpdateAccepted"
    BY <1>6 DEF LedgerChannelUpdateAccepted
  <2>2. MessageInto(m) = ChannelUpdateAcceptedInto(m)
    BY <2>1 DEF MessageInto, ParticipantInto, WatcherKinds, FunderKinds
  <2>3. \A w : MessageTry(m.kind, w) = ChannelUpdateAcceptedTry(w)
    BY <2>1 DEF MessageTry, ParticipantTry, WatcherKinds, FunderKinds
  <2>4. m.kind \in Assetless
    BY <2>1 DEF Assetless
  <2>. QED
    BY <1>6, <2>2, <2>3, <2>4, ChannelUpdateAcceptedKept, Zenon DEF Arrives
<1>7. CASE m \in [kind : {"ChannelUpdateRejected"}, id : Hash, version : Nat, reason : STRING]
  <2>. DEFINE w == [channel_id |-> m.id, version |-> m.version, reason |-> m.reason]
  <2>1. /\ m.kind = "ChannelUpdateRejected" /\ m.id \in Hash
        /\ m = [kind |-> m.kind, id |-> m.id, version |-> m.version, reason |-> m.reason]
    BY <1>7
  <2>2. MessageInto(m) = w
    BY <2>1 DEF MessageInto, ParticipantInto, WatcherKinds, FunderKinds
  <2>3. w.channel_id = m.id /\ w.version = m.version /\ w.reason = m.reason
    OBVIOUS
  <2>. HIDE DEF w
  <2>4. Len(m.id) = HashLen
    BY <2>1, ArrayLen, Sizes, Zenon DEF Hash
  <2>5. MessageTry(m.kind, w) =
          IF Len(w.channel_id) # HashLen THEN Panic
          ELSE Ok([kind |-> m.kind, id |-> w.channel_id, version |-> w.version, reason |-> w.reason])
    <3>1. m.kind = "ChannelUpdateRejected"
      BY <2>1
    <3>. QED
      BY <3>1 DEF MessageTry, ParticipantTry, WatcherKinds, FunderKinds
  <2>6. m.kind \in Assetless
    BY <2>1 DEF Assetless
  <2>. QED
    BY <2>1, <2>2, <2>3, <2>4, <2>5, <2>6, Zenon DEF Arrives
<1>. QED
  BY <1>1, <1>2, <1>3, <1>4, <1>5, <1>6, <1>7, Zenon DEF ParticipantMessage

\* The services read the request that the client wrote.
LEMMA ServiceKept ==
  ASSUME NEW m \in FunderRequestMessage \cup WatcherRequestMessage
  PROVE  Arrives(m, MessageTry(m.kind, MessageInto(m)))
<1>. DEFINE read == format # "bare" \/ MessageTry(m.kind, MessageInto(m)).res = "ok"
<1>0. m.kind \notin Assetless /\ m.kind \in WatcherKinds \cup FunderKinds
  BY DEF FunderRequestMessage, WatcherRequestMessage, LedgerChannelFundingRequest, StartWatchingLedgerChannelReq,
         WatchInfo, Assetless, WatcherKinds, FunderKinds
<1>1. SUFFICES ASSUME read PROVE MessageTry(m.kind, MessageInto(m)) = Ok(ReadMessage(m))
  BY <1>0, Zenon DEF Arrives
<1>2. format # "bare" \/ Readable(m.kind, MessageInto(m))
  BY <1>0, <1>1, ServiceExact, Zenon
<1>3. CASE m \in LedgerChannelFundingRequest
  <2>1. m.kind = "FundReq" /\ m.state.outcome \in Allocation
    BY <1>3 DEF LedgerChannelFundingRequest, State
  <2>2. MessageInto(m) = FundReqInto(m)
    BY <2>1 DEF MessageInto, FunderInto, WatcherKinds, FunderKinds
  <2>3. \A w : MessageTry(m.kind, w) = FundReqTry(w)
    BY <2>1 DEF MessageTry, ServiceTry, WatcherKinds, FunderKinds
  <2>4. Readable(m.kind, MessageInto(m)) => Whole(FundReqInto(m).state, ReadableState)
    BY <2>1, <2>2 DEF Readable
  <2>5. Legible(m.state.outcome)
    <3>1. FundReqInto(m).state = Some(StateInto(m.state))
      BY DEF FundReqInto
    <3>. QED
      BY <1>2, <2>1, <2>4, <3>1, SomeField, AllocationRead, StateLegible, Zenon DEF Whole
  <2>. QED
    BY <1>3, <2>2, <2>3, <2>5, FundReqKept, Zenon
<1>4. CASE m \in [kind : {"RegisterReq", "WithdrawReq"}, adj_req : AdjudicatorReq]
  <2>1. m.kind \in {"RegisterReq", "WithdrawReq"} /\ m.adj_req.tx.state.outcome \in Allocation
    BY <1>4 DEF AdjudicatorReq, Transaction, State
  <2>2. RegisterReqInto(m) = WithdrawReqInto(m)
    BY Zenon DEF RegisterReqInto, WithdrawReqInto
  <2>3. MessageInto(m) = RegisterReqInto(m)
    BY <2>1, <2>2 DEF MessageInto, FunderInto, WatcherKinds, FunderKinds
  <2>4. Readable(m.kind, MessageInto(m)) => Whole(RegisterReqInto(m).adj_req, ReadableRequest)
    BY <2>1, <2>3 DEF Readable
  <2>5. Legible(m.adj_req.tx.state.outcome)
    BY <1>2, <2>1, <2>4, AllocationRead, RequestLegible, Zenon
  <2>6. CASE m.kind = "RegisterReq"
    <3>1. \A w : MessageTry(m.kind, w) = RegisterReqTry(w)
      BY <2>6 DEF MessageTry, ServiceTry, WatcherKinds, FunderKinds
    <3>. QED
      BY <1>4, <2>3, <2>5, <2>6, <3>1, RequestsKept, Zenon
  <2>7. CASE m.kind = "WithdrawReq"
    <3>1. \A w : MessageTry(m.kind, w) = WithdrawReqTry(w)
      BY <2>7 DEF MessageTry, ServiceTry, WatcherKinds, FunderKinds
    <3>. QED
      BY <1>4, <2>2, <2>3, <2>5, <2>7, <3>1, RequestsKept, Zenon
  <2>. QED
    BY <2>1, <2>6, <2>7
<1>5. CASE m \in StartWatchingLedgerChannelReq
  <2>1. m.kind = "WatchRequest" /\ m.state.outcome \in Allocation
    BY <1>5 DEF StartWatchingLedgerChannelReq, State
  <2>2. MessageInto(m) = WatchRequestInto(m)
    BY <2>1 DEF MessageInto, WatcherInto, WatcherKinds, FunderKinds
  <2>3. \A w : MessageTry(m.kind, w) = WatchRequestTry(w)
    BY <2>1 DEF MessageTry, ServiceTry, WatcherKinds, FunderKinds
  <2>4. Readable(m.kind, MessageInto(m)) => ReadableSigned(WatchRequestInto(m))
    BY <2>1, <2>2 DEF Readable
  <2>5. Legible(m.state.outcome)
    <3>1. WatchRequestInto(m).state = Some(StateInto(m.state))
      BY DEF WatchRequestInto
    <3>. QED
      BY <1>2, <2>1, <2>4, <3>1, SomeField, AllocationRead, StateLegible, Zenon
         DEF Whole, ReadableSigned, ReadableTransaction
  <2>. QED
    BY <1>5, <2>2, <2>3, <2>5, WatchRequestKept, Zenon
<1>6. CASE m \in WatchInfo
  <2>1. m.kind = "StartDispute" /\ m.state.outcome \in Allocation
    BY <1>6 DEF WatchInfo, State
  <2>2. MessageInto(m) = StartDisputeInto(m)
    BY <2>1 DEF MessageInto, WatcherInto, WatcherKinds, FunderKinds
  <2>3. \A w : MessageTry(m.kind, w) = StartDisputeTry(w)
    BY <2>1 DEF MessageTry, ServiceTry, WatcherKinds, FunderKinds
  <2>4. Readable(m.kind, MessageInto(m)) => Whole(StartDisputeInto(m).latest, ReadableWatch)
    BY <2>1, <2>2 DEF Readable
  <2>5. Legible(m.state.outcome)
    BY <1>2, <2>1, <2>4, AllocationRead, DisputeLegible, Zenon
  <2>. QED
    BY <1>6, <2>2, <2>3, <2>5, StartDisputeKept, Zenon
<1>. QED
  BY <1>3, <1>4, <1>5, <1>6, Zenon DEF FunderRequestMessage, WatcherRequestMessage

\* The wire carries what the receiver will read as the message, until it has.
WayInv ==
  /\ msg \in Messages
  /\ intact => /\ stage = "sent" => Arrives(msg, MessageTry(msg.kind, wire))
               /\ stage = "received" => Arrives(msg, result)

\* Nothing is on the way at first.
LEMMA WayInit == Init => WayInv
BY DEF Init, WayInv

\* Each action keeps WayInv: Send by the round trips above, Receive by WayInv itself.
LEMMA WayStep == WayInv /\ [Next]_vars => WayInv'
<1>. SUFFICES ASSUME WayInv, [Next]_vars PROVE WayInv'
  OBVIOUS
<1>0. format' = format
  BY Zenon DEF Next, Send, Malform, Receive, vars
<1>1. CASE Send
  <2>1. msg \in Messages /\ msg' = msg /\ stage' = "sent" /\ wire' = MessageInto(msg)
    BY <1>1, Zenon DEF Send, WayInv
  <2>2. Arrives(msg, MessageTry(msg.kind, MessageInto(msg)))
    <3>1. msg \in ParticipantMessage \/ msg \in FunderRequestMessage \cup WatcherRequestMessage
      BY <2>1, WireAssumption, Zenon
    <3>. QED
      BY <3>1, ParticipantKept, ServiceKept, Zenon
  <2>3. stage' # "received"
    BY <2>1
  <2>4. Arrives(msg, MessageTry(msg.kind, wire))'
    BY <1>0, <2>1, <2>2 DEF Arrives, ReadMessage
  <2>. QED
    BY <2>1, <2>3, <2>4, Zenon DEF WayInv
<1>2. CASE Malform
  <2>1. msg' = msg /\ ~ intact'
    BY <1>2, Zenon DEF Malform
  <2>. QED
    BY <2>1, Zenon DEF WayInv
<1>3. CASE Receive
  <2>1. /\ stage = "sent" /\ stage' = "received" /\ result' = MessageTry(msg.kind, wire)
        /\ msg' = msg /\ intact' = intact
    BY <1>3, Zenon DEF Receive
  <2>2. stage' # "sent"
    BY <2>1
  <2>3. intact => Arrives(msg, result)'
    BY <1>0, <2>1 DEF WayInv, Arrives, ReadMessage
  <2>. QED
    BY <2>1, <2>2, <2>3, Zenon DEF WayInv
<1>4. CASE UNCHANGED vars
  <2>1. UNCHANGED <<msg, wire, intact, result, stage>>
    BY <1>4, Zenon DEF vars
  <2>2. Arrives(msg, MessageTry(msg.kind, wire))' <=> Arrives(msg, MessageTry(msg.kind, wire))
    BY <1>0, <2>1 DEF Arrives, ReadMessage
  <2>3. Arrives(msg, result)' <=> Arrives(msg, result)
    BY <1>0, <2>1 DEF Arrives, ReadMessage
  <2>. QED
    BY <2>1, <2>2, <2>3, Zenon DEF WayInv
<1>. QED
  BY <1>1, <1>2, <1>3, <1>4, Zenon DEF Next

\* Every message arrives as it was sent, whatever the sizes of its parts, the
\* amounts and the number of assets and participants: the try_from of each
\* struct of src/src/messages/ undoes its from. A message with bare assets, as
\* the library writes them, arrives without them or not at all.
THEOREM EveryMessageKept == Spec => []MessageKept
<1>1. WayInv => MessageKept
  BY Zenon DEF WayInv, MessageKept, Arrives, ReadMessage
<1>. QED
  BY <1>1, WayInit, WayStep, PTL DEF Spec

-----------------------------------------------------------------------------
(* The structs that become messages *)

\* The receiver has read what the wire carries.
ReadInv == msg \in Messages /\ (stage = "received" => result = MessageTry(msg.kind, wire))

\* Each action keeps ReadInv: only Receive sets the result.
LEMMA ReadStep == ReadInv /\ [Next]_vars => ReadInv'
<1>. SUFFICES ASSUME ReadInv, [Next]_vars PROVE ReadInv'
  OBVIOUS
<1>1. CASE Send
  <2>1. msg' = msg /\ stage' # "received"
    BY <1>1 DEF Send
  <2>. QED
    BY <2>1, Zenon DEF ReadInv
<1>2. CASE Malform
  <2>1. msg' = msg /\ stage' # "received"
    BY <1>2 DEF Malform
  <2>. QED
    BY <2>1, Zenon DEF ReadInv
<1>3. CASE Receive
  BY <1>3, Zenon DEF Receive, ReadInv
<1>4. CASE UNCHANGED vars
  BY <1>4, Zenon DEF vars, ReadInv
<1>. QED
  BY <1>1, <1>2, <1>3, <1>4, Zenon DEF Next

\* A struct becomes a message exactly if it is readable, whatever arrives: try_from
\* finds each missing part, wrong length and wrong number, but for the numbers of
\* participants and of assets and the bytes of an asset after a length of 0, and
\* refuses nothing else.
THEOREM AlwaysReadExactly == Spec => []ReadExactly
<1>1. Init => ReadInv
  BY DEF Init, ReadInv
<1>2. ReadInv => ReadExactly
  BY MessageExact, Zenon DEF ReadInv, ReadExactly
<1>. QED
  BY <1>1, <1>2, ReadStep, PTL DEF Spec
=============================================================================
