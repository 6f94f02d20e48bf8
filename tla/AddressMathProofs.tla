---------------------------- MODULE AddressMathProofs ----------------------------
(***************************************************************************)
(* What the arithmetic of AddressMath returns, for every word size.        *)
(***************************************************************************)
EXTENDS AddressMath, TLAPS

\* u32 arithmetic stays within u32.
LEMMA ModType == \A n \in Int : n % U32 \in 0 .. U32 - 1
  BY WordAssumption

\* A number and its distance to the next multiple.
LEMMA NextMultiple ==
  ASSUME NEW n \in Nat, NEW m \in Nat \ {0}
  PROVE  /\ n % m \in 0 .. m - 1
         /\ (n + m - (n % m)) % m = 0
         /\ (n - (n % m)) % m = 0
  <1> DEFINE q == n \div m
  <1>1. q \in Nat /\ n % m \in 0 .. m - 1 /\ n = m * q + (n % m)
    <2>1. q \in Nat
      OBVIOUS
    <2>2. n % m \in 0 .. m - 1
      OBVIOUS
    <2>3. n = m * (n \div m) + (n % m)
      OBVIOUS
    <2>. QED  BY <2>1, <2>2, <2>3
  <1> HIDE DEF q
  <1>2. n + m - (n % m) = m * (q + 1) /\ n - (n % m) = m * q
    BY <1>1
  <1>3. \A k \in Nat : (m * k) % m = 0
    OBVIOUS
  <1>4. ASSUME NEW j \in Int, NEW k \in Nat, j = m * k PROVE j % m = 0
    BY <1>3, <1>4
  <1>5. n + m - (n % m) \in Int /\ n - (n % m) \in Int /\ q + 1 \in Nat
    BY <1>1
  <1>6. (n + m - (n % m)) % m = 0
    BY <1>1, <1>2, <1>4, <1>5
  <1>7. (n - (n % m)) % m = 0
    BY <1>1, <1>2, <1>4, <1>5
  <1>. QED  BY <1>1, <1>6, <1>7

\* round_up of an address is an address.
LEMMA RoundUpType ==
  ASSUME NEW n \in Nat, NEW m \in Nat
  PROVE  RoundUp(n, m) \in Nat
  <1>1. CASE m = 0 \/ n % m = 0
    BY <1>1 DEF RoundUp
  <1>2. CASE ~(m = 0 \/ n % m = 0)
    <2>1. n % m \in Nat
      BY <1>2
    <2>2. n + m - (n % m) \in Int
      BY <2>1
    <2>3. \A k \in Int : k % (UsizeMax + 1) \in Nat
      BY WordAssumption
    <2>. QED  BY <1>2, <2>2, <2>3 DEF RoundUp
  <1>. QED  BY <1>1, <1>2

\* round_up returns a multiple, at most one short of a whole step above the number,
\* as long as it stays in the address space.
LEMMA RoundUpIsNextMultiple ==
  ASSUME NEW n \in Nat, NEW m \in Nat \ {0}, n + m - 1 <= UsizeMax
  PROVE  /\ RoundUp(n, m) \in n .. (n + m - 1)
         /\ RoundUp(n, m) % m = 0
  <1>1. CASE n % m = 0
    BY <1>1 DEF RoundUp
  <1>2. CASE n % m # 0
    <2>1. n % m \in 1 .. m - 1
      BY <1>2, NextMultiple
    <2> DEFINE k == n + m - (n % m)
    <2>2. k \in n .. (n + m - 1) /\ k \in 0 .. UsizeMax
      BY <2>1, WordAssumption
    <2>3. \A j \in 0 .. UsizeMax : j % (UsizeMax + 1) = j
      BY WordAssumption
    <2>4. RoundUp(n, m) = k
      BY <1>2, <2>2, <2>3 DEF RoundUp
    <2>. QED  BY <2>2, <2>4, NextMultiple
  <1>. QED  BY <1>1, <1>2

\* No multiple lies between a number and its round_up.
LEMMA MultiplesApart ==
  ASSUME NEW m \in Nat \ {0}, NEW a \in Nat, NEW b \in Nat, a % m = 0, b % m = 0, a < b
  PROVE  a + m <= b
  <1> DEFINE p == a \div m
             q == b \div m
  <1>1. p \in Nat /\ q \in Nat /\ a = m * p /\ b = m * q
    OBVIOUS
  <1>2. p < q
    BY <1>1
  <1>3. p + 1 <= q
    BY <1>1, <1>2
  <1>4. m * (p + 1) <= m * q
    BY <1>1, <1>3
  <1>. QED  BY <1>1, <1>4

\* sanitize never asks for less than the caller: it rounds up to whole pages, or the
\* rounded size does not fit in u32 and is cut to 0, which the allocators refuse.
LEMMA SanitizedSizes ==
  ASSUME NEW size \in 0 .. U32 - 1, NEW granularity \in Nat \ {0}, U32 % granularity = 0
  PROVE  /\ SanitizedSize(size, granularity) \in 0 .. U32 - 1
         /\ SanitizedSize(size, granularity) # 0 => SanitizedSize(size, granularity) >= size
         /\ SanitizedSize(size, granularity) % granularity = 0
  <1> DEFINE n == Larger(size, 1)
             g == granularity
  <1>1. n \in 1 .. U32 /\ n \in Nat /\ n >= size /\ U32 \in Nat
    BY WordAssumption DEF Larger
  <1> HIDE DEF n
  <1>2. SanitizedSize(size, g) = RoundUp(n, g) % U32
    BY DEF SanitizedSize, n
  <1>3. RoundUp(n, g) \in Nat
    BY <1>1, RoundUpType
  <1>4. CASE n % g = 0
    <2>1. RoundUp(n, g) = n
      BY <1>4 DEF RoundUp
    <2>2. CASE n = U32
      BY <1>1, <1>2, <2>1, <2>2
    <2>3. CASE n # U32
      <3>1. n % U32 = n
        BY <1>1, <2>3
      <3>. QED  BY <1>1, <1>2, <1>4, <2>1, <3>1
    <2>. QED  BY <2>2, <2>3
  <1>5. CASE n % g # 0
    <2> DEFINE k == n + g - (n % g)
    <2>1. n % g \in 1 .. g - 1 /\ k % g = 0 /\ (n - (n % g)) % g = 0
      <3>1. n % g \in 0 .. g - 1 /\ k % g = 0 /\ (n - (n % g)) % g = 0
        BY <1>1, NextMultiple
      <3>. QED  BY <1>5, <3>1
    <2>2. n - (n % g) \in Nat /\ k \in Nat /\ k > n
      <3>1. n \in Nat
        BY <1>1
      <3>2. n >= n % g
        BY <3>1
      <3>. QED  BY <2>1, <3>1, <3>2
    <2>3. n < U32
      BY <1>1, <1>5
    <2>4. k <= U32
      <3>1. n - (n % g) < U32
        BY <1>1, <2>1, <2>3
      <3>2. (n - (n % g)) + g <= U32
        BY <1>1, <2>1, <2>2, <3>1, MultiplesApart
      <3>. QED  BY <1>1, <2>1, <3>2
    <2>5. RoundUp(n, g) = k % (UsizeMax + 1)
      BY <1>5 DEF RoundUp
    <2>6. CASE k = U32
      <3>1. RoundUp(n, g) \in {0, U32}
        <4>1. CASE U32 = UsizeMax + 1
          BY <2>5, <2>6, <4>1, WordAssumption
        <4>2. CASE U32 # UsizeMax + 1
          <5>1. U32 \in 0 .. UsizeMax
            BY <4>2, WordAssumption
          <5>2. \A j \in 0 .. UsizeMax : j % (UsizeMax + 1) = j
            BY WordAssumption
          <5>. QED  BY <2>5, <2>6, <5>1, <5>2
        <4>. QED  BY <4>1, <4>2
      <3>2. SanitizedSize(size, g) = 0
        BY <1>1, <1>2, <3>1, WordAssumption
      <3>. QED  BY <3>2, WordAssumption
    <2>7. CASE k # U32
      <3>1. k \in 0 .. U32 - 1 /\ k \in 0 .. UsizeMax
        BY <1>1, <2>2, <2>4, <2>7, WordAssumption
      <3>2. k % (UsizeMax + 1) = k /\ k % U32 = k
        BY <3>1, WordAssumption
      <3>3. SanitizedSize(size, g) = k
        BY <1>2, <2>5, <3>2
      <3>. QED  BY <1>1, <2>1, <2>2, <3>1, <3>3
    <2>. QED  BY <2>6, <2>7
  <1>. QED  BY <1>4, <1>5
=============================================================================
