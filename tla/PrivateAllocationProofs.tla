-------------------------- MODULE PrivateAllocationProofs ------------------------
(***************************************************************************)
(* Theorems about PrivateAllocation and the allocators of the three        *)
(* systems below it: no memory is lost, none of the rest of the process is *)
(* taken away, a buffer is what was asked for, and it is found if there is *)
(* room for it.                                                            *)
(***************************************************************************)
EXTENDS PrivateAllocation, AddressMathProofs, WellFoundedInduction, TLAPS

-----------------------------------------------------------------------------
\* The inductive invariant

CallType ==
  [at : {"idle", "open", "pass", "region", "map", "protect", "unmap", "ok", "error"},
   wanted : 0 .. U32 - 1, size : 0 .. U32 - 1, min : Nat, max : 0 .. UsizeMax,
   brute_force : BOOLEAN, tries : Nat, regions : SUBSET [start : Nat, end : Nat], current : Nat,
   candidates : Seq(Nat), stray : SUBSET Pages, result : Nat]

BlockType == [base_address : Nat \ {0}, size : Nat, process_id : {ThisProcess}]

AllocTypes ==
  /\ os \in Systems
  /\ others \subseteq Pages
  /\ ours \subseteq Pages
  /\ call \in CallType
  /\ env \in Nat
  /\ quiet \in BOOLEAN
  /\ held \subseteq BlockType
  /\ errors \in Nat

\* An address that is tried is aligned and inside the limits of the request.
Placed(c, a) ==
  /\ a % AllocationGranularity = 0
  /\ c.min <= a /\ AddWithOverflowCap(a, c.size) <= c.max

\* Pages that were free when they were mapped.
Usable(pages) == pages # {} /\ pages \subseteq Pages \ {0}

BlockPages(a) == PagesOf(a.base_address, a.size)

\* The pages the call has mapped and not yet handed out or given back.
Pending == call.stray \cup (IF call.at = "ok" THEN PagesOf(call.result, call.size) ELSE {})

\* The state of a call.
Fits(c) ==
  /\ c.size = 0 \/ c.size >= c.wanted
  /\ \A i \in DOMAIN c.candidates : Placed(c, c.candidates[i])
  /\ c.at \notin {"protect", "unmap"} => c.stray = {}
  /\ c.at = "protect" =>
       /\ c.candidates # <<>>
       /\ c.stray = PagesOf(Head(c.candidates), c.size)
       /\ Usable(c.stray)
  /\ c.at = "ok" =>
       \/ os = "macos" /\ c.size = 0 /\ c.result = 0
       \/ Placed(c, c.result) /\ Usable(PagesOf(c.result, c.size))

CallFits == Fits(call)

\* No page belongs to two: to the rest of the process, to a block of the client, to
\* the call under way.
PagesApart ==
  /\ others \cap ours = {}
  /\ \A a, b \in held : a # b => BlockPages(a) \cap BlockPages(b) = {}
  /\ Pending \cap PagesHeld = {}

AllocInv == AllocTypes /\ CallFits /\ PagesApart /\ NothingLeaked

-----------------------------------------------------------------------------
\* Arithmetic

\* The rest of a multiple, divided by a multiple, is a multiple.
LEMMA ModOfMultiples ==
  ASSUME NEW m \in Nat \ {0}, NEW x \in Nat, NEW y \in Nat \ {0}, x % m = 0, y % m = 0
  PROVE  x % y \in Nat /\ (x % y) % m = 0
<1> DEFINE a == x \div m
           b == y \div m
           q == x \div y
<1>1. a \in Nat /\ b \in Nat /\ q \in Nat /\ x = m * a /\ y = m * b
      OBVIOUS
<1>2. x % y \in Nat /\ x = y * q + (x % y)
      OBVIOUS
<1> HIDE DEF a, b, q
<1>3. x % y = m * (a - b * q)
  <2>1. y * q = m * (b * q) /\ b * q \in Nat
        BY <1>1
  <2>2. x % y = m * a - m * (b * q)
        BY <1>1, <1>2, <2>1
  <2> QED
      BY <1>1, <2>1, <2>2
<1>4. a - b * q \in Int
      BY <1>1
<1>5. \A k \in Int : (m * k) % m = 0
      OBVIOUS
<1> QED
    BY <1>2, <1>3, <1>4, <1>5

\* What a multiple of m divides, m divides.
LEMMA MultipleOfMultiple ==
  ASSUME NEW x \in Nat, NEW y \in Nat \ {0}, NEW m \in Nat \ {0}, x % y = 0, y % m = 0
  PROVE  x % m = 0
<1> DEFINE a == x \div y
           b == y \div m
<1>1. a \in Nat /\ b \in Nat /\ x = y * a /\ y = m * b
      OBVIOUS
<1> HIDE DEF a, b
<1>2. b * a \in Int /\ x = m * (b * a)
      BY <1>1
<1>3. \A k \in Int : (m * k) % m = 0
      OBVIOUS
<1> QED
    BY <1>2, <1>3

\* The granularity is a number of pages, and divides the sizes of the machine words.
LEMMA Granularity ==
  /\ AllocationGranularity \in Nat \ {0}
  /\ U32 % AllocationGranularity = 0 /\ (UsizeMax + 1) % AllocationGranularity = 0
  /\ AllocationGranularity % PageSize = 0
<1>1. PageSize % PageSize = 0
      BY AllocatorAssumption
<1> QED
    BY <1>1, AllocatorAssumption DEF AllocationGranularity

\* What RoundUp and RoundDown return is aligned, wrapped around or not.
LEMMA Rounded ==
  ASSUME NEW n \in Nat
  PROVE  /\ RoundUp(n, AllocationGranularity) \in Nat
         /\ RoundUp(n, AllocationGranularity) % AllocationGranularity = 0
         /\ RoundDown(n, AllocationGranularity) \in Nat
         /\ RoundDown(n, AllocationGranularity) % AllocationGranularity = 0
<1> DEFINE g == AllocationGranularity
<1>1. g \in Nat \ {0} /\ (UsizeMax + 1) % g = 0 /\ UsizeMax + 1 \in Nat \ {0}
      BY Granularity, WordAssumption
<1> HIDE DEF g
<1>2. n % g \in 0 .. g - 1 /\ (n + g - (n % g)) % g = 0 /\ (n - (n % g)) % g = 0
      BY <1>1, NextMultiple
<1>3. n >= n % g
      BY <1>1
<1>4. n + g - (n % g) \in Nat /\ n - (n % g) \in Nat
      BY <1>1, <1>2, <1>3
<1>5. RoundUp(n, g) \in Nat /\ RoundUp(n, g) % g = 0
  <2>1. CASE n % g = 0
        BY <1>1, <2>1 DEF RoundUp
  <2>2. CASE n % g # 0
    <3>1. RoundUp(n, g) = (n + g - (n % g)) % (UsizeMax + 1)
          BY <1>1, <2>2 DEF RoundUp
    <3> QED
        BY <1>1, <1>2, <1>4, <3>1, ModOfMultiples, SMTT(60)
  <2> QED
      BY <2>1, <2>2
<1>6. RoundDown(n, g) = n - (n % g)
      BY <1>1 DEF RoundDown
<1> QED
    BY <1>2, <1>4, <1>5, <1>6 DEF g

\* Every address to be tried is aligned and inside the limits.
LEMMA Candidates ==
  ASSUME NEW min, NEW max, NEW size, NEW first, NEW last, NEW s,
         min \in Nat, max \in Nat, size \in Nat, first \in Nat, last \in Nat,
         s = GetPossibleBufferAddresses(min, max, AddressRange(first, last), size,
                                               AllocationGranularity)
  PROVE  /\ s \in Seq(Nat)
         /\ \A i \in DOMAIN s : /\ s[i] % AllocationGranularity = 0
                                /\ min <= s[i] /\ AddWithOverflowCap(s[i], size) <= max
<1> DEFINE g == AllocationGranularity
           page == AddressRange(first, last)
           c1 == RoundUp(first, g)
           c2 == RoundDown(SubtractWithUnderflowCap(last, size), g)
           c3 == RoundUp(min, g)
           c4 == RoundDown(SubtractWithUnderflowCap(max, size), g)
           Good(a) == a % g = 0 /\ min <= a /\ AddWithOverflowCap(a, size) <= max
           Kept(a) == IF FitsBetween(a, size, min, max, page) THEN <<a>> ELSE <<>>
           G == {a \in Nat : Good(a)}
<1>1. SubtractWithUnderflowCap(last, size) \in Nat /\ SubtractWithUnderflowCap(max, size) \in Nat
      BY DEF SubtractWithUnderflowCap, Larger
<1>2. \A a \in {c1, c2, c3, c4} : a \in Nat /\ a % g = 0
      BY <1>1, Rounded
<1>3. \A a : FitsBetween(a, size, min, max, page) => min <= a /\ AddWithOverflowCap(a, size) <= max
      BY DEF FitsBetween, Contains, AddressRange
<1>4. s = <<>> \/ s = Kept(c1) \o Kept(c2) \o Kept(c3) \o Kept(c4)
      BY DEF GetPossibleBufferAddresses, CandidateAddresses, AddressRange
<1>5. \A a \in {c1, c2, c3, c4} : Kept(a) \in Seq(G)
  <2> HIDE DEF c1, c2, c3, c4
  <2> TAKE a \in {c1, c2, c3, c4}
  <2>1. CASE FitsBetween(a, size, min, max, page)
    <3>1. a \in G
          BY <1>2, <1>3, <2>1
    <3> HIDE DEF G
    <3>2. <<a>> \in Seq(G)
          BY <3>1
    <3> QED
        BY <3>2, <2>1
  <2>2. CASE ~FitsBetween(a, size, min, max, page)
        BY <2>2
  <2> QED
      BY <2>1, <2>2
<1> HIDE DEF Kept, c1, c2, c3, c4, G
<1>6. s \in Seq(G)
  <2>1. ASSUME NEW x \in Seq(G), NEW y \in Seq(G) PROVE x \o y \in Seq(G)
        OBVIOUS
  <2>2. Kept(c1) \o Kept(c2) \in Seq(G)
        BY <1>5, <2>1
  <2>3. Kept(c1) \o Kept(c2) \o Kept(c3) \in Seq(G)
        BY <1>5, <2>1, <2>2
  <2>4. Kept(c1) \o Kept(c2) \o Kept(c3) \o Kept(c4) \in Seq(G)
        BY <1>5, <2>1, <2>3
  <2>5. <<>> \in Seq(G)
        OBVIOUS
  <2>6. CASE s = <<>>
        BY <2>5, <2>6
  <2>7. CASE s = Kept(c1) \o Kept(c2) \o Kept(c3) \o Kept(c4)
        BY <2>4, <2>7
  <2> QED
      BY <1>4, <2>6, <2>7
<1> QED
    BY <1>6 DEF G

\* The pages of a block: it is longer than nothing if it is aligned and has pages, it has
\* page 0 if it is at null, and it ends with the memory if its pages do.
LEMMA BlockOfPages ==
  ASSUME NEW a \in Nat, NEW n \in Nat
  PROVE  /\ PagesOf(a, n) \subseteq Int
         /\ PagesOf(a, n) # {} /\ a % PageSize = 0 => n > 0
         /\ PagesOf(a, n) # {} /\ a = 0 => 0 \in PagesOf(a, n)
         /\ PagesOf(a, n) # {} /\ PagesOf(a, n) \subseteq Pages => a + n <= NumPages * PageSize
         /\ a = 0 /\ n = 0 => PagesOf(a, n) = {}
<1> DEFINE p == a \div PageSize
           e == a + n - 1
           q == e \div PageSize
<1>1. PageSize \in Nat \ {0} /\ e \in Int /\ NumPages \in Nat
      BY AllocatorAssumption
<1>2. /\ p \in Nat /\ a % PageSize \in 0 .. PageSize - 1
      /\ a = PageSize * p + (a % PageSize)
      BY <1>1
<1>3. /\ q \in Int /\ e % PageSize \in 0 .. PageSize - 1
      /\ e = PageSize * q + (e % PageSize)
      BY <1>1
<1>4. PagesOf(a, n) = p .. q
      BY DEF PagesOf
<1> HIDE DEF p, q
<1>5. ASSUME p <= q, a % PageSize = 0 PROVE n > 0
  <2>1. PageSize * p <= PageSize * q
        BY <1>1, <1>2, <1>3, <1>5
  <2> QED
      BY <1>1, <1>2, <1>3, <1>5, <2>1
<1>6. ASSUME a = 0 PROVE p = 0
      BY <1>1, <1>6 DEF p
<1>7. ASSUME q <= NumPages - 1 PROVE a + n <= NumPages * PageSize
  <2>1. PageSize * q <= PageSize * (NumPages - 1)
        BY <1>1, <1>3, <1>7
  <2>2. PageSize * (NumPages - 1) = NumPages * PageSize - PageSize
        BY <1>1
  <2>3. e <= NumPages * PageSize - 1
        BY <1>1, <1>3, <2>1, <2>2
  <2> QED
      BY <1>1, <2>3
<1>8. ASSUME a = 0, n = 0 PROVE q < 0
  <2>1. PageSize * q < 0
        BY <1>1, <1>3, <1>8
  <2> QED
      BY <1>1, <1>3, <2>1
<1>9. p .. q # {} <=> p <= q
      BY <1>2, <1>3
<1>10. p <= q => q \in p .. q
      BY <1>2, <1>3
<1>11. PagesOf(a, n) \subseteq Int
      BY <1>4
<1>12. PagesOf(a, n) # {} /\ a % PageSize = 0 => n > 0
      BY <1>4, <1>5, <1>9
<1>13. PagesOf(a, n) # {} /\ a = 0 => 0 \in PagesOf(a, n)
      BY <1>3, <1>4, <1>6, <1>9
<1>14. PagesOf(a, n) # {} /\ PagesOf(a, n) \subseteq Pages => a + n <= NumPages * PageSize
      BY <1>1, <1>3, <1>4, <1>7, <1>9, <1>10 DEF Pages
<1>15. a = 0 /\ n = 0 => PagesOf(a, n) = {}
      BY <1>2, <1>3, <1>4, <1>6, <1>8, <1>9
<1> QED
    BY <1>11, <1>12, <1>13, <1>14, <1>15

\* A set of numbers has a smallest one.
LEMMA SmallestOf ==
  ASSUME NEW S \in SUBSET Nat, S # {} PROVE \E n \in S : \A m \in S : n <= m
<1>1. PICK n \in S : \A m \in S : <<m, n>> \notin OpToRel(<, Nat)
      BY WFMin, NatLessThanWellFounded
<1>2. \A m \in S : ~(m < n)
      BY <1>1, Zenon DEF OpToRel
<1> QED
    BY <1>2

\* The first page of a region mach_vm_region returns, and the page behind it.
LEMMA OsxPages ==
  ASSUME NEW S \in SUBSET Pages, S # {}
  PROVE  /\ FirstOf(S) \in Pages /\ FirstOf(S) \in S /\ EndOf(S) \in Nat
         /\ \A q \in S : FirstOf(S) <= q
         /\ FirstOf(S) .. EndOf(S) - 1 \subseteq S
<1> USE AllocatorAssumption DEF Pages
<1>1. \E p \in S : \A q \in S : p <= q
      BY SmallestOf
<1>2. FirstOf(S) \in S /\ \A q \in S : FirstOf(S) <= q
      BY <1>1 DEF FirstOf
<1> DEFINE f == FirstOf(S)
           T == {q \in Nat : f <= q /\ q + 1 \notin S}
<1>3. f \in Nat /\ f <= NumPages - 1
  <2>1. f \in S
        BY <1>2
  <2> HIDE DEF f
  <2> QED
      BY <2>1
<1> HIDE DEF f
<1>4. NumPages - 1 \in T
      BY <1>3
<1>5. PICK q \in T : \A r \in T : q <= r
  <2>1. T \in SUBSET Nat /\ T # {}
        BY <1>4
  <2> HIDE DEF T
  <2> QED
      BY <2>1, SmallestOf
<1>6. ASSUME NEW n \in f .. q PROVE n \in S
  <2>1. CASE n = f
        BY <1>2, <2>1 DEF f
  <2>2. CASE n # f
    <3>1. n - 1 \in Nat /\ f <= n - 1 /\ n - 1 < q
          BY <1>3, <1>5, <2>2
    <3>2. n - 1 \notin T
          BY <1>5, <3>1
    <3> QED
        BY <3>1, <3>2
  <2> QED
      BY <2>1, <2>2
<1>7. q \in S /\ f .. q \subseteq S /\ q + 1 \notin S
      BY <1>3, <1>5, <1>6
<1>8. EndOf(S) = 1 + CHOOSE r \in S : f .. r \subseteq S /\ r + 1 \notin S
      BY DEF EndOf, f
<1> DEFINE c == CHOOSE r \in S : f .. r \subseteq S /\ r + 1 \notin S
<1>9. c \in S /\ f .. c \subseteq S
      BY <1>7
<1>10. EndOf(S) = 1 + c
      BY <1>8
<1> HIDE DEF c
<1>11. 1 + c \in Nat /\ (1 + c) - 1 = c
      BY <1>9
<1>12. FirstOf(S) \in Pages
      BY <1>2
<1> QED
    BY <1>2, <1>9, <1>10, <1>11, <1>12 DEF f

\* The region VirtualQuery returns has a size; its pages are in the same state, and those
\* behind it are not.
LEMMA WindowsPages ==
  ASSUME NEW p \in Pages
  PROVE  /\ RegionSize(p) \in Nat
         /\ RegionEnd(p) \in p + 1 .. NumPages
         /\ \A n \in p .. RegionEnd(p) - 1 : n \in Mapped <=> p \in Mapped
         /\ RegionEnd(p) = NumPages \/ ~(RegionEnd(p) \in Mapped <=> p \in Mapped)
<1> USE AllocatorAssumption DEF Pages
<1> DEFINE T == {q \in p .. NumPages - 1 : q = NumPages - 1 \/ ~SameState(p, q + 1)}
<1>1. NumPages - 1 \in T
      OBVIOUS
<1>2. PICK q \in T : \A r \in T : q <= r
  <2>1. T \subseteq p .. NumPages - 1 /\ T # {}
        BY <1>1
  <2> HIDE DEF T
  <2>2. T \in SUBSET Nat
        BY <2>1
  <2> QED
      BY <2>1, <2>2, SmallestOf
<1>3. SameState(p, q)
  <2>1. CASE q = p
        BY <2>1 DEF SameState
  <2>2. CASE q # p
    <3>1. q - 1 \in p .. NumPages - 1 /\ q - 1 < q /\ q - 1 # NumPages - 1 /\ (q - 1) + 1 = q
          BY <1>2, <2>2
    <3>2. q - 1 \notin T
          BY <1>2, <3>1
    <3> QED
        BY <3>1, <3>2
  <2> QED
      BY <2>1, <2>2
<1>4. q \in p .. NumPages - 1 /\ (q = NumPages - 1 \/ ~SameState(p, q + 1))
      BY <1>2
<1> DEFINE c == CHOOSE r \in p .. NumPages - 1 :
                  SameState(p, r) /\ (r = NumPages - 1 \/ ~SameState(p, r + 1))
<1>5. c \in p .. NumPages - 1 /\ SameState(p, c) /\ (c = NumPages - 1 \/ ~SameState(p, c + 1))
      BY <1>3, <1>4
<1>6. RegionEnd(p) = 1 + c
      BY DEF RegionEnd
<1> HIDE DEF c
<1>7. RegionEnd(p) - p \in Nat /\ RegionEnd(p) \in p + 1 .. NumPages /\ RegionEnd(p) - 1 = c
      BY <1>5, <1>6
<1>8. \A n \in p .. c : n \in Mapped <=> p \in Mapped
      BY <1>5 DEF SameState
<1>9. c = NumPages - 1 \/ ~(c + 1 \in Mapped <=> p \in Mapped)
  <2>1. ASSUME c # NumPages - 1, c + 1 \in Mapped <=> p \in Mapped
        PROVE  \A n \in p .. c + 1 : n \in Mapped <=> p \in Mapped
    <3> TAKE n \in p .. c + 1
    <3>1. n \in p .. c \/ n = c + 1
          BY <1>5
    <3> QED
        BY <1>8, <2>1, <3>1
  <2> QED
      BY <1>5, <2>1 DEF SameState
<1>10. RegionSize(p) \in Nat
      BY <1>7 DEF RegionSize
<1>11. c = NumPages - 1 => RegionEnd(p) = NumPages
      BY <1>5, <1>6
<1>12. c + 1 = RegionEnd(p)
      BY <1>5, <1>6
<1> QED
    BY <1>7, <1>8, <1>9, <1>10, <1>11, <1>12

\* The gaps Linux finds are ranges of addresses.
LEMMA LinuxRegions ==
  ASSUME NEW S \in SUBSET Pages PROVE FreeRegionsOf(S) \subseteq [start : Nat, end : Nat]
<1> DEFINE R == {AddressRange(p * PageSize, (p + 1) * PageSize) : p \in S}
           E == {0} \cup {r.end : r \in R}
           B == {r.start : r \in R}
           Gaps == {g \in E \X B : g[1] < g[2] /\ \A b \in B : b < g[1] \/ g[2] <= b}
           Rest == {e \in E : e < MaxAddress /\ \A b \in B : b < e}
<1>1. \A p \in S : p * PageSize \in Nat /\ (p + 1) * PageSize \in Nat
  <2> TAKE p \in S
  <2>1. p \in Nat /\ PageSize \in Nat
        BY AllocatorAssumption DEF Pages
  <2> QED
      BY <2>1
<1>2. \A r \in R : r.start \in Nat /\ r.end \in Nat
      BY <1>1 DEF AddressRange
<1> HIDE DEF R
<1>3. E \subseteq Nat /\ B \subseteq Nat
      BY <1>2
<1>4. FreeRegionsOf(S) = {AddressRange(g[1], g[2] - 1) : g \in Gaps}
                           \cup {AddressRange(e, MaxAddress) : e \in Rest}
      BY DEF FreeRegionsOf, FreeRegions, R
<1> HIDE DEF E, B
<1>5. \A g \in Gaps : g[1] \in Nat /\ g[2] - 1 \in Nat
  <2> TAKE g \in Gaps
  <2>1. g[1] \in E /\ g[2] \in B /\ g[1] < g[2]
        OBVIOUS
  <2> DEFINE x == g[1]
             y == g[2]
  <2>2. x \in Nat /\ y \in Nat /\ x < y
        BY <1>3, <2>1
  <2> HIDE DEF x, y
  <2>3. y - 1 \in Nat
        BY <2>2
  <2> QED
      BY <2>2, <2>3 DEF x, y
<1>6. \A e \in Rest : e \in Nat
      BY <1>3
<1> HIDE DEF Gaps, Rest
<1>7. {AddressRange(g[1], g[2] - 1) : g \in Gaps} \subseteq [start : Nat, end : Nat]
      BY <1>5 DEF AddressRange
<1>8. {AddressRange(e, MaxAddress) : e \in Rest} \subseteq [start : Nat, end : Nat]
      BY <1>6, AllocatorAssumption DEF AddressRange
<1> QED
    BY <1>4, <1>7, <1>8

-----------------------------------------------------------------------------
\* Steps of the call

\* A sequence of addresses without its first one.
LEMMA RestOfSequence ==
  ASSUME NEW s \in Seq(Nat), s # <<>>
  PROVE  /\ 1 \in DOMAIN s /\ Head(s) = s[1] /\ Head(s) \in Nat
         /\ Tail(s) \in Seq(Nat)
         /\ \A i \in DOMAIN Tail(s) : i + 1 \in DOMAIN s /\ Tail(s)[i] = s[i + 1]
<1>1. Len(s) \in Nat \ {0} /\ DOMAIN s = 1 .. Len(s)
      OBVIOUS
<1>2. 1 \in DOMAIN s /\ Head(s) = s[1] /\ Head(s) \in Nat
      BY <1>1
<1>3. Tail(s) \in Seq(Nat) /\ Len(Tail(s)) = Len(s) - 1
      BY <1>1
<1>4. ASSUME NEW i \in DOMAIN Tail(s) PROVE i + 1 \in DOMAIN s /\ Tail(s)[i] = s[i + 1]
  <2>1. i \in 1 .. Len(s) - 1
        BY <1>1, <1>3
  <2> QED
      BY <1>1, <2>1
<1> QED
    BY <1>2, <1>3, <1>4

\* What PlacesIn returns suits the call.
LEMMA Places ==
  ASSUME AllocInv, NEW first \in Nat, NEW last \in Nat
  PROVE  /\ PlacesIn(first, last) \in Seq(Nat)
         /\ \A i \in DOMAIN PlacesIn(first, last) : Placed(call, PlacesIn(first, last)[i])
<1> DEFINE s == PlacesIn(first, last)
           min == call.min
           max == call.max
           size == call.size
<1>1. min \in Nat /\ max \in Nat /\ size \in Nat
      BY WordAssumption DEF AllocInv, AllocTypes, CallType
<1>2. s = GetPossibleBufferAddresses(min, max, AddressRange(first, last), size,
                                     AllocationGranularity)
      BY DEF PlacesIn
<1> HIDE DEF s, min, max, size
<1>3. /\ s \in Seq(Nat)
      /\ \A i \in DOMAIN s : /\ s[i] % AllocationGranularity = 0
                             /\ min <= s[i]
                             /\ AddWithOverflowCap(s[i], size) <= max
      BY <1>1, <1>2, Candidates
<1> QED
    BY <1>3 DEF Placed, s, min, max, size

\* The call fits: what Fits says does not change with the memory.
LEMMA FitsNext ==
  ASSUME os' = os, Fits(call') PROVE CallFits'
<1>1. AllocationGranularity' = AllocationGranularity
      BY DEF AllocationGranularity
<1> QED
    BY <1>1 DEF CallFits, Fits, Placed, Usable, PagesOf, Pages, AddWithOverflowCap, Smaller

\* The rest of the process, the blocks of the client and the call stay apart when the
\* memory and what the call has mapped stay the same.
LEMMA SameMemory ==
  ASSUME AllocInv, AllocTypes', CallFits', Pending' = Pending,
         os' = os, others' = others, ours' = ours, held' = held
  PROVE  AllocInv'
<1>1. PagesHeld' = PagesHeld
      BY DEF PagesHeld, PagesOf
<1>2. ours = PagesHeld \cup Pending
      BY DEF AllocInv, NothingLeaked, Pending
<1>3. NothingLeaked'
  <2>1. (ours = PagesHeld \cup Pending)'
        BY <1>1, <1>2
  <2> QED
      BY <2>1 DEF NothingLeaked, Pending
<1>4. PagesApart'
      BY <1>1 DEF AllocInv, PagesApart, BlockPages, PagesOf
<1> QED
    BY <1>3, <1>4 DEF AllocInv

\* So does every step of the search, which only changes the call.
LEMMA SearchStep ==
  ASSUME AllocInv, call.at \notin {"protect", "unmap", "ok"},
         call' \in CallType, Fits(call'), call'.at \notin {"protect", "unmap", "ok"},
         os' = os, others' = others, ours' = ours, held' = held,
         env' \in Nat, quiet' \in BOOLEAN, errors' \in Nat
  PROVE  AllocInv'
<1>1. AllocTypes'
      BY DEF AllocInv, AllocTypes, CallType, BlockType, Pages
<1>2. CallFits'
      BY FitsNext
<1>3. Pending = {} /\ Pending' = {}
      BY DEF Pending, Fits, AllocInv, CallFits
<1> QED
    BY <1>1, <1>2, <1>3, SameMemory

\* Free pages are mapped: they are what the call then has.
LEMMA MapStep ==
  ASSUME AllocInv, call.at \notin {"protect", "unmap", "ok"},
         NEW P, IsFree(P), ours' = ours \cup P, Pending' = P,
         call' \in CallType, Fits(call'),
         os' = os, others' = others, held' = held, history' = history, errors' = errors
  PROVE  AllocInv'
<1>1. P \subseteq Pages /\ P \cap others = {} /\ P \cap ours = {}
      BY DEF IsFree, Mapped
<1>2. AllocTypes'
      BY <1>1 DEF AllocInv, AllocTypes, CallType, BlockType, Pages, history
<1>3. CallFits'
      BY FitsNext
<1>4. Pending = {}
      BY DEF Pending, Fits, AllocInv, CallFits
<1>5. ours = PagesHeld
      BY <1>4 DEF AllocInv, NothingLeaked, Pending
<1>6. PagesHeld' = PagesHeld
      BY DEF PagesHeld, PagesOf
<1>7. (ours = PagesHeld \cup Pending)'
      BY <1>5, <1>6
<1>8. NothingLeaked'
      BY <1>7 DEF NothingLeaked, Pending
<1>9. PagesApart'
  <2>1. (others \cap ours = {})'
        BY <1>1 DEF AllocInv, PagesApart
  <2>2. (\A a, b \in held : a # b => BlockPages(a) \cap BlockPages(b) = {})'
        BY DEF AllocInv, PagesApart, BlockPages, PagesOf
  <2>3. (Pending \cap PagesHeld = {})'
        BY <1>1, <1>5, <1>6
  <2> QED
      BY <2>1, <2>2, <2>3 DEF PagesApart
<1> QED
    BY <1>2, <1>3, <1>8, <1>9 DEF AllocInv

\* allocate_private_memory begins: sanitize leaves a size of 0 or one that is long enough.
LEMMA AllocateStep ==
  ASSUME AllocInv, NEW r \in AllocRequests, AllocatePrivateMemory(r) PROVE AllocInv'
<1> DEFINE g == AllocationGranularity
           size == SanitizedSize(r.size, g)
           min == SanitizedMin(r.min, g, os = "windows")
<1>1. /\ r.size \in 0 .. U32 - 1 /\ r.min \in Nat /\ r.max \in 0 .. UsizeMax
      /\ r.brute_force \in BOOLEAN
      BY AllocatorAssumption, WordAssumption
<1>2. size \in 0 .. U32 - 1 /\ (size = 0 \/ size >= r.size)
      BY <1>1, Granularity, SanitizedSizes
<1>3. min \in Nat
      BY <1>1, Granularity DEF SanitizedMin, Larger
<1> HIDE DEF size, min
<1>4. /\ call.at = "idle"
      /\ call' = [NoCall EXCEPT !.at = IF os = "windows" THEN "open" ELSE "pass",
                                !.wanted = r.size, !.size = size, !.min = min, !.max = r.max,
                                !.brute_force = r.brute_force]
      /\ quiet' = TRUE /\ os' = os /\ others' = others /\ ours' = ours /\ env' = env
      /\ held' = held /\ errors' = errors
      BY DEF AllocatePrivateMemory, Allocate, size, min, memory
<1>5. call' \in CallType
  <2>1. NoCall \in CallType
        BY WordAssumption DEF CallType, NoCall
  <2> QED
      BY <1>1, <1>2, <1>3, <1>4, <2>1 DEF CallType
<1>6. Fits(call') /\ call'.at \in {"open", "pass"}
      BY <1>2, <1>4 DEF Fits, NoCall
<1>7. env \in Nat /\ errors \in Nat
      BY DEF AllocInv, AllocTypes
<1> QED
    BY <1>4, <1>5, <1>6, <1>7, SearchStep

\* What the steps of the search leave alone.
LEMMA CallOnly ==
  ASSUME AllocInv, call.at \in {"open", "pass", "region", "map"},
         NEW at \in {"pass", "region", "map", "error"}, NEW tries \in Nat,
         NEW regions \in SUBSET [start : Nat, end : Nat], NEW current \in Nat,
         NEW candidates \in Seq(Nat),
         \A i \in DOMAIN candidates : Placed(call, candidates[i]),
         call' = [call EXCEPT !.at = at, !.tries = tries, !.regions = regions,
                              !.current = current, !.candidates = candidates],
         os' = os, others' = others, ours' = ours, env' = env, quiet' \in BOOLEAN,
         held' = held, errors' = errors
  PROVE  AllocInv'
<1>1. call \in CallType /\ Fits(call) /\ env \in Nat /\ errors \in Nat
      BY DEF AllocInv, AllocTypes, CallFits
<1>2. call' \in CallType
      BY <1>1 DEF CallType
<1>3. /\ call'.at = at /\ call'.size = call.size /\ call'.wanted = call.wanted
      /\ call'.min = call.min /\ call'.max = call.max /\ call'.stray = call.stray
      /\ call'.candidates = candidates
      BY <1>1 DEF CallType
<1>4. Fits(call')
      BY <1>1, <1>3 DEF Fits, Placed
<1> QED
    BY <1>1, <1>2, <1>3, <1>4, SearchStep

\* The walk through the memory, on every system.
LEMMA WalkSteps ==
  ASSUME AllocInv, held' = held, errors' = errors,
         \/ ReadMap \/ LinuxRegion
         \/ OpenProcess \/ StartWalk \/ WindowsRegion
         \/ StartRegions \/ OsxRegion \/ OsxRegionFails
         \/ GiveUp \/ NoCandidateLeft \/ MapRefused
  PROVE  AllocInv'
<1> USE DEF memory, history
<1>1. /\ call \in CallType /\ Fits(call) /\ quiet \in BOOLEAN /\ env \in Nat
      /\ \A i \in DOMAIN call.candidates : Placed(call, call.candidates[i])
      BY DEF AllocInv, AllocTypes, CallFits, Fits
<1>2. /\ call.tries \in Nat /\ call.regions \in SUBSET [start : Nat, end : Nat]
      /\ call.current \in Nat /\ call.candidates \in Seq(Nat) /\ call.max \in Nat
      /\ call.min \in Nat
      BY <1>1, WordAssumption DEF CallType
<1>3. Mapped \in SUBSET Pages
      BY DEF Mapped, AllocInv, AllocTypes
<1>4. ASSUME NEW regions \in SUBSET [start : Nat, end : Nat], BeginPass(regions) PROVE AllocInv'
  <2>1. /\ call.at = "pass" /\ os' = os /\ others' = others /\ ours' = ours /\ env' = env
        /\ quiet' \in BOOLEAN
        /\ call' = [call EXCEPT !.at = "region", !.tries = call.tries + 1, !.regions = regions,
                                !.current = call.min, !.candidates = call.candidates]
        BY <1>1, <1>4 DEF BeginPass, CallType
  <2>2. call.tries + 1 \in Nat
        BY <1>2
  <2> QED
      BY <1>1, <1>2, <2>1, <2>2, CallOnly
<1>5. CASE ReadMap
      BY <1>3, <1>4, <1>5, LinuxRegions DEF ReadMap
<1>6. CASE StartWalk \/ StartRegions
      BY <1>4, <1>6 DEF StartWalk, StartRegions
<1>7. CASE LinuxRegion
  <2>1. call.at = "region" /\ os' = os /\ others' = others /\ ours' = ours /\ env' = env
        /\ quiet' \in BOOLEAN
        BY <1>1, <1>7 DEF LinuxRegion
  <2>2. CASE call' = [call EXCEPT !.at = "pass", !.regions = {}]
    <3>1. call' = [call EXCEPT !.at = "pass", !.tries = call.tries, !.regions = {},
                               !.current = call.current, !.candidates = call.candidates]
          BY <1>1, <2>2 DEF CallType
    <3> QED
        BY <1>1, <1>2, <2>1, <3>1, CallOnly
  <2>3. ASSUME NEW r \in call.regions,
               call' = [call EXCEPT !.at = "map", !.regions = @ \ {r},
                                    !.candidates = PlacesIn(r.start, r.end)]
        PROVE  AllocInv'
    <3> DEFINE s == PlacesIn(r.start, r.end)
    <3>1. call' = [call EXCEPT !.at = "map", !.tries = call.tries,
                               !.regions = call.regions \ {r},
                               !.current = call.current, !.candidates = s]
          BY <1>1, <2>3 DEF CallType
    <3>2. s \in Seq(Nat) /\ \A i \in DOMAIN s : Placed(call, s[i])
          BY <1>2, Places
    <3>3. call.regions \ {r} \in SUBSET [start : Nat, end : Nat]
          BY <1>2
    <3> HIDE DEF s
    <3> QED
        BY <1>2, <2>1, <3>1, <3>2, <3>3, CallOnly
  <2> QED
      BY <1>7, <2>2, <2>3 DEF LinuxRegion
<1>8. CASE OpenProcess
  <2>1. PICK at \in {"pass", "error"} : call' = [call EXCEPT !.at = at]
        BY <1>8 DEF OpenProcess
  <2>2. /\ call.at = "open" /\ os' = os /\ others' = others /\ ours' = ours /\ env' = env
        /\ quiet' \in BOOLEAN
        BY <1>1, <1>8 DEF OpenProcess
  <2>3. call' = [call EXCEPT !.at = at, !.tries = call.tries, !.regions = call.regions,
                             !.current = call.current, !.candidates = call.candidates]
        BY <1>1, <2>1 DEF CallType
  <2> QED
      BY <1>1, <1>2, <2>2, <2>3, CallOnly
<1>9. CASE GiveUp \/ NoCandidateLeft
  <2>1. PICK at \in {"region", "error"} : call' = [call EXCEPT !.at = at]
        BY <1>9 DEF GiveUp, NoCandidateLeft
  <2>2. /\ call.at \in {"pass", "map"} /\ os' = os /\ others' = others /\ ours' = ours
        /\ env' = env /\ quiet' \in BOOLEAN
        BY <1>1, <1>9 DEF GiveUp, NoCandidateLeft
  <2>3. call' = [call EXCEPT !.at = at, !.tries = call.tries, !.regions = call.regions,
                             !.current = call.current, !.candidates = call.candidates]
        BY <1>1, <2>1 DEF CallType
  <2> QED
      BY <1>1, <1>2, <2>2, <2>3, CallOnly
<1>10. CASE MapRefused
  <2>1. /\ call.at = "map" /\ os' = os /\ others' = others /\ ours' = ours /\ env' = env
        /\ quiet' \in BOOLEAN /\ call.candidates # <<>>
        /\ call' = [call EXCEPT !.candidates = Tail(@)]
        BY <1>1, <1>10 DEF MapRefused, Trying
  <2>2. call' = [call EXCEPT !.at = "map", !.tries = call.tries, !.regions = call.regions,
                             !.current = call.current, !.candidates = Tail(call.candidates)]
        BY <1>1, <2>1 DEF CallType
  <2>3. /\ Tail(call.candidates) \in Seq(Nat)
        /\ \A i \in DOMAIN Tail(call.candidates) : Placed(call, Tail(call.candidates)[i])
        BY <1>1, <1>2, <2>1, RestOfSequence
  <2> DEFINE s == Tail(call.candidates)
  <2>4. /\ s \in Seq(Nat) /\ \A i \in DOMAIN s : Placed(call, s[i])
        /\ call' = [call EXCEPT !.at = "map", !.tries = call.tries, !.regions = call.regions,
                                !.current = call.current, !.candidates = s]
        BY <2>2, <2>3
  <2> HIDE DEF s
  <2>5. /\ call.at = "map" /\ os' = os /\ others' = others /\ ours' = ours /\ env' = env
        /\ quiet' \in BOOLEAN
        BY <2>1
  <2> QED
      BY <1>2, <2>4, <2>5, CallOnly
<1>11. CASE WindowsRegion
  <2> DEFINE p == call.current \div PageSize
             s == IF p \in Mapped THEN <<>>
                                  ELSE PlacesIn(p * PageSize, p * PageSize + RegionSize(p))
             n == IF call.tries <= RetryCount THEN RegionSize(p) ELSE AllocationGranularity
  <2>1. /\ call.at = "region" /\ os' = os /\ others' = others /\ ours' = ours /\ env' = env
        /\ quiet' \in BOOLEAN
        BY <1>1, <1>11 DEF WindowsRegion
  <2>2. \/ call' = [call EXCEPT !.at = "pass"]
        \/ p \in Pages /\ call' = [call EXCEPT !.at = "map", !.candidates = s, !.current = @ + n]
        BY <1>11 DEF WindowsRegion
  <2>3. CASE call' = [call EXCEPT !.at = "pass"]
    <3>1. call' = [call EXCEPT !.at = "pass", !.tries = call.tries, !.regions = call.regions,
                               !.current = call.current, !.candidates = call.candidates]
          BY <1>1, <2>3 DEF CallType
    <3> QED
        BY <1>1, <1>2, <2>1, <3>1, CallOnly
  <2>4. CASE p \in Pages /\ call' = [call EXCEPT !.at = "map", !.candidates = s, !.current = @ + n]
    <3>1. RegionSize(p) \in Nat
          BY <2>4, WindowsPages
    <3>2. p * PageSize \in Nat /\ p * PageSize + RegionSize(p) \in Nat
      <4>1. p \in Nat /\ PageSize \in Nat
            BY <2>4, AllocatorAssumption DEF Pages
      <4> HIDE DEF p
      <4> QED
          BY <3>1, <4>1
    <3>3. call.current + n \in Nat
          BY <1>2, <3>1, Granularity
    <3>4. s \in Seq(Nat) /\ \A i \in DOMAIN s : Placed(call, s[i])
      <4>1. CASE p \in Mapped
            BY <4>1
      <4>2. CASE p \notin Mapped
        <5>1. s = PlacesIn(p * PageSize, p * PageSize + RegionSize(p))
              BY <4>2
        <5> QED
            BY <3>2, <5>1, Places
      <4> QED
          BY <4>1, <4>2
    <3> HIDE DEF s, n
    <3>5. call' = [call EXCEPT !.at = "map", !.tries = call.tries, !.regions = call.regions,
                               !.current = call.current + n, !.candidates = s]
          BY <1>1, <2>4 DEF CallType
    <3> QED
        BY <1>2, <2>1, <3>3, <3>4, <3>5, CallOnly
  <2> QED
      BY <2>2, <2>3, <2>4
<1>12. CASE OsxRegion
  <2> DEFINE rest == MappedFrom(call.current)
             gapEnd == IF rest = {} THEN Limit ELSE FirstOf(rest) * PageSize
             s == IF gapEnd > call.current THEN PlacesIn(call.current, gapEnd) ELSE <<>>
             n == IF rest = {} THEN Limit + 1 ELSE EndOf(rest) * PageSize
  <2>1. /\ call.at = "region" /\ os' = os /\ others' = others /\ ours' = ours /\ env' = env
        /\ quiet' \in BOOLEAN
        BY <1>1, <1>12 DEF OsxRegion
  <2>2. \/ call' = [call EXCEPT !.at = "pass"]
        \/ call' = [call EXCEPT !.at = "map", !.candidates = s, !.current = n]
        BY <1>12 DEF OsxRegion
  <2>3. CASE call' = [call EXCEPT !.at = "pass"]
    <3>1. call' = [call EXCEPT !.at = "pass", !.tries = call.tries, !.regions = call.regions,
                               !.current = call.current, !.candidates = call.candidates]
          BY <1>1, <2>3 DEF CallType
    <3> QED
        BY <1>1, <1>2, <2>1, <3>1, CallOnly
  <2>4. CASE call' = [call EXCEPT !.at = "map", !.candidates = s, !.current = n]
    <3>1. rest \in SUBSET Pages
          BY <1>3 DEF MappedFrom
    <3>2. Limit \in Nat
          BY <1>2, AllocatorAssumption DEF Limit, Smaller
    <3> HIDE DEF rest
    <3>3. gapEnd \in Nat /\ n \in Nat
      <4>1. CASE rest = {}
            BY <3>2, <4>1
      <4>2. CASE rest # {}
        <5>1. FirstOf(rest) \in Nat /\ EndOf(rest) \in Nat /\ PageSize \in Nat
              BY <3>1, <4>2, OsxPages, AllocatorAssumption DEF Pages
        <5> QED
            BY <4>2, <5>1
      <4> QED
          BY <4>1, <4>2
    <3> HIDE DEF gapEnd, n
    <3>4. s \in Seq(Nat) /\ \A i \in DOMAIN s : Placed(call, s[i])
      <4>1. CASE gapEnd > call.current
            BY <1>2, <3>3, <4>1, Places
      <4>2. CASE ~(gapEnd > call.current)
            BY <4>2
      <4> QED
          BY <4>1, <4>2
    <3> HIDE DEF s
    <3>5. call' = [call EXCEPT !.at = "map", !.tries = call.tries, !.regions = call.regions,
                               !.current = n, !.candidates = s]
          BY <1>1, <2>4 DEF CallType
    <3> QED
        BY <1>2, <2>1, <3>3, <3>4, <3>5, CallOnly
  <2> QED
      BY <2>2, <2>3, <2>4
<1>13. CASE OsxRegionFails
  <2>1. /\ call.at = "region" /\ os' = os /\ others' = others /\ ours' = ours /\ env' = env
        /\ quiet' \in BOOLEAN
        BY <1>13 DEF OsxRegionFails
  <2>2. call' = [call EXCEPT !.at = "pass", !.tries = call.tries, !.regions = call.regions,
                             !.current = call.current, !.candidates = call.candidates]
        BY <1>1, <1>13 DEF OsxRegionFails, CallType
  <2> QED
      BY <1>1, <1>2, <2>1, <2>2, CallOnly
<1> QED
    BY <1>5, <1>6, <1>7, <1>8, <1>9, <1>10, <1>11, <1>12, <1>13

\* The system maps what was asked for: the address is one of the candidates.
LEMMA MapThereStep ==
  ASSUME AllocInv, MapThere, held' = held, errors' = errors PROVE AllocInv'
<1> DEFINE h == Head(call.candidates)
           P == PagesOf(h, call.size)
<1>1. call \in CallType /\ Fits(call)
      BY DEF AllocInv, AllocTypes, CallFits
<1>2. /\ call.at = "map" /\ call.candidates # <<>> /\ IsFree(P) /\ ours' = ours \cup P
      /\ os' = os /\ others' = others /\ history' = history
      /\ call' = IF os = "macos" THEN [call EXCEPT !.at = "protect", !.stray = P]
                                 ELSE [call EXCEPT !.at = "ok", !.result = h]
      BY DEF MapThere, Trying, Wanted, history
<1>3. h \in Nat /\ Placed(call, h) /\ call.candidates \in Seq(Nat)
      BY <1>1, <1>2, RestOfSequence DEF Fits, CallType
<1>4. Usable(P) /\ P \in SUBSET Pages
      BY <1>2 DEF IsFree, Usable
<1>5. call.stray = {}
      BY <1>1, <1>2 DEF Fits
<1> HIDE DEF P, h
<1>6. call' \in CallType
      BY <1>1, <1>2, <1>3, <1>4 DEF CallType
<1>7. /\ call'.size = call.size /\ call'.wanted = call.wanted /\ call'.min = call.min
      /\ call'.max = call.max /\ call'.candidates = call.candidates
      BY <1>1, <1>2 DEF CallType
<1>8. \/ call'.at = "protect" /\ call'.stray = P
      \/ call'.at = "ok" /\ call'.stray = {} /\ call'.result = h
      BY <1>1, <1>2, <1>5 DEF CallType
<1>9. Fits(call')
  <2>1. \A i \in DOMAIN call'.candidates : Placed(call', call'.candidates[i])
        BY <1>1, <1>7 DEF Fits, Placed
  <2>2. Placed(call', h)
        BY <1>3, <1>7 DEF Placed
  <2> QED
      BY <1>1, <1>2, <1>4, <1>7, <1>8, <2>1, <2>2 DEF Fits, P, h
<1>10. Pending' = P
  <2>1. PagesOf(call'.result, call'.size) = P \/ call'.at = "protect"
        BY <1>7, <1>8 DEF P, PagesOf
  <2> QED
      BY <1>8, <2>1 DEF Pending, PagesOf
<1> QED
    BY <1>2, <1>6, <1>9, <1>10, MapStep

\* An older Linux maps something else, which is to be given back.
LEMMA MapElsewhereStep ==
  ASSUME AllocInv, NEW base \in 0 .. MaxAddress, MapElsewhere(base), held' = held, errors' = errors
  PROVE  AllocInv'
<1> DEFINE P == PagesOf(base, call.size)
           s == Tail(call.candidates)
<1>1. call \in CallType /\ Fits(call)
      BY DEF AllocInv, AllocTypes, CallFits
<1>2. /\ call.at = "map" /\ call.candidates # <<>> /\ IsFree(P) /\ ours' = ours \cup P
      /\ os' = os /\ others' = others /\ history' = history
      /\ call' = [call EXCEPT !.at = "unmap", !.candidates = s, !.stray = P]
      BY DEF MapElsewhere, Trying, history
<1>3. s \in Seq(Nat) /\ \A i \in DOMAIN s : Placed(call, s[i])
      BY <1>1, <1>2, RestOfSequence DEF Fits, CallType
<1>4. P \in SUBSET Pages
      BY <1>2 DEF IsFree
<1> HIDE DEF P, s
<1>5. call' \in CallType
      BY <1>1, <1>2, <1>3, <1>4 DEF CallType
<1>6. /\ call'.at = "unmap" /\ call'.size = call.size /\ call'.wanted = call.wanted
      /\ call'.min = call.min /\ call'.max = call.max /\ call'.candidates = s
      /\ call'.stray = P
      BY <1>1, <1>2 DEF CallType
<1>7. Fits(call')
      BY <1>1, <1>3, <1>6 DEF Fits, Placed
<1>8. Pending' = P
      BY <1>6 DEF Pending
<1> QED
    BY <1>2, <1>5, <1>7, <1>8, MapStep

\* macOS protects what it mapped, or has to give it back.
LEMMA ProtectStep ==
  ASSUME AllocInv, Protect, held' = held, errors' = errors PROVE AllocInv'
<1> DEFINE h == Head(call.candidates)
           s == Tail(call.candidates)
           P == PagesOf(h, call.size)
<1>1. call \in CallType /\ Fits(call)
      BY DEF AllocInv, AllocTypes, CallFits
<1>2. call.at = "protect" /\ os' = os /\ others' = others /\ ours' = ours /\ env' = env
      BY DEF Protect, memory
<1>3. call.candidates # <<>> /\ call.stray = P /\ Usable(P)
      BY <1>1, <1>2 DEF Fits
<1>4. /\ call.candidates \in Seq(Nat) /\ h \in Nat /\ Placed(call, h)
      /\ s \in Seq(Nat) /\ \A i \in DOMAIN s : Placed(call, s[i])
      BY <1>1, <1>3, RestOfSequence DEF Fits, CallType
<1>5. quiet' \in BOOLEAN
      BY DEF Protect, AllocInv, AllocTypes
<1> HIDE DEF P, s, h
<1>6. \/ call' = [call EXCEPT !.at = "ok", !.result = h, !.stray = {}]
      \/ call' = [call EXCEPT !.at = "unmap", !.candidates = s]
      BY DEF Protect, h, s
<1>7. call' \in CallType
      BY <1>1, <1>4, <1>6, ZenonT(60) DEF CallType
<1>8. /\ call'.size = call.size /\ call'.wanted = call.wanted
      /\ call'.min = call.min /\ call'.max = call.max
      BY <1>1, <1>6, ZenonT(60) DEF CallType
<1>9. \/ /\ call'.at = "ok" /\ call'.stray = {} /\ call'.result = h
         /\ call'.candidates = call.candidates
      \/ call'.at = "unmap" /\ call'.stray = P /\ call'.candidates = s
      BY <1>1, <1>3, <1>6 DEF CallType
<1>10. PagesOf(h, call'.size) = P
      BY <1>8 DEF P
<1>11. Fits(call')
  <2>1. \A i \in DOMAIN call'.candidates : Placed(call', call'.candidates[i])
        BY <1>1, <1>4, <1>8, <1>9 DEF Fits, Placed
  <2>2. Placed(call', h)
        BY <1>4, <1>8 DEF Placed
  <2> QED
      BY <1>1, <1>2, <1>3, <1>8, <1>9, <1>10, <2>1, <2>2 DEF Fits
<1>12. Pending = P /\ Pending' = P
  <2>1. Pending = P
        BY <1>2, <1>3 DEF Pending
  <2>2. (PagesOf(call.result, call.size))' = PagesOf(call'.result, call'.size)
        BY DEF PagesOf
  <2> QED
      BY <1>9, <1>10, <2>1, <2>2 DEF Pending
<1>13. AllocTypes'
      BY <1>2, <1>5, <1>7 DEF AllocInv, AllocTypes, CallType, BlockType, Pages
<1> QED
    BY <1>2, <1>11, <1>12, <1>13, FitsNext, SameMemory

\* macOS maps nothing, at null.
LEMMA MapNothingStep ==
  ASSUME AllocInv, MapNothing, held' = held, errors' = errors PROVE AllocInv'
<1>1. call \in CallType /\ Fits(call)
      BY DEF AllocInv, AllocTypes, CallFits
<1>2. /\ call.at = "map" /\ call.size = 0 /\ os = "macos"
      /\ os' = os /\ others' = others /\ ours' = ours /\ env' = env /\ quiet' = quiet
      /\ call' = [call EXCEPT !.at = "ok", !.result = 0]
      BY DEF MapNothing, Trying, memory, history
<1>3. call' \in CallType
      BY <1>1, <1>2, ZenonT(60) DEF CallType
<1>4. /\ call'.size = 0 /\ call'.wanted = call.wanted /\ call'.min = call.min
      /\ call'.max = call.max /\ call'.candidates = call.candidates
      /\ call'.stray = call.stray /\ call'.at = "ok" /\ call'.result = 0
      BY <1>1, <1>2 DEF CallType
<1>5. Fits(call')
      BY <1>1, <1>2, <1>4 DEF Fits, Placed
<1>6. Pending = {}
      BY <1>1, <1>2 DEF Pending, Fits
<1>7. Pending' = {}
  <2>1. PagesOf(0, 0) = {}
        BY BlockOfPages
  <2>2. (PagesOf(call.result, call.size))' = PagesOf(call'.result, call'.size)
        BY DEF PagesOf
  <2>3. call'.stray = {}
        BY <1>1, <1>2, <1>4 DEF Fits
  <2> QED
      BY <1>4, <2>1, <2>2, <2>3 DEF Pending
<1>8. AllocTypes'
      BY <1>2, <1>3 DEF AllocInv, AllocTypes, CallType, BlockType, Pages
<1> QED
    BY <1>2, <1>5, <1>6, <1>7, <1>8, FitsNext, SameMemory

\* What is given back was mapped for the call: nobody else loses a page.
LEMMA UnmapStrayStep ==
  ASSUME AllocInv, UnmapStray, held' = held, errors' = errors PROVE AllocInv' /\ others' = others
<1>1. call \in CallType /\ Fits(call)
      BY DEF AllocInv, AllocTypes, CallFits
<1>2. /\ call.at = "unmap" /\ ours' = ours \ call.stray /\ others' = others \ call.stray
      /\ call' = [call EXCEPT !.at = "map", !.stray = {}]
      /\ os' = os /\ env' = env /\ quiet' = quiet
      BY DEF UnmapStray, Unmap, history
<1>3. Pending = call.stray
      BY <1>2 DEF Pending
<1>4. ours = PagesHeld \cup call.stray
      BY <1>2 DEF AllocInv, NothingLeaked
<1>5. call.stray \cap PagesHeld = {} /\ call.stray \cap others = {}
      BY <1>3, <1>4 DEF AllocInv, PagesApart
<1>6. others' = others /\ ours' = PagesHeld
      BY <1>2, <1>4, <1>5
<1>7. call' \in CallType
      BY <1>1, <1>2 DEF CallType
<1>8. /\ call'.size = call.size /\ call'.wanted = call.wanted /\ call'.min = call.min
      /\ call'.max = call.max /\ call'.candidates = call.candidates
      /\ call'.at = "map" /\ call'.stray = {}
      BY <1>1, <1>2 DEF CallType
<1>9. Fits(call')
      BY <1>1, <1>8 DEF Fits, Placed
<1>10. PagesHeld' = PagesHeld
      BY DEF PagesHeld, PagesOf
<1>11. Pending' = {}
      BY <1>8 DEF Pending
<1>12. NothingLeaked'
      BY <1>6, <1>8, <1>10 DEF NothingLeaked
<1>13. PagesApart'
  <2>1. (others \cap ours = {})'
        BY <1>4, <1>6 DEF AllocInv, PagesApart
  <2>2. (\A a, b \in held : a # b => BlockPages(a) \cap BlockPages(b) = {})'
        BY DEF AllocInv, PagesApart, BlockPages, PagesOf
  <2> QED
      BY <1>11, <2>1, <2>2 DEF PagesApart
<1>14. AllocTypes'
      BY <1>2, <1>7 DEF AllocInv, AllocTypes, CallType, BlockType, Pages
<1> QED
    BY <1>2, <1>6, <1>9, <1>12, <1>13, <1>14, FitsNext DEF AllocInv

\* The state when no call is under way.
LEMMA NoCallFits ==
  NoCall \in CallType /\ Fits(NoCall) /\ NoCall.at = "idle" /\ NoCall.stray = {}
<1>1. NoCall \in CallType
      BY WordAssumption DEF CallType, NoCall
<1>2. Fits(NoCall) /\ NoCall.at = "idle" /\ NoCall.stray = {}
      BY DEF Fits, NoCall
<1> QED
    BY <1>1, <1>2

\* A block that is handed out: aligned pages other than page 0 are somewhere.
LEMMA ResultIsBlock ==
  ASSUME AllocInv, call.at = "ok", call.result # 0
  PROVE  Placed(call, call.result) /\ Usable(PagesOf(call.result, call.size))
BY DEF AllocInv, CallFits, Fits

\* The block passes from the call to the client.
LEMMA ReturnAllocationStep ==
  ASSUME AllocInv, ReturnAllocation PROVE AllocInv'
<1> DEFINE b == NewAllocation(call.result, call.size, ThisProcess)
<1>1. call \in CallType /\ Fits(call)
      BY DEF AllocInv, AllocTypes, CallFits
<1>2. /\ call.at = "ok" /\ call.result # 0 /\ held' = held \cup {b} /\ call' = NoCall
      /\ os' = os /\ others' = others /\ ours' = ours /\ env' = env /\ quiet' = quiet
      /\ errors' = errors
      BY DEF ReturnAllocation, memory, history
<1>3. b \in BlockType
      BY <1>1, <1>2, WordAssumption DEF BlockType, NewAllocation, CallType
<1>4. BlockPages(b) = PagesOf(call.result, call.size)
      BY DEF BlockPages, NewAllocation
<1>5. call.stray = {} /\ Pending = BlockPages(b)
      BY <1>1, <1>2, <1>4 DEF Pending, Fits
<1> HIDE DEF b
<1>6. ours = PagesHeld \cup BlockPages(b)
      BY <1>2, <1>4, <1>5 DEF AllocInv, NothingLeaked
<1>7. PagesHeld = UNION {BlockPages(a) : a \in held}
      BY DEF PagesHeld, BlockPages
<1>8. PagesHeld' = UNION {BlockPages(a) : a \in held'}
      BY DEF PagesHeld, BlockPages, PagesOf
<1>9. PagesHeld' = PagesHeld \cup BlockPages(b)
      BY <1>2, <1>7, <1>8
<1>10. Pending' = {}
      BY <1>2, NoCallFits DEF Pending
<1>11. NothingLeaked'
      BY <1>2, <1>6, <1>9, NoCallFits DEF NothingLeaked
<1>12. PagesApart'
  <2>1. \A a \in held : BlockPages(a) \cap BlockPages(b) = {}
        BY <1>5, <1>7 DEF AllocInv, PagesApart
  <2>2. \A a, c \in held' : a # c => BlockPages(a) \cap BlockPages(c) = {}
        BY <1>2, <2>1 DEF AllocInv, PagesApart
  <2>3. (\A a, c \in held : a # c => BlockPages(a) \cap BlockPages(c) = {})'
        BY <2>2 DEF BlockPages, PagesOf
  <2> QED
      BY <1>2, <1>10, <2>3 DEF PagesApart, AllocInv
<1>13. AllocTypes'
      BY <1>2, <1>3, NoCallFits DEF AllocInv, AllocTypes
<1> QED
    BY <1>2, <1>11, <1>12, <1>13, NoCallFits, FitsNext DEF AllocInv

\* Nothing passes to the client: null has no pages, and a search that ended in an error
\* or a panic has mapped none.
LEMMA ReturnNothingStep ==
  ASSUME AllocInv, ReturnNull \/ ReturnError \/ (ReadMapPanics /\ UNCHANGED <<held, errors>>)
  PROVE  AllocInv'
<1>1. call \in CallType /\ Fits(call) /\ errors \in Nat
      BY DEF AllocInv, AllocTypes, CallFits
<1>2. /\ held' = held /\ call' = NoCall
      /\ os' = os /\ others' = others /\ ours' = ours /\ env' = env /\ quiet' = quiet
      /\ errors' \in Nat
      BY <1>1 DEF ReturnNull, ReturnError, ReadMapPanics, memory, history
<1>3. Pending = {}
  <2>1. CASE call.at \in {"error", "pass"}
        BY <1>1, <2>1 DEF Pending, Fits
  <2>2. CASE call.at = "ok" /\ call.result = 0
    <3>1. call.size \in Nat
          BY <1>1, WordAssumption DEF CallType
    <3>2. PagesOf(0, call.size) # {} => 0 \in PagesOf(0, call.size)
          BY <3>1, BlockOfPages
    <3>3. PagesOf(0, 0) = {}
          BY BlockOfPages
    <3> QED
        BY <1>1, <2>2, <3>2, <3>3 DEF Pending, Fits, Usable
  <2> QED
      BY <2>1, <2>2 DEF ReturnNull, ReturnError, ReadMapPanics
<1>4. Pending' = {}
      BY <1>2, NoCallFits DEF Pending
<1>5. AllocTypes'
      BY <1>2, NoCallFits DEF AllocInv, AllocTypes
<1> QED
    BY <1>2, <1>3, <1>4, <1>5, NoCallFits, FitsNext, SameMemory

\* A block is freed: its pages are the client's, and only this block's.
LEMMA FreeAllocationStep ==
  ASSUME AllocInv, NEW b \in held, FreeAllocation(b) PROVE AllocInv' /\ others' = others
<1>1. b \in BlockType
      BY DEF AllocInv, AllocTypes
<1>2. /\ held' = held \ {b} /\ call' = call /\ os' = os /\ env' = env /\ errors' = errors
      /\ quiet' = FALSE
      /\ ours' = ours \ BlockPages(b) /\ others' = others \ BlockPages(b)
      BY <1>1 DEF FreeAllocation, DropAllocation, Unmap, BlockPages, BlockType
<1>3. PagesHeld = UNION {BlockPages(a) : a \in held}
      BY DEF PagesHeld, BlockPages
<1>4. PagesHeld' = UNION {BlockPages(a) : a \in held'}
      BY DEF PagesHeld, BlockPages, PagesOf
<1>5. \A a \in held : a # b => BlockPages(a) \cap BlockPages(b) = {}
      BY DEF AllocInv, PagesApart
<1>6. BlockPages(b) \subseteq PagesHeld
      BY <1>3
<1>7. PagesHeld' = PagesHeld \ BlockPages(b)
      BY <1>2, <1>3, <1>4, <1>5
<1>8. ours = PagesHeld \cup Pending
      BY DEF AllocInv, NothingLeaked, Pending
<1>9. Pending \cap PagesHeld = {} /\ others \cap ours = {}
      BY DEF AllocInv, PagesApart
<1>10. others' = others
      BY <1>2, <1>6, <1>8, <1>9
<1>11. Pending' = Pending
      BY <1>2 DEF Pending, PagesOf
<1>12. (ours = PagesHeld \cup Pending)'
      BY <1>2, <1>6, <1>7, <1>8, <1>9, <1>11
<1>13. NothingLeaked'
      BY <1>12 DEF NothingLeaked, Pending
<1>14. PagesApart'
  <2>1. (\A a, c \in held : a # c => BlockPages(a) \cap BlockPages(c) = {})'
        BY <1>2 DEF AllocInv, PagesApart, BlockPages, PagesOf
  <2>2. (others \cap ours = {})' /\ (Pending \cap PagesHeld = {})'
        BY <1>2, <1>7, <1>9, <1>10, <1>11
  <2> QED
      BY <2>1, <2>2 DEF PagesApart
<1>15. AllocTypes'
      BY <1>2, <1>10 DEF AllocInv, AllocTypes, CallType, BlockType, Pages
<1>16. Fits(call')
      BY <1>2 DEF AllocInv, CallFits
<1> QED
    BY <1>2, <1>10, <1>13, <1>14, <1>15, <1>16, FitsNext DEF AllocInv

\* The null allocation of an error is not unmapped.
LEMMA FreeErrorStep ==
  ASSUME AllocInv, FreeErrorResult PROVE AllocInv' /\ others' = others
<1>1. /\ errors > 0 /\ errors' = errors - 1 /\ others' = others /\ ours' = ours
      /\ os' = os /\ call' = call /\ env' = env /\ quiet' = quiet /\ held' = held
      BY DEF FreeErrorResult, DropAllocation, NullAllocation, NewAllocation, memory, history
<1>2. errors' \in Nat
      BY <1>1 DEF AllocInv, AllocTypes
<1>3. AllocTypes'
      BY <1>1, <1>2 DEF AllocInv, AllocTypes, CallType, BlockType, Pages
<1>4. Fits(call')
      BY <1>1 DEF AllocInv, CallFits
<1>5. Pending' = Pending
      BY <1>1 DEF Pending, PagesOf
<1> QED
    BY <1>1, <1>3, <1>4, <1>5, FitsNext, SameMemory

\* Others map what is free and unmap what is theirs.
LEMMA OthersSteps ==
  ASSUME AllocInv, OtherStep PROVE AllocInv' /\ env' # env
<1>1. PICK p \in Pages : OtherMaps(p) \/ OtherUnmaps(p)
      BY DEF OtherStep
<1>2. /\ os' = os /\ ours' = ours /\ call' = call /\ held' = held /\ errors' = errors
      /\ env' = env + 1 /\ quiet' = FALSE
      BY <1>1 DEF OtherStep, OtherMaps, OtherUnmaps
<1>3. others' \subseteq Pages /\ others' \cap ours = {}
  <2>1. CASE OtherMaps(p)
        BY <2>1 DEF OtherMaps, IsFree, Mapped, AllocInv, AllocTypes, PagesApart
  <2>2. CASE OtherUnmaps(p)
        BY <2>2 DEF OtherUnmaps, AllocInv, AllocTypes, PagesApart
  <2> QED
      BY <1>1, <2>1, <2>2
<1>4. env \in Nat
      BY DEF AllocInv, AllocTypes
<1>5. AllocTypes'
  <2>1. env' \in Nat
        BY <1>2, <1>4
  <2>2. quiet' \in BOOLEAN
        BY <1>2
  <2>3. (others \subseteq Pages)'
        BY <1>3 DEF Pages
  <2> QED
      BY <1>2, <2>1, <2>2, <2>3 DEF AllocInv, AllocTypes, CallType, BlockType, Pages
<1>6. Fits(call')
      BY <1>2 DEF AllocInv, CallFits
<1>7. Pending' = Pending /\ PagesHeld' = PagesHeld
      BY <1>2 DEF Pending, PagesHeld, PagesOf
<1>8. NothingLeaked'
  <2>1. (ours = PagesHeld \cup Pending)'
        BY <1>2, <1>7 DEF AllocInv, NothingLeaked, Pending
  <2> QED
      BY <2>1 DEF NothingLeaked, Pending
<1>9. PagesApart'
      BY <1>2, <1>3, <1>7 DEF AllocInv, PagesApart, BlockPages, PagesOf
<1> QED
    BY <1>2, <1>4, <1>5, <1>6, <1>8, <1>9, FitsNext DEF AllocInv

\* The program starts with nothing allocated.
LEMMA InitAlloc == ASSUME Init PROVE AllocInv
<1>1. /\ os \in Systems /\ others \subseteq Pages /\ ours = {} /\ call = NoCall /\ env = 0
      /\ quiet = TRUE /\ held = {} /\ errors = 0
      BY DEF Init, AllocInit
<1>2. Pending = {} /\ PagesHeld = {}
      BY <1>1, NoCallFits DEF Pending, PagesHeld
<1>3. NothingLeaked
      BY <1>1, <1>2 DEF NothingLeaked, Pending
<1>4. PagesApart
      BY <1>1, <1>2 DEF PagesApart
<1> QED
    BY <1>1, <1>3, <1>4, NoCallFits DEF AllocInv, AllocTypes, CallFits

\* Every step keeps the invariant, and only the rest of the process gives up memory of
\* the rest of the process.
LEMMA NextAlloc ==
  ASSUME AllocInv, [Next]_allocVars
  PROVE  AllocInv' /\ (others \ others' # {} => env' # env)
<1>1. CASE UNCHANGED allocVars
  <2>1. /\ os' = os /\ others' = others /\ ours' = ours /\ call' = call /\ env' = env
        /\ quiet' = quiet /\ held' = held /\ errors' = errors
        BY <1>1 DEF allocVars, memory, history
  <2>2. AllocTypes'
        BY <2>1 DEF AllocInv, AllocTypes, CallType, BlockType, Pages
  <2>3. Fits(call')
        BY <2>1 DEF AllocInv, CallFits
  <2>4. Pending' = Pending
        BY <2>1 DEF Pending, PagesOf
  <2> QED
      BY <2>1, <2>2, <2>3, <2>4, FitsNext, SameMemory
<1>2. ASSUME NEW r \in AllocRequests, AllocatePrivateMemory(r) PROVE AllocInv' /\ others' = others
      BY <1>2, AllocateStep DEF AllocatePrivateMemory, Allocate, memory
<1>3. CASE AllocatorStep
  <2>1. held' = held /\ errors' = errors
        BY <1>3 DEF AllocatorStep
  <2>2. CASE \/ ReadMap \/ LinuxRegion
             \/ OpenProcess \/ StartWalk \/ WindowsRegion
             \/ StartRegions \/ OsxRegion \/ OsxRegionFails
             \/ GiveUp \/ NoCandidateLeft \/ MapRefused
    <3>1. others' = others
          BY <2>2 DEF ReadMap, LinuxRegion, OpenProcess, StartWalk, WindowsRegion, StartRegions,
                      OsxRegion, OsxRegionFails, GiveUp, NoCandidateLeft, MapRefused,
                      BeginPass, memory
    <3> QED
        BY <2>1, <2>2, <3>1, WalkSteps
  <2>3. CASE MapThere
        BY <2>1, <2>3, MapThereStep DEF MapThere
  <2>4. ASSUME NEW base \in 0 .. MaxAddress, MapElsewhere(base) PROVE AllocInv' /\ others' = others
        BY <2>1, <2>4, MapElsewhereStep DEF MapElsewhere
  <2>5. CASE Protect
        BY <2>1, <2>5, ProtectStep DEF Protect, memory
  <2>6. CASE MapNothing
        BY <2>1, <2>6, MapNothingStep DEF MapNothing, memory
  <2>7. CASE UnmapStray
        BY <2>1, <2>7, UnmapStrayStep
  <2>8. CASE ReadMapPanics
        BY <2>1, <2>8, ReturnNothingStep DEF ReadMapPanics, memory
  <2> QED
      BY <1>3, <2>2, <2>3, <2>4, <2>5, <2>6, <2>7, <2>8
      DEF AllocatorStep, LinuxStep, WindowsStep, OsxStep
<1>4. CASE ReturnStep
  <2>1. others' = others
        BY <1>4 DEF ReturnStep, ReturnAllocation, ReturnNull, ReturnError, memory
  <2> QED
      BY <1>4, <2>1, ReturnAllocationStep, ReturnNothingStep DEF ReturnStep
<1>5. CASE OtherStep
      BY <1>5, OthersSteps
<1> QED
    BY <1>1, <1>2, <1>3, <1>4, <1>5, FreeAllocationStep, FreeErrorStep DEF Next

\* The invariant holds throughout.
LEMMA AllocAlways == AllocSpec => []AllocInv
<1>1. Init => AllocInv
      BY InitAlloc
<1>2. AllocInv /\ [Next]_allocVars => AllocInv'
      BY NextAlloc
<1> QED
    BY <1>1, <1>2, PTL DEF AllocSpec

-----------------------------------------------------------------------------
\* The invariant of the search

\* What is mapped apart from what the call will give back.
Background == Mapped \ call.stray

\* Pages the call can still map.
FreeFor(pages) == pages # {} /\ pages \subseteq Pages \ (Background \cup {0})

\* A place FindsRoom asks for.
Room(b) ==
  /\ b \in 1 .. MaxAddress
  /\ b % AllocationGranularity = 0
  /\ call.min <= b /\ b + call.size <= Limit
  /\ FreeFor(PagesOf(b, IF os = "linux" THEN call.size + 1 ELSE call.size))

\* No mapped page reaches into a gap, which lies in user memory.
Gap(first, last) ==
  /\ last <= NumPages * PageSize
  /\ \A p \in Background : p * PageSize + PageSize <= first \/ last <= p * PageSize

\* The walk has not yet come to the place.
Ahead(b) ==
  /\ os = "linux" => \E r \in call.regions : r.start <= b /\ b + call.size <= r.end
  /\ os = "windows" => call.current \div PageSize <= b \div PageSize
  /\ os = "macos" => call.current <= b

\* A place as good as it is among the candidates.
Coming == \E i \in DOMAIN call.candidates : FreeFor(PagesOf(call.candidates[i], call.size))

\* The search cannot end without trying the place or one as good.
Untried(b) ==
  \/ call.at = "pass" /\ call.tries = 0
  \/ call.at \in {"region", "map", "unmap"} /\ call.tries = 1 /\ Ahead(b)
  \/ call.at \in {"map", "unmap"} /\ Coming

\* allocate has been called and has not found a place.
Searching == call.at \in {"pass", "region", "map", "unmap", "error"}

\* In an undisturbed search every place is still to be tried.
SearchInv ==
  /\ call.size % PageSize = 0
  /\ call.at = "open" => call.tries = 0
  /\ Searching /\ quiet =>
       /\ call.size > 0 => \A b \in Nat : Room(b) => Untried(b)
       /\ os = "linux" => \A r \in call.regions : Gap(r.start, r.end)

\* User memory reaches up to Cached.max_address, and allocate makes a pass.
MayFind == MaxAddress <= NumPages * PageSize /\ RetryCount > 0

-----------------------------------------------------------------------------
\* Pages and multiples

\* The multiples of m up to a number.
LEMMA DivBelow ==
  ASSUME NEW m \in Nat \ {0}, NEW a \in Int, NEW k \in Int
  PROVE  a \div m \in Int /\ (k * m <= a <=> k <= a \div m)
<1> DEFINE q == a \div m
           r == a % m
<1>1. q \in Int /\ r \in 0 .. m - 1 /\ a = m * q + r
      OBVIOUS
<1> HIDE DEF q, r
<1>2. ASSUME k <= q PROVE k * m <= a
  <2>1. k * m <= q * m
        BY <1>1, <1>2
  <2> QED
      BY <1>1, <2>1
<1>3. ASSUME k > q PROVE k * m > a
  <2>1. (q + 1) * m <= k * m
        BY <1>1, <1>3
  <2>2. (q + 1) * m = m * q + m
        BY <1>1
  <2> QED
      BY <1>1, <2>1, <2>2
<1> QED
    BY <1>1, <1>2, <1>3 DEF q

\* The pages a range of bytes touches.
LEMMA PageIn ==
  ASSUME NEW a \in Nat, NEW n \in Nat, NEW p \in Int
  PROVE  /\ p * PageSize \in Int
         /\ p \in PagesOf(a, n) <=> p * PageSize + PageSize > a /\ p * PageSize < a + n
<1> DEFINE e == a + n - 1
           P == p * PageSize
<1>1. PageSize \in Nat \ {0} /\ e \in Int /\ P \in Int
      BY AllocatorAssumption
<1>2. /\ a \div PageSize \in Int /\ e \div PageSize \in Int
      /\ P <= e <=> p <= e \div PageSize
      BY <1>1, DivBelow
<1>3. (p + 1) * PageSize <= a <=> p + 1 <= a \div PageSize
      BY <1>1, DivBelow
<1>4. (p + 1) * PageSize = P + PageSize
      BY <1>1
<1>5. p \in PagesOf(a, n) <=> a \div PageSize <= p /\ p <= e \div PageSize
      BY <1>2 DEF PagesOf
<1> HIDE DEF P
<1>6. a \div PageSize <= p <=> P + PageSize > a
      BY <1>1, <1>2, <1>3, <1>4
<1>7. p <= e \div PageSize <=> P < a + n
      BY <1>1, <1>2
<1> QED
    BY <1>1, <1>5, <1>6, <1>7 DEF P

\* A range of bytes that is not empty touches a page.
LEMMA FirstPage ==
  ASSUME NEW a \in Nat, NEW n \in Nat \ {0}
  PROVE  a \div PageSize \in PagesOf(a, n) /\ a \div PageSize \in Nat
<1> DEFINE q == a \div PageSize
<1>1. PageSize \in Nat \ {0}
      BY AllocatorAssumption
<1>2. q \in Nat /\ q * PageSize <= a /\ q * PageSize + PageSize > a
  <2>1. q \in Nat
        BY <1>1
  <2>2. q * PageSize <= a /\ ~((q + 1) * PageSize <= a)
        BY <1>1, <2>1, DivBelow
  <2> HIDE DEF q
  <2> QED
      BY <1>1, <2>1, <2>2
<1> HIDE DEF q
<1>3. q * PageSize < a + n
      BY <1>1, <1>2
<1> QED
    BY <1>2, <1>3, PageIn DEF q

\* Pages one behind the other.
LEMMA PagesInOrder ==
  ASSUME NEW p \in Int, NEW q \in Int
  PROVE  /\ p * PageSize \in Int /\ q * PageSize \in Int
         /\ p < q <=> p * PageSize < q * PageSize
         /\ p < q <=> p * PageSize + PageSize <= q * PageSize
         /\ p >= 0 => p * PageSize >= 0
<1>1. PageSize \in Nat \ {0}
      BY AllocatorAssumption
<1>2. ASSUME p < q PROVE p * PageSize + PageSize <= q * PageSize
  <2>1. (p + 1) * PageSize <= q * PageSize
        BY <1>1, <1>2
  <2> QED
      BY <1>1, <2>1
<1>3. ASSUME p >= q PROVE p * PageSize >= q * PageSize
      BY <1>1, <1>3
<1>4. p * PageSize \in Int /\ q * PageSize \in Int /\ (p >= 0 => p * PageSize >= 0)
      BY <1>1
<1> QED
    BY <1>1, <1>2, <1>3, <1>4

\* RoundDown finds the last multiple.
LEMMA LastMultiple ==
  ASSUME NEW n \in Nat, NEW b \in Nat, b % AllocationGranularity = 0, b <= n
  PROVE  b <= RoundDown(n, AllocationGranularity) /\ RoundDown(n, AllocationGranularity) <= n
<1> DEFINE g == AllocationGranularity
           k == b \div g
           q == n \div g
<1>1. g \in Nat \ {0}
      BY Granularity
<1> HIDE DEF g
<1>2. k \in Nat /\ b = k * g
      BY <1>1 DEF g
<1>3. q \in Nat /\ n % g \in Nat /\ n - (n % g) = q * g
      BY <1>1
<1> HIDE DEF k
<1>4. k <= q
      BY <1>1, <1>2, DivBelow
<1> HIDE DEF q
<1>5. k * g <= q * g
      BY <1>1, <1>2, <1>3, <1>4
<1>6. RoundDown(n, g) = n - (n % g)
      BY <1>1 DEF RoundDown
<1> QED
    BY <1>2, <1>3, <1>5, <1>6 DEF g

-----------------------------------------------------------------------------
\* Candidates

\* A sequence holds an address.
Has(s, a) == \E i \in DOMAIN s : s[i] = a

\* What is in one of two sequences is in their concatenation.
LEMMA InEither ==
  ASSUME NEW x \in Seq(Nat), NEW y \in Seq(Nat), NEW a, Has(x, a) \/ Has(y, a)
  PROVE  x \o y \in Seq(Nat) /\ Has(x \o y, a)
<1>1. x \o y \in Seq(Nat) /\ DOMAIN (x \o y) = 1 .. Len(x) + Len(y)
      OBVIOUS
<1>2. CASE Has(x, a)
  <2>1. PICK i \in DOMAIN x : x[i] = a
        BY <1>2 DEF Has
  <2>2. i \in 1 .. Len(x) + Len(y) /\ (x \o y)[i] = a
        BY <2>1
  <2> QED
      BY <1>1, <2>2 DEF Has
<1>3. CASE Has(y, a)
  <2>1. PICK i \in DOMAIN y : y[i] = a
        BY <1>3 DEF Has
  <2>2. Len(x) + i \in 1 .. Len(x) + Len(y) /\ (x \o y)[Len(x) + i] = a
        BY <2>1
  <2> QED
      BY <1>1, <2>2 DEF Has
<1> QED
    BY <1>1, <1>2, <1>3

\* A place in a gap and in the limits of a request.
Place(min, max, size, first, last, b) ==
  /\ min \in Nat /\ max \in 0 .. UsizeMax /\ size \in Nat \ {0}
  /\ first \in Nat /\ last \in Nat
  /\ b \in Nat /\ b % AllocationGranularity = 0
  /\ min <= b /\ b + size <= max /\ first <= b /\ b + size <= last

\* An address at or behind it, with room in front of the end of the gap.
Behind(s, b, size, last) ==
  \E i \in DOMAIN s : s[i] \in Nat /\ b <= s[i] /\ s[i] + size <= last

\* If there is a place in a gap, the last one in the gap or in the request is tried.
LEMMA LastPlace ==
  ASSUME NEW min, NEW max, NEW size, NEW first, NEW last, NEW b, NEW s,
         Place(min, max, size, first, last, b),
         s = GetPossibleBufferAddresses(min, max, AddressRange(first, last), size,
                                        AllocationGranularity)
  PROVE  Behind(s, b, size, last)
<1> DEFINE g == AllocationGranularity
           page == AddressRange(first, last)
           c1 == RoundUp(first, g)
           c2 == RoundDown(SubtractWithUnderflowCap(last, size), g)
           c3 == RoundUp(min, g)
           c4 == RoundDown(SubtractWithUnderflowCap(max, size), g)
           Kept(a) == IF FitsBetween(a, size, min, max, page) THEN <<a>> ELSE <<>>
<1>0. /\ min \in Nat /\ max \in 0 .. UsizeMax /\ size \in Nat \ {0}
      /\ first \in Nat /\ last \in Nat
      /\ b \in Nat /\ b % AllocationGranularity = 0
      /\ min <= b /\ b + size <= max /\ first <= b /\ b + size <= last
      /\ UsizeMax \in Nat /\ max \in Nat /\ max <= UsizeMax
      BY WordAssumption DEF Place
<1>1. /\ SubtractWithUnderflowCap(last, size) = last - size /\ last - size \in Nat
      /\ SubtractWithUnderflowCap(max, size) = max - size /\ max - size \in Nat
      BY <1>0 DEF SubtractWithUnderflowCap, Larger
<1>2. c1 \in Nat /\ c2 \in Nat /\ c3 \in Nat /\ c4 \in Nat
      BY <1>0, <1>1, Rounded
<1>3. b <= c2 /\ c2 + size <= last /\ b <= c4 /\ c4 + size <= max
  <2>1. b <= last - size /\ b <= max - size
        BY <1>0
  <2>2. b <= c2 /\ c2 <= last - size /\ b <= c4 /\ c4 <= max - size
        BY <1>0, <1>1, <2>1, LastMultiple
  <2> HIDE DEF c2, c4
  <2> QED
      BY <1>0, <1>2, <2>2
<1>4. Overlaps(page, AddressRange(min, max)) /\ ~(size > RangeSize(page))
      BY <1>0 DEF Overlaps, PointInRange, AddressRange, RangeSize
<1>5. s = Kept(c1) \o Kept(c2) \o Kept(c3) \o Kept(c4)
      BY <1>4 DEF GetPossibleBufferAddresses, CandidateAddresses, AddressRange
<1> HIDE DEF c1, c2, c3, c4
<1>6. \A a \in Nat : Kept(a) \in Seq(Nat)
      OBVIOUS
<1>7. PICK c \in {c2, c4} : c + size <= last /\ c + size <= max
      BY <1>0, <1>2, <1>3
<1>8. c \in Nat /\ b <= c
      BY <1>2, <1>3
<1>9. FitsBetween(c, size, min, max, page)
      BY <1>0, <1>7, <1>8 DEF FitsBetween, Contains, AddressRange, AddWithOverflowCap, Smaller
<1>10. Has(Kept(c), c)
  <2>1. Kept(c) = <<c>>
        BY <1>9
  <2> QED
      BY <2>1 DEF Has
<1> HIDE DEF Kept
<1>11. Has(s, c)
  <2>1. ASSUME NEW x \in Seq(Nat), NEW y \in Seq(Nat) PROVE x \o y \in Seq(Nat)
        OBVIOUS
  <2>2. /\ Kept(c1) \in Seq(Nat) /\ Kept(c2) \in Seq(Nat)
        /\ Kept(c3) \in Seq(Nat) /\ Kept(c4) \in Seq(Nat)
        BY <1>2, <1>6
  <2>3. Kept(c1) \o Kept(c2) \in Seq(Nat) /\ Kept(c1) \o Kept(c2) \o Kept(c3) \in Seq(Nat)
        BY <2>1, <2>2
  <2> DEFINE front == Kept(c1) \o Kept(c2) \o Kept(c3)
  <2>f. front \in Seq(Nat) /\ s = front \o Kept(c4)
        BY <1>5, <2>3
  <2>4. CASE c = c4
    <3> HIDE DEF front
    <3>1. Has(Kept(c4), c)
          BY <1>10, <2>4
    <3> QED
        BY <2>2, <2>f, <3>1, InEither
  <2>5. CASE c = c2
    <3>1. Has(Kept(c1) \o Kept(c2), c)
          BY <1>10, <2>2, <2>5, InEither
    <3>2. Has(front, c)
          BY <2>2, <2>3, <3>1, InEither
    <3> HIDE DEF front
    <3> QED
        BY <2>2, <2>f, <3>2, InEither
  <2> QED
      BY <2>4, <2>5
<1> QED
    BY <1>7, <1>8, <1>11 DEF Has, Behind

-----------------------------------------------------------------------------
\* Gaps

\* A place in a gap means that the gap has a candidate that is free.
LEMMA GapHasCandidate ==
  ASSUME AllocInv, call.size > 0, NEW first, NEW last, NEW b,
         first \in Nat, last \in Nat, b \in Nat,
         Gap(first, last), Room(b), first <= b, b + call.size <= last
  PROVE  \E i \in DOMAIN PlacesIn(first, last) :
           FreeFor(PagesOf(PlacesIn(first, last)[i], call.size))
<1> DEFINE s == PlacesIn(first, last)
           size == call.size
           min == call.min
           max == call.max
           n == IF os = "linux" THEN size + 1 ELSE size
<1>1. /\ size \in Nat \ {0} /\ min \in Nat /\ max \in 0 .. UsizeMax /\ max \in Nat
      /\ NumPages \in Nat /\ PageSize \in Nat \ {0} /\ MaxAddress \in Nat
      BY WordAssumption, AllocatorAssumption DEF AllocInv, AllocTypes, CallType
<1>2. b % AllocationGranularity = 0 /\ min <= b /\ FreeFor(PagesOf(b, n))
      BY DEF Room
<1>3. b + size <= max
      BY <1>1 DEF Room, Limit, Smaller
<1>4. s = GetPossibleBufferAddresses(min, max, AddressRange(first, last), size,
                                     AllocationGranularity)
      BY DEF PlacesIn
<1>5. n \in Nat \ {0}
      BY <1>1
<1> HIDE DEF s, min, max, n
<1>6. b + size <= last
      OBVIOUS
<1> HIDE DEF size
<1>7. PICK i \in DOMAIN s : s[i] \in Nat /\ b <= s[i] /\ s[i] + size <= last
  <2>1. Place(min, max, size, first, last, b)
        BY <1>1, <1>2, <1>3, <1>6 DEF Place
  <2>2. Behind(s, b, size, last)
        BY <1>4, <2>1, LastPlace, Zenon
  <2> QED
      BY <2>2 DEF Behind
<1> DEFINE a == s[i]
<1> HIDE DEF a
<1>8. a \in Nat /\ b <= a /\ a + size <= last
      BY <1>7 DEF a
<1>9. PageSize <= b
  <2>1. 0 \notin PagesOf(b, n)
        BY <1>2 DEF FreeFor
  <2>2. ~(0 * PageSize + PageSize > b /\ 0 * PageSize < b + n)
        BY <1>5, <2>1, PageIn
  <2> QED
      BY <1>1, <1>5, <2>2
<1>10. ASSUME NEW p \in PagesOf(a, size) PROVE p \in Pages \ (Background \cup {0})
  <2>1. p \in Int
        BY DEF PagesOf
  <2> DEFINE P == p * PageSize
  <2>2. P \in Int /\ P + PageSize > a /\ P < a + size
        BY <1>1, <1>8, <1>10, <2>1, PageIn
  <2>3. P > 0 /\ P < NumPages * PageSize /\ NumPages * PageSize \in Int
        BY <1>1, <1>8, <1>9, <2>2 DEF Gap
  <2>4. p > 0 /\ p < NumPages
    <3>1. 0 * PageSize < P
          BY <1>1, <2>3
    <3> QED
        BY <1>1, <2>1, <2>3, <3>1, PagesInOrder
  <2> HIDE DEF P
  <2>5. p \notin Background
    <3>1. ~(P + PageSize <= first) /\ ~(last <= P)
          BY <1>1, <1>8, <2>2
    <3> QED
        BY <3>1 DEF Gap, P
  <2> QED
      BY <1>1, <2>1, <2>4, <2>5 DEF Pages
<1>11. PagesOf(a, size) # {}
      BY <1>1, <1>8, FirstPage
<1>12. FreeFor(PagesOf(s[i], call.size))
      BY <1>10, <1>11 DEF FreeFor, a, size
<1> QED
    BY <1>12 DEF s

\* The ends and starts of the regions Linux reads in the map.
MapOf(S) == {AddressRange(p * PageSize, (p + 1) * PageSize) : p \in S}
EndsOf(S) == {0} \cup {x.end : x \in MapOf(S)}
StartsOf(S) == {x.start : x \in MapOf(S)}

\* They are the borders of the pages.
LEMMA Borders ==
  ASSUME NEW S \in SUBSET Pages
  PROVE  /\ \A p \in S : p \in Nat /\ p < NumPages /\ p * PageSize \in Nat
         /\ \A y \in StartsOf(S) : y \in Nat /\ \E p \in S : y = p * PageSize
         /\ \A p \in S : p * PageSize \in StartsOf(S) /\ p * PageSize + PageSize \in EndsOf(S)
         /\ \A e \in EndsOf(S) : e \in Nat /\ \E k \in Nat : e = k * PageSize
         /\ 0 \in EndsOf(S)
<1>1. PageSize \in Nat \ {0} /\ NumPages \in Nat
      BY AllocatorAssumption
<1>2. ASSUME NEW p \in S
      PROVE  p \in Nat /\ p < NumPages /\ p * PageSize \in Nat /\ (p + 1) * PageSize \in Nat
  <2>1. p \in Nat /\ p < NumPages
        BY <1>1 DEF Pages
  <2> QED
      BY <1>1, <2>1
<1>3. ASSUME NEW y \in StartsOf(S) PROVE y \in Nat /\ \E p \in S : y = p * PageSize
  <2>1. PICK x \in MapOf(S) : y = x.start
        BY DEF StartsOf
  <2>2. PICK p \in S : x = AddressRange(p * PageSize, (p + 1) * PageSize)
        BY DEF MapOf
  <2>3. y = p * PageSize
        BY <2>1, <2>2 DEF AddressRange
  <2> QED
      BY <1>2, <2>3
<1>4. ASSUME NEW p \in S
      PROVE  p * PageSize \in StartsOf(S) /\ p * PageSize + PageSize \in EndsOf(S)
  <2> DEFINE x == AddressRange(p * PageSize, (p + 1) * PageSize)
  <2>1. x.start = p * PageSize /\ x.end = (p + 1) * PageSize
        BY DEF AddressRange
  <2>2. x \in MapOf(S)
        BY DEF MapOf
  <2>3. (p + 1) * PageSize = p * PageSize + PageSize
        BY <1>1, <1>2
  <2> HIDE DEF x
  <2>4. x.start \in StartsOf(S) /\ x.end \in EndsOf(S)
        BY <2>2 DEF StartsOf, EndsOf
  <2> QED
      BY <2>1, <2>3, <2>4
<1>5. ASSUME NEW e \in EndsOf(S) PROVE e \in Nat /\ \E k \in Nat : e = k * PageSize
  <2>1. CASE e = 0
        BY <1>1, <2>1
  <2>2. CASE \E x \in MapOf(S) : e = x.end
    <3>1. PICK x \in MapOf(S) : e = x.end
          BY <2>2
    <3>2. PICK p \in S : x = AddressRange(p * PageSize, (p + 1) * PageSize)
          BY DEF MapOf
    <3>3. e = (p + 1) * PageSize
          BY <3>1, <3>2 DEF AddressRange
    <3>4. p + 1 \in Nat
          BY <1>2
    <3> QED
        BY <1>2, <3>3, <3>4
  <2> QED
      BY <2>1, <2>2 DEF EndsOf
<1>6. 0 \in EndsOf(S)
      BY DEF EndsOf
<1> QED
    BY <1>2, <1>3, <1>4, <1>5, <1>6

\* The gaps Linux reads in the map hold no mapped page.
LEMMA LinuxGaps ==
  ASSUME MayFind, NEW S \in SUBSET Pages, NEW r \in FreeRegionsOf(S)
  PROVE  /\ r.end <= NumPages * PageSize
         /\ \A p \in S : p * PageSize + PageSize <= r.start \/ r.end <= p * PageSize
<1> DEFINE E == EndsOf(S)
           B == StartsOf(S)
           Gaps == {g \in E \X B : g[1] < g[2] /\ \A y \in B : y < g[1] \/ g[2] <= y}
           Rest == {e \in E : e < MaxAddress /\ \A y \in B : y < e}
<1>1. /\ PageSize \in Nat \ {0} /\ NumPages \in Nat /\ MaxAddress \in Nat
      /\ NumPages * PageSize \in Nat /\ MaxAddress <= NumPages * PageSize
      BY AllocatorAssumption DEF MayFind
<1>2. \A p \in S : p \in Nat /\ p < NumPages
      BY Borders
<1>3. FreeRegionsOf(S) = {AddressRange(g[1], g[2] - 1) : g \in Gaps}
                           \cup {AddressRange(e, MaxAddress) : e \in Rest}
      BY DEF FreeRegionsOf, FreeRegions, EndsOf, StartsOf, MapOf
<1>4. /\ \A y \in B : \E p \in S : y = p * PageSize
      /\ \A p \in S : p * PageSize \in B
      BY Borders
<1>5. \A e \in E : \E k \in Nat : e = k * PageSize
      BY Borders
<1> HIDE DEF E, B
<1>6. ASSUME NEW e \in E, NEW p \in S, p * PageSize < e
      PROVE  p * PageSize + PageSize <= e
  <2>1. PICK k \in Nat : e = k * PageSize
        BY <1>5
  <2>2. p \in Int /\ k \in Int
        BY <1>2
  <2> QED
      BY <1>6, <2>1, <2>2, PagesInOrder
<1>7. ASSUME NEW g \in Gaps, r = AddressRange(g[1], g[2] - 1)
      PROVE  /\ r.end <= NumPages * PageSize
             /\ \A p \in S : p * PageSize + PageSize <= r.start \/ r.end <= p * PageSize
  <2> DEFINE e == g[1]
             y == g[2]
  <2>1. /\ e \in E /\ y \in B /\ e < y /\ \A z \in B : z < e \/ y <= z
        /\ r.start = e /\ r.end = y - 1
        BY <1>7 DEF AddressRange
  <2> HIDE DEF e, y
  <2>2. PICK q \in S : y = q * PageSize
        BY <1>4, <2>1
  <2>3. y \in Int /\ y < NumPages * PageSize
        BY <1>1, <1>2, <2>2, PagesInOrder
  <2>4. ASSUME NEW p \in S PROVE p * PageSize + PageSize <= e \/ y - 1 <= p * PageSize
    <3>1. p * PageSize \in B /\ p * PageSize \in Int
          BY <1>1, <1>2, <1>4
    <3>2. CASE p * PageSize < e
          BY <1>6, <2>1, <3>2
    <3>3. CASE y <= p * PageSize
          BY <2>3, <3>1, <3>3
    <3> QED
        BY <2>1, <3>1, <3>2, <3>3
  <2> QED
      BY <1>1, <2>1, <2>3, <2>4
<1>8. ASSUME NEW e \in Rest, r = AddressRange(e, MaxAddress)
      PROVE  /\ r.end <= NumPages * PageSize
             /\ \A p \in S : p * PageSize + PageSize <= r.start \/ r.end <= p * PageSize
  <2>1. e \in E /\ (\A y \in B : y < e) /\ r.start = e /\ r.end = MaxAddress
        BY <1>8 DEF AddressRange
  <2> HIDE DEF Rest
  <2>2. \A p \in S : p * PageSize + PageSize <= e
        BY <1>4, <1>6, <2>1
  <2> QED
      BY <1>1, <2>1, <2>2
<1> HIDE DEF Gaps, Rest
<1>9. \/ \E g \in Gaps : r = AddressRange(g[1], g[2] - 1)
      \/ \E e \in Rest : r = AddressRange(e, MaxAddress)
      BY <1>3
<1> QED
    BY <1>7, <1>8, <1>9

\* The map Linux reads has a gap around every free place with a byte to spare.
LEMMA LinuxCovers ==
  ASSUME NEW S \in SUBSET Pages, NEW b \in Nat, NEW n \in Nat \ {0}, b + n <= MaxAddress,
         PagesOf(b, n + 1) \cap S = {}
  PROVE  \E r \in FreeRegionsOf(S) : r.start <= b /\ b + n <= r.end
<1> DEFINE E == EndsOf(S)
           B == StartsOf(S)
           Gaps == {g \in E \X B : g[1] < g[2] /\ \A y \in B : y < g[1] \/ g[2] <= y}
           Rest == {e \in E : e < MaxAddress /\ \A y \in B : y < e}
<1>1. PageSize \in Nat \ {0} /\ NumPages \in Nat /\ MaxAddress \in Nat
      BY AllocatorAssumption
<1>2. \A p \in S : p \in Nat /\ p * PageSize \in Nat
      BY Borders
<1>3. FreeRegionsOf(S) = {AddressRange(g[1], g[2] - 1) : g \in Gaps}
                           \cup {AddressRange(e, MaxAddress) : e \in Rest}
      BY DEF FreeRegionsOf, FreeRegions, EndsOf, StartsOf, MapOf
<1>4. \A y \in B : \E p \in S : y = p * PageSize
      BY Borders
<1>5. 0 \in E /\ \A p \in S : p * PageSize + PageSize \in E
      BY Borders
<1>6. E \subseteq Nat
      BY Borders
<1>7. B \subseteq Nat
      BY Borders
<1> HIDE DEF E, B
<1>8. ASSUME NEW p \in S PROVE p * PageSize + PageSize <= b \/ b + n + 1 <= p * PageSize
  <2>1. p \in Int /\ p * PageSize \in Nat /\ p \notin PagesOf(b, n + 1)
        BY <1>2
  <2>2. ~(p * PageSize + PageSize > b /\ p * PageSize < b + (n + 1))
        BY <2>1, PageIn
  <2> QED
      BY <1>1, <2>1, <2>2
<1>9. PICK e \in E : e <= b /\ \A x \in E : x <= b => x <= e
  <2> DEFINE T == {d \in Nat : \E x \in E : x + d = b}
  <2>1. b \in T
        BY <1>5
  <2>2. T \in SUBSET Nat /\ T # {}
        BY <2>1
  <2>3. PICK d \in T : \A c \in T : d <= c
    <3> HIDE DEF T
    <3> QED
        BY <2>2, SmallestOf
  <2>4. PICK e \in E : e + d = b
        BY <2>3
  <2>5. ASSUME NEW x \in E, x <= b PROVE x <= e
    <3>1. x \in Nat /\ e \in Nat /\ d \in Nat
          BY <1>6, <2>3
    <3>2. b - x \in T
          BY <2>5, <3>1
    <3>3. d <= b - x
          BY <2>3, <3>2
    <3> HIDE DEF T
    <3> QED
        BY <2>4, <3>1, <3>3
  <2> HIDE DEF T
  <2>6. e <= b
        BY <1>6, <2>2, <2>3, <2>4
  <2> QED
      BY <2>5, <2>6
<1>10. e \in Nat
      BY <1>6
<1>11. ASSUME NEW p \in S, p * PageSize + PageSize <= b PROVE p * PageSize < e
  <2>1. p * PageSize + PageSize <= e
        BY <1>5, <1>9, <1>11
  <2> QED
      BY <1>1, <1>2, <1>10, <2>1
<1>12. CASE \E y \in B : y > b
  <2> DEFINE T == {y \in B : y > b}
  <2>1. PICK y \in T : \A z \in T : y <= z
    <3>1. T \in SUBSET Nat /\ T # {}
          BY <1>7, <1>12
    <3> HIDE DEF T
    <3> QED
        BY <3>1, SmallestOf
  <2>2. y \in B /\ y > b /\ y \in Nat
        BY <1>7, <2>1
  <2>3. b + n + 1 <= y
    <3>1. PICK p \in S : y = p * PageSize
          BY <1>4, <2>2
    <3>2. ~(p * PageSize + PageSize <= b)
          BY <1>1, <2>2, <3>1
    <3> QED
        BY <1>8, <3>1, <3>2
  <2>4. ASSUME NEW z \in B PROVE z < e \/ y <= z
    <3>1. PICK p \in S : z = p * PageSize
          BY <1>4
    <3>2. CASE p * PageSize + PageSize <= b
          BY <1>11, <3>1, <3>2
    <3>3. CASE b + n + 1 <= p * PageSize
      <4>1. z > b
            BY <1>2, <3>1, <3>3
      <4>2. z \in T
            BY <4>1
      <4> QED
          BY <2>1, <4>2
    <3> QED
        BY <1>8, <3>2, <3>3
  <2>5. <<e, y>> \in Gaps
    <3>1. e < y
          BY <1>9, <1>10, <2>2
    <3> QED
        BY <2>2, <2>4, <3>1
  <2>6. AddressRange(e, y - 1) \in FreeRegionsOf(S)
    <3> DEFINE g == <<e, y>>
    <3>1. AddressRange(g[1], g[2] - 1) \in FreeRegionsOf(S)
      <4> HIDE DEF g, Gaps, Rest
      <4>1. g \in Gaps
            BY <2>5 DEF g
      <4> QED
          BY <1>3, <4>1
    <3> QED
        BY <3>1
  <2>7. b + n <= y - 1
        BY <2>2, <2>3
  <2> QED
      BY <1>9, <2>6, <2>7 DEF AddressRange
<1>13. CASE ~\E y \in B : y > b
  <2>1. ASSUME NEW z \in B PROVE z < e
    <3>1. PICK p \in S : z = p * PageSize
          BY <1>4
    <3>2. ~(b + n + 1 <= p * PageSize)
          BY <1>2, <1>13, <3>1
    <3> QED
        BY <1>8, <1>11, <3>1, <3>2
  <2>2. e < MaxAddress
        BY <1>1, <1>9, <1>10
  <2>3. e \in Rest
        BY <2>1, <2>2
  <2>4. AddressRange(e, MaxAddress) \in FreeRegionsOf(S)
    <3> HIDE DEF Gaps, Rest
    <3> QED
        BY <1>3, <2>3
  <2> QED
      BY <1>9, <2>4 DEF AddressRange
<1> QED
    BY <1>12, <1>13
-----------------------------------------------------------------------------
\* The search

\* What a step must do to keep the search complete.
LEMMA KeepsSearching ==
  ASSUME SearchInv, os' = os, Background' = Background,
         call'.size = call.size, call'.min = call.min, call'.max = call.max,
         call'.at # "open",
         quiet' /\ call.size > 0 => \A b \in Nat : Room(b) => Untried(b)',
         quiet' /\ os = "linux" => \A r \in call'.regions : Gap(r.start, r.end)
  PROVE  SearchInv'
<1>1. \A b \in Nat : Room(b)' <=> Room(b)
      BY DEF Room, FreeFor, Limit, PagesOf, AllocationGranularity, Pages
<1>2. \A first, last : Gap(first, last)' <=> Gap(first, last)
      BY DEF Gap
<1>3. quiet' /\ (call.size > 0)' => \A b \in Nat : Room(b)' => Untried(b)'
      BY <1>1
<1>4. quiet' /\ (os = "linux")' => \A r \in call'.regions : Gap(r.start, r.end)'
      BY <1>2
<1>5. (call.size % PageSize = 0)'
      BY DEF SearchInv
<1> QED
    BY <1>3, <1>4, <1>5 DEF SearchInv

\* A step that ends the search or is no undisturbed one.
LEMMA NotSearching ==
  ASSUME SearchInv, call'.size = call.size \/ call'.size = 0, call'.at # "open",
         ~quiet' \/ call'.at \in {"idle", "protect", "ok"}
  PROVE  SearchInv'
<1>1. (call.size % PageSize = 0)'
  <2>1. 0 % PageSize = 0
        BY AllocatorAssumption
  <2> QED
      BY <2>1 DEF SearchInv
<1> QED
    BY <1>1 DEF SearchInv, Searching

\* The types a step of the search needs.
LEMMA SearchTypes ==
  ASSUME AllocInv
  PROVE  /\ call \in CallType /\ others \subseteq Pages /\ ours \subseteq Pages
         /\ Mapped \in SUBSET Pages
         /\ call.at \notin {"protect", "unmap"} => call.stray = {} /\ Background = Mapped
  BY DEF AllocInv, AllocTypes, CallFits, Fits, Background, Mapped

\* The candidate that is not free is not the one to come.
LEMMA NextCandidate ==
  ASSUME call \in CallType, Trying, ~FreeFor(Wanted), Coming,
         Background' = Background, call'.size = call.size,
         call'.candidates = Tail(call.candidates)
  PROVE  Coming'
<1> DEFINE s == call.candidates
<1>1. s \in Seq(Nat) /\ s # <<>>
      BY DEF CallType, Trying
<1>2. PICK i \in DOMAIN s : FreeFor(PagesOf(s[i], call.size))
      BY DEF Coming
<1>3. i # 1
  <2>1. i = 1 => s[i] = Head(s)
        BY <1>1
  <2> QED
      BY <1>2, <2>1 DEF Wanted
<1> HIDE DEF s
<1>4. i - 1 \in DOMAIN Tail(s) /\ Tail(s)[i - 1] = s[i]
      BY <1>1, <1>2, <1>3
<1>5. \E j \in DOMAIN Tail(s) : FreeFor(PagesOf(Tail(s)[j], call.size))
      BY <1>2, <1>4
<1> QED
    BY <1>5 DEF Coming, FreeFor, PagesOf, Pages, s

\* allocate begins a search.
LEMMA SearchBegins ==
  ASSUME AllocInv, SearchInv, NEW r \in AllocRequests, Allocate(r) PROVE SearchInv'
<1>1. /\ call'.at = IF os = "windows" THEN "open" ELSE "pass"
      /\ call'.tries = 0 /\ call'.regions = {}
      /\ call'.size = SanitizedSize(r.size, AllocationGranularity)
      BY DEF Allocate, NoCall
<1>2. (call.size % PageSize = 0)'
  <2> DEFINE n == SanitizedSize(r.size, AllocationGranularity)
  <2>1. r.size \in 0 .. U32 - 1
        BY AllocatorAssumption
  <2>2. n \in 0 .. U32 - 1 /\ n % AllocationGranularity = 0
        BY <2>1, Granularity, SanitizedSizes
  <2> HIDE DEF n
  <2>3. n \in Nat
        BY <2>2, WordAssumption
  <2>4. n % PageSize = 0
        BY <2>2, <2>3, Granularity, AllocatorAssumption, MultipleOfMultiple
  <2> QED
      BY <1>1, <2>4 DEF n
<1> QED
    BY <1>1, <1>2 DEF SearchInv, Searching, Untried

\* ProcessHandle::open_process comes before the first pass.
LEMMA SearchOpens ==
  ASSUME AllocInv, SearchInv, OpenProcess PROVE SearchInv'
<1>1. call \in CallType /\ call.at = "open" /\ call.tries = 0 /\ os = "windows" /\ os' = os
      BY SearchTypes DEF OpenProcess, SearchInv
<1>2. CASE call' = [call EXCEPT !.at = "error"] /\ quiet' = FALSE
  <2>1. call'.size = call.size /\ call'.at # "open"
        BY <1>1, <1>2 DEF CallType
  <2> QED
      BY <1>2, <2>1, NotSearching
<1>3. CASE call' = [call EXCEPT !.at = "pass"] /\ quiet' = quiet
  <2>1. /\ call'.at = "pass" /\ call'.tries = 0 /\ call'.size = call.size
        /\ call'.min = call.min /\ call'.max = call.max /\ call'.stray = call.stray
        BY <1>1, <1>3 DEF CallType
  <2>2. Background' = Background
        BY <2>1 DEF OpenProcess, Background, Mapped, memory
  <2> QED
      BY <1>1, <2>1, <2>2, KeepsSearching DEF Untried
<1> QED
    BY <1>2, <1>3 DEF OpenProcess

\* A pass begins with every place ahead of it.
LEMMA SearchPasses ==
  ASSUME MayFind, AllocInv, SearchInv, ReadMap \/ StartWalk \/ StartRegions PROVE SearchInv'
<1> DEFINE R == IF os = "linux" THEN FreeRegionsOf(Mapped) ELSE {}
<1>1. /\ call \in CallType /\ call.at = "pass" /\ os' = os /\ quiet' = quiet
      /\ Mapped \in SUBSET Pages /\ call.stray = {} /\ Background = Mapped
      /\ others' = others /\ ours' = ours
      BY SearchTypes DEF ReadMap, StartWalk, StartRegions, BeginPass, memory, history
<1>2. os \in {"linux", "windows", "macos"}
      BY DEF ReadMap, StartWalk, StartRegions
<1>3. call' = [call EXCEPT !.at = "region", !.tries = @ + 1, !.regions = R, !.current = call.min]
      BY DEF ReadMap, StartWalk, StartRegions, BeginPass
<1> HIDE DEF R
<1>4. /\ call'.at = "region" /\ call'.tries = call.tries + 1 /\ call'.regions = R
      /\ call'.current = call.min /\ call'.size = call.size /\ call'.min = call.min
      /\ call'.max = call.max /\ call'.stray = call.stray
      BY <1>1, <1>3 DEF CallType
<1>5. Background' = Background
      BY <1>1, <1>4 DEF Background, Mapped
<1>6. call.size \in Nat /\ call.min \in Nat /\ call.max \in Nat /\ MaxAddress \in Nat
      BY <1>1, AllocatorAssumption, WordAssumption DEF CallType
<1>7. ASSUME quiet, call.size > 0, NEW b \in Nat, Room(b) PROVE Untried(b)'
  <2>1. call.tries = 0
        BY <1>1, <1>7 DEF SearchInv, Searching, Untried
  <2>2. /\ call.min <= b /\ b + call.size <= MaxAddress
        /\ FreeFor(PagesOf(b, IF os = "linux" THEN call.size + 1 ELSE call.size))
        BY <1>6, <1>7 DEF Room, Limit, Smaller
  <2>3. CASE os = "linux"
    <3> DEFINE n == call.size
    <3>1. n \in Nat \ {0} /\ b + n <= MaxAddress
          BY <1>6, <1>7, <2>2
    <3>2. PagesOf(b, n + 1) \cap Mapped = {}
          BY <1>1, <2>2, <2>3 DEF FreeFor
    <3> HIDE DEF n
    <3>3. \E r \in FreeRegionsOf(Mapped) : r.start <= b /\ b + n <= r.end
          BY <1>1, <3>1, <3>2, LinuxCovers
    <3>4. \E r \in call'.regions : r.start <= b /\ b + call'.size <= r.end
          BY <1>4, <2>3, <3>3 DEF R, n
    <3> QED
        BY <1>1, <1>4, <2>1, <2>3, <3>4 DEF Untried, Ahead
  <2>4. CASE os = "windows"
    <3> DEFINE m == call.min
    <3>1. m \in Nat /\ m <= b /\ PageSize \in Nat \ {0}
          BY <1>6, <2>2, AllocatorAssumption
    <3> HIDE DEF m
    <3>2. m \div PageSize <= b \div PageSize
      <4> DEFINE q == m \div PageSize
      <4>1. q \in Int /\ q * PageSize <= m
            BY <3>1, DivBelow
      <4> HIDE DEF q
      <4>2. q * PageSize <= b
            BY <3>1, <4>1
      <4>3. q <= b \div PageSize
            BY <3>1, <4>1, <4>2, DivBelow
      <4> QED
          BY <4>3 DEF q
    <3> QED
        BY <1>1, <1>4, <2>1, <2>4, <3>2 DEF Untried, Ahead, m
  <2>5. CASE os = "macos"
        BY <1>1, <1>4, <2>1, <2>2, <2>5 DEF Untried, Ahead
  <2> QED
      BY <1>2, <2>3, <2>4, <2>5
<1>8. ASSUME os = "linux", NEW r \in call'.regions PROVE Gap(r.start, r.end)
  <2>1. r \in FreeRegionsOf(Mapped)
        BY <1>4, <1>8 DEF R
  <2> QED
      BY <1>1, <2>1, LinuxGaps DEF Gap
<1> QED
    BY <1>1, <1>4, <1>5, <1>7, <1>8, KeepsSearching

\* allocate gives up after its passes, of which there is one.
LEMMA SearchGivesUp ==
  ASSUME MayFind, AllocInv, SearchInv, GiveUp PROVE SearchInv'
<1>1. /\ call \in CallType /\ call.at = "pass" /\ os' = os /\ quiet' = quiet /\ quiet \in BOOLEAN
      /\ call' = [call EXCEPT !.at = "error"] /\ others' = others /\ ours' = ours
      BY SearchTypes DEF GiveUp, memory, history, AllocInv, AllocTypes
<1>2. /\ call'.at = "error" /\ call'.regions = call.regions /\ call'.size = call.size
      /\ call'.min = call.min /\ call'.max = call.max /\ call'.stray = call.stray
      BY <1>1 DEF CallType
<1>3. Background' = Background
      BY <1>1, <1>2 DEF Background, Mapped
<1>4. call.tries # 0
      BY AllocatorAssumption DEF GiveUp, Passes, MayFind
<1>5. quiet /\ call.size > 0 => \A b \in Nat : ~Room(b)
      BY <1>1, <1>4 DEF SearchInv, Searching, Untried
<1>6. quiet /\ os = "linux" => \A r \in call'.regions : Gap(r.start, r.end)
      BY <1>1, <1>2 DEF SearchInv, Searching
<1> QED
    BY <1>1, <1>2, <1>3, <1>5, <1>6, KeepsSearching

\* A region without a place is left behind, and so is a candidate that is not free.
LEMMA SearchTries ==
  ASSUME AllocInv, SearchInv,
         \/ NoCandidateLeft \/ MapRefused \/ UnmapStray
         \/ \E base \in 0 .. MaxAddress : MapElsewhere(base)
  PROVE  SearchInv'
<1>0. quiet' => quiet
  <2>1. CASE MapRefused
        BY <2>1, Zenon DEF MapRefused
  <2>2. CASE NoCandidateLeft \/ UnmapStray \/ \E base \in 0 .. MaxAddress : MapElsewhere(base)
        BY <2>2 DEF NoCandidateLeft, UnmapStray, MapElsewhere, history
  <2> QED
      BY <2>1, <2>2
<1>1. call \in CallType /\ os' = os /\ (quiet' => quiet)
      BY <1>0, SearchTypes DEF NoCandidateLeft, MapRefused, UnmapStray, MapElsewhere
<1>2. /\ call.at \in {"map", "unmap"} /\ call'.at \in {"map", "unmap", "region"}
      /\ call'.tries = call.tries /\ call'.regions = call.regions /\ call'.current = call.current
      /\ call'.size = call.size /\ call'.min = call.min /\ call'.max = call.max
      BY <1>1, ZenonT(60) DEF NoCandidateLeft, MapRefused, UnmapStray, MapElsewhere, Trying, CallType
<1>3. Background' = Background
  <2>1. CASE NoCandidateLeft \/ MapRefused
    <3>1. others' = others /\ ours' = ours /\ call'.stray = call.stray
          BY <1>1, <2>1 DEF NoCandidateLeft, MapRefused, memory, CallType
    <3> QED
        BY <3>1 DEF Background, Mapped
  <2>2. CASE UnmapStray
    <3>1. others' = others \ call.stray /\ ours' = ours \ call.stray /\ call'.stray = {}
          BY <1>1, <2>2 DEF UnmapStray, Unmap, CallType
    <3> QED
        BY <3>1 DEF Background, Mapped
  <2>3. ASSUME NEW base \in 0 .. MaxAddress, MapElsewhere(base) PROVE Background' = Background
    <3> DEFINE P == PagesOf(base, call.size)
    <3>1. /\ others' = others /\ ours' = ours \cup P /\ call'.stray = P /\ P \cap Mapped = {}
          BY <1>1, <2>3 DEF MapElsewhere, IsFree, CallType
    <3>2. call.stray = {}
          BY <2>3, SearchTypes DEF MapElsewhere, Trying
    <3> HIDE DEF P
    <3> QED
        BY <3>1, <3>2 DEF Background, Mapped
  <2> QED
      BY <2>1, <2>2, <2>3
<1>4. ASSUME quiet', call.size > 0, NEW b \in Nat, Room(b) PROVE Untried(b)'
  <2>1. Untried(b)
        BY <1>1, <1>2, <1>4 DEF SearchInv, Searching
  <2>2. CASE call.tries = 1 /\ Ahead(b)
        BY <1>1, <1>2, <2>2 DEF Untried, Ahead
  <2>3. CASE Coming
    <3>1. CASE NoCandidateLeft
      <4>1. call.candidates = <<>>
            BY <3>1 DEF NoCandidateLeft
      <4>2. DOMAIN call.candidates = {}
            BY <4>1
      <4> QED
          BY <2>3, <4>2 DEF Coming
    <3>2. CASE MapRefused \/ \E base \in 0 .. MaxAddress : MapElsewhere(base)
      <4>1. Trying /\ call.at = "map" /\ ~IsFree(Wanted) /\ call'.at \in {"map", "unmap"}
            BY <1>1, <1>4, <3>2 DEF MapRefused, MapElsewhere, Trying, CallType
      <4>2. call'.candidates = Tail(call.candidates)
            BY <1>1, <3>2 DEF MapRefused, MapElsewhere, CallType
      <4>3. Background = Mapped
            BY <4>1, SearchTypes
      <4>4. ~FreeFor(Wanted)
            BY <4>1, <4>3 DEF FreeFor, IsFree
      <4>5. Coming'
            BY <1>1, <1>2, <1>3, <2>3, <4>1, <4>2, <4>4, NextCandidate
      <4> QED
          BY <4>1, <4>5 DEF Untried
    <3>3. CASE UnmapStray
      <4>1. call'.candidates = call.candidates /\ call'.at = "map"
            BY <1>1, <3>3 DEF UnmapStray, CallType
      <4>2. Coming'
            BY <1>2, <1>3, <2>3, <4>1 DEF Coming, FreeFor, PagesOf, Pages
      <4> QED
          BY <4>1, <4>2 DEF Untried
    <3> QED
        BY <3>1, <3>2, <3>3
  <2> QED
      BY <1>2, <2>1, <2>2, <2>3 DEF Untried
<1>5. quiet' /\ os = "linux" => \A r \in call'.regions : Gap(r.start, r.end)
      BY <1>1, <1>2 DEF SearchInv, Searching
<1>6. call'.at # "open"
      BY <1>2
<1> QED
    BY <1>1, <1>2, <1>3, <1>4, <1>5, <1>6, KeepsSearching

\* Linux: the next gap of the map is tried, or none is left in the limits.
LEMMA SearchLinux ==
  ASSUME AllocInv, SearchInv, LinuxRegion PROVE SearchInv'
<1>1. /\ call \in CallType /\ os = "linux" /\ os' = os /\ quiet' = quiet /\ call.at = "region"
      /\ others' = others /\ ours' = ours
      BY SearchTypes DEF LinuxRegion, memory, history
<1>2. call.regions \subseteq [start : Nat, end : Nat]
      BY <1>1 DEF CallType
<1>3. call.size \in Nat /\ call.max \in Nat /\ MaxAddress \in Nat
      BY <1>1, AllocatorAssumption, WordAssumption DEF CallType
<1>4. ASSUME quiet, call.size > 0, NEW b \in Nat, Room(b)
      PROVE  /\ call.tries = 1 /\ b <= call.max
             /\ \E r \in call.regions : r.start <= b /\ b + call.size <= r.end
  <2>1. call.tries = 1 /\ Ahead(b)
        BY <1>1, <1>4 DEF SearchInv, Searching, Untried
  <2>2. b <= call.max
        BY <1>3, <1>4 DEF Room, Limit, Smaller
  <2> QED
      BY <1>1, <2>1, <2>2 DEF Ahead
<1>5. ASSUME quiet, NEW r \in call.regions PROVE Gap(r.start, r.end)
      BY <1>1, <1>5 DEF SearchInv, Searching
<1>6. CASE /\ \A r \in call.regions : r.start > call.max
           /\ call' = [call EXCEPT !.at = "pass", !.regions = {}]
  <2>1. /\ call'.at = "pass" /\ call'.regions = {} /\ call'.size = call.size
        /\ call'.min = call.min /\ call'.max = call.max /\ call'.stray = call.stray
        BY <1>1, <1>6 DEF CallType
  <2>2. Background' = Background
        BY <1>1, <2>1 DEF Background, Mapped
  <2>3. ASSUME quiet, call.size > 0, NEW b \in Nat, Room(b) PROVE FALSE
    <3>1. PICK r \in call.regions : r.start <= b /\ b + call.size <= r.end
          BY <1>4, <2>3
    <3>2. b <= call.max /\ r.start > call.max /\ r.start \in Nat
          BY <1>2, <1>4, <1>6, <2>3
    <3> QED
        BY <1>3, <3>1, <3>2
  <2> QED
      BY <1>1, <2>1, <2>2, <2>3, KeepsSearching
<1>7. ASSUME NEW r \in call.regions,
             call' = [call EXCEPT !.at = "map", !.regions = @ \ {r},
                                  !.candidates = PlacesIn(r.start, r.end)]
      PROVE  SearchInv'
  <2>1. /\ call'.at = "map" /\ call'.regions = call.regions \ {r} /\ call'.size = call.size
        /\ call'.candidates = PlacesIn(r.start, r.end) /\ call'.tries = call.tries
        /\ call'.min = call.min /\ call'.max = call.max /\ call'.stray = call.stray
        BY <1>1, <1>7 DEF CallType
  <2>2. Background' = Background
        BY <1>1, <2>1 DEF Background, Mapped
  <2>3. ASSUME quiet, call.size > 0, NEW b \in Nat, Room(b) PROVE Untried(b)'
    <3>1. PICK q \in call.regions : q.start <= b /\ b + call.size <= q.end
          BY <1>4, <2>3
    <3>2. CASE q = r
      <4> DEFINE first == r.start
                 last == r.end
      <4>1. /\ first \in Nat /\ last \in Nat /\ Gap(first, last)
            /\ first <= b /\ b + call.size <= last
            BY <1>2, <1>5, <2>3, <3>1, <3>2
      <4> HIDE DEF first, last
      <4>2. \E i \in DOMAIN PlacesIn(first, last) :
              FreeFor(PagesOf(PlacesIn(first, last)[i], call.size))
            BY <2>3, <4>1, GapHasCandidate
      <4>3. Coming'
            BY <2>1, <2>2, <4>2 DEF Coming, FreeFor, PagesOf, Pages, first, last
      <4> QED
          BY <2>1, <4>3 DEF Untried
    <3>3. CASE q # r
      <4>1. q \in call'.regions
            BY <2>1, <3>3
      <4>2. call.tries = 1
            BY <1>4, <2>3
      <4> QED
          BY <1>1, <2>1, <3>1, <4>1, <4>2 DEF Untried, Ahead
    <3> QED
        BY <3>2, <3>3
  <2>4. quiet => \A q \in call'.regions : Gap(q.start, q.end)
        BY <1>5, <2>1
  <2> QED
      BY <1>1, <2>1, <2>2, <2>3, <2>4, KeepsSearching
<1> QED
    BY <1>6, <1>7 DEF LinuxRegion

\* macOS: the gap in front of the next mapped region is tried, or what is behind the last.
LEMMA SearchOsx ==
  ASSUME MayFind, AllocInv, SearchInv, OsxRegion PROVE SearchInv'
<1> DEFINE rest == MappedFrom(call.current)
           gapEnd == IF rest = {} THEN Limit ELSE FirstOf(rest) * PageSize
           c == call.current
           size == call.size
<1>1. /\ call \in CallType /\ os = "macos" /\ os' = os /\ quiet' = quiet /\ call.at = "region"
      /\ others' = others /\ ours' = ours /\ Mapped \in SUBSET Pages /\ Background = Mapped
      BY SearchTypes DEF OsxRegion, memory, history
<1>2. /\ size \in Nat /\ c \in Nat /\ call.max \in Nat /\ MaxAddress \in Nat /\ NumPages \in Nat
      /\ PageSize \in Nat \ {0} /\ Limit \in Nat /\ Limit <= MaxAddress
      /\ Limit <= NumPages * PageSize /\ NumPages * PageSize \in Nat
      BY <1>1, AllocatorAssumption, WordAssumption DEF CallType, Limit, Smaller, MayFind
<1>3. /\ call'.size = size /\ call'.min = call.min /\ call'.max = call.max
      /\ call'.stray = call.stray /\ call'.tries = call.tries
      /\ c > Limit => call'.at = "pass"
      /\ c <= Limit =>
           /\ call'.at = "map"
           /\ call'.candidates = IF gapEnd > c THEN PlacesIn(c, gapEnd) ELSE <<>>
           /\ call'.current = IF rest = {} THEN Limit + 1 ELSE EndOf(rest) * PageSize
      BY <1>1, <1>2, SMTT(60) DEF OsxRegion, CallType
<1>4. Background' = Background
      BY <1>1, <1>3 DEF Background, Mapped
<1>5. rest \in SUBSET Pages /\ rest \subseteq Mapped
      BY <1>1 DEF MappedFrom
<1>6. \A q \in Mapped : /\ q \in Int /\ q * PageSize \in Int
                        /\ (q + 1) * PageSize = q * PageSize + PageSize
      BY <1>1, <1>2 DEF Pages
<1>7. \A q \in Mapped \ rest : q * PageSize + PageSize <= c
      BY <1>2, <1>6 DEF MappedFrom
<1>8. ASSUME quiet, size > 0, NEW b \in Nat, Room(b) PROVE Untried(b)'
  <2>1. call.tries = 1 /\ c <= b
        BY <1>1, <1>8 DEF SearchInv, Searching, Untried, Ahead
  <2>2. b + size <= Limit /\ FreeFor(PagesOf(b, size))
        BY <1>1, <1>8 DEF Room
  <2>3. c <= Limit /\ call'.at = "map"
        BY <1>2, <1>3, <2>1, <2>2
  <2> HIDE DEF rest, c, size
  <2>4. ASSUME gapEnd \in Nat, Gap(c, gapEnd), b + size <= gapEnd PROVE Untried(b)'
    <3> HIDE DEF gapEnd
    <3>1. gapEnd > c
          BY <1>2, <1>8, <2>1, <2>4
    <3>2. \E i \in DOMAIN PlacesIn(c, gapEnd) : FreeFor(PagesOf(PlacesIn(c, gapEnd)[i], call.size))
          BY <1>2, <1>8, <2>1, <2>4, GapHasCandidate DEF size
    <3>3. Coming'
          BY <1>3, <1>4, <2>3, <3>1, <3>2 DEF Coming, FreeFor, PagesOf, Pages, size
    <3> QED
        BY <2>3, <3>3 DEF Untried
  <2>5. CASE rest = {}
    <3>1. Gap(c, Limit)
          BY <1>1, <1>2, <1>7, <2>5 DEF Gap
    <3> QED
        BY <1>2, <2>2, <2>4, <2>5, <3>1
  <2>6. CASE rest # {}
    <3> DEFINE f == FirstOf(rest)
               e == EndOf(rest)
    <3>1. f \in rest /\ e \in Nat /\ (\A q \in rest : f <= q) /\ f .. e - 1 \subseteq rest
          BY <1>5, <2>6, OsxPages
    <3> HIDE DEF f, e
    <3>2. f \in Nat /\ f < NumPages
      <4>1. f \in Pages
            BY <1>5, <3>1
      <4> QED
          BY <1>2, <4>1 DEF Pages
    <3>3. f * PageSize \in Nat /\ f * PageSize <= NumPages * PageSize
          BY <1>2, <3>2, PagesInOrder
    <3>4. gapEnd = f * PageSize
          BY <2>6 DEF f
    <3>5. CASE b + size <= f * PageSize
      <4>1. ASSUME NEW q \in Mapped
            PROVE  q * PageSize + PageSize <= c \/ f * PageSize <= q * PageSize
        <5>1. CASE q \in rest
          <6>1. f <= q /\ q \in Int /\ f \in Int
                BY <1>6, <3>1, <3>2, <5>1
          <6> QED
              BY <6>1, PagesInOrder
        <5> QED
            BY <1>7, <5>1
      <4>2. Gap(c, f * PageSize)
            BY <1>1, <3>3, <4>1 DEF Gap
      <4> QED
          BY <2>4, <3>3, <3>4, <3>5, <4>2
    <3>6. CASE b + size > f * PageSize
      <4> DEFINE k == b \div PageSize
      <4>1. k \in PagesOf(b, size) /\ k \in Nat
            BY <1>2, <1>8, FirstPage
      <4>2. f \notin PagesOf(b, size) /\ k \notin rest
            BY <1>1, <1>5, <2>2, <3>1, <4>1 DEF FreeFor
      <4>3. (f + 1) * PageSize <= b
        <5>1. ~(f * PageSize + PageSize > b /\ f * PageSize < b + size)
              BY <1>2, <3>2, <4>2, PageIn
        <5>2. (f + 1) * PageSize = f * PageSize + PageSize
              BY <1>2, <3>2
        <5> QED
            BY <1>2, <3>3, <3>6, <5>1, <5>2
      <4>4. f + 1 <= k
            BY <1>2, <3>2, <4>3, DivBelow
      <4> HIDE DEF k
      <4>5. e <= k
            BY <3>1, <3>2, <4>1, <4>2, <4>4
      <4>6. e * PageSize <= b
            BY <1>2, <3>1, <4>5, DivBelow DEF k
      <4>7. call'.current <= b
            BY <1>3, <2>3, <2>6, <4>6 DEF e
      <4> QED
          BY <1>1, <1>3, <2>1, <2>3, <4>7 DEF Untried, Ahead
    <3> QED
        BY <1>2, <3>3, <3>5, <3>6
  <2> QED
      BY <2>5, <2>6
<1>9. call'.at # "open"
      BY <1>2, <1>3
<1> QED
    BY <1>1, <1>3, <1>4, <1>8, <1>9, KeepsSearching

\* Windows: the region VirtualQuery returns is tried if it is free.
LEMMA SearchWindows ==
  ASSUME MayFind, AllocInv, SearchInv, WindowsRegion PROVE SearchInv'
<1> DEFINE c == call.current
           p == c \div PageSize
           size == call.size
           end == p * PageSize + RegionSize(p)
<1>1. /\ call \in CallType /\ os = "windows" /\ os' = os /\ quiet' = quiet /\ call.at = "region"
      /\ others' = others /\ ours' = ours /\ Mapped \in SUBSET Pages /\ Background = Mapped
      BY SearchTypes DEF WindowsRegion, memory, history
<1>2. /\ size \in Nat /\ c \in Nat /\ call.max \in Nat /\ MaxAddress \in Nat /\ NumPages \in Nat
      /\ PageSize \in Nat \ {0} /\ Limit \in Nat /\ RetryCount \in Nat \ {0}
      BY <1>1, AllocatorAssumption, WordAssumption DEF CallType, Limit, Smaller, MayFind
<1>3. p \in Nat /\ p * PageSize <= c /\ c < p * PageSize + PageSize /\ p * PageSize \in Nat
  <2>1. p \in Nat
        BY <1>2
  <2>2. p * PageSize <= c /\ ~((p + 1) * PageSize <= c)
        BY <1>2, <2>1, DivBelow
  <2> HIDE DEF p, c
  <2> QED
      BY <1>2, <2>1, <2>2
<1>4. /\ call'.size = size /\ call'.min = call.min /\ call'.max = call.max
      /\ call'.stray = call.stray /\ call'.tries = call.tries
      /\ c > Limit \/ p \notin Pages => call'.at = "pass"
      /\ c <= Limit /\ p \in Pages =>
           /\ call'.at = "map"
           /\ call'.candidates = IF p \in Mapped THEN <<>> ELSE PlacesIn(p * PageSize, end)
           /\ call.tries <= RetryCount => call'.current = c + RegionSize(p)
      BY <1>1, <1>2 DEF WindowsRegion, CallType
<1>5. Background' = Background
      BY <1>1, <1>4 DEF Background, Mapped
<1>6. ASSUME quiet, size > 0, NEW b \in Nat, Room(b) PROVE Untried(b)'
  <2> DEFINE k == b \div PageSize
  <2>1. call.tries = 1 /\ p <= k
        BY <1>1, <1>6 DEF SearchInv, Searching, Untried, Ahead
  <2>2. b + size <= Limit /\ FreeFor(PagesOf(b, size))
        BY <1>1, <1>6 DEF Room
  <2>3. size >= PageSize
    <3>1. size % PageSize = 0
          BY DEF SearchInv
    <3> HIDE DEF size
    <3> QED
        BY <1>2, <1>6, <3>1
  <2> HIDE DEF p, c, size
  <2>4. k \in PagesOf(b, size) /\ k \in Nat
        BY <1>2, <1>6, FirstPage
  <2>5. k \in Pages /\ k \notin Mapped
        BY <1>1, <2>2, <2>4 DEF FreeFor
  <2>6. p * PageSize <= b
        BY <1>2, <1>3, <2>1, DivBelow
  <2>7. c <= Limit
        BY <1>2, <1>3, <2>2, <2>3, <2>6
  <2>8. p \in Pages
    <3> HIDE DEF k
    <3> QED
        BY <1>2, <1>3, <2>1, <2>5 DEF Pages
  <2> DEFINE E == RegionEnd(p)
  <2>9. /\ RegionSize(p) \in Nat /\ E \in p + 1 .. NumPages
        /\ \A n \in p .. E - 1 : n \in Mapped <=> p \in Mapped
        /\ E = NumPages \/ ~(E \in Mapped <=> p \in Mapped)
        BY <2>8, WindowsPages
  <2>10. RegionSize(p) = (E - p) * PageSize
        BY DEF RegionSize
  <2> HIDE DEF E
  <2>11. E \in Nat /\ E * PageSize \in Nat /\ (E - p) * PageSize = E * PageSize - p * PageSize
        BY <1>2, <1>3, <2>9
  <2>12. end = E * PageSize
        BY <1>3, <2>10, <2>11
  <2>13. call'.at = "map" /\ call'.current = c + (E * PageSize - p * PageSize)
        BY <1>2, <1>4, <2>1, <2>7, <2>8, <2>10, <2>11
  <2>14. CASE E <= k
    <3> DEFINE d == c + (E * PageSize - p * PageSize)
    <3>1. d \in Nat /\ d < (E + 1) * PageSize
          BY <1>2, <1>3, <2>9, <2>11
    <3> HIDE DEF d
    <3>2. d \div PageSize < E + 1 /\ d \div PageSize \in Int
          BY <1>2, <2>11, <3>1, DivBelow
    <3>3. d \div PageSize <= k
      <4> HIDE DEF k
      <4> QED
          BY <2>4, <2>11, <2>14, <3>2
    <3>4. call'.current = d
          BY <2>13 DEF d
    <3> QED
        BY <1>1, <1>4, <2>1, <2>13, <3>3, <3>4 DEF Untried, Ahead
  <2>15. CASE k < E
    <3>1. k \in p .. E - 1
      <4> HIDE DEF k
      <4> QED
          BY <1>3, <2>1, <2>4, <2>11, <2>15
    <3>2. p \notin Mapped
          BY <2>5, <2>9, <3>1
    <3>3. E \notin PagesOf(b, size)
      <4>1. E \notin Pages \ Mapped
            BY <1>2, <2>9, <3>2 DEF Pages
      <4> QED
          BY <1>1, <2>2, <4>1 DEF FreeFor
    <3>4. b < E * PageSize
          BY <1>2, <2>11, <2>15, DivBelow
    <3>5. b + size <= E * PageSize
      <4>1. ~(E * PageSize + PageSize > b /\ E * PageSize < b + size)
            BY <1>2, <2>11, <3>3, PageIn
      <4> QED
          BY <1>2, <2>11, <3>4, <4>1
    <3>6. ASSUME NEW q \in Mapped
          PROVE  q * PageSize + PageSize <= p * PageSize \/ E * PageSize <= q * PageSize
      <4>1. q \in Int
            BY <1>1 DEF Pages
      <4>2. q \notin p .. E - 1
            BY <2>9, <3>2
      <4>3. CASE q < p
            BY <1>3, <4>1, <4>3, PagesInOrder
      <4>4. CASE q >= E
            BY <2>11, <4>1, <4>4, PagesInOrder
      <4> QED
          BY <1>3, <2>11, <4>1, <4>2, <4>3, <4>4
    <3>7. Gap(p * PageSize, end)
      <4>1. E * PageSize <= NumPages * PageSize
            BY <1>2, <2>9, <2>11, PagesInOrder
      <4> QED
          BY <1>1, <2>12, <3>6, <4>1 DEF Gap
    <3> DEFINE first == p * PageSize
    <3>8. /\ first \in Nat /\ end \in Nat /\ Gap(first, end) /\ first <= b
          /\ b + size <= end
          BY <1>3, <2>6, <2>11, <2>12, <3>5, <3>7
    <3>9. call'.candidates = PlacesIn(first, end)
          BY <1>4, <2>7, <2>8, <3>2
    <3> HIDE DEF first, end
    <3>10. \E i \in DOMAIN PlacesIn(first, end) :
             FreeFor(PagesOf(PlacesIn(first, end)[i], call.size))
          BY <1>2, <1>6, <3>8, GapHasCandidate DEF size
    <3>11. Coming'
          BY <1>4, <1>5, <3>9, <3>10 DEF Coming, FreeFor, PagesOf, Pages, size
    <3> QED
        BY <2>13, <3>11 DEF Untried
  <2> QED
      BY <2>4, <2>11, <2>14, <2>15
<1>7. call'.at # "open"
      BY <1>2, <1>4
<1> QED
    BY <1>1, <1>4, <1>5, <1>6, <1>7, KeepsSearching

\* The search begins undone.
LEMMA InitSearch == ASSUME Init PROVE SearchInv
<1>1. call.size = 0 /\ call.at = "idle"
      BY DEF Init, AllocInit, NoCall
<1>2. 0 % PageSize = 0
      BY AllocatorAssumption
<1> QED
    BY <1>1, <1>2 DEF SearchInv, Searching

\* Every step keeps the search complete.
LEMMA NextSearch ==
  ASSUME MayFind, AllocInv, SearchInv, [Next]_allocVars PROVE SearchInv'
<1>1. call \in CallType
      BY SearchTypes
<1>2. ASSUME os' = os, memory' = memory, call' = call, history' = history PROVE SearchInv'
      BY <1>2
      DEF memory, history, SearchInv, Searching, Untried, Coming, Ahead, Gap, Room, FreeFor,
                  Background, Mapped, Limit, PagesOf, AllocationGranularity, Pages
<1>3. CASE UNCHANGED allocVars
      BY <1>2, <1>3 DEF allocVars
<1>4. ASSUME NEW r \in AllocRequests, AllocatePrivateMemory(r) PROVE SearchInv'
      BY <1>4, SearchBegins DEF AllocatePrivateMemory
<1>5. CASE AllocatorStep
  <2>1. CASE ReadMap \/ StartWalk \/ StartRegions
        BY <2>1, SearchPasses
  <2>2. CASE \/ NoCandidateLeft \/ MapRefused \/ UnmapStray
             \/ \E base \in 0 .. MaxAddress : MapElsewhere(base)
        BY <2>2, SearchTries
  <2>3. CASE MapThere \/ MapNothing
    <3>1. call'.size = call.size /\ call'.at \in {"protect", "ok"}
          BY <1>1, <2>3 DEF MapThere, MapNothing, CallType
    <3> QED
        BY <3>1, NotSearching
  <2>4. CASE Protect
    <3>1. call'.size = call.size /\ call'.at # "open" /\ (~quiet' \/ call'.at = "ok")
          BY <1>1, <2>4 DEF Protect, CallType
    <3> QED
        BY <3>1, NotSearching
  <2>5. CASE OsxRegionFails
    <3>1. call'.size = call.size /\ call'.at = "pass" /\ ~quiet'
          BY <1>1, <2>5 DEF OsxRegionFails, CallType
    <3> QED
        BY <3>1, NotSearching
  <2>6. CASE ReadMapPanics
    <3>1. call'.size = 0 /\ call'.at = "idle"
          BY <2>6 DEF ReadMapPanics, NoCall
    <3> QED
        BY <3>1, NotSearching
  <2> QED
      BY <1>5, <2>1, <2>2, <2>3, <2>4, <2>5, <2>6, SearchOpens, SearchGivesUp, SearchLinux,
         SearchOsx, SearchWindows
      DEF AllocatorStep, LinuxStep, WindowsStep, OsxStep
<1>6. CASE ReturnStep
  <2>1. call'.size = 0 /\ call'.at = "idle"
        BY <1>6 DEF ReturnStep, ReturnAllocation, ReturnNull, ReturnError, NoCall
  <2> QED
      BY <2>1, NotSearching
<1>7. ASSUME call' = call, ~quiet' PROVE SearchInv'
  <2>1. CASE call.at = "open"
        BY <1>7, <2>1 DEF SearchInv, Searching
  <2> QED
      BY <1>7, <2>1, NotSearching
<1>8. CASE (\E a \in held : FreeAllocation(a)) \/ OtherStep
  <2>1. call' = call /\ ~quiet'
        BY <1>8 DEF FreeAllocation, OtherStep, OtherMaps, OtherUnmaps
  <2> QED
      BY <1>7, <2>1
<1>9. CASE FreeErrorResult
  <2>1. os' = os /\ call' = call /\ history' = history /\ memory' = memory
        BY <1>9 DEF FreeErrorResult, DropAllocation, NullAllocation, NewAllocation
  <2> QED
      BY <1>2, <2>1
<1> QED
    BY <1>3, <1>4, <1>5, <1>6, <1>8, <1>9 DEF Next

-----------------------------------------------------------------------------
\* Theorems

\* On all three systems, whatever other threads map and unmap meanwhile and whatever
\* the system refuses, the pages the library has mapped are exactly those of the blocks
\* the client holds and of the one allocate is about to return: the mapping at a wrong
\* address (buffer_allocator_linux.rs), the block that could not be protected
\* (buffer_allocator_osx.rs) and the dropped PrivateAllocation are all given back.
THEOREM NoPageLost == AllocSpec => []NothingLeaked
<1>1. AllocInv => NothingLeaked
      BY DEF AllocInv
<1> QED
    BY <1>1, AllocAlways, PTL

\* What allocate returns is a buffer as LocatorHeader and the client need it: aligned, not
\* null, not shorter than asked for, inside the limits of the request, and on pages
\* that belong to nobody else.
THEOREM BufferAsAskedFor == AllocSpec => []ResultFits
<1>1. ASSUME AllocInv PROVE ResultFits
  <2> SUFFICES ASSUME call.at = "ok", ~(os = "macos" /\ call.size = 0)
               PROVE  /\ call.result % AllocationGranularity = 0
                      /\ call.result # 0
                      /\ call.size >= call.wanted
                      /\ call.min <= call.result /\ call.result + call.size <= call.max
                      /\ PagesOf(call.result, call.size) \cap (others \cup PagesHeld) = {}
      BY DEF ResultFits
  <2> DEFINE a == call.result
             n == call.size
             P == PagesOf(a, n)
  <2>1. call \in CallType /\ Fits(call)
        BY <1>1 DEF AllocInv, AllocTypes, CallFits
  <2>2. a \in Nat /\ n \in Nat /\ call.wanted \in Nat /\ call.max \in 0 .. UsizeMax
        BY <2>1, WordAssumption DEF CallType
  <2>3. Placed(call, a) /\ P # {} /\ P \subseteq Pages /\ 0 \notin P
        BY <2>1 DEF Fits, Usable
  <2>4. a % AllocationGranularity = 0 /\ call.min <= a /\ AddWithOverflowCap(a, n) <= call.max
        BY <2>3 DEF Placed
  <2>5. P \cap (others \cup PagesHeld) = {}
        BY <1>1 DEF AllocInv, NothingLeaked, PagesApart, Pending
  <2> HIDE DEF a, n
  <2>6. /\ a % PageSize = 0 => n > 0
        /\ a # 0
        /\ a + n <= NumPages * PageSize
        BY <2>2, <2>3, BlockOfPages
  <2>7. a % PageSize = 0
    <3>1. AllocationGranularity \in Nat \ {0} /\ AllocationGranularity % PageSize = 0
          BY Granularity
    <3>2. PageSize \in Nat \ {0}
          BY AllocatorAssumption
    <3> QED
        BY <2>2, <2>4, <3>1, <3>2, MultipleOfMultiple
  <2>8. NumPages * PageSize \in Nat /\ NumPages * PageSize <= UsizeMax /\ UsizeMax \in Nat
        BY AllocatorAssumption, WordAssumption
  <2>9. a + n <= call.max
        BY <2>2, <2>4, <2>6, <2>8 DEF AddWithOverflowCap, Smaller
  <2>10. n >= call.wanted
        BY <2>1, <2>2, <2>6, <2>7 DEF Fits, n
  <2> QED
      BY <2>4, <2>5, <2>6, <2>9, <2>10 DEF a, n
<1> QED
    BY <1>1, AllocAlways, PTL

\* munmap, VirtualFree and mach_vm_deallocate take whatever is mapped where they point:
\* giving back a block or a stray mapping never hits memory of the rest of the process.
THEOREM RestOfProcessKept == AllocSpec => OthersKept
<1>1. AllocInv /\ [Next]_allocVars => [others \ others' # {} => env' # env]_allocVars
      BY NextAlloc
<1> QED
    BY <1>1, AllocAlways, PTL DEF AllocSpec, OthersKept

\* With nobody interfering allocate finds a place if there is one: each pass comes to
\* every place that is free, aligned and inside the limits, and tries it or one behind
\* it in the same gap (get_possible_buffer_addresses).
THEOREM RoomIsFound == ASSUME MayFind PROVE AllocSpec => []FindsRoom
<1>1. Init => SearchInv
      BY InitSearch
<1>2. AllocInv /\ SearchInv /\ [Next]_allocVars => SearchInv'
      BY NextSearch
<1>3. ASSUME AllocInv, SearchInv PROVE FindsRoom
  <2> SUFFICES ASSUME call.at = "error", quiet, call.size > 0, NEW b \in 1 .. MaxAddress,
                      b % AllocationGranularity = 0, call.min <= b, b + call.size <= Limit,
                      IsFree(PagesOf(b, IF os = "linux" THEN call.size + 1 ELSE call.size))
               PROVE  FALSE
      BY DEF FindsRoom
  <2>1. Background = Mapped
        BY <1>3, SearchTypes
  <2>2. Room(b) /\ b \in Nat
        BY <2>1, AllocatorAssumption DEF Room, FreeFor, IsFree
  <2>3. Untried(b)
        BY <1>3, <2>2 DEF SearchInv, Searching
  <2> QED
      BY <2>3 DEF Untried
<1> QED
    BY <1>1, <1>2, <1>3, AllocAlways, PTL DEF AllocSpec
=============================================================================
