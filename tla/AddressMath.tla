------------------------------- MODULE AddressMath -------------------------------
(***************************************************************************)
(* The pure arithmetic of the library: saturating and rounding arithmetic  *)
(* on machine words (utilities/mathematics.rs), address ranges             *)
(* (utilities/address_range.rs), the normalisation of request parameters   *)
(* (structs/params), the free gaps between mapped regions                  *)
(* (utilities/map_parser_utilities.rs) and the candidate addresses tried   *)
(* inside one free gap (internal/buffer_allocator.rs).                     *)
(***************************************************************************)
EXTENDS Integers, Sequences

CONSTANTS UsizeMax,   \* usize::MAX, the largest address
          U32         \* 2^32: the u32 fields of a request or item wrap here

\* usize has at least 32 bits.
ASSUME WordAssumption ==
  /\ UsizeMax \in Nat
  /\ U32 \in Nat \ {0}
  /\ U32 <= UsizeMax + 1

Larger(a, b)  == IF a >= b THEN a ELSE b
Smaller(a, b) == IF a <= b THEN a ELSE b

-----------------------------------------------------------------------------
\* utilities/mathematics.rs

RoundUp(number, multiple) ==
  IF multiple = 0 \/ number % multiple = 0
    THEN number
    ELSE (number + multiple - (number % multiple)) % (UsizeMax + 1)

RoundDown(number, multiple) ==
  IF multiple = 0 THEN number ELSE number - (number % multiple)

AddWithOverflowCap(a, b)       == Smaller(a + b, UsizeMax)
SubtractWithUnderflowCap(a, b) == Larger(a - b, 0)

-----------------------------------------------------------------------------
\* utilities/address_range.rs: both ends of a range are kept as the code keeps
\* them; contains and overlaps treat them as closed.

AddressRange(first, last) == [start |-> first, end |-> last]

RangeSize(r) == r.end - r.start

\* [Mutant] looks at the first byte only.
ContainsStart(r, other) == other.start >= r.start /\ other.start <= r.end

Contains(r, other) == other.start >= r.start /\ other.end <= r.end

PointInRange(r, p) == r.start <= p /\ p <= r.end

Overlaps(r, other) ==
  \/ PointInRange(r, other.start)
  \/ PointInRange(r, other.end)
  \/ PointInRange(other, r.start)
  \/ PointInRange(other, r.end)

-----------------------------------------------------------------------------
\* structs/params

\* BufferAllocatorSettings::sanitize, the size: at least one byte, rounded up
\* to the allocation granularity and truncated to u32.
SanitizedSize(size, granularity) ==
  RoundUp(Larger(size, 1), granularity) % U32

\* BufferAllocatorSettings::sanitize, the lower bound: VirtualAlloc reads
\* address 0 as "anywhere", so Windows never asks below the granularity.
SanitizedMin(min, granularity, windows) ==
  IF windows THEN Larger(min, granularity) ELSE min

\* BufferSearchSettings / BufferAllocatorSettings::from_proximity.
FromProximity(proximity, target) ==
  AddressRange(SubtractWithUnderflowCap(target, proximity),
               AddWithOverflowCap(target, proximity))

-----------------------------------------------------------------------------
\* utilities/map_parser_utilities.rs

\* get_free_regions: the gap in front of each mapped region, then what follows
\* the last one.  A gap starts at the last end address met, and ends one byte before
\* the region that closes it.  The code lists regions, which do not overlap, and gaps
\* in order of address.
FreeRegions(regions, maxAddress) ==
  LET Ends   == {0} \cup {r.end : r \in regions}
      Starts == {r.start : r \in regions}
      gaps   == {g \in Ends \X Starts :
                   g[1] < g[2] /\ \A s \in Starts : s < g[1] \/ g[2] <= s}
      last   == {e \in Ends : e < maxAddress /\ \A s \in Starts : s < e}
  IN  {AddressRange(g[1], g[2] - 1) : g \in gaps}
        \cup {AddressRange(e, maxAddress) : e \in last}

-----------------------------------------------------------------------------
\* internal/buffer_allocator.rs

\* get_possible_buffer_addresses: the page's first and last aligned address and
\* the request's first and last aligned address, each kept if a buffer placed
\* there lies inside the page and inside the request.
CandidateAddresses(min, max, page, size, granularity) ==
  << RoundUp(page.start, granularity),
     RoundDown(SubtractWithUnderflowCap(page.end, size), granularity),
     RoundUp(min, granularity),
     RoundDown(SubtractWithUnderflowCap(max, size), granularity) >>

FitsBetween(a, size, min, max, page) ==
  LET r == AddressRange(a, AddWithOverflowCap(a, size))
  IN  Contains(page, r) /\ Contains(AddressRange(min, max), r)

GetPossibleBufferAddresses(min, max, page, size, granularity) ==
  LET all == CandidateAddresses(min, max, page, size, granularity)
      Kept(i) == IF FitsBetween(all[i], size, min, max, page) THEN <<all[i]>> ELSE <<>>
  IN  IF ~Overlaps(page, AddressRange(min, max)) \/ size > RangeSize(page)
        THEN <<>>
        ELSE Kept(1) \o Kept(2) \o Kept(3) \o Kept(4)
=============================================================================
