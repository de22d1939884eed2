--------------------------- MODULE RegionsProofs ---------------------------
(***************************************************************************)
(* Proofs about the layout of the collector's memory, for any alignment,   *)
(* number and size of regions whose addresses are words, and about the     *)
(* loop of gc_sweep, for every layout, any page size, and regions that are *)
(* no larger than the range of a uint32_t.                                 *)
(***************************************************************************)
EXTENDS PageReturn, IntervalFacts, TLAPS

-----------------------------------------------------------------------------
(* Division *)

\* What a quotient is.
LEMMA DivFacts ==
    ASSUME NEW a \in Nat, NEW b \in Nat, b > 0
    PROVE  (a \div b) \in Nat /\ b * (a \div b) <= a /\ a < b * (a \div b) + b
BY Z3

\* What a remainder is.
LEMMA ModFacts ==
    ASSUME NEW a \in Nat, NEW b \in Nat, b > 0
    PROVE  (a % b) \in Nat /\ (a % b) < b /\ a = b * (a \div b) + (a % b)
BY Z3

\* The quotient is the only number with its bounds.
LEMMA DivUnique ==
    ASSUME NEW a \in Nat, NEW b \in Nat, NEW q \in Nat, b > 0, b * q <= a, a < b * q + b
    PROVE  (a \div b) = q
BY Z3

\* A multiple has no remainder.
LEMMA ModOfMultiple ==
    ASSUME NEW b \in Nat, NEW q \in Nat, b > 0
    PROVE  ((b * q) % b) = 0
BY Z3

\* A quotient is below a bound that the dividend is below a multiple of.
LEMMA DivBelow ==
    ASSUME NEW a \in Nat, NEW b \in Nat, NEW q \in Nat, b > 0, a < q * b
    PROVE  (a \div b) < q
<1>1. (a \div b) \in Nat /\ b * (a \div b) <= a  BY DivFacts
<1>2. SUFFICES ASSUME (a \div b) >= q PROVE FALSE  BY <1>1
<1>3. b * (a \div b) >= b * q
  <2> DEFINE d == a \div b
  <2>1. d \in Nat /\ d >= q  BY <1>1, <1>2
  <2> HIDE DEF d
  <2>2. b * d >= b * q  BY <2>1, Z3
  <2> QED  BY <2>2 DEF d
<1> QED  BY <1>1, <1>3, Z3

-----------------------------------------------------------------------------
(* Size classes *)

\* The units are positive multiples of the alignment and differ.
LEMMA Units ==
    /\ GC_UNIT \in Nat /\ GC_BIG_UNIT \in Nat /\ GC_HUGE_UNIT \in Nat
    /\ 0 < GC_UNIT /\ GC_UNIT < GC_BIG_UNIT /\ GC_BIG_UNIT < GC_HUGE_UNIT
<1>1. GC_UNIT \in Nat /\ GC_UNIT > 0 /\ Third \in Nat /\ Third > 1  BY RegionsAssumption
<1>2. GC_BIG_UNIT \in Nat /\ GC_UNIT < GC_BIG_UNIT
  BY <1>1, Z3 DEF GC_BIG_UNIT
<1>3. GC_HUGE_UNIT \in Nat /\ GC_BIG_UNIT < GC_HUGE_UNIT
  <2> HIDE DEF GC_BIG_UNIT
  <2> QED  BY <1>1, <1>2, Z3 DEF GC_HUGE_UNIT
<1> QED  BY <1>1, <1>2, <1>3

\* What the offsets of the units are.
LEMMA Offsets ==
    /\ gc_unit_offset(GC_UNIT) = 0
    /\ gc_unit_offset(GC_BIG_UNIT) = Third
    /\ gc_unit_offset(GC_HUGE_UNIT) = 2 * Third
<1>1. GC_BIG_UNIT # GC_UNIT /\ GC_HUGE_UNIT # GC_UNIT /\ GC_HUGE_UNIT # GC_BIG_UNIT  BY Units
<1> QED  BY <1>1 DEF gc_unit_offset, GC_BIG_IDX_OFFSET, GC_HUGE_IDX_OFFSET

MaxRequest == Third * GC_HUGE_UNIT

\* GC_malloc: every size up to the largest has a class, whose cells are large
\* enough and less than one unit of the class too large, and GC_realloc computes
\* the same class.
THEOREM SizeClasses ==
    ASSUME NEW bytes \in Nat, 0 < bytes, bytes <= MaxRequest
    PROVE  /\ IndexOf(bytes) \in Index
           /\ bytes <= CellSize(IndexOf(bytes))
           /\ CellSize(IndexOf(bytes)) < bytes + gc_size_unit(bytes)
           /\ gc_size_index(bytes) = IndexOf(bytes)
<1> USE Units, RegionsAssumption
<1>0. bytes - 1 \in Nat  OBVIOUS
<1>1. CASE bytes - 1 < GC_BIG_UNIT
  <2> DEFINE q == (bytes - 1) \div GC_UNIT
  <2>1. q \in Nat /\ GC_UNIT * q <= bytes - 1 /\ bytes - 1 < GC_UNIT * q + GC_UNIT
    BY <1>0, DivFacts
  <2>2. q < Third
    BY <1>0, <1>1, DivBelow DEF GC_BIG_UNIT
  <2>3. IndexOf(bytes) = q  BY <1>1 DEF IndexOf
  <2>4. gc_size_unit(bytes) = GC_UNIT  BY <1>1 DEF gc_size_unit
  <2>5. gc_size_index(bytes) = q
    BY <2>1, <2>4 DEF gc_size_index, gc_unit_offset
  <2>6. q \in Index  BY <2>1, <2>2 DEF Index, GC_NUM_REGIONS
  <2> HIDE DEF q
  <2>7. gc_index_unit(q) = GC_UNIT  BY <2>1, <2>2 DEF gc_index_unit, GC_BIG_IDX_OFFSET
  <2>8. CellSize(q) = q * GC_UNIT + GC_UNIT  BY <2>1, <2>7 DEF CellSize, gc_unit_offset
  <2>9. bytes <= q * GC_UNIT + GC_UNIT /\ q * GC_UNIT + GC_UNIT < bytes + GC_UNIT
    BY <2>1, Z3
  <2> QED  BY <2>3, <2>4, <2>5, <2>6, <2>8, <2>9
<1>2. CASE GC_BIG_UNIT <= bytes - 1 /\ bytes - 1 < GC_HUGE_UNIT
  <2> DEFINE q == (bytes - 1) \div GC_BIG_UNIT
  <2>1. q \in Nat /\ GC_BIG_UNIT * q <= bytes - 1 /\ bytes - 1 < GC_BIG_UNIT * q + GC_BIG_UNIT
    BY <1>0, DivFacts
  <2>2. q < Third
    BY <1>0, <1>2, DivBelow DEF GC_HUGE_UNIT
  <2>3. IndexOf(bytes) = Third + q  BY <1>2 DEF IndexOf, GC_BIG_IDX_OFFSET
  <2>4. gc_size_unit(bytes) = GC_BIG_UNIT  BY <1>2 DEF gc_size_unit
  <2>a. gc_unit_offset(GC_BIG_UNIT) = Third  BY DEF gc_unit_offset, GC_BIG_IDX_OFFSET
  <2>5. gc_size_index(bytes) = q + Third
    BY <2>1, <2>4, <2>a DEF gc_size_index
  <2> HIDE DEF q
  <2>6. Third + q \in Index  BY <2>1, <2>2 DEF Index, GC_NUM_REGIONS
  <2>b. q >= 1
    <3> SUFFICES ASSUME q = 0 PROVE FALSE  BY <2>1
    <3> QED  BY <2>1, <1>2
  <2>7. gc_index_unit(Third + q) = GC_BIG_UNIT
    BY <2>1, <2>2, <2>b DEF gc_index_unit, GC_BIG_IDX_OFFSET, GC_HUGE_IDX_OFFSET
  <2>8. CellSize(Third + q) = q * GC_BIG_UNIT + GC_BIG_UNIT
    <3>1. (Third + q) - Third = q  BY <2>1
    <3> QED  BY <2>7, <2>a, <3>1 DEF CellSize
  <2>9. bytes <= q * GC_BIG_UNIT + GC_BIG_UNIT /\ q * GC_BIG_UNIT + GC_BIG_UNIT < bytes + GC_BIG_UNIT
    BY <2>1, Z3
  <2>10. q + Third = Third + q  BY <2>1
  <2> QED  BY <2>3, <2>4, <2>5, <2>6, <2>8, <2>9, <2>10
<1>3. CASE GC_HUGE_UNIT <= bytes - 1
  <2> DEFINE q == (bytes - 1) \div GC_HUGE_UNIT
  <2>1. q \in Nat /\ GC_HUGE_UNIT * q <= bytes - 1 /\ bytes - 1 < GC_HUGE_UNIT * q + GC_HUGE_UNIT
    BY <1>0, DivFacts
  <2>c. bytes - 1 < Third * GC_HUGE_UNIT
    <3> DEFINE m == Third * GC_HUGE_UNIT
    <3>1. m \in Nat  BY Z3
    <3>2. bytes <= m  BY DEF MaxRequest
    <3> HIDE DEF m
    <3>3. bytes - 1 < m  BY <3>1, <3>2
    <3> QED  BY <3>3 DEF m
  <2>2. q < Third
    BY <1>0, <2>c, DivBelow
  <2>3. IndexOf(bytes) = 2 * Third + q  BY <1>3 DEF IndexOf, GC_HUGE_IDX_OFFSET
  <2>4. gc_size_unit(bytes) = GC_HUGE_UNIT  BY <1>3 DEF gc_size_unit
  <2>d. GC_HUGE_UNIT # GC_UNIT /\ GC_HUGE_UNIT # GC_BIG_UNIT  OBVIOUS
  <2>a. gc_unit_offset(GC_HUGE_UNIT) = 2 * Third  BY <2>d DEF gc_unit_offset, GC_HUGE_IDX_OFFSET
  <2>5. gc_size_index(bytes) = q + 2 * Third
    BY <2>1, <2>4, <2>a DEF gc_size_index
  <2> HIDE DEF q
  <2>6. 2 * Third + q \in Index  BY <2>1, <2>2 DEF Index, GC_NUM_REGIONS
  <2>b. q >= 1
    <3> SUFFICES ASSUME q = 0 PROVE FALSE  BY <2>1
    <3> QED  BY <2>1, <1>3
  <2>7. gc_index_unit(2 * Third + q) = GC_HUGE_UNIT
    BY <2>1, <2>2, <2>b DEF gc_index_unit, GC_BIG_IDX_OFFSET, GC_HUGE_IDX_OFFSET
  <2>8. CellSize(2 * Third + q) = q * GC_HUGE_UNIT + GC_HUGE_UNIT
    <3>1. (2 * Third + q) - 2 * Third = q  BY <2>1
    <3> QED  BY <2>7, <2>a, <3>1 DEF CellSize
  <2>9. bytes <= q * GC_HUGE_UNIT + GC_HUGE_UNIT /\ q * GC_HUGE_UNIT + GC_HUGE_UNIT < bytes + GC_HUGE_UNIT
    BY <2>1, Z3
  <2>10. q + 2 * Third = 2 * Third + q  BY <2>1
  <2> QED  BY <2>3, <2>4, <2>5, <2>6, <2>8, <2>9, <2>10
<1> QED  BY <1>0, <1>1, <1>2, <1>3

\* A size that has a class is not larger than the largest.
LEMMA ClassBounds ==
    ASSUME NEW bytes \in Nat, 0 < bytes, IndexOf(bytes) \in Index
    PROVE  bytes <= MaxRequest
<1> USE Units, RegionsAssumption
<1>0. MaxRequest \in Nat  BY Z3 DEF MaxRequest
<1>1. SUFFICES ASSUME bytes > MaxRequest PROVE FALSE  BY <1>0
<1>2. GC_HUGE_UNIT <= MaxRequest  BY Z3 DEF MaxRequest
<1>3. bytes - 1 \in Nat /\ bytes - 1 >= MaxRequest /\ bytes - 1 >= GC_HUGE_UNIT  BY <1>0, <1>1, <1>2
<1> DEFINE q == (bytes - 1) \div GC_HUGE_UNIT
<1>4. q \in Nat /\ bytes - 1 < GC_HUGE_UNIT * q + GC_HUGE_UNIT  BY <1>3, DivFacts
<1>5. IndexOf(bytes) = 2 * Third + q  BY <1>3 DEF IndexOf, GC_HUGE_IDX_OFFSET
<1> HIDE DEF q
<1>6. q < Third  BY <1>4, <1>5 DEF Index, GC_NUM_REGIONS
<1>7. GC_HUGE_UNIT * q + GC_HUGE_UNIT <= MaxRequest
  <2>1. q + 1 <= Third  BY <1>4, <1>6
  <2>2. GC_HUGE_UNIT * (q + 1) <= GC_HUGE_UNIT * Third  BY <2>1, <1>4, Z3
  <2> QED  BY <2>2, <1>4, Z3 DEF MaxRequest
<1>8. (GC_HUGE_UNIT * q + GC_HUGE_UNIT) \in Nat  BY <1>4, Z3
<1> QED  BY <1>0, <1>3, <1>4, <1>7, <1>8

\* The cells of a region are a positive multiple of the alignment.
LEMMA CellSizes ==
    ASSUME NEW idx \in Index
    PROVE  /\ CellSize(idx) \in Nat /\ CellSize(idx) > 0
           /\ \E m \in Nat : CellSize(idx) = GC_UNIT * m
<1> USE Units, RegionsAssumption
<1>0. idx \in Nat  BY DEF Index
<1>1. PICK n \in Nat, u \in {GC_UNIT, GC_BIG_UNIT, GC_HUGE_UNIT} : CellSize(idx) = n * u + u
  <2>1. CASE idx <= Third
    <3>1. gc_index_unit(idx) = GC_UNIT  BY <1>0, <2>1 DEF gc_index_unit, GC_BIG_IDX_OFFSET
    <3>2. CellSize(idx) = idx * GC_UNIT + GC_UNIT  BY <1>0, <3>1, Offsets DEF CellSize
    <3> QED  BY <1>0, <3>2
  <2>2. CASE idx > Third /\ idx <= 2 * Third
    <3>1. gc_index_unit(idx) = GC_BIG_UNIT
      BY <1>0, <2>2 DEF gc_index_unit, GC_BIG_IDX_OFFSET, GC_HUGE_IDX_OFFSET
    <3>2. CellSize(idx) = (idx - Third) * GC_BIG_UNIT + GC_BIG_UNIT  BY <3>1, Offsets DEF CellSize
    <3>3. idx - Third \in Nat  BY <1>0, <2>2
    <3> QED  BY <3>2, <3>3
  <2>3. CASE idx > 2 * Third
    <3>0. idx > Third  BY <1>0, <2>3
    <3>1. gc_index_unit(idx) = GC_HUGE_UNIT
      BY <1>0, <2>3, <3>0 DEF gc_index_unit, GC_BIG_IDX_OFFSET, GC_HUGE_IDX_OFFSET
    <3>2. CellSize(idx) = (idx - 2 * Third) * GC_HUGE_UNIT + GC_HUGE_UNIT  BY <3>1, Offsets DEF CellSize
    <3>3. idx - 2 * Third \in Nat  BY <1>0, <2>3
    <3> QED  BY <3>2, <3>3
  <2> QED  BY <1>0, <2>1, <2>2, <2>3
<1>2. u \in Nat /\ u > 0  OBVIOUS
<1>3. PICK k \in Nat : u = GC_UNIT * k
  <2>1. GC_UNIT = GC_UNIT * 1  OBVIOUS
  <2>2. GC_BIG_UNIT = GC_UNIT * Third  BY Z3 DEF GC_BIG_UNIT
  <2>3. GC_HUGE_UNIT = GC_UNIT * (Third * Third) /\ Third * Third \in Nat
    BY Z3 DEF GC_BIG_UNIT, GC_HUGE_UNIT
  <2> QED  BY <2>1, <2>2, <2>3
<1>4. CellSize(idx) \in Nat /\ CellSize(idx) > 0  BY <1>1, <1>2, Z3
<1>5. CellSize(idx) = GC_UNIT * (n * k + k) /\ (n * k + k) \in Nat  BY <1>1, <1>3, Z3
<1> QED  BY <1>4, <1>5

-----------------------------------------------------------------------------
(* Regions *)

\* The regions are next to each other.
LEMMA Bases ==
    ASSUME NEW idx \in Nat
    PROVE  /\ RegionBase(idx) \in Nat
           /\ RegionBase(idx + 1) = RegionBase(idx) + GC_REGION_SIZE
BY RegionsAssumption, Z3 DEF RegionBase

\* The first cell is at the first multiple of its size.
LEMMA Starts ==
    ASSUME NEW idx \in Index
    PROVE  /\ startptr(idx) \in Nat /\ RegionBase(idx) <= startptr(idx)
           /\ \E k \in Nat : startptr(idx) = CellSize(idx) * k
<1>0. idx \in Nat  BY RegionsAssumption DEF Index
<1>1. RegionBase(idx) \in Nat  BY <1>0, Bases
<1>2. CellSize(idx) \in Nat /\ CellSize(idx) > 0  BY CellSizes
<1> DEFINE b == RegionBase(idx)
           z == CellSize(idx)
           q == b \div z
           r == b % z
<1>3. r \in Nat /\ r < z /\ b = z * q + r /\ q \in Nat  BY <1>1, <1>2, ModFacts, DivFacts
<1>4. startptr(idx) = IF r = 0 THEN b ELSE b + z - r  BY DEF startptr
<1> HIDE DEF b, z, q, r
<1>5. b \in Nat /\ z \in Nat /\ z > 0  BY <1>1, <1>2 DEF b, z
<1>6. CASE r = 0
  <2>1. startptr(idx) = b /\ b = z * q  BY <1>3, <1>4, <1>5, <1>6, Z3
  <2> QED  BY <2>1, <1>3, <1>5 DEF b, z
<1>7. CASE r # 0
  <2>1. startptr(idx) = b + z - r  BY <1>4, <1>7
  <2>2. b + z - r = z * (q + 1) /\ q + 1 \in Nat  BY <1>3, <1>5, Z3
  <2>3. b + z - r \in Nat /\ b <= b + z - r  BY <1>3, <1>5
  <2> QED  BY <2>1, <2>2, <2>3 DEF b, z
<1> QED  BY <1>6, <1>7

\* The high word of the product with the inverse is the number of the cell of
\* size z that p points into, as far from its end as the rounding requires.
LEMMA Quotient ==
    ASSUME NEW p \in Nat, NEW z \in Nat, NEW w \in Nat, NEW inv \in Nat, NEW k \in Nat, NEW d \in Nat,
           z > 0, w > 0, w <= inv * z,
           z * k <= p, p + d < z * k + z, p * (inv * z - w) < (d + 1) * w
    PROVE  ((inv * p) \div w) = k
<1> DEFINE e == inv * z - w
<1>2. e \in Nat /\ inv * z = w + e /\ p * e < (d + 1) * w  BY Z3
<1> HIDE DEF e
<1>3. (inv * p) * z = p * w + p * e
  <2>1. (inv * p) * z = (inv * z) * p  BY Z3
  <2>2. (w + e) * p = p * w + p * e  BY <1>2, Z3
  <2> QED  BY <2>1, <2>2, <1>2
<1>4. w * k <= inv * p
  <2>1. (w * k) * z <= p * w  BY Z3
  <2>2. p * e \in Nat /\ p * w \in Nat  BY <1>2, Z3
  <2>3. (w * k) * z <= (inv * p) * z  BY <2>1, <2>2, <1>3, Z3
  <2> QED  BY <2>3, Z3
<1>5. inv * p < w * k + w
  <2>1. p + (d + 1) <= z * k + z  BY Z3
  <2>2. (p + (d + 1)) * w <= (z * k + z) * w  BY <2>1, Z3
  <2>3. (p + (d + 1)) * w = p * w + (d + 1) * w  BY Z3
  <2>4. p * w + p * e < (z * k + z) * w  BY <2>2, <2>3, <1>2, Z3
  <2>5. (z * k + z) * w = (w * k + w) * z  BY Z3
  <2>6. (inv * p) * z < (w * k + w) * z  BY <2>4, <2>5, <1>3
  <2> QED  BY <2>6, Z3
<1>6. inv * p \in Nat  BY Z3
<1> QED  BY <1>4, <1>5, <1>6, DivUnique

\* The inverse is the word range divided by the size, rounded up.
LEMMA SizeInverse ==
    ASSUME NEW idx \in Index
    PROVE  /\ inv_size(idx) \in Nat /\ WordRange <= inv_size(idx) * CellSize(idx)
           /\ inv_size(idx) * CellSize(idx) - WordRange < CellSize(idx)
<1>1. CellSize(idx) \in Nat /\ CellSize(idx) > 0  BY CellSizes
<1>2. WordRange \in Nat /\ WordRange - 1 \in Nat  BY RegionsAssumption
<1> DEFINE z == CellSize(idx)
           q == (WordRange - 1) \div z
<1>3. q \in Nat /\ z * q <= WordRange - 1 /\ WordRange - 1 < z * q + z  BY <1>1, <1>2, DivFacts
<1>4. inv_size(idx) = q + 1  BY DEF inv_size
<1> HIDE DEF z, q
<1>5. z \in Nat  BY <1>1 DEF z
<1>6. WordRange <= (q + 1) * z  BY <1>2, <1>3, <1>5, Z3
<1>7. (q + 1) * z - WordRange < z  BY <1>2, <1>3, <1>5, Z3
<1> QED  BY <1>3, <1>4, <1>6, <1>7 DEF z

\* The regions end inside the range of a word.
LEMMA BasesInRange ==
    ASSUME NEW idx \in Index
    PROVE  RegionBase(idx + 1) \in Nat /\ RegionBase(idx + 1) <= WordRange
<1> USE RegionsAssumption
<1>1. idx \in Nat /\ idx + 1 \in Nat /\ idx + 1 <= 3 * Third  BY DEF Index, GC_NUM_REGIONS
<1>2. GC_REGION_SIZE \in Nat /\ GC_MEMORY \in Nat /\ WordRange \in Nat /\ 3 * Third \in Nat
  OBVIOUS
<1>3. (idx + 1) * GC_REGION_SIZE <= (3 * Third) * GC_REGION_SIZE
  <2> DEFINE n == idx + 1
             m == 3 * Third
  <2>1. n \in Nat /\ m \in Nat /\ n <= m  BY <1>1, <1>2
  <2> HIDE DEF n, m
  <2>2. n * GC_REGION_SIZE <= m * GC_REGION_SIZE  BY <1>2, <2>1, Z3
  <2> QED  BY <2>2 DEF n, m
<1>4. (idx + 1) * GC_REGION_SIZE \in Nat /\ (3 * Third) * GC_REGION_SIZE \in Nat  BY <1>1, <1>2, Z3
<1>5. GC_MEMORY + (3 * Third) * GC_REGION_SIZE <= WordRange  BY AddressAssumption
<1>6. RegionBase(idx + 1) = GC_MEMORY + (idx + 1) * GC_REGION_SIZE  BY DEF RegionBase
<1> QED  BY <1>2, <1>3, <1>4, <1>5, <1>6

\* The rounding loses less than a cell, and no more than Slack anywhere in the
\* region.
LEMMA SlackFacts ==
    ASSUME NEW idx \in Index
    PROVE  /\ Slack(idx) \in Nat /\ Slack(idx) < CellSize(idx)
           /\ RegionBase(idx + 1) * (inv_size(idx) * CellSize(idx) - WordRange)
                < (Slack(idx) + 1) * WordRange
<1> DEFINE z == CellSize(idx)
           w == WordRange
           e == inv_size(idx) * CellSize(idx) - WordRange
           b == RegionBase(idx + 1)
           d == Slack(idx)
<1>1. z \in Nat /\ z > 0  BY CellSizes
<1>2. w \in Nat /\ w > 0  BY RegionsAssumption
<1>3. e \in Nat /\ e < z
  <2>1. inv_size(idx) \in Nat /\ w <= inv_size(idx) * z /\ e < z  BY SizeInverse
  <2>2. inv_size(idx) * z \in Nat  BY <1>1, <2>1, Z3
  <2> QED  BY <1>2, <2>1, <2>2
<1>4. b \in Nat /\ b <= w  BY BasesInRange
<1>5. d = (b * e) \div w  BY DEF Slack
<1> HIDE DEF z, w, e, b, d
<1>6. b * e \in Nat  BY <1>3, <1>4, Z3
<1>7. d \in Nat /\ w * d <= b * e /\ b * e < w * d + w  BY <1>2, <1>5, <1>6, DivFacts
<1>8. b * e < (d + 1) * w  BY <1>2, <1>7, Z3
<1>9. d < z
  <2>1. b * e <= w * e  BY <1>2, <1>3, <1>4, Z3
  <2>2. w * d <= w * e  BY <1>2, <1>3, <1>6, <1>7, <2>1, Z3
  <2>3. d <= e  BY <1>2, <1>3, <1>7, <2>2, Z3
  <2> QED  BY <1>1, <1>3, <1>7, <2>3
<1> QED  BY <1>7, <1>8, <1>9 DEF z, w, e, b, d

\* A pointer between the ends of a region is in that region.
LEMMA RegionOf ==
    ASSUME NEW idx \in Index, NEW p \in Nat, RegionBase(idx) <= p, p < RegionBase(idx + 1)
    PROVE  gc_index(p) = idx
<1>0. idx \in Nat /\ GC_REGION_SIZE \in Nat /\ GC_REGION_SIZE > 0 /\ GC_MEMORY \in Nat
  BY RegionsAssumption DEF Index
<1> DEFINE m == GC_MEMORY \div GC_REGION_SIZE
<1>1. m \in Nat /\ GC_MEMORY = GC_REGION_SIZE * m
  <2>1. GC_MEMORY = GC_REGION_SIZE * m + (GC_MEMORY % GC_REGION_SIZE) /\ m \in Nat
    BY <1>0, ModFacts, DivFacts
  <2>2. (GC_MEMORY % GC_REGION_SIZE) = 0  BY RegionsAssumption
  <2> HIDE DEF m
  <2>3. GC_REGION_SIZE * m \in Nat  BY <2>1, <1>0, Z3
  <2> QED  BY <2>1, <2>2, <2>3
<1> HIDE DEF m
<1>2. GC_REGION_SIZE * (m + idx) <= p /\ p < GC_REGION_SIZE * (m + idx) + GC_REGION_SIZE
  <2>1. RegionBase(idx) = GC_REGION_SIZE * (m + idx)  BY <1>0, <1>1, Z3 DEF RegionBase
  <2>2. RegionBase(idx + 1) = RegionBase(idx) + GC_REGION_SIZE  BY <1>0, Bases
  <2> QED  BY <2>1, <2>2
<1>3. m + idx \in Nat  BY <1>0, <1>1
<1>4. (p \div GC_REGION_SIZE) = m + idx  BY <1>0, <1>2, <1>3, DivUnique
<1> QED  BY <1>0, <1>1, <1>4 DEF gc_index, m

\* From a pointer into a cell that ends in its region, up to the bytes that the
\* rounding loses, the region and the cell are found.
LEMMA FindsCell ==
    ASSUME NEW idx \in Index, NEW k \in Nat, NEW p \in Nat,
           RegionBase(idx) <= CellSize(idx) * k,
           CellSize(idx) * k + CellSize(idx) <= RegionBase(idx + 1),
           CellSize(idx) * k <= p, p + Slack(idx) < CellSize(idx) * k + CellSize(idx)
    PROVE  gc_index(p) = idx /\ gc_objidx(p) = k
<1> DEFINE z == CellSize(idx)
           w == WordRange
           inv == inv_size(idx)
           d == Slack(idx)
           b == RegionBase(idx + 1)
<1>1. z \in Nat /\ z > 0  BY CellSizes
<1>2. RegionBase(idx) \in Nat /\ b \in Nat
  <2>1. idx \in Nat /\ idx + 1 \in Nat  BY RegionsAssumption DEF Index
  <2> QED  BY <2>1, Bases
<1>3. inv \in Nat /\ w <= inv * z /\ w \in Nat /\ w > 0  BY SizeInverse, RegionsAssumption
<1>4. d \in Nat /\ b * (inv * z - w) < (d + 1) * w  BY SlackFacts
<1>5. /\ RegionBase(idx) <= z * k /\ z * k + z <= b
      /\ z * k <= p /\ p + d < z * k + z
  OBVIOUS
<1> HIDE DEF z, w, inv, d, b
<1>6. z * k \in Nat  BY <1>1, Z3
<1>7. RegionBase(idx) <= p /\ p < b  BY <1>1, <1>2, <1>4, <1>5, <1>6
<1>8. gc_index(p) = idx  BY <1>7, RegionOf DEF b
<1>9. p * (inv * z - w) < (d + 1) * w
  <2> DEFINE e == inv * z - w
  <2>1. e \in Nat  BY <1>1, <1>3, Z3
  <2>2. b * e < (d + 1) * w  BY <1>4
  <2> HIDE DEF e
  <2>3. p * e <= b * e /\ p * e \in Nat /\ b * e \in Nat  BY <1>2, <1>7, <2>1, Z3
  <2>4. (d + 1) * w \in Nat  BY <1>3, <1>4, Z3
  <2>5. p * e < (d + 1) * w  BY <2>2, <2>3, <2>4
  <2> QED  BY <2>5 DEF e
<1>10. ((inv * p) \div w) = k  BY <1>1, <1>3, <1>4, <1>5, <1>9, Quotient
<1>11. gc_objidx(p) = ((inv * p) \div w)  BY <1>8 DEF gc_objidx, inv, w
<1> QED  BY <1>8, <1>10, <1>11

\* gc_mark and GC_base (PointersFindCells), for every layout whose addresses are
\* words.
THEOREM PointersFound == Spec => []PointersFindCells
<1>1. PointersFindCells
  <2> SUFFICES ASSUME NEW idx \in Index, NEW c \in CellsOf(idx), Inside(idx, c),
                      NEW p \in c .. c + CellSize(idx) - 1 - Slack(idx)
               PROVE  /\ gc_index(p) = idx
                      /\ gc_base(p) = c
                      /\ startptr(idx) + (gc_objidx(p) - gc_objidx(startptr(idx))) * CellSize(idx) = c
    BY DEF PointersFindCells
  <2> DEFINE z == CellSize(idx)
             s == startptr(idx)
  <2>1. z \in Nat /\ z > 0  BY CellSizes
  <2>2. s \in Nat /\ RegionBase(idx) <= s  BY Starts
  <2>3. PICK j \in Nat : s = z * j  BY Starts
  <2>4. c \in Int /\ s <= c /\ ((c - s) % z) = 0  BY DEF CellsOf
  <2>5. PICK k \in Nat : c - s = z * k
    <3>1. c - s \in Nat  BY <2>2, <2>4
    <3>2. (c - s) = z * ((c - s) \div z) + ((c - s) % z) /\ ((c - s) \div z) \in Nat
      BY <2>1, <3>1, ModFacts, DivFacts
    <3> DEFINE d == (c - s) \div z
    <3>3. (c - s) = z * d + 0 /\ d \in Nat  BY <2>4, <3>2
    <3> HIDE DEF d, z, s
    <3>4. z * d \in Nat  BY <3>3, <2>1, Z3
    <3>5. c - s = z * d  BY <3>3, <3>4
    <3> QED  BY <3>3, <3>5
  <2>6. c + z <= RegionBase(idx + 1)  BY DEF Inside
  <2>a. Slack(idx) \in Nat /\ Slack(idx) < z  BY SlackFacts
  <2>7. p \in Int /\ c <= p /\ p + Slack(idx) < c + z  BY <2>1, <2>4, <2>a
  <2>8. RegionBase(idx) \in Nat
    <3>1. idx \in Nat  BY RegionsAssumption DEF Index
    <3> QED  BY <3>1, Bases
  <2> HIDE DEF z, s
  <2>9. c = z * (j + k) /\ j + k \in Nat
    <3>1. z * j + z * k = z * (j + k)  BY <2>1, Z3
    <3>2. z * j \in Nat /\ z * k \in Nat  BY <2>1, Z3
    <3> QED  BY <2>2, <2>3, <2>4, <2>5, <3>1, <3>2
  <2>10. p \in Nat /\ RegionBase(idx) <= c  BY <2>2, <2>4, <2>7, <2>8
  <2>11. gc_index(p) = idx /\ gc_objidx(p) = j + k
    BY <2>6, <2>7, <2>9, <2>10, FindsCell DEF z
  <2>12. gc_objidx(s) = j
    <3>1. s + z <= RegionBase(idx + 1) /\ s + Slack(idx) < s + z
      <4>1. RegionBase(idx + 1) \in Nat
        <5>1. idx + 1 \in Nat  BY RegionsAssumption DEF Index
        <5> QED  BY <5>1, Bases
      <4> QED  BY <4>1, <2>1, <2>2, <2>4, <2>6, <2>a
    <3> QED  BY <3>1, <2>2, <2>3, FindsCell DEF z
  <2>13. gc_base(p) = c
    <3>1. gc_base(p) = (j + k) * z  BY <2>11 DEF gc_base, z
    <3> QED  BY <3>1, <2>9, <2>1, Z3
  <2>14. s + (gc_objidx(p) - gc_objidx(s)) * z = c
    <3>1. (gc_objidx(p) - gc_objidx(s)) = k  BY <2>11, <2>12
    <3>2. k * z = z * k  BY <2>1, Z3
    <3>3. z * k \in Nat  BY <2>1, Z3
    <3> QED  BY <3>1, <3>2, <3>3, <2>2, <2>4, <2>5
  <2> QED  BY <2>11, <2>13, <2>14 DEF z, s
<1> QED  BY <1>1, PTL

-----------------------------------------------------------------------------
(* Blocks *)

\* The next cell of every region, and the last block, are at multiples of the
\* cell size of their region.
Multiple(ptr, idx) == \E k \in Nat : ptr = CellSize(idx) * k

AllocInv ==
    /\ freeptr \in [Index -> Nat]
    /\ \A idx \in Index : Multiple(freeptr[idx], idx)
    /\ block # NoBlock => /\ block.size \in Nat /\ block.size > 0
                          /\ IndexOf(block.size) \in Index
                          /\ Multiple(block.ptr, IndexOf(block.size))

\* GC_init puts freeptr at the first cell of every region.
LEMMA InitAllocInv == Init => AllocInv
<1> SUFFICES ASSUME Init PROVE AllocInv  OBVIOUS
<1>1. \A idx \in Index : startptr(idx) \in Nat /\ Multiple(startptr(idx), idx)
  BY Starts DEF Multiple
<1>2. freeptr = [idx \in Index |-> startptr(idx)] /\ block = NoBlock  BY DEF Init
<1> QED  BY <1>1, <1>2 DEF AllocInv

\* Bumping the pointer by the size leads to the next multiple.
LEMMA Bumped ==
    ASSUME AllocInv, NEW idx \in Index, freeptr' = [freeptr EXCEPT ![idx] = @ + CellSize(idx)]
    PROVE  freeptr' \in [Index -> Nat] /\ \A r \in Index : Multiple(freeptr'[r], r)
<1>1. CellSize(idx) \in Nat  BY CellSizes
<1>2. freeptr \in [Index -> Nat]  BY DEF AllocInv
<1>3. freeptr[idx] + CellSize(idx) \in Nat  BY <1>1, <1>2
<1>4. Multiple(freeptr[idx] + CellSize(idx), idx)
  <2>1. PICK k \in Nat : freeptr[idx] = CellSize(idx) * k  BY DEF AllocInv, Multiple
  <2>2. CellSize(idx) * k + CellSize(idx) = CellSize(idx) * (k + 1) /\ k + 1 \in Nat
    <3> DEFINE z == CellSize(idx)
    <3>1. z \in Nat  BY <1>1
    <3> HIDE DEF z
    <3>2. z * k + z = z * (k + 1)  BY <3>1, Z3
    <3> QED  BY <3>2 DEF z
  <2> QED  BY <2>1, <2>2 DEF Multiple
<1>5. \A r \in Index : freeptr'[r] = IF r = idx THEN freeptr[idx] + CellSize(idx) ELSE freeptr[r]
  BY <1>2
<1>6. freeptr' \in [Index -> Nat]  BY <1>2, <1>3
<1>7. \A r \in Index : Multiple(freeptr'[r], r)  BY <1>4, <1>5 DEF AllocInv
<1> QED  BY <1>6, <1>7

\* GC_malloc_index moves freeptr by whole cells.
LEMMA NextAllocInv == AllocInv /\ [Next]_vars => AllocInv'
<1> SUFFICES ASSUME AllocInv, [Next]_vars PROVE AllocInv'  OBVIOUS
<1>1. ASSUME NEW bytes \in Requests, gcAlloc(bytes) PROVE AllocInv'
  <2> DEFINE idx == IndexOf(bytes)
  <2>1. idx \in Index /\ block' = [ptr |-> freeptr[idx], size |-> bytes]
        /\ freeptr' = [freeptr EXCEPT ![idx] = @ + CellSize(idx)]
    BY <1>1 DEF gcAlloc
  <2>2. freeptr' \in [Index -> Nat] /\ \A r \in Index : Multiple(freeptr'[r], r)
    BY <2>1, Bumped
  <2>3. bytes \in Nat /\ bytes > 0  BY RegionsAssumption
  <2>4. Multiple(freeptr[idx], idx)  BY <2>1 DEF AllocInv
  <2>5. block'.size = bytes /\ block'.ptr = freeptr[idx]  BY <2>1
  <2> QED  BY <2>1, <2>2, <2>3, <2>4, <2>5 DEF AllocInv
<1>2. ASSUME NEW bytes \in Requests, TooLarge(bytes) PROVE AllocInv'
  BY <1>2 DEF TooLarge, AllocInv
<1>3. ASSUME NEW bytes \in Requests, RegionFull(bytes) PROVE AllocInv'
  <2>1. IndexOf(bytes) \in Index /\ block' = block
        /\ freeptr' = [freeptr EXCEPT ![IndexOf(bytes)] = @ + CellSize(IndexOf(bytes))]
    BY <1>3 DEF RegionFull
  <2>2. freeptr' \in [Index -> Nat] /\ \A r \in Index : Multiple(freeptr'[r], r)
    BY <2>1, Bumped
  <2> QED  BY <2>1, <2>2 DEF AllocInv
<1>4. CASE UNCHANGED vars  BY <1>4 DEF vars, AllocInv
<1> QED  BY <1>1, <1>2, <1>3, <1>4 DEF Next, Ended

\* An address of a cell is a multiple of the cell size and of the alignment,
\* and the cell is as large as the request.
LEMMA AllocInvImplies == AllocInv => BlockHolds
<1> SUFFICES ASSUME AllocInv, block # NoBlock
             PROVE  /\ block.size <= CellSize(IndexOf(block.size))
                    /\ (block.ptr % CellSize(IndexOf(block.size))) = 0
                    /\ (block.ptr % GC_UNIT) = 0
                    /\ gc_size_index(block.size) = IndexOf(block.size)
  BY DEF BlockHolds
<1> DEFINE n == block.size
           idx == IndexOf(n)
           z == CellSize(idx)
<1>1. n \in Nat /\ n > 0 /\ idx \in Index  BY DEF AllocInv
<1>2. PICK k \in Nat : block.ptr = z * k  BY DEF AllocInv, Multiple
<1>3. n <= MaxRequest  BY <1>1, ClassBounds
<1>4. n <= z /\ gc_size_index(n) = idx  BY <1>1, <1>3, SizeClasses
<1>5. z \in Nat /\ z > 0  BY <1>1, CellSizes
<1>6. PICK m \in Nat : z = GC_UNIT * m  BY <1>1, CellSizes
<1>7. GC_UNIT \in Nat /\ GC_UNIT > 0  BY RegionsAssumption
<1> HIDE DEF z, idx, n
<1>8. ((z * k) % z) = 0  BY <1>5, ModOfMultiple
<1>9. ((z * k) % GC_UNIT) = 0
  <2>1. z * k = GC_UNIT * (m * k) /\ m * k \in Nat  BY <1>6, <1>7, Z3
  <2> QED  BY <2>1, <1>7, ModOfMultiple
<1> QED  BY <1>2, <1>4, <1>8, <1>9 DEF z, idx, n

\* GC_malloc (BlockHolds): every block is large enough and aligned.
THEOREM BlocksHold == Spec => []BlockHolds
BY InitAllocInv, NextAllocInv, AllocInvImplies, PTL DEF Spec

-----------------------------------------------------------------------------
(* Pages and products *)

\* A number below the modulus is its remainder.
LEMMA ModSmall ==
    ASSUME NEW a \in Nat, NEW b \in Nat, a < b
    PROVE  (a % b) = a
BY Z3

\* A remainder may be taken before a number is added.
LEMMA ModSum ==
    ASSUME NEW a \in Nat, NEW z \in Nat, NEW b \in Nat, b > 0
    PROVE  (((a % b) + z) % b) = ((a + z) % b)
<1> DEFINE r == a % b
           q == a \div b
           r2 == (r + z) % b
           q2 == (r + z) \div b
           x == a + z
<1>1. r \in Nat /\ q \in Nat /\ a = b * q + r
  BY ModFacts, DivFacts
<1> HIDE DEF r, q
<1>2. r + z \in Nat
  BY <1>1
<1>3. r2 \in Nat /\ q2 \in Nat /\ r2 < b /\ r + z = b * q2 + r2
  BY <1>2, ModFacts, DivFacts
<1> HIDE DEF r2, q2
<1>4. x \in Nat /\ x = b * (q + q2) + r2 /\ q + q2 \in Nat /\ b * (q + q2) \in Nat
  <2>1. b * (q + q2) = b * q + b * q2 /\ b * q \in Nat /\ b * q2 \in Nat
    BY <1>1, <1>3, Z3
  <2> QED BY <1>1, <1>3, <2>1
<1> HIDE DEF x
<1>5. (x \div b) = q + q2
  BY <1>3, <1>4, DivUnique
<1>6. (x % b) = r2
  <2>1. x = b * (q + q2) + (x % b) /\ (x % b) \in Nat
    BY <1>4, <1>5, ModFacts
  <2> QED BY <1>3, <1>4, <2>1
<1> QED BY <1>6 DEF x, r2, r

\* The conversion gives an integer, and zero for zero.
LEMMA Int32Types ==
    /\ \A n \in Int : ToInt32(n) \in Int
    /\ ToInt32(0) = 0
<1> DEFINE h == OffsetRange \div 2
<1>1. OffsetRange \in Nat /\ OffsetRange > 0 /\ h \in Nat /\ h < OffsetRange
  <2>1. OffsetRange \in Nat /\ OffsetRange > 0
    BY PageAssumption
  <2>2. h \in Nat /\ 2 * h <= OffsetRange
    BY <2>1, DivFacts
  <2> QED BY <2>1, <2>2
<1> HIDE DEF h
<1>2. \A n \in Int : ((n + h) % OffsetRange) - h \in Int
  BY <1>1
<1>3. ((0 + h) % OffsetRange) - h = 0
  BY <1>1, ModSmall
<1> QED BY <1>2, <1>3 DEF ToInt32, h

\* Conversions may be made at every step of a sum.
LEMMA Int32Sum ==
    ASSUME NEW a \in Nat, NEW z \in Nat
    PROVE  ToInt32(ToInt32(a) + z) = ToInt32(a + z)
<1> DEFINE h == OffsetRange \div 2
           m == (a + h) % OffsetRange
<1>1. OffsetRange \in Nat /\ OffsetRange > 0 /\ h \in Nat
  BY PageAssumption, DivFacts
<1>2. ToInt32(a) = m - h /\ ToInt32(a + z) = ((a + z + h) % OffsetRange) - h
      /\ ToInt32(ToInt32(a) + z) = ((ToInt32(a) + z + h) % OffsetRange) - h
  BY DEF ToInt32
<1> HIDE DEF h
<1>3. m \in Nat /\ a + h \in Nat
  BY <1>1, ModFacts
<1>4. ((m + z) % OffsetRange) = (((a + h) + z) % OffsetRange)
  BY <1>1, <1>3, ModSum
<1> HIDE DEF m
<1>5. ToInt32(a) + z + h = m + z /\ a + z + h = (a + h) + z
  BY <1>1, <1>2, <1>3
<1> QED BY <1>2, <1>4, <1>5

\* A size that is still positive has not wrapped.
LEMMA Int32Positive ==
    ASSUME NEW n \in Nat, n <= OffsetRange, ToInt32(n) > 0
    PROVE  ToInt32(n) = n
<1> DEFINE h == OffsetRange \div 2
           x == n + h
<1>1. /\ OffsetRange \in Nat /\ OffsetRange > 0
      /\ h \in Nat /\ 2 * h <= OffsetRange /\ OffsetRange < 2 * h + 2
  BY PageAssumption, DivFacts
<1>2. ToInt32(n) = (x % OffsetRange) - h
  BY DEF ToInt32
<1> HIDE DEF h
<1>3. x \in Nat
  BY <1>1
<1>4. CASE x < OffsetRange
  BY <1>1, <1>2, <1>3, <1>4, ModSmall
<1>5. CASE x >= OffsetRange
  <2>1. (x \div OffsetRange) = 1
    <3>1. OffsetRange * 1 <= x /\ x < OffsetRange * 1 + OffsetRange
      BY <1>1, <1>5
    <3> HIDE DEF x
    <3> QED BY <1>1, <1>3, <3>1, DivUnique
  <2>2. x = OffsetRange * 1 + (x % OffsetRange) /\ (x % OffsetRange) \in Nat
    <3> HIDE DEF x
    <3> QED BY <1>1, <1>3, <2>1, ModFacts
  <2>3. ToInt32(n) = n - OffsetRange
    BY <1>1, <1>2, <2>2
  <2> QED BY <1>1, <2>3
<1> QED BY <1>1, <1>3, <1>4, <1>5

\* A smaller factor gives a smaller product.
LEMMA Products ==
    ASSUME NEW z \in Nat, z > 0, NEW a \in Nat, NEW b \in Nat
    PROVE  /\ z * a \in Nat /\ z * (a + b) = z * a + z * b
           /\ a < b <=> z * a < z * b
           /\ a <= b <=> z * a <= z * b
<1>1. z * a \in Nat /\ z * (a + b) = z * a + z * b
  BY Z3
<1>2. a < b <=> z * a < z * b
  BY Z3
<1>3. a <= b <=> z * a <= z * b
  BY Z3
<1> QED BY <1>1, <1>2, <1>3

\* The whole pages of a run of k cells of size z from cell a on: their bytes
\* are in cells of the run, and with each byte its whole page is among them.
LEMMA PagesOfRun ==
    ASSUME NEW z \in Nat, z > 0, NEW P \in Nat, P > 0, NEW s \in Nat, NEW a \in Nat, NEW k \in Nat,
           z * k >= 3 * P,
           NEW diff, diff = (IF ((z * a) % P) = 0 THEN 0 ELSE P - ((z * a) % P)),
           NEW length, length = (z * k - diff) - ((z * k - diff) % P),
           NEW from, from = s + z * a + diff, (from % P) = 0,
           NEW b \in from .. from + length - 1
    PROVE  /\ b \in Nat /\ ((b - s) \div z) \in a .. a + k - 1
           /\ \A c \in 0 .. P - 1 : b - (b % P) + c \in from .. from + length - 1
<1>1. z * a \in Nat /\ z * k \in Nat /\ z * (a + k) = z * a + z * k
  BY Products
<1> DEFINE o == z * a
           w == z * k
           r == o % P
<1>2. r \in Nat /\ r < P
  BY <1>1, ModFacts
<1>3. diff \in Nat /\ diff < P
  BY <1>2
<1> HIDE DEF r
<1>4. o \in Nat /\ w \in Nat /\ w >= 3 * P /\ from = s + o + diff
  BY <1>1
<1> DEFINE v == w - diff
           q == v \div P
<1>a. length = v - (v % P)
  OBVIOUS
<1> HIDE DEF o, w
<1>5. v \in Nat
  BY <1>3, <1>4
<1> HIDE DEF v
<1>6. (v % P) \in Nat /\ v = P * q + (v % P) /\ q \in Nat
  BY <1>5, ModFacts, DivFacts
<1> HIDE DEF q
<1>7. P * q \in Nat
  BY <1>6, Products
<1>8. length = P * q /\ length <= w - diff
  BY <1>3, <1>4, <1>6, <1>7, <1>a DEF v
<1>9. from \in Nat /\ length \in Nat /\ b \in Nat /\ from <= b /\ b < from + length
  BY <1>3, <1>4, <1>7, <1>8
<1>10. b - s \in Nat /\ o <= b - s /\ b - s < o + w
  BY <1>3, <1>4, <1>8, <1>9
<1>11. ((b - s) \div z) \in a .. a + k - 1
  <2> DEFINE x == b - s
             y == x \div z
  <2>1. x \in Nat /\ z * a <= x /\ x < z * (a + k)
    BY <1>1, <1>10 DEF o, w
  <2> HIDE DEF x
  <2>2. y \in Nat /\ z * y <= x /\ x < z * y + z
    BY <2>1, DivFacts
  <2> HIDE DEF y
  <2>3. z * (y + 1) = z * y + z /\ z * y \in Nat /\ y + 1 \in Nat
    BY <2>2, Products, Z3
  <2>4. z * a < z * (y + 1) /\ z * y < z * (a + k) /\ a + k \in Nat
    BY <1>1, <2>1, <2>2, <2>3
  <2>5. a < y + 1 /\ y < a + k
    BY <2>2, <2>3, <2>4, Products
  <2> QED BY <2>2, <2>5 DEF x, y
<1>12. \A c \in 0 .. P - 1 : b - (b % P) + c \in from .. from + length - 1
  <2> DEFINE t == b \div P
             f == from \div P
  <2>1. t \in Nat /\ b = P * t + (b % P) /\ (b % P) \in Nat /\ (b % P) < P
    BY <1>9, ModFacts, DivFacts
  <2>2. f \in Nat /\ from = P * f
    <3>1. f \in Nat /\ from = P * f + (from % P)
      BY <1>9, ModFacts, DivFacts
    <3> HIDE DEF f
    <3>2. P * f \in Nat
      BY <3>1, Products
    <3> QED BY <3>1, <3>2
  <2> HIDE DEF t, f
  <2>3. P * t \in Nat /\ P * f \in Nat /\ P * (t + 1) = P * t + P /\ P * (f + q) = P * f + P * q
        /\ t + 1 \in Nat /\ f + q \in Nat
    BY <1>6, <2>1, <2>2, Products, Z3
  <2>4. P * f < P * (t + 1) /\ P * t < P * (f + q)
    BY <1>7, <1>8, <1>9, <2>1, <2>2, <2>3
  <2>5. f < t + 1 /\ t < f + q
    BY <2>1, <2>2, <2>3, <2>4, Products
  <2>6. f <= t /\ t + 1 <= f + q
    BY <1>6, <2>1, <2>2, <2>5
  <2>7. P * f <= P * t /\ P * (t + 1) <= P * (f + q)
    BY <2>1, <2>2, <2>3, <2>6, Products
  <2>8. b - (b % P) = P * t
    BY <2>1, <2>3
  <2> QED BY <1>7, <1>8, <1>9, <2>2, <2>3, <2>7, <2>8
<1> QED BY <1>9, <1>11, <1>12

-----------------------------------------------------------------------------
(* Before the sweep                                                        *)

\* Allocation leaves freeptr at whole cells behind the first one.
Allocated == AllocInv /\ TypeOK /\ \A idx \in Index : startptr(idx) <= freeptr[idx]

LEMMA InitAllocated == Init => Allocated
<1> SUFFICES ASSUME Init PROVE Allocated
  OBVIOUS
<1>1. AllocInv
  BY InitAllocInv
<1>2. \A idx \in Index : freeptr[idx] = startptr(idx) /\ startptr(idx) \in Nat
  BY Starts DEF Init
<1>3. TypeOK
  BY <1>1 DEF Init, TypeOK, AllocInv, NoBlock
<1> QED BY <1>1, <1>2, <1>3 DEF Allocated

LEMMA NextAllocated == Allocated /\ Next => Allocated'
<1> SUFFICES ASSUME Allocated, Next PROVE Allocated'
  OBVIOUS
<1>1. AllocInv' /\ freeptr \in [Index -> Nat] /\ freeptr' \in [Index -> Nat]
  <2>1. AllocInv'
    BY NextAllocInv DEF Allocated
  <2> QED BY <2>1 DEF Allocated, AllocInv
<1>2. block' \in [ptr : Nat, size : Nat] /\ pc' \in {"run", "abort", "panic"}
  <2>1. ASSUME NEW n \in Requests, gcAlloc(n)
        PROVE  block' \in [ptr : Nat, size : Nat] /\ pc' = pc
    <3>1. IndexOf(n) \in Index /\ block' = [ptr |-> freeptr[IndexOf(n)], size |-> n] /\ pc' = pc
      BY <2>1 DEF gcAlloc
    <3>2. n \in Nat /\ freeptr[IndexOf(n)] \in Nat
      BY <1>1, <3>1, RegionsAssumption
    <3> QED BY <3>1, <3>2
  <2>2. ASSUME NEW n \in Requests, TooLarge(n) \/ RegionFull(n)
        PROVE  block' = block /\ pc' \in {"abort", "panic"}
    BY <2>2 DEF TooLarge, RegionFull
  <2> QED BY <2>1, <2>2 DEF Next, Ended, vars, Allocated, TypeOK
<1>3. \A idx \in Index : freeptr[idx] <= freeptr'[idx]
  <2>1. ASSUME NEW x \in Index, freeptr' = [freeptr EXCEPT ![x] = @ + CellSize(x)]
        PROVE  \A idx \in Index : freeptr[idx] <= freeptr'[idx]
    <3>1. CellSize(x) \in Nat
      BY CellSizes
    <3> QED BY <1>1, <2>1, <3>1
  <2>2. ASSUME NEW n \in Requests, gcAlloc(n) \/ RegionFull(n)
        PROVE  \A idx \in Index : freeptr[idx] <= freeptr'[idx]
    BY <2>1, <2>2 DEF gcAlloc, RegionFull
  <2>3. UNCHANGED freeptr => \A idx \in Index : freeptr[idx] <= freeptr'[idx]
    BY <1>1
  <2> QED BY <2>2, <2>3 DEF Next, Ended, vars, TooLarge
<1>4. \A idx \in Index : startptr(idx) <= freeptr'[idx]
  <2> TAKE idx \in Index
  <2>1. startptr(idx) \in Nat
    BY Starts
  <2> QED BY <1>1, <1>3, <2>1 DEF Allocated
<1> QED BY <1>1, <1>2, <1>4 DEF Allocated, TypeOK

\* The number of the last cell, as the sweep computes it from freeptr: the
\* cells up to it are inside the region.
LEMMA LastCell ==
    ASSUME Allocated, NEW x \in Index, freeptr[x] # startptr(x),
           Inside(x, freeptr[x] - CellSize(x)),
           NEW n, n = gc_objidx(freeptr[x] - CellSize(x)) - gc_objidx(startptr(x))
    PROVE  /\ n \in Nat /\ freeptr[x] = startptr(x) + CellSize(x) * (n + 1)
           /\ CellSize(x) * (n + 1) <= GC_REGION_SIZE
<1> DEFINE z == CellSize(x)
           s == startptr(x)
           e == freeptr[x]
<1>1. z \in Nat /\ z > 0
  BY CellSizes
<1>2. s \in Nat /\ RegionBase(x) <= s /\ \E j \in Nat : s = z * j
  BY Starts
<1>3. e \in Nat /\ s <= e /\ e # s /\ \E k \in Nat : e = z * k
  BY DEF Allocated, AllocInv, Multiple
<1>4. RegionBase(x) \in Nat /\ RegionBase(x + 1) = RegionBase(x) + GC_REGION_SIZE
      /\ GC_REGION_SIZE \in Nat
  <2>1. x \in Nat
    BY RegionsAssumption DEF Index
  <2> QED BY <2>1, Bases, RegionsAssumption
<1>5. e - z + z <= RegionBase(x + 1)
  BY DEF Inside
<1>a. n = gc_objidx(e - z) - gc_objidx(s)
  OBVIOUS
<1>b. ASSUME NEW k \in Nat, NEW p \in Nat, p = z * k, RegionBase(x) <= p,
             p + z <= RegionBase(x + 1)
      PROVE  gc_objidx(p) = k
  <2>1. p + Slack(x) < p + z
    BY <1>1, SlackFacts
  <2> QED BY <1>b, <2>1, FindsCell
<1> HIDE DEF z, s, e
<1>6. PICK j \in Nat : s = z * j
  BY <1>2
<1>7. PICK k \in Nat : e = z * k
  BY <1>3
<1>8. j < k
  <2>1. z * j < z * k
    BY <1>2, <1>3, <1>6, <1>7
  <2> QED BY <1>1, <2>1, Products
<1>9. k - 1 \in Nat /\ (k - 1) + 1 = k
  BY <1>8
<1>10. e = z * (k - 1) + z /\ z * (k - 1) \in Nat
  <2>1. z * ((k - 1) + 1) = z * (k - 1) + z * 1 /\ z * (k - 1) \in Nat
    BY <1>1, <1>9, Products
  <2> QED BY <1>1, <1>7, <1>9, <2>1
<1>11. s <= z * (k - 1)
  <2>1. j <= k - 1
    BY <1>8
  <2> QED BY <1>1, <1>6, <1>9, <2>1, Products
<1>12. gc_objidx(e - z) = k - 1
  <2>1. e - z = z * (k - 1) /\ e - z \in Nat
    BY <1>1, <1>10
  <2>2. RegionBase(x) <= e - z
    BY <1>2, <1>4, <1>11, <2>1
  <2> QED BY <1>5, <1>9, <1>b, <2>1, <2>2
<1>13. gc_objidx(s) = j
  <2>1. s + z <= RegionBase(x + 1)
    BY <1>1, <1>2, <1>4, <1>5, <1>10, <1>11
  <2> QED BY <1>2, <1>6, <1>b, <2>1
<1>14. n = (k - 1) - j /\ n \in Nat /\ j + (n + 1) = k
  BY <1>8, <1>12, <1>13, <1>a
<1>15. e = s + z * (n + 1) /\ z * (n + 1) \in Nat
  <2>1. z * (j + (n + 1)) = z * j + z * (n + 1) /\ z * (n + 1) \in Nat
    BY <1>1, <1>14, Products
  <2> QED BY <1>6, <1>7, <1>14, <2>1
<1>16. z * (n + 1) <= GC_REGION_SIZE
  BY <1>1, <1>2, <1>3, <1>4, <1>5, <1>15
<1> QED BY <1>14, <1>15, <1>16 DEF z, s, e

-----------------------------------------------------------------------------
(* The loop                                                                *)

\* The cells from ptridx on that freesize counts are unmarked.
RunOK ==
    \E k \in Nat : /\ freesize = ToInt32(size * k) /\ ptridx + k <= last
                   /\ \A c \in ptridx + 1 .. ptridx + k : c \notin marked

\* What was given back is whole pages of unmarked cells.
PagesDead ==
    \A b \in returned :
        /\ ((b - startptr(i)) \div size) \in (0 .. last) \ marked
        /\ \A c \in 0 .. GC_PAGESIZE - 1 : b - (b % GC_PAGESIZE) + c \in returned

\* Up to the first stop all cells above ptridx are unmarked; then the used part
\* is cut.
CutOK ==
    /\ target - 1 <= ptridx
    /\ start => \A c \in ptridx + 1 .. last : c \notin marked
    /\ ~start => Cut
    /\ at = "done" => ~start

\* The inductive invariant.
SweepInv ==
    /\ SweepTypeOK
    /\ at = "alloc" => Allocated /\ returned = {}
    /\ at # "alloc" => /\ size * (last + 1) <= GC_REGION_SIZE
                       /\ RunOK /\ PagesDead /\ CutOK

\* Sizes and addresses in the loop.
LEMMA LoopTypes ==
    ASSUME SweepInv
    PROVE  /\ i \in Index /\ last \in Nat /\ size \in Nat /\ size > 0 /\ startptr(i) \in Nat
           /\ ptridx \in Int /\ -1 <= ptridx /\ ptridx <= last
           /\ target \in Nat /\ 2 * target <= last /\ last < 2 * target + 2
           /\ GC_PAGESIZE \in Nat /\ GC_PAGESIZE > 0 /\ OffsetRange \in Nat /\ OffsetRange > 0
<1>1. i \in Index /\ last \in Nat /\ ptridx \in -1 .. last
  BY DEF SweepInv, SweepTypeOK
<1>2. size \in Nat /\ size > 0 /\ startptr(i) \in Nat
  BY <1>1, CellSizes, Starts DEF size
<1>3. target \in Nat /\ 2 * target <= last /\ last < 2 * target + 2
  BY <1>1, DivFacts DEF target
<1> QED BY <1>1, <1>2, <1>3, PageAssumption

\* The offset of the run's first cell.
LEMMA Offsets32 ==
    ASSUME SweepInv
    PROVE  /\ Offset \in Nat
           /\ (ptridx < last /\ size * (last + 1) <= OffsetRange) => Offset = size * (ptridx + 1)
           /\ size * (last + 1) < OffsetRange => Offset = size * (ptridx + 1)
<1>1. /\ ptridx + 1 \in Nat /\ last + 1 \in Nat /\ ptridx + 1 <= last + 1
      /\ size \in Nat /\ size > 0 /\ OffsetRange \in Nat /\ OffsetRange > 0
      /\ last \in Nat /\ ptridx \in Int
  BY LoopTypes
<1> DEFINE a == ptridx + 1
           n == last + 1
           z == size
<1>2. z * a \in Nat /\ z * n \in Nat /\ (a < n => z * a < z * n) /\ z * a <= z * n
  <2>1. a \in Nat /\ n \in Nat /\ a <= n /\ z \in Nat /\ z > 0
    BY <1>1
  <2> HIDE DEF a, n, z
  <2> QED BY <2>1, Products
<1>3. Offset = ((z * a) % OffsetRange)
  BY DEF Offset
<1>4. Offset \in Nat
  <2> HIDE DEF a, z
  <2> QED BY <1>1, <1>2, <1>3, ModFacts
<1>5. ASSUME z * a < OffsetRange PROVE Offset = z * a
  <2> HIDE DEF a, z
  <2> QED BY <1>1, <1>2, <1>3, <1>5, ModSmall
<1>6. ASSUME ptridx < last, z * n <= OffsetRange PROVE z * a < OffsetRange
  <2>1. a < n
    BY <1>1, <1>6
  <2> HIDE DEF a, n, z
  <2> QED BY <1>1, <1>2, <1>6, <2>1
<1>7. ASSUME z * n < OffsetRange PROVE z * a < OffsetRange
  <2> HIDE DEF a, n, z
  <2> QED BY <1>1, <1>2, <1>7
<1> QED BY <1>4, <1>5, <1>6, <1>7

\* The end of the used part after the first stop.
LEMMA CutAt ==
    ASSUME SweepInv, CutOK, start, AtStop,
           freeptr' = [freeptr EXCEPT ![i] = startptr(i) + Offset]
    PROVE  freeptr'[i] = startptr(i)
                            + ((size * Max({last \div 2} \cup {c + 1 : c \in marked})) % OffsetRange)
<1> DEFINE S == {last \div 2} \cup {c + 1 : c \in marked}
<1>1. /\ ptridx \in Int /\ -1 <= ptridx /\ ptridx <= last /\ last \in Nat /\ i \in Index
      /\ target \in Nat /\ target <= last /\ freeptr \in [Index -> Nat]
      /\ marked \subseteq 0 .. last
  BY LoopTypes DEF SweepInv, SweepTypeOK, TypeOK
<1>2. target - 1 <= ptridx /\ \A c \in ptridx + 1 .. last : c \notin marked
  BY DEF CutOK
<1>3. S \in SUBSET (0 .. last + 1) /\ S # {}
  BY <1>1 DEF target
<1>4. \A x \in S : x <= ptridx + 1
  <2>1. target <= ptridx + 1
    BY <1>1, <1>2
  <2>2. \A c \in marked : c <= ptridx
    BY <1>1, <1>2
  <2> QED BY <1>1, <2>1, <2>2 DEF target
<1>5. ptridx + 1 \in S
  <2>1. CASE ptridx < target
    BY <1>1, <1>2, <2>1 DEF target
  <2>2. CASE ptridx \in marked
    BY <2>2
  <2> QED BY <2>1, <2>2 DEF AtStop
<1>6. Max(S) \in S /\ \A x \in S : x <= Max(S)
  <2>1. last + 1 \in Nat
    BY <1>1
  <2> HIDE DEF S
  <2> QED BY <1>3, <2>1, Greatest
<1>7. Max(S) = ptridx + 1
  <2> HIDE DEF S
  <2>1. Max(S) <= ptridx + 1 /\ ptridx + 1 <= Max(S) /\ Max(S) \in 0 .. last + 1
    BY <1>3, <1>4, <1>5, <1>6
  <2> QED BY <1>1, <2>1
<1>8. freeptr'[i] = startptr(i) + Offset
  BY <1>1
<1> QED BY <1>7, <1>8 DEF Offset

LEMMA InitSweepInv == SweepInit => SweepInv
<1> SUFFICES ASSUME SweepInit PROVE SweepInv
  OBVIOUS
<1>1. Allocated
  BY InitAllocated DEF SweepInit
<1>2. 0 \in Index
  BY RegionsAssumption DEF Index, GC_NUM_REGIONS
<1>3. /\ at = "alloc" /\ i = 0 /\ last = 0 /\ marked = {} /\ returning = FALSE
      /\ ptridx = 0 /\ freesize = 0 /\ start = FALSE /\ returned = {}
  BY DEF SweepInit
<1>4. TypeOK
  BY <1>1 DEF Allocated
<1>5. ptridx \in -1 .. last /\ last \in Nat /\ freesize \in Int
  BY <1>3
<1>6. SweepTypeOK
  BY <1>2, <1>3, <1>4, <1>5 DEF SweepTypeOK
<1> QED BY <1>1, <1>3, <1>6 DEF SweepInv

\* gc_sweep begins with a region whose cells up to the last one are in it.
LEMMA BeginKeeps ==
    ASSUME SweepInv, NEW idx \in Index, SweepRegion(idx)
    PROVE  SweepInv'
<1>1. /\ at = "alloc" /\ at' = "loop" /\ i' = idx /\ Allocated /\ returned = {} /\ returned' = {}
      /\ ptridx' = last' /\ freesize' = 0 /\ start' = TRUE /\ TypeOK /\ TypeOK'
      /\ marked' \in SUBSET (0 .. last') /\ returning' \in BOOLEAN
  BY DEF SweepRegion, SweepInv, Allocated, TypeOK, vars
<1>2. last' \in Nat /\ CellSize(idx) * (last' + 1) <= GC_REGION_SIZE
  BY LastCell, <1>1 DEF SweepRegion
<1>3. CellSize(idx) \in Nat
  BY CellSizes
<1>4. PICK n \in Nat : n = last'
  BY <1>2
<1>5. PICK x \in Index : x = i'
  BY <1>1
<1>6. SweepTypeOK'
  <2>1. freesize' \in Int
    BY <1>1
  <2>2. ptridx' \in -1 .. last'
    BY <1>1, <1>4
  <2> QED BY <1>1, <1>2, <2>1, <2>2 DEF SweepTypeOK
<1>7. (size * (last + 1) <= GC_REGION_SIZE)'
  BY <1>1, <1>2 DEF size
<1>8. RunOK'
  <2>1. size' * 0 = 0
    BY <1>1, <1>3 DEF size
  <2>2. n + 0 <= n /\ n + 1 .. n + 0 = {}
    OBVIOUS
  <2> QED BY <1>1, <1>4, <2>1, <2>2, Int32Types DEF RunOK
<1>9. PagesDead'
  BY <1>1 DEF PagesDead
<1>10. CutOK'
  <2>1. (n \div 2) \in Nat /\ (n \div 2) - 1 <= n /\ n + 1 .. n = {}
    BY DivFacts
  <2>2. target' - 1 <= ptridx'
    BY <1>1, <1>4, <2>1 DEF target
  <2>3. \A c \in ptridx' + 1 .. last' : c \notin marked'
    BY <1>1, <1>4, <2>1
  <2> QED BY <1>1, <2>2, <2>3 DEF CutOK
<1> QED BY <1>1, <1>6, <1>7, <1>8, <1>9, <1>10 DEF SweepInv

\* An unmarked cell makes the run longer by one.
LEMMA FreeKeeps ==
    ASSUME SweepInv, Free
    PROVE  SweepInv'
<1>1. /\ at = "loop" /\ ~ (ptridx < target) /\ ptridx \notin marked
      /\ freesize' = ToInt32(freesize + size) /\ ptridx' = ptridx - 1
      /\ UNCHANGED <<vars, at, i, last, marked, returning, start, returned>>
      /\ UNCHANGED <<freeptr, block, pc>>
  BY DEF Free, AtStop, vars
<1>2. /\ i \in Index /\ last \in Nat /\ size \in Nat /\ size > 0
      /\ ptridx \in Int /\ -1 <= ptridx /\ ptridx <= last /\ target \in Nat
  BY LoopTypes
<1>3. SweepTypeOK /\ size * (last + 1) <= GC_REGION_SIZE /\ RunOK /\ PagesDead /\ CutOK
  BY <1>1 DEF SweepInv
<1>4. size' = size /\ target' = target /\ Cut' = Cut
  BY <1>1 DEF size, target, Cut
<1>5. ptridx >= 0 /\ ptridx' \in -1 .. last
  BY <1>1, <1>2
<1>6. SweepTypeOK'
  <2>1. freesize \in Int
    BY <1>3 DEF SweepTypeOK
  <2>2. freesize' \in Int
    BY <1>1, <1>2, <2>1, Int32Types
  <2> QED BY <1>1, <1>2, <1>3, <1>5, <2>2 DEF SweepTypeOK, TypeOK
<1>7. RunOK'
  <2>1. PICK k \in Nat : /\ freesize = ToInt32(size * k) /\ ptridx + k <= last
                         /\ \A c \in ptridx + 1 .. ptridx + k : c \notin marked
    BY <1>3 DEF RunOK
  <2>2. size * (k + 1) = size * k + size /\ size * k \in Nat
    <3> DEFINE z == size
    <3>1. z \in Nat
      BY <1>2
    <3> HIDE DEF z
    <3>2. z * (k + 1) = z * k + z /\ z * k \in Nat
      BY <3>1, Z3
    <3> QED BY <3>2 DEF z
  <2>3. freesize' = ToInt32(size' * (k + 1))
    <3>1. freesize' = ToInt32(ToInt32(size * k) + size)
      BY <1>1, <2>1
    <3>2. ToInt32(ToInt32(size * k) + size) = ToInt32(size * k + size)
      BY <1>2, <2>2, Int32Sum
    <3> QED BY <1>4, <2>2, <3>1, <3>2
  <2>4. ptridx' + (k + 1) <= last'
    BY <1>1, <1>2, <2>1
  <2>5. \A c \in ptridx' + 1 .. ptridx' + (k + 1) : c \notin marked'
    <3>1. \A c \in ptridx' + 1 .. ptridx' + (k + 1) : c = ptridx \/ c \in ptridx + 1 .. ptridx + k
      BY <1>1, <1>2
    <3> QED BY <1>1, <2>1, <3>1
  <2>6. k + 1 \in Nat
    OBVIOUS
  <2> QED BY <2>3, <2>4, <2>5, <2>6 DEF RunOK
<1>8. PagesDead'
  BY <1>1, <1>3, <1>4 DEF PagesDead
<1>9. CutOK'
  <2>1. target' - 1 <= ptridx'
    BY <1>1, <1>2, <1>4
  <2>2. start' => \A c \in ptridx' + 1 .. last' : c \notin marked'
    <3>1. \A c \in ptridx' + 1 .. last' : c = ptridx \/ c \in ptridx + 1 .. last
      BY <1>1, <1>2
    <3> QED BY <1>1, <1>3, <3>1 DEF CutOK
  <2> QED BY <1>1, <1>3, <1>4, <2>1, <2>2 DEF CutOK
<1> QED BY <1>1, <1>3, <1>4, <1>6, <1>7, <1>8, <1>9 DEF SweepInv

\* The end of a run gives its whole pages back, and cuts the region if it is
\* the first.
LEMMA StopKeeps ==
    ASSUME GC_REGION_SIZE <= OffsetRange, SweepInv, Stop
    PROVE  SweepInv'
<1>1. /\ at = "loop" /\ AtStop /\ freesize' = 0 /\ start' = FALSE
      /\ returned' = (IF freesize >= 3 * GC_PAGESIZE THEN returned \cup ReturnedPages ELSE returned)
      /\ freeptr' = (IF start THEN [freeptr EXCEPT ![i] = startptr(i) + Offset] ELSE freeptr)
      /\ \/ at' = "done" /\ ptridx' = ptridx
         \/ ~ (ptridx < target) /\ ptridx' = ptridx - 1 /\ at' = at
      /\ UNCHANGED <<block, pc, i, last, marked, returning>>
  BY DEF Stop
<1>2. /\ i \in Index /\ last \in Nat /\ size \in Nat /\ size > 0 /\ startptr(i) \in Nat
      /\ ptridx \in Int /\ -1 <= ptridx /\ ptridx <= last /\ target \in Nat
      /\ GC_PAGESIZE \in Nat /\ GC_PAGESIZE > 0 /\ OffsetRange \in Nat
  BY LoopTypes
<1>3. SweepTypeOK /\ size * (last + 1) <= GC_REGION_SIZE /\ RunOK /\ PagesDead /\ CutOK
  BY <1>1 DEF SweepInv
<1>4. size' = size /\ target' = target
  BY <1>1 DEF size, target
<1>5. ptridx' \in -1 .. last' /\ target' - 1 <= ptridx'
  <2>1. target - 1 <= ptridx
    BY <1>3 DEF CutOK
  <2> QED BY <1>1, <1>2, <1>4, <2>1
<1>6. freeptr' \in [Index -> Nat]
  <2>1. Offset \in Nat
    BY Offsets32
  <2>2. startptr(i) + Offset \in Nat /\ freeptr \in [Index -> Nat]
    BY <1>2, <1>3, <2>1 DEF SweepTypeOK, TypeOK
  <2> QED BY <1>1, <2>2
<1>7. RunOK'
  <2>1. size' * 0 = 0
    BY <1>2, <1>4
  <2>2. PICK p \in Int : p = ptridx' /\ p <= last
    BY <1>1, <1>2
  <2>3. p + 0 = p /\ p + 1 .. p + 0 = {}
    OBVIOUS
  <2> QED BY <1>1, <2>1, <2>2, <2>3, Int32Types DEF RunOK
<1>8. freesize >= 3 * GC_PAGESIZE =>
         \A b \in ReturnedPages :
            /\ b \in Nat /\ ((b - startptr(i)) \div size) \in (0 .. last) \ marked
            /\ \A c \in 0 .. GC_PAGESIZE - 1 : b - (b % GC_PAGESIZE) + c \in ReturnedPages
  <2> SUFFICES ASSUME freesize >= 3 * GC_PAGESIZE, NEW b \in ReturnedPages
               PROVE  /\ b \in Nat /\ ((b - startptr(i)) \div size) \in (0 .. last) \ marked
                      /\ \A c \in 0 .. GC_PAGESIZE - 1 : b - (b % GC_PAGESIZE) + c \in ReturnedPages
    OBVIOUS
  <2>a. PICK k \in Nat : /\ freesize = ToInt32(size * k) /\ ptridx + k <= last
                         /\ \A c \in ptridx + 1 .. ptridx + k : c \notin marked
    BY <1>3 DEF RunOK
  <2>b. freesize = size * k
    <3>1. k \in Nat /\ last + 1 \in Nat /\ k <= last + 1 /\ freesize > 0
      BY <1>2, <2>a, Int32Types
    <3>2. size * k \in Nat /\ size * k <= size * (last + 1) /\ size * (last + 1) \in Nat
      BY <1>2, <3>1, Products
    <3>3. size * k <= OffsetRange
      <4>1. GC_REGION_SIZE \in Nat /\ OffsetRange \in Nat
        BY <1>2, RegionsAssumption
      <4>2. size * (last + 1) <= GC_REGION_SIZE
        BY <1>3
      <4> HIDE DEF size
      <4> QED BY <3>2, <4>1, <4>2
    <3> QED BY <2>a, <3>1, <3>2, <3>3, Int32Positive
  <2>1. /\ freesize = size * k /\ ptridx + k <= last
        /\ \A c \in ptridx + 1 .. ptridx + k : c \notin marked
    BY <2>a, <2>b
  <2>2. k # 0
    <3>1. size * 0 = 0
      BY <1>2
    <3> QED BY <1>2, <2>1, <3>1
  <2>3. Offset = size * (ptridx + 1)
    <3>1. GC_REGION_SIZE \in Nat
      BY RegionsAssumption
    <3>2. ptridx < last
      BY <1>2, <2>1, <2>2
    <3>3. size * (last + 1) \in Nat
      <4>1. last + 1 \in Nat
        BY <1>2
      <4> QED BY <1>2, <4>1, Products
    <3>4. size * (last + 1) <= OffsetRange
      BY <1>2, <1>3, <3>1, <3>3
    <3> QED BY <3>2, <3>4, Offsets32
  <2> DEFINE a == ptridx + 1
             z == size
             P == GC_PAGESIZE
             s == startptr(i)
             diff == IF ((z * a) % P) = 0 THEN 0 ELSE P - ((z * a) % P)
             length == (z * k - diff) - ((z * k - diff) % P)
             from == s + z * a + diff
  <2>4. ReturnedPages = IF (from % P) = 0 THEN from .. from + length - 1 ELSE {}
    BY <2>1, <2>3 DEF ReturnedPages
  <2>5. (from % P) = 0 /\ b \in from .. from + length - 1
    BY <2>4
  <2>6. /\ z \in Nat /\ z > 0 /\ P \in Nat /\ P > 0 /\ s \in Nat /\ a \in Nat /\ z * k >= 3 * P
    BY <1>2, <2>1
  <2>7. /\ b \in Nat /\ ((b - s) \div z) \in a .. a + k - 1
        /\ \A c \in 0 .. P - 1 : b - (b % P) + c \in from .. from + length - 1
    <3> HIDE DEF a, z, P, s
    <3> QED BY <2>5, <2>6, PagesOfRun, ZenonT(40)
  <2>8. ReturnedPages = from .. from + length - 1
    BY <2>4, <2>5
  <2> HIDE DEF from, length
  <2>9. \A c \in a .. a + k - 1 : c \in (0 .. last) \ marked
    <3>1. \A c \in a .. a + k - 1 : c \in ptridx + 1 .. ptridx + k /\ c \in 0 .. last
      BY <1>2, <2>1
    <3> QED BY <2>1, <3>1
  <2> QED BY <2>7, <2>8, <2>9
<1>9. PagesDead'
  <2>1. \A b \in returned' :
           /\ ((b - startptr(i)) \div size) \in (0 .. last) \ marked
           /\ \A c \in 0 .. GC_PAGESIZE - 1 : b - (b % GC_PAGESIZE) + c \in returned'
    BY <1>1, <1>3, <1>8 DEF PagesDead
  <2> QED BY <1>1, <1>4, <2>1 DEF PagesDead
<1>10. SweepTypeOK'
  <2>1. returned' \subseteq Nat
    BY <1>1, <1>3, <1>8 DEF SweepTypeOK
  <2>2. freesize' \in Int
    BY <1>1
  <2> QED BY <1>1, <1>3, <1>5, <1>6, <2>1, <2>2 DEF SweepTypeOK, TypeOK
<1>11. Cut'
  <2>1. freeptr'[i] = startptr(i)
                         + ((size * Max({last \div 2} \cup {c + 1 : c \in marked})) % OffsetRange)
    <3>1. CASE start
      BY <1>1, <1>3, <3>1, CutAt
    <3>2. CASE ~ start
      BY <1>1, <1>3, <3>2 DEF CutOK, Cut
    <3> QED BY <3>1, <3>2
  <2> QED BY <1>1, <1>4, <2>1 DEF Cut
<1>12. CutOK'
  BY <1>1, <1>4, <1>5, <1>11 DEF CutOK
<1> QED BY <1>1, <1>3, <1>4, <1>7, <1>9, <1>10, <1>12 DEF SweepInv

LEMMA NextSweepInv ==
    GC_REGION_SIZE <= OffsetRange /\ SweepInv /\ [SweepNext]_allVars => SweepInv'
<1> SUFFICES ASSUME GC_REGION_SIZE <= OffsetRange, SweepInv, [SweepNext]_allVars
             PROVE  SweepInv'
  OBVIOUS
<1>1. CASE Allocate
  <2>1. /\ at = "alloc" /\ Allocated' /\ returned = {}
        /\ UNCHANGED <<at, i, last, marked, returning, ptridx, freesize, start, returned>>
    BY <1>1, NextAllocated DEF Allocate, SweepInv, sweepVars
  <2> QED BY <2>1 DEF SweepInv, SweepTypeOK, Allocated
<1>2. CASE \E idx \in Index : SweepRegion(idx)
  BY <1>2, BeginKeeps
<1>3. CASE Free
  BY <1>3, FreeKeeps
<1>4. CASE Stop
  BY <1>4, StopKeeps
<1>5. CASE UNCHANGED allVars
  <2>1. UNCHANGED <<freeptr, block, pc, at, i, last, marked, returning, ptridx, freesize, start, returned>>
    BY <1>5 DEF allVars, vars, sweepVars
  <2>2. Allocated' = Allocated
    BY <2>1 DEF Allocated, AllocInv, TypeOK
  <2>3. SweepTypeOK' = SweepTypeOK /\ RunOK' = RunOK /\ PagesDead' = PagesDead /\ CutOK' = CutOK
        /\ size' = size
    BY <2>1 DEF SweepTypeOK, TypeOK, RunOK, PagesDead, CutOK, size, target, Cut
  <2> QED BY <2>1, <2>2, <2>3 DEF SweepInv
<1> QED BY <1>1, <1>2, <1>3, <1>4, <1>5 DEF SweepNext, Swept

\* gc_sweep gives back only whole pages, none of which has a byte of a marked
\* cell or of one that was never in use, whatever the sizes of cells, pages and
\* regions and the marks are: neither the offsets nor the sizes of the runs whose
\* pages it gives back have wrapped.
THEOREM ReturnsOnlyDead ==
    ASSUME GC_REGION_SIZE <= OffsetRange
    PROVE  SweepSpec => []ReturnedIsDead
<1>1. SweepInv => ReturnedIsDead
  BY DEF SweepInv, ReturnedIsDead, PagesDead
<1>2. SweepInv /\ [SweepNext]_allVars => SweepInv'
  BY NextSweepInv
<1> QED BY InitSweepInv, <1>1, <1>2, PTL DEF SweepSpec

\* When the loop of gc_sweep has ended, the used part of the region is cut to
\* the place that the sweep of GC.tla gives, at the offset modulo the range of an
\* offset.
THEOREM SweepCuts ==
    ASSUME GC_REGION_SIZE <= OffsetRange
    PROVE  SweepSpec => [](at = "done" => Cut)
<1>1. SweepInv => (at = "done" => Cut)
  BY DEF SweepInv, CutOK
<1>2. SweepInv /\ [SweepNext]_allVars => SweepInv'
  BY NextSweepInv
<1> QED BY InitSweepInv, <1>1, <1>2, PTL DEF SweepSpec

\* A sweep keeps every marked cell in the used part, where gc_mark looks for it,
\* unless the region is so full that the offset of its end wraps.
THEOREM SweepKeeps ==
    ASSUME GC_REGION_SIZE <= OffsetRange
    PROVE  SweepSpec => [](size * (last + 1) < OffsetRange => UsedPartKeepsMarked)
<1>1. ASSUME SweepInv, size * (last + 1) < OffsetRange, at = "done", NEW c \in marked
      PROVE  startptr(i) + size * c < freeptr[i]
  <2> DEFINE S == {last \div 2} \cup {d + 1 : d \in marked}
             m == Max(S)
             z == size
  <2>1. /\ last \in Nat /\ z \in Nat /\ z > 0 /\ startptr(i) \in Nat /\ OffsetRange \in Nat
        /\ (last \div 2) \in Nat /\ 2 * (last \div 2) <= last /\ marked \subseteq 0 .. last
    BY <1>1, LoopTypes, DivFacts DEF SweepInv, SweepTypeOK
  <2>2. last + 1 \in Nat /\ S \in SUBSET (0 .. last + 1) /\ c + 1 \in S
    BY <1>1, <2>1
  <2>3. m \in S /\ c + 1 <= m
    <3> HIDE DEF S
    <3> QED BY <2>2, Greatest
  <2>4. freeptr[i] = startptr(i) + ((z * m) % OffsetRange)
    BY <1>1 DEF SweepInv, CutOK, Cut
  <2>5. m \in Nat /\ m <= last + 1 /\ c \in Nat /\ c < m
    <3>1. c \in Nat
      BY <1>1, <2>1
    <3>2. m \in 0 .. last + 1
      BY <2>2, <2>3
    <3> HIDE DEF m
    <3> QED BY <2>1, <2>3, <3>1, <3>2
  <2>6. z * (last + 1) < OffsetRange
    BY <1>1
  <2> HIDE DEF S, m, z
  <2>7. z * m \in Nat /\ z * c \in Nat /\ z * c < z * m /\ z * m <= z * (last + 1) /\ z * (last + 1) \in Nat
    BY <2>1, <2>2, <2>5, Products
  <2>8. ((z * m) % OffsetRange) = z * m
    BY <2>1, <2>6, <2>7, ModSmall
  <2>9. startptr(i) + z * c < freeptr[i]
    BY <2>1, <2>4, <2>7, <2>8
  <2> QED BY <2>9 DEF z
<1>2. SweepInv => (size * (last + 1) < OffsetRange => UsedPartKeepsMarked)
  BY <1>1 DEF UsedPartKeepsMarked
<1>3. SweepInv /\ [SweepNext]_allVars => SweepInv'
  BY NextSweepInv
<1> QED BY InitSweepInv, <1>2, <1>3, PTL DEF SweepSpec
=============================================================================
