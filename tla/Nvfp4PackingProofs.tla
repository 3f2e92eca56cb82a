------------------------- MODULE Nvfp4PackingProofs -------------------------
(***************************************************************************)
(* Theorems about Nvfp4Packing, for every shape, every tile size and every *)
(* order in which the threads run: the layout gives each scale a place of  *)
(* its own inside the buffer, threads never write over one another, and    *)
(* the device's matrix is the host's.                                      *)
(***************************************************************************)
EXTENDS Nvfp4Packing, TLAPS

-----------------------------------------------------------------------------
(* Arithmetic of tiles *)

LEMMA DivMod ==
  ASSUME NEW x \in Nat, NEW n \in Nat \ {0}
  PROVE  x \div n \in Nat /\ x % n \in 0..n - 1 /\ x = (x \div n) * n + (x % n)
  BY SMT

\* Quotient and remainder are unique.
LEMMA DivModUnique ==
  ASSUME NEW n \in Nat \ {0}, NEW a \in Nat, NEW c \in Nat, NEW b \in 0..n - 1, NEW d \in 0..n - 1,
         a * n + b = c * n + d
  PROVE  a = c /\ b = d
  BY SMT

LEMMA DivOfSum ==
  ASSUME NEW n \in Nat \ {0}, NEW a \in Nat, NEW b \in 0..n - 1
  PROVE  (a * n + b) \div n = a /\ (a * n + b) % n = b /\ a * n + b \in Nat
  BY SMT

LEMMA BelowTile ==
  ASSUME NEW n \in Nat \ {0}, NEW a \in Nat, NEW c \in Nat, NEW b \in 0..n - 1, a < c
  PROVE  a * n + b < c * n /\ a * n + b \in Nat
  BY SMT

LEMMA DivBelow ==
  ASSUME NEW x \in Nat, NEW n \in Nat \ {0}, NEW q \in Nat, x < q * n
  PROVE  x \div n < q
  BY SMT

\* A rounded size is a whole number of tiles and not below the size.
LEMMA RoundUpWhole ==
  ASSUME NEW v \in Nat, NEW n \in Nat \ {0}
  PROVE  \E q \in Nat : RoundUp(v, n) = q * n /\ RoundUp(v, n) \div n = q /\ v <= q * n
<1> DEFINE q == (v + n - 1) \div n
<1>1. q \in Nat /\ RoundUp(v, n) = q * n
  BY SMT DEF RoundUp
<1>2. RoundUp(v, n) >= v
  BY SMT DEF RoundUp
<1>3. (q * n) \div n = q
  BY <1>1, SMT
<1>4. QED
  BY <1>1, <1>2, <1>3

LEMMA ProductPositive ==
  ASSUME NEW a \in Nat \ {0}, NEW b \in Nat \ {0}
  PROVE  a * b \in Nat \ {0}
  BY SMT

LEMMA Tiles == kRowTile \in Nat \ {0} /\ kRowTile * kBlockTile \in Nat \ {0}
  BY TileAssumption, ProductPositive DEF kRowTile

\* The place of a row inside its tile of rows.
InTile(row) == (row % OuterRows) * InnerRows + ((row \div OuterRows) % InnerRows)

LEMMA InTileBelow ==
  ASSUME NEW row \in Nat
  PROVE  InTile(row) \in 0..kRowTile - 1
<1>1. /\ row % OuterRows \in 0..OuterRows - 1
      /\ row \div OuterRows \in Nat
  BY DivMod, TileAssumption
<1>2. (row \div OuterRows) % InnerRows \in 0..InnerRows - 1
  BY <1>1, DivMod, TileAssumption
<1>3. InTile(row) < OuterRows * InnerRows /\ InTile(row) \in Nat
  BY <1>1, <1>2, BelowTile, TileAssumption DEF InTile
<1>4. QED
  BY <1>3, Tiles DEF kRowTile

\* Two rows of one tile, at one place in it, are one row.
LEMMA InTileInjective ==
  ASSUME NEW r \in Nat, NEW s \in Nat, r \div kRowTile = s \div kRowTile, InTile(r) = InTile(s)
  PROVE  r = s
<1> DEFINE qr == r \div OuterRows
           qs == s \div OuterRows
<1>1. /\ qr \in Nat /\ r % OuterRows \in 0..OuterRows - 1 /\ r = qr * OuterRows + (r % OuterRows)
      /\ qs \in Nat /\ s % OuterRows \in 0..OuterRows - 1 /\ s = qs * OuterRows + (s % OuterRows)
  BY DivMod, TileAssumption
<1>2. /\ qr % InnerRows \in 0..InnerRows - 1 /\ qr \div InnerRows \in Nat
      /\ qr = (qr \div InnerRows) * InnerRows + (qr % InnerRows)
      /\ qs % InnerRows \in 0..InnerRows - 1 /\ qs \div InnerRows \in Nat
      /\ qs = (qs \div InnerRows) * InnerRows + (qs % InnerRows)
  <2> HIDE DEF qr, qs
  <2>1. QED
    BY <1>1, DivMod, TileAssumption
<1>3. r % OuterRows = s % OuterRows /\ qr % InnerRows = qs % InnerRows
  BY <1>1, <1>2, DivModUnique, TileAssumption, SMTT(30) DEF InTile
<1>4. r \div kRowTile = qr \div InnerRows /\ s \div kRowTile = qs \div InnerRows
  <2>1. ASSUME NEW x \in Nat, NEW m \in Nat, NEW i \in 0..InnerRows - 1, NEW o \in 0..OuterRows - 1,
               x = (m * InnerRows + i) * OuterRows + o
        PROVE  x \div kRowTile = m
    <3>1. i * OuterRows + o \in 0..kRowTile - 1
      <4>1. i * OuterRows + o < InnerRows * OuterRows /\ i * OuterRows + o \in Nat
        BY BelowTile, TileAssumption
      <4>2. InnerRows * OuterRows = kRowTile
        BY TileAssumption DEF kRowTile
      <4>3. QED
        BY <4>1, <4>2, Tiles
    <3>2. x = m * kRowTile + (i * OuterRows + o)
      BY TileAssumption, <2>1, SMT DEF kRowTile
    <3>3. QED
      BY <3>1, <3>2, DivOfSum, Tiles
  <2> HIDE DEF qr, qs
  <2>2. r \div kRowTile = qr \div InnerRows
    BY <2>1, <1>1, <1>2
  <2>3. s \div kRowTile = qs \div InnerRows
    BY <2>1, <1>1, <1>2
  <2>4. QED
    BY <2>2, <2>3
<1>5. QED
  BY <1>1, <1>2, <1>3, <1>4

\* What the tiles of a shape are: mtiles by ktiles of them.
LEMMA Shape ==
  ASSUME NEW rows \in Nat, NEW cols \in Nat, HasLayout(rows, cols)
  PROVE  /\ BlocksPerRow(cols) \in Nat \ {0}
         /\ cols = BlocksPerRow(cols) * kBlockWidth
         /\ rows # 0
         /\ \E mtiles, ktiles \in Nat :
              /\ RoundUp(rows, kRowTile) = mtiles * kRowTile /\ rows <= mtiles * kRowTile
              /\ PaddedBlocksPerRow(cols) = ktiles * kBlockTile
              /\ PaddedBlocksPerRow(cols) \div kBlockTile = ktiles
              /\ BlocksPerRow(cols) <= ktiles * kBlockTile
              /\ ScaleBytes(rows, cols) = (mtiles * ktiles) * (kRowTile * kBlockTile)
<1>1. /\ BlocksPerRow(cols) \in Nat
      /\ cols = BlocksPerRow(cols) * kBlockWidth
  BY DivMod, TileAssumption DEF HasLayout, BlocksPerRow
<1>2. BlocksPerRow(cols) # 0 /\ rows # 0
  BY <1>1, TileAssumption DEF HasLayout
<1>3. PICK m \in Nat : RoundUp(rows, kRowTile) = m * kRowTile /\ rows <= m * kRowTile
  BY RoundUpWhole, Tiles
<1>4. PICK k \in Nat : /\ PaddedBlocksPerRow(cols) = k * kBlockTile
                       /\ PaddedBlocksPerRow(cols) \div kBlockTile = k
                       /\ BlocksPerRow(cols) <= k * kBlockTile
  BY <1>1, RoundUpWhole, TileAssumption DEF PaddedBlocksPerRow
<1>5. ScaleBytes(rows, cols) = (m * k) * (kRowTile * kBlockTile)
  <2>1. ScaleBytes(rows, cols) = (m * kRowTile) * (k * kBlockTile)
    BY <1>3, <1>4 DEF ScaleBytes
  <2>2. QED
    BY <2>1, Tiles, TileAssumption, SMT
<1>6. QED
  BY <1>1, <1>2, <1>3, <1>4, <1>5

\* A place is a tile and a position in it.
TilePlace(row, block, ktiles) == (row \div kRowTile) * ktiles + (block \div kBlockTile)
InTilePlace(row, block) == InTile(row) * kBlockTile + (block % kBlockTile)

LEMMA OffsetForm ==
  ASSUME NEW row \in Nat, NEW block \in Nat, NEW padded \in Nat, NEW ktiles \in Nat,
         padded \div kBlockTile = ktiles
  PROVE  /\ ScaleOffset(row, block, padded) =
              TilePlace(row, block, ktiles) * (kRowTile * kBlockTile) + InTilePlace(row, block)
         /\ TilePlace(row, block, ktiles) \in Nat
         /\ InTilePlace(row, block) \in 0..kRowTile * kBlockTile - 1
<1>1. /\ row \div kRowTile \in Nat
      /\ block \div kBlockTile \in Nat
      /\ block % kBlockTile \in 0..kBlockTile - 1
  BY DivMod, Tiles, TileAssumption
<1>2. InTile(row) \in 0..kRowTile - 1
  BY InTileBelow
<1>3. TilePlace(row, block, ktiles) \in Nat
  BY <1>1 DEF TilePlace
<1>4. InTilePlace(row, block) \in 0..kRowTile * kBlockTile - 1
  BY <1>1, <1>2, Tiles, TileAssumption, BelowTile DEF InTilePlace
<1>5. ScaleOffset(row, block, padded) =
        TilePlace(row, block, ktiles) * (kRowTile * kBlockTile) + InTilePlace(row, block)
  <2>1. /\ TilePlace(row, block, ktiles) * (kRowTile * kBlockTile) \in Nat
        /\ InTile(row) * kBlockTile \in Nat
    BY <1>2, <1>3, Tiles, TileAssumption
  <2>2. QED
    BY <1>1, <2>1 DEF ScaleOffset, TilePlace, InTilePlace, InTile
<1>6. QED
  BY <1>3, <1>4, <1>5

\* Every scale of a matrix has a place inside the buffer.
LEMMA OffsetInBuffer ==
  ASSUME NEW rows \in Nat, NEW cols \in Nat, HasLayout(rows, cols),
         NEW row \in 0..rows - 1, NEW block \in 0..BlocksPerRow(cols) - 1
  PROVE  ScaleOffset(row, block, PaddedBlocksPerRow(cols)) \in 0..ScaleBytes(rows, cols) - 1
<1> DEFINE padded == PaddedBlocksPerRow(cols)
           tile == kRowTile * kBlockTile
<1>1. PICK mtiles, ktiles \in Nat :
              /\ rows <= mtiles * kRowTile
              /\ padded = ktiles * kBlockTile
              /\ padded \div kBlockTile = ktiles
              /\ BlocksPerRow(cols) <= ktiles * kBlockTile
              /\ ScaleBytes(rows, cols) = (mtiles * ktiles) * tile
  BY Shape
<1>2. row \in Nat /\ block \in Nat /\ row < mtiles * kRowTile /\ block < ktiles * kBlockTile
  BY <1>1, Shape, Tiles, TileAssumption
<1>3. /\ row \div kRowTile \in Nat /\ row \div kRowTile < mtiles
      /\ block \div kBlockTile \in Nat /\ block \div kBlockTile < ktiles
  BY <1>2, DivBelow, DivMod, Tiles, TileAssumption
<1>4. TilePlace(row, block, ktiles) < mtiles * ktiles
  BY <1>3, BelowTile DEF TilePlace
<1>5. padded \in Nat
  BY <1>1, TileAssumption
<1> HIDE DEF padded
<1>6. /\ ScaleOffset(row, block, padded) = TilePlace(row, block, ktiles) * tile + InTilePlace(row, block)
      /\ TilePlace(row, block, ktiles) \in Nat
      /\ InTilePlace(row, block) \in 0..tile - 1
  BY <1>1, <1>2, <1>5, OffsetForm
<1>7. tile \in Nat \ {0} /\ mtiles * ktiles \in Nat
  BY Tiles
<1> HIDE DEF tile
<1>8. ScaleOffset(row, block, padded) < (mtiles * ktiles) * tile /\ ScaleOffset(row, block, padded) \in Nat
  BY <1>4, <1>6, <1>7, BelowTile
<1>9. (mtiles * ktiles) * tile \in Nat
  BY <1>7
<1>10. QED
  BY <1>1, <1>8, <1>9 DEF padded

\* No two scales have the same place.
LEMMA OffsetInjective ==
  ASSUME NEW rows \in Nat, NEW cols \in Nat, HasLayout(rows, cols),
         NEW r \in 0..rows - 1, NEW b \in 0..BlocksPerRow(cols) - 1,
         NEW s \in 0..rows - 1, NEW c \in 0..BlocksPerRow(cols) - 1,
         ScaleOffset(r, b, PaddedBlocksPerRow(cols)) = ScaleOffset(s, c, PaddedBlocksPerRow(cols))
  PROVE  r = s /\ b = c
<1> DEFINE padded == PaddedBlocksPerRow(cols)
           tile == kRowTile * kBlockTile
<1>1. PICK ktiles \in Nat :
              /\ padded = ktiles * kBlockTile
              /\ padded \div kBlockTile = ktiles
              /\ BlocksPerRow(cols) <= ktiles * kBlockTile
  BY Shape
<1>2. /\ r \in Nat /\ b \in Nat /\ s \in Nat /\ c \in Nat
      /\ b < ktiles * kBlockTile /\ c < ktiles * kBlockTile
  BY <1>1, Shape, TileAssumption
<1>3. padded \in Nat
  BY <1>1, TileAssumption
<1>4. /\ r \div kRowTile \in Nat /\ s \div kRowTile \in Nat
      /\ b \div kBlockTile \in Nat /\ b \div kBlockTile < ktiles
      /\ c \div kBlockTile \in Nat /\ c \div kBlockTile < ktiles
      /\ b % kBlockTile \in 0..kBlockTile - 1 /\ b = (b \div kBlockTile) * kBlockTile + (b % kBlockTile)
      /\ c % kBlockTile \in 0..kBlockTile - 1 /\ c = (c \div kBlockTile) * kBlockTile + (c % kBlockTile)
  BY <1>2, DivBelow, DivMod, Tiles, TileAssumption
<1>5. /\ TilePlace(r, b, ktiles) = TilePlace(s, c, ktiles)
      /\ InTilePlace(r, b) = InTilePlace(s, c)
  <2> HIDE DEF padded
  <2>1. /\ ScaleOffset(r, b, padded) = TilePlace(r, b, ktiles) * tile + InTilePlace(r, b)
        /\ ScaleOffset(s, c, padded) = TilePlace(s, c, ktiles) * tile + InTilePlace(s, c)
        /\ TilePlace(r, b, ktiles) \in Nat /\ TilePlace(s, c, ktiles) \in Nat
        /\ InTilePlace(r, b) \in 0..tile - 1 /\ InTilePlace(s, c) \in 0..tile - 1
    BY <1>1, <1>2, <1>3, OffsetForm
  <2>2. tile \in Nat \ {0}
    BY Tiles
  <2>3. ScaleOffset(r, b, padded) = ScaleOffset(s, c, padded)
    BY DEF padded
  <2>4. TilePlace(r, b, ktiles) * tile + InTilePlace(r, b) = TilePlace(s, c, ktiles) * tile + InTilePlace(s, c)
    BY <2>1, <2>3
  <2> DEFINE t1 == TilePlace(r, b, ktiles)
             t2 == TilePlace(s, c, ktiles)
             p1 == InTilePlace(r, b)
             p2 == InTilePlace(s, c)
  <2>5. t1 \in Nat /\ t2 \in Nat /\ p1 \in 0..tile - 1 /\ p2 \in 0..tile - 1 /\ t1 * tile + p1 = t2 * tile + p2
    BY <2>1, <2>4
  <2> HIDE DEF tile, t1, t2, p1, p2
  <2>6. t1 = t2 /\ p1 = p2
    BY <2>2, <2>5, DivModUnique
  <2>7. QED
    BY <2>6 DEF t1, t2, p1, p2
<1>6. r \div kRowTile = s \div kRowTile /\ b \div kBlockTile = c \div kBlockTile
  <2> DEFINE m1 == r \div kRowTile
             m2 == s \div kRowTile
             k1 == b \div kBlockTile
             k2 == c \div kBlockTile
  <2>1. ktiles \in Nat \ {0} /\ k1 \in 0..ktiles - 1 /\ k2 \in 0..ktiles - 1 /\ m1 \in Nat /\ m2 \in Nat
    BY <1>4
  <2>2. m1 * ktiles + k1 = m2 * ktiles + k2
    BY <1>5 DEF TilePlace
  <2> HIDE DEF m1, m2, k1, k2
  <2>3. m1 = m2 /\ k1 = k2
    BY <2>1, <2>2, DivModUnique
  <2>4. QED
    BY <2>3 DEF m1, m2, k1, k2
<1>7. InTile(r) = InTile(s) /\ b % kBlockTile = c % kBlockTile
  <2> DEFINE i1 == InTile(r)
             i2 == InTile(s)
             k1 == b % kBlockTile
             k2 == c % kBlockTile
  <2>1. i1 \in Nat /\ i2 \in Nat /\ k1 \in 0..kBlockTile - 1 /\ k2 \in 0..kBlockTile - 1
    BY <1>2, <1>4, InTileBelow
  <2>2. i1 * kBlockTile + k1 = i2 * kBlockTile + k2
    BY <1>5 DEF InTilePlace
  <2> HIDE DEF i1, i2, k1, k2
  <2>3. i1 = i2 /\ k1 = k2
    BY <2>1, <2>2, DivModUnique, TileAssumption
  <2>4. QED
    BY <2>3 DEF i1, i2, k1, k2
<1>8. r = s
  BY <1>2, <1>6, <1>7, InTileInjective
<1>9. QED
  BY <1>4, <1>6, <1>7, <1>8

-----------------------------------------------------------------------------
(* Bytes of blocks, launches and maxima *)

LEMMA Half == HalfBlock \in Nat \ {0} /\ kBlockWidth = 2 * HalfBlock
  BY TileAssumption, SMT DEF HalfBlock

LEMMA ByteOfBlock ==
  ASSUME NEW b \in Nat, NEW t \in Nat, NEW n \in Nat \ {0}
  PROVE  /\ b \in t * n..t * n + n - 1 <=> b \div n = t
         /\ b \div n = t => b - t * n = b % n
<1>1. b \div n \in Nat /\ b % n \in 0..n - 1 /\ b = (b \div n) * n + (b % n)
  BY DivMod
<1>2. ASSUME b \in t * n..t * n + n - 1 PROVE b \div n = t
  <2>1. b - t * n \in 0..n - 1 /\ b = t * n + (b - t * n)
    BY <1>2
  <2> DEFINE c == b - t * n
  <2>2. c \in 0..n - 1 /\ b = t * n + c
    BY <2>1
  <2> HIDE DEF c
  <2>3. QED
    BY <2>2, DivOfSum
<1>3. ASSUME b \div n = t PROVE b \in t * n..t * n + n - 1 /\ b - t * n = b % n
  <2>1. b = t * n + (b % n)
    BY ONLY <1>1, <1>3, Zenon
  <2>2. t * n \in Nat
    OBVIOUS
  <2> DEFINE c == b % n
  <2>3. c \in 0..n - 1 /\ b = t * n + c
    BY <1>1, <2>1
  <2> HIDE DEF c
  <2>4. b \in t * n..t * n + n - 1 /\ b - t * n = c
    BY <2>2, <2>3
  <2>5. QED
    BY <2>4 DEF c
<1>4. QED
  BY <1>2, <1>3

\* The bytes of block t, counted row by row, are the t-th half block.
LEMMA PackedOffsetOfBlock ==
  ASSUME NEW j \in Jobs, HasLayout(j.rows, j.cols), NEW t \in Nat
  PROVE  PackedOffset(j, t \div BlocksPerRow(j.cols), t % BlocksPerRow(j.cols)) = t * HalfBlock
<1> DEFINE blocks == BlocksPerRow(j.cols)
<1>1. blocks \in Nat \ {0} /\ j.cols = blocks * kBlockWidth
  BY Shape, PackAssumption
<1>2. j.cols \div 2 = blocks * HalfBlock
  <2>1. blocks * HalfBlock \in Nat /\ j.cols = (blocks * HalfBlock) * 2 + 0
    BY <1>1, Half, SMT
  <2> DEFINE h == blocks * HalfBlock
  <2>2. h \in Nat /\ j.cols = h * 2 + 0
    BY <2>1
  <2> HIDE DEF h
  <2>3. j.cols \div 2 = h
    BY <2>2, DivOfSum
  <2>4. QED
    BY <2>3 DEF h
<1> HIDE DEF blocks
<1>3. t \div blocks \in Nat /\ t % blocks \in Nat /\ t = (t \div blocks) * blocks + (t % blocks)
  <2>1. blocks \in Nat \ {0}
    BY <1>1
  <2>2. /\ t \div blocks \in Nat
        /\ t % blocks \in 0..blocks - 1
        /\ t = (t \div blocks) * blocks + (t % blocks)
    BY ONLY <2>1, t \in Nat, DivMod
  <2>3. QED
    BY <2>1, <2>2
<1>4. ASSUME NEW q \in Nat, NEW r \in Nat, t = q * blocks + r
      PROVE  q * (blocks * HalfBlock) + r * HalfBlock = t * HalfBlock
  BY <1>1, <1>4, Half, SMT
<1>5. QED
  BY <1>2, <1>3, <1>4 DEF PackedOffset, blocks

LEMMA PackedSize ==
  ASSUME NEW j \in Jobs, HasLayout(j.rows, j.cols)
  PROVE  /\ (j.rows * j.cols + 1) \div 2 = j.rows * BlocksPerRow(j.cols) * HalfBlock
         /\ j.rows * BlocksPerRow(j.cols) \in Nat \ {0}
         /\ j.rows * BlocksPerRow(j.cols) * HalfBlock \in Nat
<1> DEFINE blocks == BlocksPerRow(j.cols)
           h == j.rows * blocks * HalfBlock
<1>1. /\ j.rows \in Nat \ {0} /\ j.cols \in Nat
      /\ blocks \in Nat \ {0} /\ j.cols = blocks * kBlockWidth
  BY Shape, PackAssumption
<1> HIDE DEF blocks
<1>2. j.rows * blocks \in Nat \ {0} /\ h \in Nat
  BY <1>1, Half, ProductPositive
<1>3. j.rows * j.cols = h * 2
  BY <1>1, Half, SMT
<1> HIDE DEF h
<1>4. (j.rows * j.cols + 1) \div 2 = h
  BY <1>2, <1>3, DivOfSum
<1>5. QED
  BY <1>2, <1>4 DEF h, blocks

\* A launch has a thread for everything.
LEMMA LaunchCovers ==
  ASSUME NEW total \in Nat
  PROVE  0..total - 1 \subseteq Launched(total) /\ Launched(total) \subseteq Nat
<1>1. PICK q \in Nat : RoundUp(total, kThreadsPerBlock) = q * kThreadsPerBlock /\ total <= q * kThreadsPerBlock
  BY RoundUpWhole, PackAssumption
<1>2. Launched(total) = 0..q * kThreadsPerBlock - 1
  BY <1>1 DEF Launched, RoundUp
<1>3. q * kThreadsPerBlock \in Nat
  BY PackAssumption
<1>4. QED
  BY <1>1, <1>2, <1>3

LEMMA MaxIs ==
  ASSUME NEW S, S \subseteq Int, NEW m \in S, \A y \in S : m >= y
  PROVE  Max(S) = m
<1>1. Max(S) \in S /\ \A y \in S : Max(S) >= y
  BY Zenon DEF Max
<1>2. Max(S) >= m /\ m >= Max(S) /\ Max(S) \in Int /\ m \in Int
  BY <1>1, Zenon
<1>3. QED
  BY <1>2

-----------------------------------------------------------------------------
(* The inductive invariant *)

\* The place of block s among the GEMM's scales.
Place(s) == ScaleOffset(s \div BlocksPerRow(job.cols), s % BlocksPerRow(job.cols), PaddedBlocksPerRow(job.cols))

Typed ==
  /\ job \in Jobs
  /\ phase \in {"create", "fixed", "scratch", "max", "pack", "swizzle", "done", "refused"}
  /\ todo \subseteq Nat
  /\ phase \in {"fixed", "scratch", "max", "pack", "swizzle", "done"} => HasLayout(job.rows, job.cols)
  /\ phase = "fixed" => job.has_fixed
  /\ phase \in {"scratch", "max"} => ~job.has_fixed
  /\ phase = "done" => todo = {}

BuffersOK ==
  /\ BuffersAccounted
  /\ phase = "create" => allocated \subseteq kBuffers
  /\ phase = "create" /\ ~HasLayout(job.rows, job.cols) => allocated = {}
  /\ phase \in {"fixed", "scratch"} => allocated = kBuffers
  /\ phase = "max" => allocated = kBuffers \cup {"global_max_bits"}

\* The maximum over the threads that have run.
MaxOK ==
  phase = "max" =>
    /\ global_max_bits \in Nat
    /\ \A i \in 0..Numel - 1 : i \notin todo => Abs(job.source[i]) <= global_max_bits
    /\ global_max_bits = 0 \/ \E i \in 0..Numel - 1 : global_max_bits = Abs(job.source[i])

ScaleOK == phase \in {"pack", "swizzle", "done"} => tensor_scale = HostTensorScale(job)

\* Blocks whose thread has run are packed as the host packs them, the others are untouched.
PackOK ==
  /\ phase = "create" => packed = <<>> /\ block_scales = <<>>
  /\ phase \in {"fixed", "scratch", "max"} =>
       /\ packed = Malloced(TotalBlocks * HalfBlock)
       /\ block_scales = Malloced(TotalBlocks)
  /\ phase = "pack" =>
       /\ packed = [b \in 0..TotalBlocks * HalfBlock - 1 |->
                      IF b \div HalfBlock \in todo THEN Uninitialized ELSE HostPacked(job)[b]]
       /\ block_scales = [s \in 0..TotalBlocks - 1 |->
                            IF s \in todo THEN Uninitialized ELSE HostBlockScales(job)[s]]
  /\ phase \in {"swizzle", "done"} =>
       /\ packed = HostPacked(job)
       /\ block_scales = HostBlockScales(job)

\* Scales whose thread has run are in place, and the rest is zero.
SwizzleOK ==
  /\ phase = "create" => matmul_block_scales = <<>>
  /\ phase \in {"fixed", "scratch", "max", "pack"} =>
       matmul_block_scales = Malloced(ScaleBytes(job.rows, job.cols))
  /\ phase \in {"swizzle", "done"} =>
       /\ DOMAIN matmul_block_scales = 0..ScaleBytes(job.rows, job.cols) - 1
       /\ \A s \in 0..TotalBlocks - 1 : s \notin todo => matmul_block_scales[Place(s)] = block_scales[s]
       /\ \A o \in DOMAIN matmul_block_scales :
            (\A s \in 0..TotalBlocks - 1 : s \notin todo => Place(s) # o) => matmul_block_scales[o] = ZeroByte

IInv == Typed /\ BuffersOK /\ MaxOK /\ ScaleOK /\ PackOK /\ SwizzleOK

LEMMA PlaceOK ==
  ASSUME job \in Jobs, HasLayout(job.rows, job.cols), NEW s \in 0..TotalBlocks - 1
  PROVE  /\ Place(s) \in 0..ScaleBytes(job.rows, job.cols) - 1
         /\ \A t \in 0..TotalBlocks - 1 : Place(t) = Place(s) => t = s
<1> DEFINE blocks == BlocksPerRow(job.cols)
<1>1. job.rows \in Nat /\ job.cols \in Nat /\ blocks \in Nat \ {0}
  BY Shape, PackAssumption
<1>2. ASSUME NEW t \in 0..TotalBlocks - 1
      PROVE  /\ t \div blocks \in 0..job.rows - 1
             /\ t % blocks \in 0..blocks - 1
             /\ t = (t \div blocks) * blocks + (t % blocks)
  <2> HIDE DEF blocks
  <2>1. t \in Nat /\ t < job.rows * blocks
    BY <1>1, <1>2 DEF TotalBlocks, blocks
  <2>2. t \div blocks < job.rows /\ t \div blocks \in Nat
    BY <1>1, <2>1, DivBelow, DivMod
  <2>3. t % blocks \in 0..blocks - 1 /\ t = (t \div blocks) * blocks + (t % blocks)
    BY ONLY <1>1, <2>1, DivMod
  <2>4. QED
    BY <1>1, <2>2, <2>3
<1>3. Place(s) \in 0..ScaleBytes(job.rows, job.cols) - 1
  BY <1>1, <1>2, OffsetInBuffer DEF Place
<1>4. ASSUME NEW t \in 0..TotalBlocks - 1, Place(t) = Place(s) PROVE t = s
  <2> DEFINE tr == t \div blocks
             tb == t % blocks
             sr == s \div blocks
             sb == s % blocks
  <2>1. /\ tr \in 0..job.rows - 1 /\ tb \in 0..BlocksPerRow(job.cols) - 1
        /\ sr \in 0..job.rows - 1 /\ sb \in 0..BlocksPerRow(job.cols) - 1
    BY <1>2
  <2>2. ScaleOffset(tr, tb, PaddedBlocksPerRow(job.cols)) = ScaleOffset(sr, sb, PaddedBlocksPerRow(job.cols))
    BY <1>4 DEF Place
  <2> HIDE DEF tr, tb, sr, sb
  <2>3. tr = sr /\ tb = sb
    BY <1>1, <2>1, <2>2, OffsetInjective
  <2>4. t \div blocks = s \div blocks /\ t % blocks = s % blocks
    BY <2>3 DEF tr, tb, sr, sb
  <2>5. QED
    BY <1>2, <2>4, Zenon
<1>5. QED
  BY <1>3, <1>4

-----------------------------------------------------------------------------
LEMMA InitIInv == Init => IInv
  BY DEF Init, IInv, Typed, BuffersOK, BuffersAccounted, MaxOK, ScaleOK, PackOK, SwizzleOK

USE DEF IInv

\* Before there is a matrix, nothing but the list of buffers is constrained.
LEMMA CreateSteps ==
  ASSUME IInv, Reject \/ CreateFails \/ \E buffer \in kBuffers : Allocate(buffer)
  PROVE  IInv'
<1>1. CASE Reject
  BY <1>1 DEF Reject, device, Typed, BuffersOK, BuffersAccounted, MaxOK, ScaleOK, PackOK, SwizzleOK, Freed
<1>2. CASE CreateFails
  BY <1>2 DEF CreateFails, device, Typed, BuffersOK, BuffersAccounted, MaxOK, ScaleOK, PackOK, SwizzleOK, Freed
<1>3. ASSUME NEW buffer \in kBuffers, Allocate(buffer) PROVE IInv'
  BY <1>3 DEF Allocate, device, Typed, BuffersOK, BuffersAccounted, MaxOK, ScaleOK, PackOK, SwizzleOK
<1>4. QED
  BY <1>1, <1>2, <1>3

LEMMA CreateStep == IInv /\ Create => IInv'
<1> SUFFICES ASSUME IInv, Create PROVE IInv'
  OBVIOUS
<1>1. HasLayout(job.rows, job.cols)
  BY DEF Create, BuffersOK, kBuffers
<1>2. job \in Jobs
  BY DEF Typed
<1>3. packed' = Malloced(TotalBlocks * HalfBlock)
  BY <1>1, <1>2, PackedSize DEF Create, TotalBlocks, Numel
<1>4. Typed'
  BY <1>1 DEF Create, Typed, PackAssumption
<1>5. BuffersOK'
  BY DEF Create, BuffersOK, BuffersAccounted
<1>6. MaxOK' /\ ScaleOK' /\ PackOK' /\ SwizzleOK'
  BY <1>3 DEF Create, MaxOK, ScaleOK, PackOK, SwizzleOK, TotalBlocks
<1>7. QED
  BY <1>4, <1>5, <1>6

\* Giving up leaves nothing to say but that the buffers are gone.
LEMMA RefuseSteps ==
  ASSUME IInv, RejectOptions \/ CudaFails
  PROVE  IInv'
<1>1. phase' = "refused" /\ job' = job /\ todo' \subseteq Nat
  BY DEF RejectOptions, CudaFails, Typed
<1>2. allocated' = {}
  BY DEF RejectOptions, CudaFails, BuffersOK, BuffersAccounted, Freed
<1>3. QED
  BY <1>1, <1>2 DEF Typed, BuffersOK, BuffersAccounted, MaxOK, ScaleOK, PackOK, SwizzleOK

\* A kernel that packs starts: no block is packed yet.
LEMMA PackBegins ==
  ASSUME IInv, phase \in {"fixed", "scratch", "max"}, phase' = "pack", todo' = Launched(TotalBlocks),
         UNCHANGED <<job, packed, block_scales, matmul_block_scales>>,
         allocated' = kBuffers, tensor_scale' = HostTensorScale(job)
  PROVE  IInv'
<1>1. job \in Jobs /\ HasLayout(job.rows, job.cols)
  BY DEF Typed
<1>2. /\ TotalBlocks \in Nat \ {0}
      /\ TotalBlocks * HalfBlock \in Nat
  BY <1>1, PackedSize DEF TotalBlocks
<1>3. 0..TotalBlocks - 1 \subseteq todo' /\ todo' \subseteq Nat
  BY <1>2, LaunchCovers
<1>4. Typed' /\ BuffersOK' /\ MaxOK' /\ ScaleOK'
  BY <1>1, <1>3 DEF Typed, BuffersOK, BuffersAccounted, MaxOK, ScaleOK
<1>5. PackOK'
  <2>1. ASSUME NEW b \in 0..TotalBlocks * HalfBlock - 1 PROVE b \div HalfBlock \in todo'
    <3>1. b \div HalfBlock < TotalBlocks /\ b \div HalfBlock \in Nat
      BY <1>2, Half, DivBelow, DivMod
    <3>2. QED
      BY <1>2, <1>3, <3>1
  <2>2. packed' = [b \in 0..TotalBlocks * HalfBlock - 1 |->
                     IF b \div HalfBlock \in todo' THEN Uninitialized ELSE HostPacked(job)[b]]
    BY <2>1 DEF PackOK, Malloced
  <2>3. block_scales' = [s \in 0..TotalBlocks - 1 |->
                           IF s \in todo' THEN Uninitialized ELSE HostBlockScales(job)[s]]
    BY <1>3 DEF PackOK, Malloced
  <2>4. QED
    BY <2>2, <2>3 DEF PackOK, TotalBlocks
<1>6. SwizzleOK'
  BY DEF SwizzleOK
<1>7. QED
  BY <1>4, <1>5, <1>6

LEMMA CopyFixedScaleStep == IInv /\ CopyFixedScale => IInv'
<1> SUFFICES ASSUME IInv, CopyFixedScale PROVE IInv'
  OBVIOUS
<1>1. allocated = kBuffers /\ job.has_fixed
  BY DEF CopyFixedScale, BuffersOK, Typed
<1>2. tensor_scale' = HostTensorScale(job)
  BY <1>1 DEF CopyFixedScale, HostTensorScale
<1>3. QED
  BY <1>1, <1>2, PackBegins DEF CopyFixedScale

LEMMA AllocateScratchStep == IInv /\ AllocateScratch => IInv'
<1> SUFFICES ASSUME IInv, AllocateScratch PROVE IInv'
  OBVIOUS
<1>1. job \in Jobs /\ job.rows \in Nat /\ job.cols \in Nat
  BY PackAssumption DEF Typed
<1>2. 0..Numel - 1 \subseteq todo' /\ todo' \subseteq Nat
  BY <1>1, LaunchCovers DEF AllocateScratch, Numel
<1>3. Typed' /\ BuffersOK' /\ MaxOK'
  BY <1>1, <1>2 DEF AllocateScratch, Typed, BuffersOK, BuffersAccounted, MaxOK, Numel
<1>4. ScaleOK' /\ PackOK' /\ SwizzleOK'
  BY DEF AllocateScratch, ScaleOK, PackOK, SwizzleOK, TotalBlocks
<1>5. QED
  BY <1>3, <1>4

LEMMA SourceTyped ==
  ASSUME job \in Jobs, NEW i \in 0..Numel - 1
  PROVE  /\ i \in DOMAIN job.source
         /\ Abs(job.source[i]) \in Nat
<1>1. job.source \in [0..Numel - 1 -> -kInf..kInf]
  BY PackAssumption DEF Numel
<1>2. -kInf..kInf \subseteq Int
  OBVIOUS
<1>3. DOMAIN job.source = 0..Numel - 1 /\ job.source[i] \in -kInf..kInf
  BY <1>1
<1>4. \A x \in Int : Abs(x) \in Nat
  BY DEF Abs
<1>5. QED
  BY <1>2, <1>3, <1>4

LEMMA MaxAbsThreadStep ==
  ASSUME IInv, NEW t \in todo, MaxAbsThread(t)
  PROVE  IInv'
<1>1. Typed' /\ BuffersOK'
  BY DEF MaxAbsThread, Typed, BuffersOK, BuffersAccounted
<1>2. MaxOK'
  <2>1. /\ phase = "max" /\ todo' = todo \ {t} /\ t \in Nat /\ job \in Jobs /\ job' = job
        /\ Numel \in Nat /\ Numel' = Numel
    BY PackAssumption DEF MaxAbsThread, Typed, Numel
  <2>2. \A i \in 0..Numel - 1 : Abs(job.source[i]) \in Nat
    BY <2>1, SourceTyped
  <2>3. CASE t < Numel /\ Abs(job.source[t]) > global_max_bits
    <3>1. global_max_bits' = Abs(job.source[t]) /\ t \in 0..Numel - 1
      BY <2>1, <2>3 DEF MaxAbsThread
    <3>2. QED
      BY <2>1, <2>2, <2>3, <3>1 DEF MaxOK
  <2>4. CASE ~(t < Numel /\ Abs(job.source[t]) > global_max_bits)
    <3>1. global_max_bits' = global_max_bits
      BY <2>4 DEF MaxAbsThread
    <3>2. QED
      BY <2>1, <2>2, <2>4, <3>1 DEF MaxOK
  <2>5. QED
    BY <2>3, <2>4
<1>3. ScaleOK' /\ PackOK' /\ SwizzleOK'
  BY DEF MaxAbsThread, ScaleOK, PackOK, SwizzleOK, TotalBlocks
<1>4. QED
  BY <1>1, <1>2, <1>3

LEMMA WriteTensorScaleStep == IInv /\ WriteTensorScale => IInv'
<1> SUFFICES ASSUME IInv, WriteTensorScale PROVE IInv'
  OBVIOUS
<1>1. job \in Jobs /\ ~job.has_fixed /\ todo = {} /\ phase = "max"
  BY DEF WriteTensorScale, Typed
<1>2. allocated' = kBuffers
  BY DEF WriteTensorScale, BuffersOK, kBuffers
<1>3. Max({0} \cup {Abs(job.source[i]) : i \in DOMAIN job.source}) = global_max_bits
  <2> DEFINE S == {0} \cup {Abs(job.source[i]) : i \in DOMAIN job.source}
  <2>1. DOMAIN job.source = 0..Numel - 1
    BY <1>1, PackAssumption DEF Numel
  <2>2. S \subseteq Int
    BY <1>1, <2>1, SourceTyped
  <2>3. global_max_bits \in S
    BY <1>1, <2>1 DEF MaxOK
  <2>4. \A y \in S : global_max_bits >= y
    BY <1>1, <2>1, SourceTyped DEF MaxOK
  <2> HIDE DEF S
  <2>5. Max(S) = global_max_bits
    BY <2>2, <2>3, <2>4, MaxIs
  <2>6. QED
    BY <2>5 DEF S
<1>4. tensor_scale' = HostTensorScale(job)
  BY <1>1, <1>3 DEF WriteTensorScale, HostTensorScale
<1>5. QED
  BY <1>1, <1>2, <1>4, PackBegins DEF WriteTensorScale

LEMMA PackThreadStep ==
  ASSUME IInv, NEW t \in todo, PackThread(t)
  PROVE  IInv'
<1> DEFINE blocks == BlocksPerRow(job.cols)
           row == t \div blocks
           block == t % blocks
<1>1. /\ phase = "pack" /\ todo' = todo \ {t} /\ t \in Nat /\ job \in Jobs /\ HasLayout(job.rows, job.cols)
      /\ UNCHANGED <<job, phase, allocated, global_max_bits, tensor_scale, matmul_block_scales>>
  BY DEF PackThread, Typed
<1>2. TotalBlocks \in Nat \ {0} /\ TotalBlocks * HalfBlock \in Nat /\ TotalBlocks' = TotalBlocks
  BY <1>1, PackedSize DEF TotalBlocks
<1>3. tensor_scale = HostTensorScale(job)
  BY <1>1 DEF ScaleOK
<1>4. Typed' /\ BuffersOK' /\ MaxOK' /\ ScaleOK' /\ SwizzleOK'
  BY <1>1 DEF Typed, BuffersOK, BuffersAccounted, MaxOK, ScaleOK, SwizzleOK
<1>5. \A b \in 0..TotalBlocks * HalfBlock - 1 :
        /\ b \in Nat
        /\ b \div HalfBlock \in 0..TotalBlocks - 1
  <2> TAKE b \in 0..TotalBlocks * HalfBlock - 1
  <2>1. b \in Nat /\ b < TotalBlocks * HalfBlock
    BY <1>2
  <2>2. b \div HalfBlock < TotalBlocks /\ b \div HalfBlock \in Nat
    BY <1>2, <2>1, Half, DivBelow, DivMod
  <2>3. QED
    BY <1>2, <2>1, <2>2
<1>6. /\ packed = [b \in 0..TotalBlocks * HalfBlock - 1 |->
                     IF b \div HalfBlock \in todo THEN Uninitialized ELSE HostPacked(job)[b]]
      /\ block_scales = [s \in 0..TotalBlocks - 1 |->
                           IF s \in todo THEN Uninitialized ELSE HostBlockScales(job)[s]]
  BY <1>1 DEF PackOK
<1>7. /\ packed' = [b \in 0..TotalBlocks * HalfBlock - 1 |->
                      IF b \div HalfBlock \in todo' THEN Uninitialized ELSE HostPacked(job)[b]]
      /\ block_scales' = [s \in 0..TotalBlocks - 1 |->
                            IF s \in todo' THEN Uninitialized ELSE HostBlockScales(job)[s]]
  <2>1. CASE t >= TotalBlocks
    <3>1. UNCHANGED <<packed, block_scales>>
      BY <2>1 DEF PackThread
    <3>2. \A b \in 0..TotalBlocks * HalfBlock - 1 : b \div HalfBlock # t
      BY <1>2, <1>5, <2>1
    <3>3. \A s \in 0..TotalBlocks - 1 : s # t
      BY <1>2, <2>1
    <3>4. QED
      BY <1>1, <1>6, <3>1, <3>2, <3>3
  <2>2. CASE t < TotalBlocks
    <3>1. /\ t \in 0..TotalBlocks - 1
          /\ ~(t >= TotalBlocks)
      BY <1>1, <1>2, <2>2
    <3>2. PackedOffset(job, row, block) = t * HalfBlock
      BY <1>1, PackedOffsetOfBlock
    <3>3. block_scales' = [s \in 0..TotalBlocks - 1 |->
                             IF s \in todo' THEN Uninitialized ELSE HostBlockScales(job)[s]]
      <4>1. block_scales' = [block_scales EXCEPT ![t] = BlockScale(job, row, block, tensor_scale)]
        BY <3>1 DEF PackThread
      <4>2. HostBlockScales(job)[t] = BlockScale(job, row, block, tensor_scale)
        BY <1>3, <3>1 DEF HostBlockScales, TotalBlocks
      <4>3. QED
        BY <1>1, <1>6, <3>1, <4>1, <4>2
    <3>4. packed' = [b \in 0..TotalBlocks * HalfBlock - 1 |->
                       IF b \div HalfBlock \in todo' THEN Uninitialized ELSE HostPacked(job)[b]]
      <4>1. packed' = [b \in 0..TotalBlocks * HalfBlock - 1 |->
                         IF b \in t * HalfBlock..t * HalfBlock + HalfBlock - 1
                         THEN PackedByte(job, row, block, b - t * HalfBlock, tensor_scale)
                         ELSE packed[b]]
        BY <1>6, <3>1, <3>2 DEF PackThread
      <4>2. ASSUME NEW b \in 0..TotalBlocks * HalfBlock - 1
            PROVE  packed'[b] = IF b \div HalfBlock \in todo' THEN Uninitialized ELSE HostPacked(job)[b]
        <5>1. /\ b \in t * HalfBlock..t * HalfBlock + HalfBlock - 1 <=> b \div HalfBlock = t
              /\ b \div HalfBlock = t => b - t * HalfBlock = b % HalfBlock
          BY <1>1, <1>5, Half, ByteOfBlock
        <5>2. CASE b \div HalfBlock = t
          <6>1. packed'[b] = PackedByte(job, row, block, b % HalfBlock, tensor_scale)
            BY <4>1, <5>1, <5>2
          <6>2. HostPacked(job)[b] = PackedByte(job, row, block, b % HalfBlock, tensor_scale)
            BY <1>3, <5>2 DEF HostPacked, TotalBlocks
          <6>3. b \div HalfBlock \notin todo'
            BY <1>1, <5>2
          <6>4. QED
            BY <6>1, <6>2, <6>3
        <5>3. CASE b \div HalfBlock # t
          <6>1. packed'[b] = packed[b]
            BY <4>1, <5>1, <5>3
          <6>2. b \div HalfBlock \in todo' <=> b \div HalfBlock \in todo
            BY <1>1, <5>3
          <6>3. QED
            BY <1>6, <6>1, <6>2
        <5>4. QED
          BY <5>2, <5>3
      <4>3. QED
        BY <4>1, <4>2
    <3>5. QED
      BY <3>3, <3>4
  <2>3. QED
    BY <1>1, <1>2, <2>1, <2>2
<1>8. PackOK'
  BY <1>1, <1>2, <1>7 DEF PackOK
<1>9. QED
  BY <1>4, <1>8

LEMMA ClearStep == IInv /\ ClearMatmulScales => IInv'
<1> SUFFICES ASSUME IInv, ClearMatmulScales PROVE IInv'
  OBVIOUS
<1>1. /\ phase = "pack" /\ todo = {} /\ phase' = "swizzle" /\ todo' = Launched(TotalBlocks)
      /\ job \in Jobs /\ HasLayout(job.rows, job.cols)
      /\ UNCHANGED <<job, allocated, tensor_scale, packed, block_scales>>
  BY DEF ClearMatmulScales, Typed
<1>2. /\ TotalBlocks \in Nat \ {0}
      /\ TotalBlocks * HalfBlock \in Nat
      /\ TotalBlocks' = TotalBlocks
  BY <1>1, PackedSize DEF TotalBlocks
<1>3. 0..TotalBlocks - 1 \subseteq todo' /\ todo' \subseteq Nat
  BY <1>1, <1>2, LaunchCovers
<1>4. Typed' /\ BuffersOK' /\ MaxOK' /\ ScaleOK'
  BY <1>1, <1>3 DEF Typed, BuffersOK, BuffersAccounted, MaxOK, ScaleOK
<1>5. PackOK'
  <2>1. packed = [b \in 0..TotalBlocks * HalfBlock - 1 |-> HostPacked(job)[b]]
    BY <1>1 DEF PackOK
  <2>2. block_scales = [s \in 0..TotalBlocks - 1 |-> HostBlockScales(job)[s]]
    BY <1>1 DEF PackOK
  <2>3. packed = HostPacked(job) /\ block_scales = HostBlockScales(job)
    BY <2>1, <2>2 DEF HostPacked, HostBlockScales, TotalBlocks
  <2>4. QED
    BY <1>1, <2>3 DEF PackOK
<1>6. SwizzleOK'
  <2>1. matmul_block_scales' = [o \in 0..ScaleBytes(job.rows, job.cols) - 1 |-> ZeroByte]
    BY <1>1 DEF ClearMatmulScales, SwizzleOK, Malloced
  <2>2. QED
    BY <1>1, <1>2, <1>3, <2>1 DEF SwizzleOK
<1>7. QED
  BY <1>4, <1>5, <1>6

LEMMA SwizzleThreadStep ==
  ASSUME IInv, NEW t \in todo, SwizzleThread(t)
  PROVE  IInv'
<1>1. /\ phase = "swizzle" /\ todo' = todo \ {t} /\ t \in Nat /\ job \in Jobs /\ HasLayout(job.rows, job.cols)
      /\ UNCHANGED <<job, phase, allocated, global_max_bits, tensor_scale, packed, block_scales>>
  BY DEF SwizzleThread, Typed
<1>2. TotalBlocks \in Nat \ {0} /\ TotalBlocks' = TotalBlocks /\ \A s : Place(s)' = Place(s)
  BY <1>1, PackedSize DEF TotalBlocks, Place
<1>3. Typed' /\ BuffersOK' /\ MaxOK' /\ ScaleOK' /\ PackOK'
  BY <1>1 DEF Typed, BuffersOK, BuffersAccounted, MaxOK, ScaleOK, PackOK, TotalBlocks
<1>4. SwizzleOK'
  <2>1. CASE t >= TotalBlocks
    <3>1. matmul_block_scales' = matmul_block_scales /\ \A s \in 0..TotalBlocks - 1 : s # t
      BY <1>2, <2>1 DEF SwizzleThread
    <3>2. QED
      BY <1>1, <1>2, <3>1 DEF SwizzleOK
  <2>2. CASE t < TotalBlocks
    <3>1. t \in 0..TotalBlocks - 1 /\ ~(t >= TotalBlocks)
      BY <1>1, <1>2, <2>2
    <3>2. matmul_block_scales' = [matmul_block_scales EXCEPT ![Place(t)] = block_scales[t]]
      BY <3>1 DEF SwizzleThread, Place
    <3>3. /\ Place(t) \in 0..ScaleBytes(job.rows, job.cols) - 1
          /\ \A s \in 0..TotalBlocks - 1 : Place(s) = Place(t) => s = t
      BY <1>1, <3>1, PlaceOK
    <3>4. /\ DOMAIN matmul_block_scales = 0..ScaleBytes(job.rows, job.cols) - 1
          /\ DOMAIN matmul_block_scales' = DOMAIN matmul_block_scales
          /\ matmul_block_scales'[Place(t)] = block_scales[t]
          /\ \A o \in DOMAIN matmul_block_scales :
               o # Place(t) => matmul_block_scales'[o] = matmul_block_scales[o]
      BY <1>1, <3>2, <3>3 DEF SwizzleOK
    <3>5. ASSUME NEW s \in 0..TotalBlocks - 1, s \notin todo'
          PROVE  matmul_block_scales'[Place(s)] = block_scales[s]
      <4>1. CASE s = t
        BY <3>4, <4>1
      <4>2. CASE s # t
        <5>1. Place(s) # Place(t) /\ s \notin todo
          BY <1>1, <3>3, <3>5, <4>2
        <5>2. Place(s) \in 0..ScaleBytes(job.rows, job.cols) - 1
          BY <1>1, PlaceOK
        <5>3. matmul_block_scales[Place(s)] = block_scales[s]
          BY <1>1, <5>1 DEF SwizzleOK
        <5>4. QED
          BY <3>4, <5>1, <5>2, <5>3
      <4>3. QED
        BY <4>1, <4>2
    <3>6. ASSUME NEW o \in DOMAIN matmul_block_scales,
                 \A s \in 0..TotalBlocks - 1 : s \notin todo' => Place(s) # o
          PROVE  matmul_block_scales'[o] = ZeroByte
      <4>1. o # Place(t)
        BY <1>1, <3>1, <3>6
      <4>2. \A s \in 0..TotalBlocks - 1 : s \notin todo => Place(s) # o
        BY <1>1, <3>6
      <4>3. matmul_block_scales[o] = ZeroByte
        BY <1>1, <4>2 DEF SwizzleOK
      <4>4. QED
        BY <3>4, <4>1, <4>3
    <3>7. QED
      BY <1>1, <1>2, <3>4, <3>5, <3>6 DEF SwizzleOK
  <2>3. QED
    BY <1>1, <1>2, <2>1, <2>2
<1>5. QED
  BY <1>3, <1>4

LEMMA FinishStep == IInv /\ Finish => IInv'
<1> SUFFICES ASSUME IInv, Finish PROVE IInv'
  OBVIOUS
<1>1. Typed' /\ BuffersOK' /\ MaxOK' /\ ScaleOK' /\ PackOK'
  BY DEF Finish, device, Typed, BuffersOK, BuffersAccounted, MaxOK, ScaleOK, PackOK, TotalBlocks
<1>2. SwizzleOK'
  BY DEF Finish, device, SwizzleOK, TotalBlocks, Place
<1>3. QED
  BY <1>1, <1>2

LEMMA NextIInv == IInv /\ [Next]_vars => IInv'
<1> SUFFICES ASSUME IInv, [Next]_vars PROVE IInv'
  OBVIOUS
<1>1. CASE Reject \/ CreateFails \/ \E buffer \in kBuffers : Allocate(buffer)
  BY <1>1, CreateSteps
<1>2. CASE RejectOptions \/ CudaFails
  BY <1>2, RefuseSteps
<1>3. CASE Create
  BY <1>3, CreateStep
<1>4. CASE CopyFixedScale
  BY <1>4, CopyFixedScaleStep
<1>5. CASE AllocateScratch
  BY <1>5, AllocateScratchStep
<1>6. CASE WriteTensorScale
  BY <1>6, WriteTensorScaleStep
<1>7. CASE ClearMatmulScales
  BY <1>7, ClearStep
<1>8. CASE Finish
  BY <1>8, FinishStep
<1>9. ASSUME NEW t \in todo, MaxAbsThread(t) \/ PackThread(t) \/ SwizzleThread(t)
      PROVE  IInv'
  BY <1>9, MaxAbsThreadStep, PackThreadStep, SwizzleThreadStep
<1>10. CASE UNCHANGED vars
  <2>1. Typed' /\ BuffersOK' /\ MaxOK' /\ ScaleOK'
    BY <1>10 DEF vars, device, Typed, BuffersOK, BuffersAccounted, MaxOK, ScaleOK, Numel
  <2>2. PackOK' /\ SwizzleOK'
    BY <1>10 DEF vars, device, PackOK, SwizzleOK, TotalBlocks, Place
  <2>3. QED
    BY <2>1, <2>2
<1>11. QED
  BY <1>1, <1>2, <1>3, <1>4, <1>5, <1>6, <1>7, <1>8, <1>9, <1>10 DEF Next

\* The invariant holds always.
THEOREM Invariance == Spec => []IInv
  BY InitIInv, NextIInv, PTL DEF Spec

-----------------------------------------------------------------------------
\* The scalars are computed without leaving their range.
ScalarsOK == global_max_bits \in 0..kInf /\ tensor_scale \in 0..kInf

LEMMA ScaleInRange ==
  ASSUME NEW value \in -kInf..kInf
  PROVE  ClampScale(value) \in 0..kInf /\ TensorScaleFor(value) \in 0..kInf
BY PackAssumption DEF ClampScale, TensorScaleFor, IsFinite, Abs

LEMMA ScalarsStep == IInv /\ ScalarsOK /\ [Next]_vars => ScalarsOK'
<1> SUFFICES ASSUME IInv, ScalarsOK, [Next]_vars PROVE ScalarsOK'
  OBVIOUS
<1>1. kInf \in Nat /\ job \in Jobs
  BY PackAssumption DEF Typed
<1>2. CASE UNCHANGED <<global_max_bits, tensor_scale>>
  BY <1>2 DEF ScalarsOK
<1>3. CASE CopyFixedScale
  <2>1. job.fixed_tensor_scale \in -kInf..kInf
    BY <1>1, PackAssumption
  <2>2. QED
    BY <1>3, <2>1, ScaleInRange DEF CopyFixedScale, ScalarsOK
<1>4. CASE AllocateScratch
  BY <1>1, <1>4 DEF AllocateScratch, ScalarsOK
<1>5. CASE WriteTensorScale
  <2>1. global_max_bits \in -kInf..kInf
    BY <1>1 DEF ScalarsOK
  <2>2. QED
    BY <1>5, <2>1, ScaleInRange DEF WriteTensorScale, ScalarsOK
<1>6. ASSUME NEW t \in todo, MaxAbsThread(t) PROVE ScalarsOK'
  <2>1. CASE t < Numel /\ Abs(job.source[t]) > global_max_bits
    <3>1. job.rows * job.cols \in Nat /\ t \in Nat
      BY <1>1, PackAssumption DEF Typed
    <3>2. t \in 0..job.rows * job.cols - 1
      BY <2>1, <3>1 DEF Numel
    <3>3. job.source[t] \in -kInf..kInf
      BY <1>1, <3>2, PackAssumption
    <3>4. Abs(job.source[t]) \in 0..kInf
      BY <1>1, <3>3 DEF Abs
    <3>5. QED
      BY <1>6, <2>1, <3>4 DEF MaxAbsThread, ScalarsOK
  <2>2. CASE ~(t < Numel /\ Abs(job.source[t]) > global_max_bits)
    BY <1>6, <2>2 DEF MaxAbsThread, ScalarsOK
  <2>3. QED
    BY <2>1, <2>2
<1>7. Next => \/ UNCHANGED <<global_max_bits, tensor_scale>>
              \/ CopyFixedScale \/ AllocateScratch \/ WriteTensorScale
              \/ \E t \in todo : MaxAbsThread(t)
  BY DEF Next, device, Reject, Create, CreateFails, Allocate, RejectOptions, ClearMatmulScales,
         Finish, CudaFails, PackThread, SwizzleThread
<1>8. QED
  BY <1>2, <1>3, <1>4, <1>5, <1>6, <1>7 DEF vars, device

\* From its creation to its end the matrix has buffers of the sizes its shape asks for, and
\* the maximum and the tensor scale stay in the range of magnitudes (DeviceNvfp4Matrix::Create).
THEOREM TypeCorrect == Spec => []TypeOK
<1>1. Init => ScalarsOK
  BY PackAssumption DEF Init, ScalarsOK
<1>2. IInv /\ ScalarsOK => TypeOK
  <2> SUFFICES ASSUME IInv, ScalarsOK PROVE TypeOK
    OBVIOUS
  <2>1. allocated \subseteq kBuffers \cup {"global_max_bits"}
    BY DEF Typed, BuffersOK, BuffersAccounted
  <2>2. ASSUME phase \notin {"create", "refused"}
        PROVE  /\ DOMAIN packed = 0..(Numel + 1) \div 2 - 1
               /\ DOMAIN block_scales = 0..TotalBlocks - 1
               /\ DOMAIN matmul_block_scales = 0..ScaleBytes(job.rows, job.cols) - 1
    <3>1. job \in Jobs /\ HasLayout(job.rows, job.cols)
      BY <2>2 DEF Typed
    <3>2. (Numel + 1) \div 2 = TotalBlocks * HalfBlock
      BY <3>1, PackedSize DEF Numel, TotalBlocks
    <3>3. DOMAIN packed = 0..TotalBlocks * HalfBlock - 1 /\ DOMAIN block_scales = 0..TotalBlocks - 1
      BY <2>2 DEF Typed, PackOK, Malloced, HostPacked, HostBlockScales, TotalBlocks
    <3>4. DOMAIN matmul_block_scales = 0..ScaleBytes(job.rows, job.cols) - 1
      BY <2>2 DEF Typed, SwizzleOK, Malloced
    <3>5. QED
      BY <3>2, <3>3, <3>4
  <2>3. QED
    BY <2>1, <2>2 DEF TypeOK, Typed, ScalarsOK
<1>3. QED
  BY <1>1, <1>2, ScalarsStep, Invariance, InitIInv, PTL DEF Spec

-----------------------------------------------------------------------------
\* Whatever the order of the threads, and for every matrix, the device's packed bytes, block
\* scales and tensor scale are the host packer's (PackDeviceRowMajorFp32ToNvfp4).
THEOREM DevicePacksLikeHost == Spec => []DeviceMatchesHost
<1>1. IInv => DeviceMatchesHost
  BY DEF DeviceMatchesHost, ScaleOK, PackOK
<1>2. QED
  BY <1>1, Invariance, PTL

\* For every shape and all tile sizes each scale is at the place the layout gives it, all
\* places differ and lie in the buffer, and the padding is zero (ExecutionScaleOffset).
THEOREM ScalesAlwaysInPlace == Spec => []ScalesInPlace
<1>1. IInv => ScalesInPlace
  <2> SUFFICES ASSUME IInv, phase = "done" PROVE ScalesInPlace
    BY DEF ScalesInPlace
  <2>1. job \in Jobs /\ HasLayout(job.rows, job.cols) /\ todo = {}
    BY DEF Typed
  <2>2. \A s \in 0..TotalBlocks - 1 : /\ Place(s) \in DOMAIN matmul_block_scales
                                      /\ matmul_block_scales[Place(s)] = block_scales[s]
    BY <2>1, PlaceOK DEF SwizzleOK
  <2>3. \A o \in DOMAIN matmul_block_scales :
          (\A s \in 0..TotalBlocks - 1 : Place(s) # o) => matmul_block_scales[o] = ZeroByte
    BY <2>1 DEF SwizzleOK
  <2>4. QED
    BY <2>2, <2>3 DEF ScalesInPlace, Place
<1>2. QED
  BY <1>1, Invariance, PTL

\* However packing ends, the device buffers that exist are the four of a matrix or none.
THEOREM BuffersAlwaysAccounted == Spec => []BuffersAccounted
<1>1. IInv => BuffersAccounted
  BY DEF BuffersOK
<1>2. QED
  BY <1>1, Invariance, PTL

\* No thread overwrites what another thread of its launch wrote, in any interleaving.
THEOREM NoWriteCollides == Spec => WritesNeverCollide
<1> DEFINE Once ==
      /\ \A b \in DOMAIN packed : packed'[b] # packed[b] => packed[b] = Uninitialized
      /\ \A s \in DOMAIN block_scales : block_scales'[s] # block_scales[s] => block_scales[s] = Uninitialized
      /\ \A o \in DOMAIN matmul_block_scales :
           matmul_block_scales'[o] # matmul_block_scales[o] => matmul_block_scales[o] \in {Uninitialized, ZeroByte}
<1>1. ASSUME IInv, [Next]_vars PROVE Once
  <2>1. CASE UNCHANGED <<packed, block_scales, matmul_block_scales>>
    BY <2>1
  <2>2. CASE Create
    <3>1. packed = <<>> /\ block_scales = <<>> /\ matmul_block_scales = <<>>
      BY <1>1, <2>2 DEF Create, PackOK, SwizzleOK
    <3>2. QED
      BY <3>1
  <2>3. ASSUME NEW t \in todo, PackThread(t) PROVE Once
    <3>1. IInv'
      BY <1>1, <2>3, PackThreadStep
    <3>2. phase = "pack" /\ phase' = "pack" /\ todo' = todo \ {t} /\ job' = job
          /\ matmul_block_scales' = matmul_block_scales
      BY <2>3 DEF PackThread
    <3>3. /\ packed = [b \in 0..TotalBlocks * HalfBlock - 1 |->
                         IF b \div HalfBlock \in todo THEN Uninitialized ELSE HostPacked(job)[b]]
          /\ packed' = [b \in 0..TotalBlocks * HalfBlock - 1 |->
                         IF b \div HalfBlock \in todo' THEN Uninitialized ELSE HostPacked(job)[b]]
      BY <1>1, <3>1, <3>2 DEF PackOK, TotalBlocks
    <3>4. /\ block_scales = [s \in 0..TotalBlocks - 1 |->
                               IF s \in todo THEN Uninitialized ELSE HostBlockScales(job)[s]]
          /\ block_scales' = [s \in 0..TotalBlocks - 1 |->
                               IF s \in todo' THEN Uninitialized ELSE HostBlockScales(job)[s]]
      BY <1>1, <3>1, <3>2 DEF PackOK, TotalBlocks
    <3>5. \A b \in DOMAIN packed : packed'[b] # packed[b] => packed[b] = Uninitialized
      BY <3>2, <3>3
    <3>6. \A s \in DOMAIN block_scales : block_scales'[s] # block_scales[s] => block_scales[s] = Uninitialized
      BY <3>2, <3>4
    <3>7. QED
      BY <3>2, <3>5, <3>6
  <2>4. CASE ClearMatmulScales
    <3>1. /\ UNCHANGED <<packed, block_scales>>
          /\ matmul_block_scales = Malloced(ScaleBytes(job.rows, job.cols))
      BY <1>1, <2>4 DEF ClearMatmulScales, SwizzleOK
    <3>2. QED
      BY <3>1 DEF Malloced
  <2>5. ASSUME NEW t \in todo, SwizzleThread(t) PROVE Once
    <3>1. /\ UNCHANGED <<packed, block_scales>>
          /\ phase = "swizzle" /\ job \in Jobs /\ HasLayout(job.rows, job.cols)
      BY <1>1, <2>5 DEF SwizzleThread, Typed
    <3>2. CASE t >= TotalBlocks
      BY <2>5, <3>1, <3>2 DEF SwizzleThread
    <3>3. CASE ~(t >= TotalBlocks)
      <4>1. matmul_block_scales' = [matmul_block_scales EXCEPT ![Place(t)] = block_scales[t]]
        BY <2>5, <3>3 DEF SwizzleThread, Place
      <4>2. t \in 0..TotalBlocks - 1
        <5>1. TotalBlocks \in Nat /\ t \in Nat
          BY <1>1, <3>1, PackedSize DEF TotalBlocks, Typed
        <5>2. QED
          BY <3>3, <5>1
      <4>3. \A s \in 0..TotalBlocks - 1 : s \notin todo => Place(s) # Place(t)
        BY <3>1, <4>2, PlaceOK
      <4>4. Place(t) \in DOMAIN matmul_block_scales => matmul_block_scales[Place(t)] = ZeroByte
        BY <1>1, <3>1, <4>3 DEF SwizzleOK
      <4>5. QED
        BY <3>1, <4>1, <4>4
    <3>4. QED
      BY <3>2, <3>3
  <2>6. CASE \/ Reject \/ CreateFails \/ (\E buffer \in kBuffers : Allocate(buffer))
             \/ RejectOptions \/ CopyFixedScale \/ AllocateScratch \/ WriteTensorScale
             \/ Finish \/ CudaFails \/ (\E t \in todo : MaxAbsThread(t)) \/ UNCHANGED vars
    <3>1. UNCHANGED <<packed, block_scales, matmul_block_scales>>
      BY <2>6 DEF Reject, CreateFails, Allocate, RejectOptions, CopyFixedScale, AllocateScratch,
                  WriteTensorScale, Finish, CudaFails, MaxAbsThread, vars, device
    <3>2. QED
      BY <2>1, <3>1
  <2>7. QED
    BY <1>1, <2>2, <2>3, <2>4, <2>5, <2>6 DEF Next
<1>2. Spec => [][Once]_vars
  BY <1>1, Invariance, PTL DEF Spec
<1>3. QED
  BY <1>2 DEF WritesNeverCollide
=============================================================================
