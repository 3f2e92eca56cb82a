-------------------------- MODULE Nvfp4ScaleLayout --------------------------
(***************************************************************************)
(* Where the block scales of an NVFP4 matrix lie in the buffer the         *)
(* block-scaled GEMM reads: tiles of 128 rows by 4 blocks, padded to whole *)
(* tiles, and inside a tile 32 groups of 4 rows of 4 blocks.  The host and *)
(* the device keep a copy of the same arithmetic each; both are this one.  *)
(***************************************************************************)
EXTENDS Integers

CONSTANTS
  kBlockWidth,  \* elements that share a scale, 16
  OuterRows,    \* rows a tile strides over, 32
  InnerRows,    \* rows of equal outer index, 4
  kBlockTile    \* blocks of a tile, 4

ASSUME TileAssumption ==
  /\ kBlockWidth \in Nat \ {0} /\ kBlockWidth % 2 = 0
  /\ OuterRows \in Nat \ {0}
  /\ InnerRows \in Nat \ {0}
  /\ kBlockTile \in Nat \ {0}

kRowTile == OuterRows * InnerRows

RoundUp(value, alignment) == ((value + alignment - 1) \div alignment) * alignment

\* A shape that has a layout, and the layout of such a shape.
HasLayout(rows, cols) == rows > 0 /\ cols > 0 /\ cols % kBlockWidth = 0
BlocksPerRow(cols) == cols \div kBlockWidth
PaddedBlocksPerRow(cols) == RoundUp(BlocksPerRow(cols), kBlockTile)
ScaleBytes(rows, cols) == RoundUp(rows, kRowTile) * PaddedBlocksPerRow(cols)

ScaleOffsetFlat(row, block_col, padded_blocks_per_row) ==  \* mutant: no inner row
  (row \div kRowTile) * kRowTile * padded_blocks_per_row
    + (row % OuterRows) * InnerRows * kBlockTile + block_col
ScaleOffset(row, block_col, padded_blocks_per_row) ==
  LET m_tile  == row \div kRowTile
      outer_m == row % OuterRows
      inner_m == (row \div OuterRows) % InnerRows
      k_tile  == block_col \div kBlockTile
      inner_k == block_col % kBlockTile
  IN  (m_tile * (padded_blocks_per_row \div kBlockTile) + k_tile) * (kRowTile * kBlockTile)
        + (outer_m * InnerRows + inner_m) * kBlockTile + inner_k
=============================================================================
