----------------------------- MODULE MCLinearOp -----------------------------
(* TLC instance of LinearOp: NVFP4 weights with the tile sizes of the hardware, in one   *)
(* tile, across tiles in rows and in blocks; dense weights of each storage type, aligned *)
(* for the library or not; a scaled FP8 weight; and descriptors that are refused.        *)
EXTENDS LinearOp

MCDecode(storage, code) ==
  CASE storage = "fp8"  -> 2 * code - 1
    [] storage = "bf16" -> code - 1
    [] OTHER            -> code
MCRoundTrip(x) == 2 * (x \div 2)
MCTensorScale(a) == 1 + (a[1] % 3)   \* 3 and 1 for the two seeds

Nvfp4(rows, cols, tensor_scale) ==
  [family |-> "nvfp4", storage |-> "nvfp4", is_nvfp4 |-> TRUE, output_rows |-> rows, input_cols |-> cols,
   packed_nbytes |-> rows * (cols \div 2), tensor_scale |-> tensor_scale, tensor_scale_nbytes |-> 4,
   block_scales_nbytes |-> rows * (cols \div 16), packed_aligned |-> TRUE, scales_aligned |-> TRUE]

Dense(family, storage, rows, cols) ==
  [family |-> family, is_nvfp4 |-> FALSE, output_rows |-> rows, input_cols |-> cols,
   storage |-> storage, is_scaled |-> FALSE, weight_scale |-> 2,
   packed_nbytes |-> rows * cols * kWidth[storage], packed_aligned |-> TRUE]

MCDescriptors ==
  { Nvfp4(130, 80, 2), Nvfp4(33, 16, 3), Nvfp4(1, 96, 2), Nvfp4(0, 16, 1), Nvfp4(2, 8, 1),
    [Nvfp4(4, 32, 2) EXCEPT !.is_nvfp4 = FALSE],
    [Nvfp4(4, 32, 2) EXCEPT !.block_scales_nbytes = 7],
    [Nvfp4(4, 32, 2) EXCEPT !.packed_nbytes = 0],
    [Nvfp4(4, 32, 2) EXCEPT !.scales_aligned = FALSE],
    Dense("dense", "fp32", 2, 3), Dense("dense", "bf16", 3, 2), Dense("dense", "fp8", 2, 3),
    Dense("dense", "float32", 2, 3),
    [Dense("dense", "bf16", 2, 3) EXCEPT !.packed_aligned = FALSE],
    [Dense("dense", "fp8", 2, 3) EXCEPT !.is_scaled = TRUE],
    [Dense("dense", "bf16", 2, 3) EXCEPT !.packed_nbytes = 24],
    Dense("scaled_fp8", "fp8", 2, 3),
    [Dense("scaled_fp8", "fp8", 2, 3) EXCEPT !.weight_scale = 0] }

ScaledDescriptors == {Dense("scaled_fp8", "fp8", 2, 3)}
=============================================================================
