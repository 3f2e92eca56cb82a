----------------------------- MODULE Nvfp4Weight -----------------------------
(***************************************************************************)
(* Uploading an NVFP4 weight (nvfp4_weight.cpp): the host moves the block  *)
(* scales into the GEMM's layout one by one, then four buffers are         *)
(* allocated and filled on the device, any of which may fail.              *)
(***************************************************************************)
EXTENDS Nvfp4ScaleLayout

CONSTANT Descriptors  \* the GEMM descriptors that are uploaded

VARIABLES
  descriptor,
  phase,
  at,        \* the scales moved so far, row by row
  swizzled,  \* the host's copy of the scales in the GEMM's layout
  device     \* the buffers that exist on the device, and what they hold

vars == <<descriptor, phase, at, swizzled, device>>

-----------------------------------------------------------------------------
\* The row-major scale of block s is byte s + 1; padding is 0.
RowMajorScales(d) == [s \in 0..d.block_scales_nbytes - 1 |-> s + 1]

kNull == <<>>
NoBuffers == [packed |-> kNull, block_scales |-> kNull,
              matmul_block_scales |-> kNull, tensor_scale |-> kNull]

Uploadable(d) ==
  /\ d.is_nvfp4  \* family, storage and compute dtype, layout tag
  /\ d.output_rows # 0 /\ d.input_cols # 0
  /\ d.packed_nbytes > 0 /\ d.tensor_scale_nbytes > 0 /\ d.block_scales_nbytes > 0
  /\ d.block_scales_nbytes =
       IF d.input_cols % kBlockWidth = 0 THEN d.output_rows * (d.input_cols \div kBlockWidth) ELSE 0

Blocks == BlocksPerRow(descriptor.input_cols)

Init ==
  /\ descriptor \in Descriptors
  /\ phase = "check"
  /\ at = 0
  /\ swizzled = <<>>
  /\ device = NoBuffers

Reject ==
  /\ phase = "check"
  /\ ~Uploadable(descriptor)
  /\ phase' = "refused"
  /\ UNCHANGED <<descriptor, at, swizzled, device>>

BeginSwizzle ==
  /\ phase = "check"
  /\ Uploadable(descriptor)
  /\ phase' = "swizzle"
  /\ swizzled' = [o \in 0..ScaleBytes(descriptor.output_rows, descriptor.input_cols) - 1 |-> 0]
  /\ UNCHANGED <<descriptor, at, device>>

\* One turn of the loop over rows and blocks, whose bounds are those of the layout.
SwizzleScale ==
  /\ phase = "swizzle"
  /\ at < descriptor.output_rows * Blocks
  /\ swizzled' = [swizzled EXCEPT ![ScaleOffset(at \div Blocks, at % Blocks,
                                                PaddedBlocksPerRow(descriptor.input_cols))]
                                    = RowMajorScales(descriptor)[at]]
  /\ at' = at + 1
  /\ UNCHANGED <<descriptor, phase, device>>

SwizzleDone ==
  /\ phase = "swizzle"
  /\ at = descriptor.output_rows * Blocks
  /\ phase' = "packed"
  /\ UNCHANGED <<descriptor, at, swizzled, device>>

\* The buffers in the order they are uploaded, and what each gets.
After == [packed |-> "block_scales", block_scales |-> "matmul_block_scales",
          matmul_block_scales |-> "tensor_scale", tensor_scale |-> "done"]
Contents(buffer) ==
  CASE buffer = "block_scales"        -> RowMajorScales(descriptor)
    [] buffer = "matmul_block_scales" -> swizzled
    [] buffer = "tensor_scale"        -> <<descriptor.tensor_scale>>
    [] OTHER                          -> <<buffer>>

AllocateAndCopy ==
  /\ phase \in DOMAIN After
  /\ device' = [device EXCEPT ![phase] = Contents(phase)]
  /\ phase' = After[phase]
  /\ UNCHANGED <<descriptor, at, swizzled>>

\* cudaMalloc or cudaMemcpy fails: the buffer it was for is null again, the others are released.
Release(buffers) ==
  [buffers EXCEPT !.tensor_scale = kNull, !.matmul_block_scales = kNull,
                  !.block_scales = kNull, !.packed = kNull]

UploadFails ==
  /\ phase \in {"check"} \cup DOMAIN After
  /\ phase = "check" => Uploadable(descriptor)
  /\ device' = Release(device)
  /\ phase' = "refused"
  /\ UNCHANGED <<descriptor, at, swizzled>>

Next == Reject \/ BeginSwizzle \/ SwizzleScale \/ SwizzleDone \/ AllocateAndCopy \/ UploadFails

Spec == Init /\ [][Next]_vars
-----------------------------------------------------------------------------
\* Every block scale of the checkpoint is on the device where a GEMM of the real tile sizes
\* looks for it, and everything else there is zero (SwizzleRowMajorNvfp4ScalesForExecution).
UploadedScalesInPlace ==
  descriptor.is_nvfp4 /\ phase = "done" =>
    LET scales == device.matmul_block_scales
        padded == PaddedBlocksPerRow(descriptor.input_cols)
        places == {ScaleOffset(r, b, padded) : r \in 0..descriptor.output_rows - 1, b \in 0..Blocks - 1}
    IN  /\ \A r \in 0..descriptor.output_rows - 1, b \in 0..Blocks - 1 :
             scales[ScaleOffset(r, b, padded)] = device.block_scales[r * Blocks + b]
        /\ \A o \in DOMAIN scales \ places : scales[o] = 0
=============================================================================
