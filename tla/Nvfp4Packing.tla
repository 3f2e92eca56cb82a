---------------------------- MODULE Nvfp4Packing ----------------------------
(***************************************************************************)
(* Packing a device matrix of floats into NVFP4 (device_nvfp4_matrix.cu):  *)
(* four kernels find the largest magnitude, derive the tensor scale, pack  *)
(* each block of values with its own scale, and move the scales to where   *)
(* the GEMM expects them.  The threads of a launch run in any order; a     *)
(* launch ends only at cudaDeviceSynchronize.  Every CUDA call may fail.   *)
(*                                                                         *)
(* Magnitudes are integers.  A tensor scale t stands for the float t/kLimit, *)
(* a block scale <<m, t>> for what m / (6 * t) rounds to, and a packed byte *)
(* is named by the two values and the two scales that it encodes.          *)
(***************************************************************************)
EXTENDS Nvfp4ScaleLayout, FiniteSets, FiniteSetsExt

CONSTANTS
  Jobs,              \* matrices to pack, with their pack options
  kThreadsPerBlock,  \* threads of a launch come in multiples of this, 128
  kInf,              \* the magnitude of an infinite value
  kLimit,            \* kFp4MaxFinite * kFp8E4M3MaxFinite
  kMinScale

ASSUME PackAssumption ==
  /\ kThreadsPerBlock \in Nat \ {0}
  /\ kInf \in Nat /\ kLimit \in Nat /\ kMinScale \in Nat
  /\ 0 < kMinScale /\ kMinScale < kLimit /\ kLimit < kInf
  /\ \A j \in Jobs :
       /\ j.rows \in Nat /\ j.cols \in Nat
       /\ j.source \in [0..j.rows * j.cols - 1 -> -kInf..kInf]
       /\ j.has_fixed \in BOOLEAN /\ j.fixed_tensor_scale \in -kInf..kInf

VARIABLES
  job,                    \* the source matrix and the options
  phase,                  \* what PackDeviceRowMajorFp32ToNvfp4 does next
  todo,                   \* threads of the running kernel that have not run
  allocated,              \* device buffers that exist
  global_max_bits, tensor_scale, packed, block_scales, matmul_block_scales

device == <<global_max_bits, tensor_scale, packed, block_scales, matmul_block_scales>>
vars == <<job, phase, todo, allocated, device>>

-----------------------------------------------------------------------------
(* Contents *)

Abs(x) == IF x < 0 THEN -x ELSE x
IsFinite(x) == Abs(x) < kInf

\* A byte that cudaMalloc left as it was, a byte that cudaMemset cleared.
Uninitialized == <<>>
ZeroByte == <<0, 0>>

ClampScale(value) == IF ~IsFinite(value) \/ value < kMinScale THEN kMinScale ELSE value

TensorScaleFor(max_abs) == IF max_abs > kLimit THEN ClampScale(max_abs) ELSE kLimit

\* Element i of a block of the source, the largest magnitude of the block, and its scale.
Element(j, row, block, i) == j.source[row * j.cols + block * kBlockWidth + i]
BlockMaxAbs(j, row, block) == Max({0} \cup {Abs(Element(j, row, block, i)) : i \in 0..kBlockWidth - 1})
BlockScale(j, row, block, scale) ==
  LET max_abs == BlockMaxAbs(j, row, block)
  IN  IF max_abs = 0 THEN <<0, 1>>
      ELSE IF ~IsFinite(max_abs) THEN <<kInf, 1>>
      ELSE <<max_abs, scale>>

\* The byte of elements 2p and 2p + 1 of a block.
PackedByte(j, row, block, p, scale) ==
  <<Element(j, row, block, 2 * p), Element(j, row, block, 2 * p + 1),
    scale, BlockScale(j, row, block, scale)>>

HalfBlock == kBlockWidth \div 2

\* Where the bytes of a block begin.
PackedOffsetDense(j, row, block) == row * (j.cols \div 2) + block  \* mutant: blocks of one byte
PackedOffset(j, row, block) == row * (j.cols \div 2) + block * HalfBlock

(* The host packer, whose result the device's has to equal. *)

InvalidOptions(j) == j.has_fixed /\ (~IsFinite(j.fixed_tensor_scale) \/ j.fixed_tensor_scale <= 0)

HostRefuses(j) ==
  \/ ~HasLayout(j.rows, j.cols)
  \/ InvalidOptions(j)
  \/ \E i \in DOMAIN j.source : ~IsFinite(j.source[i])

HostTensorScale(j) ==
  IF j.has_fixed THEN ClampScale(j.fixed_tensor_scale)
                 ELSE TensorScaleFor(Max({0} \cup {Abs(j.source[i]) : i \in DOMAIN j.source}))

\* Scales and bytes are appended row by row, block by block, pair by pair.
HostBlockScales(j) ==
  LET blocks == BlocksPerRow(j.cols)
  IN  [s \in 0..j.rows * blocks - 1 |-> BlockScale(j, s \div blocks, s % blocks, HostTensorScale(j))]
HostPacked(j) ==
  LET blocks == BlocksPerRow(j.cols)
  IN  [b \in 0..j.rows * blocks * HalfBlock - 1 |->
         PackedByte(j, (b \div HalfBlock) \div blocks, (b \div HalfBlock) % blocks, b % HalfBlock,
                    HostTensorScale(j))]
-----------------------------------------------------------------------------
(* The device packer *)

kBuffers == {"packed", "block_scales", "matmul_block_scales", "tensor_scale"}
Numel == job.rows * job.cols
TotalBlocks == job.rows * BlocksPerRow(job.cols)

LaunchedRoundingDown(total) ==  \* mutant: the last threads are missing
  0..(total \div kThreadsPerBlock) * kThreadsPerBlock - 1
Launched(total) == 0..((total + kThreadsPerBlock - 1) \div kThreadsPerBlock) * kThreadsPerBlock - 1

Malloced(nbytes) == [b \in 0..nbytes - 1 |-> Uninitialized]

Init ==
  /\ job \in Jobs
  /\ phase = "create"
  /\ todo = {}
  /\ allocated = {}
  /\ global_max_bits = 0
  /\ tensor_scale = 0
  /\ packed = <<>> /\ block_scales = <<>> /\ matmul_block_scales = <<>>

\* The shape cannot be packed.
Reject ==
  /\ phase = "create"
  /\ ~HasLayout(job.rows, job.cols)
  /\ phase' = "refused"
  /\ UNCHANGED <<job, todo, allocated, device>>

\* cudaMalloc of the four buffers, in this order.
Before == [packed |-> {}, block_scales |-> {"packed"},
           matmul_block_scales |-> {"packed", "block_scales"},
           tensor_scale |-> {"packed", "block_scales", "matmul_block_scales"}]

Allocate(buffer) ==
  /\ phase = "create"
  /\ HasLayout(job.rows, job.cols)
  /\ allocated = Before[buffer]
  /\ allocated' = allocated \cup {buffer}
  /\ UNCHANGED <<job, phase, todo, device>>

\* The matrix exists; next comes the caller's tensor scale, if there is one.
Create ==
  /\ phase = "create"
  /\ allocated = kBuffers
  /\ phase' = IF job.has_fixed THEN "fixed" ELSE "scratch"
  /\ packed' = Malloced((Numel + 1) \div 2)
  /\ block_scales' = Malloced(TotalBlocks)
  /\ matmul_block_scales' = Malloced(ScaleBytes(job.rows, job.cols))
  /\ UNCHANGED <<job, todo, allocated, global_max_bits, tensor_scale>>

\* ~DeviceNvfp4Matrix, or Create when an allocation fails: every buffer that exists goes.
Freed(buffers) == buffers \ kBuffers

CreateFails ==
  /\ phase = "create"
  /\ HasLayout(job.rows, job.cols)
  /\ allocated # kBuffers
  /\ phase' = "refused"
  /\ allocated' = Freed(allocated)
  /\ UNCHANGED <<job, todo, device>>

RejectOptions ==
  /\ phase = "fixed"
  /\ InvalidOptions(job)
  /\ phase' = "refused"
  /\ allocated' = Freed(allocated)
  /\ UNCHANGED <<job, todo, device>>

CopyFixedScale ==
  /\ phase = "fixed"
  /\ ~InvalidOptions(job)
  /\ tensor_scale' = ClampScale(job.fixed_tensor_scale)
  /\ phase' = "pack"
  /\ todo' = Launched(TotalBlocks)
  /\ UNCHANGED <<job, allocated, global_max_bits, packed, block_scales, matmul_block_scales>>

AllocateScratch ==
  /\ phase = "scratch"
  /\ allocated' = allocated \cup {"global_max_bits"}
  /\ global_max_bits' = 0
  /\ phase' = "max"
  /\ todo' = Launched(Numel)
  /\ UNCHANGED <<job, tensor_scale, packed, block_scales, matmul_block_scales>>

MaxAbsThreadSigned(t) ==  \* mutant: fabsf is missing
  /\ phase = "max" /\ t \in todo
  /\ todo' = todo \ {t}
  /\ global_max_bits' = IF t < Numel /\ job.source[t] > global_max_bits
                        THEN job.source[t] ELSE global_max_bits
  /\ UNCHANGED <<job, phase, allocated, tensor_scale, packed, block_scales, matmul_block_scales>>

\* atomicMax: the bits of floats that are not negative are ordered like the floats.
MaxAbsThread(t) ==
  /\ phase = "max" /\ t \in todo
  /\ todo' = todo \ {t}
  /\ global_max_bits' = IF t < Numel /\ Abs(job.source[t]) > global_max_bits
                        THEN Abs(job.source[t]) ELSE global_max_bits
  /\ UNCHANGED <<job, phase, allocated, tensor_scale, packed, block_scales, matmul_block_scales>>

WriteTensorScale ==
  /\ phase = "max" /\ todo = {}
  /\ tensor_scale' = TensorScaleFor(global_max_bits)
  /\ allocated' = allocated \ {"global_max_bits"}
  /\ phase' = "pack"
  /\ todo' = Launched(TotalBlocks)
  /\ UNCHANGED <<job, global_max_bits, packed, block_scales, matmul_block_scales>>

\* One block: its scale and its bytes.
PackThread(t) ==
  /\ phase = "pack" /\ t \in todo
  /\ todo' = todo \ {t}
  /\ IF t >= TotalBlocks THEN UNCHANGED <<packed, block_scales>>
     ELSE LET row   == t \div BlocksPerRow(job.cols)
              block == t % BlocksPerRow(job.cols)
              first == PackedOffset(job, row, block)
          IN  /\ block_scales' = [block_scales EXCEPT ![t] = BlockScale(job, row, block, tensor_scale)]
              /\ packed' = [b \in DOMAIN packed |->
                              IF b \in first..first + HalfBlock - 1
                              THEN PackedByte(job, row, block, b - first, tensor_scale)
                              ELSE packed[b]]
  /\ UNCHANGED <<job, phase, allocated, global_max_bits, tensor_scale, matmul_block_scales>>

\* The pack kernel is over: clear the GEMM's scales, padding included.
ClearMatmulScales ==
  /\ phase = "pack" /\ todo = {}
  /\ matmul_block_scales' = [o \in DOMAIN matmul_block_scales |-> ZeroByte]
  /\ phase' = "swizzle"
  /\ todo' = Launched(TotalBlocks)
  /\ UNCHANGED <<job, allocated, global_max_bits, tensor_scale, packed, block_scales>>

SwizzleThread(t) ==
  /\ phase = "swizzle" /\ t \in todo
  /\ todo' = todo \ {t}
  /\ IF t >= TotalBlocks THEN UNCHANGED matmul_block_scales
     ELSE LET row       == t \div BlocksPerRow(job.cols)
              block_col == t % BlocksPerRow(job.cols)
          IN  matmul_block_scales' =
                [matmul_block_scales EXCEPT
                   ![ScaleOffset(row, block_col, PaddedBlocksPerRow(job.cols))] = block_scales[t]]
  /\ UNCHANGED <<job, phase, allocated, global_max_bits, tensor_scale, packed, block_scales>>

Finish ==
  /\ phase = "swizzle" /\ todo = {}
  /\ phase' = "done"
  /\ UNCHANGED <<job, todo, allocated, device>>

CudaFailsKeepingScratch ==  \* mutant: global_max_bits is not freed
  /\ phase \in {"fixed", "scratch", "max", "pack", "swizzle"}
  /\ phase = "fixed" => ~InvalidOptions(job)
  /\ phase' = "refused"
  /\ todo' = {}
  /\ allocated' = Freed(allocated)
  /\ UNCHANGED <<job, device>>

\* A CUDA call fails: the scratch buffer is freed by hand, the others by the destructor.
CudaFails ==
  /\ phase \in {"fixed", "scratch", "max", "pack", "swizzle"}
  /\ phase = "fixed" => ~InvalidOptions(job)
  /\ phase' = "refused"
  /\ todo' = {}
  /\ allocated' = Freed(allocated \ {"global_max_bits"})
  /\ UNCHANGED <<job, device>>

Next ==
  \/ Reject \/ Create \/ CreateFails
  \/ \E buffer \in kBuffers : Allocate(buffer)
  \/ RejectOptions \/ CopyFixedScale
  \/ AllocateScratch \/ WriteTensorScale
  \/ ClearMatmulScales \/ Finish \/ CudaFails
  \/ \E t \in todo : MaxAbsThread(t) \/ PackThread(t) \/ SwizzleThread(t)

Spec == Init /\ [][Next]_vars
-----------------------------------------------------------------------------
(* Properties *)

\* The buffers have the sizes that DeviceNvfp4Matrix::Create gives them, and a magnitude or
\* a scale is never negative.
TypeOK ==
  /\ job \in Jobs
  /\ phase \in {"create", "fixed", "scratch", "max", "pack", "swizzle", "done", "refused"}
  /\ todo \subseteq Nat
  /\ allocated \subseteq kBuffers \cup {"global_max_bits"}
  /\ global_max_bits \in 0..kInf
  /\ tensor_scale \in 0..kInf
  /\ phase \notin {"create", "refused"} =>
       /\ DOMAIN packed = 0..(Numel + 1) \div 2 - 1
       /\ DOMAIN block_scales = 0..TotalBlocks - 1
       /\ DOMAIN matmul_block_scales = 0..ScaleBytes(job.rows, job.cols) - 1

\* Whatever the order of the threads, a matrix the host packer accepts gets the bytes,
\* block scales and tensor scale that the host packer computes
\* (device_nvfp4_matrix.cu, PackDeviceRowMajorFp32ToNvfp4).
DeviceMatchesHost ==
  phase = "done" /\ ~HostRefuses(job) =>
    /\ tensor_scale = HostTensorScale(job)
    /\ block_scales = HostBlockScales(job)
    /\ packed = HostPacked(job)

\* The scales the GEMM reads are those of the blocks, each at its place in the tiles, and
\* every other byte of the padding is zero: no two blocks share a place, none is outside.
ScalesInPlace ==
  phase = "done" =>
    LET blocks == BlocksPerRow(job.cols)
        place(s) == ScaleOffset(s \div blocks, s % blocks, PaddedBlocksPerRow(job.cols))
    IN  /\ \A s \in 0..TotalBlocks - 1 : /\ place(s) \in DOMAIN matmul_block_scales
                                         /\ matmul_block_scales[place(s)] = block_scales[s]
        /\ \A o \in DOMAIN matmul_block_scales :
             (\A s \in 0..TotalBlocks - 1 : place(s) # o) => matmul_block_scales[o] = ZeroByte

\* Whichever call fails, a packer that gives up leaves no device buffer behind, and one
\* that succeeds leaves the four of the matrix and not the scratch.
BuffersAccounted ==
  /\ phase = "refused" => allocated = {}
  /\ phase \in {"pack", "swizzle", "done"} => allocated = kBuffers

\* A thread never writes a byte that another thread of its launch has written.
WritesNeverCollide ==
  [][ /\ \A b \in DOMAIN packed : packed'[b] # packed[b] => packed[b] = Uninitialized
      /\ \A s \in DOMAIN block_scales : block_scales'[s] # block_scales[s] => block_scales[s] = Uninitialized
      /\ \A o \in DOMAIN matmul_block_scales :
           matmul_block_scales'[o] # matmul_block_scales[o] => matmul_block_scales[o] \in {Uninitialized, ZeroByte}
    ]_vars
=============================================================================
