------------------------------ MODULE LinearOp ------------------------------
(***************************************************************************)
(* A linear operator: the weight is uploaded once (linear_op.cpp,          *)
(* dense_weight.cpp, nvfp4_weight.cpp, scaled_fp8_linear.cu), then run any *)
(* number of times with the caller's activations and output tensor.  A run *)
(* plans a GEMM (loader/gemm_planner.cpp, gemm_execution.cpp,              *)
(* cublaslt_gemm_plan.cpp), drives cuBLASLt (dense_gemm_runner.cpp,        *)
(* nvfp4_gemm_runner.cpp), and where the format has one takes the CPU      *)
(* path when that fails.  Any CUDA or cuBLASLt call may fail.              *)
(*                                                                         *)
(* Numbers are integers.  Decode is what an element's bytes stand for in   *)
(* the weight's storage type, RoundTrip what the FP8 activations keep of a *)
(* value; both are parameters.  The NVFP4 packers have their own modules:  *)
(* here they derive a tensor scale from the activations, which keep the    *)
(* multiples of it below them.                                             *)
(***************************************************************************)
EXTENDS Nvfp4Weight, FiniteSets, Sequences, Functions

CONSTANTS
  Decode(_, _),    \* Decode(storage_dtype, code)
  RoundTrip(_),
  TensorScale(_),  \* of packed activations
  RowCounts,       \* activation rows of the calls on dense and NVFP4 operators
  ScaledRowCounts, \* and of those on scaled FP8 operators
  Seeds            \* activations to choose from

\* Sizes are size_t, the host decodes every storage type into floats, and only an NVFP4
\* operator's descriptor names NVFP4 data.
ASSUME LinearAssumption ==
  /\ RowCounts \subseteq Nat /\ ScaledRowCounts \subseteq Nat /\ Seeds \subseteq Nat
  /\ \A storage \in {"fp32", "bf16", "fp8"}, code \in 0 .. 2 : Decode(storage, code) \in Int
  /\ \A d \in Descriptors : d.output_rows \in Nat /\ d.input_cols \in Nat
  /\ \A d \in Descriptors : d.is_nvfp4 => d.family = "nvfp4"
  /\ \A d \in Descriptors : d.family = "nvfp4" => d.tensor_scale \in Int

VARIABLES
  fastpath,    \* NEMOTRON_FORWARD_LINEAR_DEVICE_FASTPATH
  handle,      \* the cuBLASLt handle: "none", "context", "ready" or "refused"
  dense,       \* the weight of a dense or scaled operator on the device
  hostWeight,  \* ScaledFp8LinearOp's aligned copy on the host
  heuristics,  \* the keys in the GEMM heuristic cache
  call         \* the call in progress or the last one

uploadVars == <<descriptor, phase, at, swizzled, device>>
operator == <<uploadVars, fastpath, handle, dense, hostWeight>>
linearVars == <<operator, heuristics, call>>

Unwritten == -99   \* what cudaMalloc leaves in a buffer: no product

Sum(f) == FoldFunction(+, 0, f)

-----------------------------------------------------------------------------
\* The weight, element by element in row-major order.
Elements(d) == 0 .. d.output_rows * d.input_cols - 1
Code(o) == o % 3

kWidth == [fp32 |-> 4, float32 |-> 4, bf16 |-> 2, fp8 |-> 1]

Decoded(d) == [o \in Elements(d) |-> Decode(d.storage, Code(o))]
Dequantized(d) == [o \in Elements(d) |-> Decode("fp8", Code(o)) * d.weight_scale]

BlockOf(d, o) == (o % d.input_cols) \div kBlockWidth
RowOf(d, o) == o \div d.input_cols

\* What a GEMM reads in the packed weight, without the tensor scale.
Nvfp4Operand(d, buffers) ==
  [o \in Elements(d) |->
     Code(o) * buffers.matmul_block_scales[ScaleOffset(RowOf(d, o), BlockOf(d, o),
                                                       PaddedBlocksPerRow(d.input_cols))]]

Activations(seed, rows, cols) == [o \in 0 .. rows * cols - 1 |-> (o + seed) % 5]

\* The packers clamp tensor scales to positive values.
ASSUME TensorScaleAssumption ==
  \A d \in Descriptors, rows \in RowCounts, seed \in Seeds :
    d.family = "nvfp4" => TensorScale(Activations(seed, rows, d.input_cols)) \in Nat \ {0}

-----------------------------------------------------------------------------
\* CpuMatmulRowMajor.
CpuMatmul(activations, rows, weights, output_rows, input_cols) ==
  [o \in 0 .. rows * output_rows - 1 |->
     Sum([col \in 0 .. input_cols - 1 |->
            activations[(o \div output_rows) * input_cols + col]
            * weights[(o % output_rows) * input_cols + col]])]

\* BuildGemmLaunchPlan, PrepareGemmExecution, BuildCublasLtGemmPlan.
PackedValid(d) == d.packed_nbytes > 0
ScalesValid(d) == d.block_scales_nbytes > 0 /\ d.tensor_scale_nbytes > 0

Executable(d, rows) ==
  /\ rows # 0 /\ d.output_rows # 0 /\ d.input_cols # 0
  /\ PackedValid(d)
  /\ d.family = "nvfp4" => ScalesValid(d)

\* On the host: the device copies have addresses of their own.
AlignmentOk(d) ==
  /\ d.packed_aligned
  /\ d.family = "nvfp4" => d.scales_aligned

HasPlan(d, rows) == Executable(d, rows) /\ AlignmentOk(d)

HeuristicKey(d, rows) == <<d.family, d.storage, d.output_rows, d.input_cols, rows>>

\* What a preparation leaves in the cache: also a plan that is then refused.
Prepared(d, rows) ==
  IF Executable(d, rows) THEN heuristics \cup {HeuristicKey(d, rows)} ELSE heuristics

\* Plausible bug: the weight is not transposed.
PlanUntransposed(d, rows) ==
  [m |-> rows, n |-> d.output_rows, k |-> d.input_cols,
   lda |-> d.input_cols, ldb |-> d.output_rows, transform_b |-> "none",
   descriptor |-> IF d.family = "scaled_fp8" THEN "dead" ELSE "alive"]

\* launch_plan.descriptor is a pointer: to the operator's own descriptor, or to
\* the local variable of BuildRuntimeGemmPlan in scaled_fp8_linear.cu.
Plan(d, rows) ==
  [m |-> rows, n |-> d.output_rows, k |-> d.input_cols,
   lda |-> d.input_cols, ldb |-> d.input_cols, transform_b |-> "transpose",
   descriptor |-> IF d.family = "scaled_fp8" THEN "dead" ELSE "alive"]

\* cublasLtMatmul with row-major operands and beta = 0.
LibraryMatmul(plan, a, b, alpha) ==
  [o \in 0 .. plan.m * plan.n - 1 |->
     alpha * Sum([l \in 0 .. plan.k - 1 |->
                    LET i == o \div plan.n
                        j == o % plan.n
                    IN  a[i * plan.lda + l]
                        * (IF plan.transform_b = "transpose" THEN b[j * plan.ldb + l]
                                                              ELSE b[l * plan.ldb + j])])]

-----------------------------------------------------------------------------
(* Creating the handle and the operator *)

kIdle == [step |-> "idle", rows |-> 0, seed |-> 0, outRows |-> 0, out |-> kNull,
          plan |-> kNull, a |-> kNull, b |-> kNull, c |-> kNull, scale |-> 0, alpha |-> 1,
          tried |-> 0, objects |-> {}, temps |-> {}, ok |-> TRUE, outcome |-> "none"]

LinearInit ==
  /\ Init
  /\ fastpath \in BOOLEAN
  /\ handle = "none"
  /\ dense = kNull
  /\ hostWeight = kNull
  /\ heuristics = {}
  /\ call = kIdle

\* CublasLtHandle::Create: the library's context, then the workspace, without
\* which the context is destroyed again.
CreateHandle ==
  /\ \/ handle = "none"    /\ handle' \in {"context", "refused"}
     \/ handle = "context" /\ handle' \in {"ready", "refused"}
  /\ UNCHANGED <<uploadVars, fastpath, dense, hostWeight, heuristics, call>>

CreateNvfp4 ==
  /\ handle = "ready" /\ descriptor.family = "nvfp4"
  /\ Next   \* DeviceNvfp4Weight::Upload
  /\ UNCHANGED <<fastpath, handle, dense, hostWeight, heuristics, call>>

\* DeviceDenseWeightFp32::Upload's checks, and for a scaled operator those of
\* DequantizeScaledFp8WeightToHostFp32.
Expected(d) == d.output_rows * d.input_cols * kWidth[d.storage]

DenseUploadable(d) ==
  /\ d.output_rows # 0 /\ d.input_cols # 0
  /\ PackedValid(d)
  /\ d.storage \in {"fp32", "bf16", "fp8"}
  /\ ~d.is_scaled
  /\ d.packed_nbytes = Expected(d)

Dequantizable(d) ==
  /\ d.output_rows # 0 /\ d.input_cols # 0
  /\ PackedValid(d)
  /\ d.packed_nbytes = d.output_rows * d.input_cols
  /\ d.weight_scale > 0

Acceptable(d) == IF d.family = "dense" THEN DenseUploadable(d) ELSE Dequantizable(d)
Source(d) == IF d.family = "dense" THEN Decoded(d) ELSE Dequantized(d)

CreateDense ==
  /\ handle = "ready" /\ descriptor.family \in {"dense", "scaled_fp8"}
  /\ \/ /\ phase = "check"
        /\ \/ ~Acceptable(descriptor) /\ phase' = "refused" /\ UNCHANGED dense
           \/ Acceptable(descriptor) /\ phase' = "refused" /\ UNCHANGED dense   \* cudaMalloc fails
           \/ /\ Acceptable(descriptor)
              /\ phase' = "dense_copy"
              /\ dense' = [o \in Elements(descriptor) |-> Unwritten]
        /\ UNCHANGED hostWeight
     \/ /\ phase = "dense_copy"
        /\ \/ dense' = kNull /\ phase' = "refused"   \* cudaMemcpy fails: freed
           \/ /\ dense' = Source(descriptor)
              /\ phase' = IF descriptor.family = "dense" THEN "done" ELSE "host_copy"
        /\ UNCHANGED hostWeight
     \/ /\ phase = "host_copy"
        /\ \/ dense' = kNull /\ phase' = "refused" /\ UNCHANGED hostWeight   \* posix_memalign fails
           \/ hostWeight' = Source(descriptor) /\ phase' = "done" /\ UNCHANGED dense
  /\ UNCHANGED <<descriptor, at, swizzled, device, fastpath, handle, heuristics, call>>

-----------------------------------------------------------------------------
(* Running it *)

\* What a packed matrix holds of activations a, next to its tensor scale.
Codes(a) == [o \in DOMAIN a |-> a[o] \div TensorScale(a)]

\* Activations as the operator's format keeps them.
Quantized(a) ==
  [o \in DOMAIN a |-> CASE descriptor.family = "nvfp4"      -> TensorScale(a) * Codes(a)[o]
                        [] descriptor.family = "scaled_fp8" -> RoundTrip(a[o])
                        [] OTHER                            -> a[o]]

CallerActivations == Activations(call.seed, call.rows, descriptor.input_cols)
HostActivations == Quantized(CallerActivations)

Ended(c, outcome) ==
  [c EXCEPT !.step = "idle", !.outcome = outcome, !.plan = kNull, !.temps = {},
            !.a = kNull, !.b = kNull, !.c = kNull, !.scale = 0]

\* A GEMM runner returned nullopt: what it had allocated is gone.
Unserved(c) ==
  IF descriptor.family = "nvfp4" THEN Ended(c, "gemm")
  ELSE [Ended(c, "none") EXCEPT !.step = "fallback"]

\* A call's arguments, and the call once a GEMM is planned for it.
Begun(rows, seed, outRows, out) ==
  [kIdle EXCEPT !.rows = rows, !.seed = seed, !.outRows = outRows, !.out = out]
Planned(c, step) == [c EXCEPT !.step = step, !.plan = Plan(descriptor, c.rows)]

\* UploadedLinearOp::Run and ScaledFp8LinearOp::Run up to the first CUDA call.
RunDense(begun) ==
  /\ descriptor.family = "dense"
  /\ heuristics' = IF fastpath THEN Prepared(descriptor, begun.rows) ELSE heuristics
  /\ call' = IF fastpath /\ HasPlan(descriptor, begun.rows)
             THEN [Planned(begun, "checks") EXCEPT !.b = dense]
             ELSE [begun EXCEPT !.step = "fallback"]

RunNvfp4(begun) ==
  /\ descriptor.family = "nvfp4"
  /\ heuristics' = Prepared(descriptor, begun.rows)
  /\ call' = IF HasPlan(descriptor, begun.rows) THEN Planned(begun, "pack") ELSE Ended(begun, "plan")

RunScaled(begun) ==
  /\ descriptor.family = "scaled_fp8"
  /\ call' = IF begun.outRows # begun.rows THEN Ended(begun, "shape")
             ELSE [begun EXCEPT !.step = "download"]
  /\ UNCHANGED heuristics

\* The output is a tensor of the caller's that was never written, or the one of the call before.
Run ==
  /\ handle = "ready" /\ phase = "done" /\ call.step = "idle"
  /\ \E rows \in IF descriptor.family = "scaled_fp8" THEN ScaledRowCounts ELSE RowCounts,
        seed \in Seeds, extra \in 0 .. 1, reuse \in BOOLEAN :
       LET elements == 0 .. (rows + extra) * descriptor.output_rows - 1
           begun == Begun(rows, seed, rows + extra,
                          IF reuse THEN call.out ELSE [o \in elements |-> Unwritten])
       IN
       /\ reuse => DOMAIN call.out = elements
       /\ RunDense(begun) \/ RunNvfp4(begun) \/ RunScaled(begun)
  /\ UNCHANGED operator

\* RunNvfp4RowMajorFp32SourceToDevice: the activations are packed first.
PackActivations ==
  /\ call.step = "pack"
  /\ call' \in
       { [call EXCEPT !.step = "checks", !.temps = {"packed"},
            !.a = Codes(CallerActivations), !.scale = TensorScale(CallerActivations),
            !.b = Nvfp4Operand(descriptor, device)],
         Unserved(call) }
  /\ UNCHANGED <<operator, heuristics>>

\* ScaledFp8LinearOp::Run: the activations come to the host and are rounded there;
\* with one row and the fast path on, a GEMM is tried.
DownloadActivations ==
  /\ call.step = "download"
  /\ \/ call' = Ended(call, "copy") /\ UNCHANGED heuristics
     \/ IF fastpath /\ call.rows = 1
        THEN /\ heuristics' = Prepared(descriptor, call.rows)
             /\ call' = IF HasPlan(descriptor, call.rows)
                        THEN [call EXCEPT !.step = "stage", !.plan = Plan(descriptor, call.rows)]
                        ELSE [call EXCEPT !.step = "fallback"]
        ELSE call' = [call EXCEPT !.step = "fallback"] /\ UNCHANGED heuristics
  /\ UNCHANGED operator

\* RunDenseRowMajorFp32: tensors for the operands, the activations copied in.
StageTensors ==
  /\ call.step = "stage"
  /\ call' \in
       { [call EXCEPT !.step = "upload", !.temps = {"activations", "output"}, !.a = HostActivations,
            !.c = [o \in 0 .. call.rows * descriptor.output_rows - 1 |-> Unwritten]],
         Unserved(call) }
  /\ UNCHANGED <<operator, heuristics>>

\* DeviceDenseWeightFp32::Upload of the plan's descriptor.  A dead one may still hold
\* what it held, be refused for what it holds now, or name other bytes.
WhatUploadReads ==
  IF call.plan.descriptor = "alive" THEN {hostWeight}
  ELSE {hostWeight, kNull, [o \in Elements(descriptor) |-> Unwritten]}

UploadTemporary ==
  /\ call.step = "upload"
  /\ \E b \in WhatUploadReads \cup {kNull} :
       call' = IF b = kNull THEN Unserved(call)
               ELSE [call EXCEPT !.step = "checks", !.b = b, !.temps = @ \cup {"weights"}]
  /\ UNCHANGED <<operator, heuristics>>

\* The runners' checks.  The scaled operator's GEMM has an output tensor of its own.
DenseRunnable ==
  /\ descriptor.storage \in {"fp32", "float32", "bf16"}
  /\ call.outRows = call.rows
Nvfp4Runnable == call.outRows = call.rows

Runnable ==
  /\ descriptor.family = "dense" => DenseRunnable
  /\ descriptor.family = "nvfp4" => Nvfp4Runnable

CheckOperands ==
  /\ call.step = "checks"
  /\ call' = IF ~Runnable THEN Unserved(call)
             ELSE [call EXCEPT !.step = IF descriptor.family = "nvfp4" THEN "scales" ELSE "zero",
                               !.a = IF descriptor.family = "dense" THEN CallerActivations ELSE @]
  /\ UNCHANGED <<operator, heuristics>>

\* The product of the two tensor scales, read back from the device.
Alpha == call.scale * device.tensor_scale[1]

ReadTensorScales ==
  /\ call.step = "scales"
  /\ call' \in {[call EXCEPT !.step = "zero", !.alpha = Alpha], Unserved(call)}
  /\ UNCHANGED <<operator, heuristics>>

\* The tensor the GEMM writes.
Written(c, data) ==
  IF descriptor.family = "scaled_fp8" THEN [c EXCEPT !.c = data] ELSE [c EXCEPT !.out = data]
Target == IF descriptor.family = "scaled_fp8" THEN call.c ELSE call.out

ZeroOutput ==
  /\ call.step = "zero"
  /\ call' \in { [Written(call, [o \in DOMAIN Target |-> 0]) EXCEPT !.step = "describe"],
                 [call EXCEPT !.step = "describe", !.ok = FALSE] }
  /\ UNCHANGED <<operator, heuristics>>

\* The calls that describe the GEMM to the library: objects are created and given
\* attributes.  A failure is remembered and the next call is made all the same.
Create(object) == [object |-> object, creates |-> TRUE]
Describe(object) == [object |-> object, creates |-> FALSE]

kDenseCalls ==
  << Create("op_desc"), Describe("op_desc"), Create("a_desc"), Create("b_desc"), Create("c_desc"),
     Describe("a_desc"), Describe("b_desc"), Describe("c_desc"),
     Create("preference"), Describe("preference") >>

\* The operation also gets the scale modes and the pointers to the block scales.
kNvfp4Calls == SubSeq(kDenseCalls, 1, 2) \o <<Describe("op_desc"), Describe("op_desc")>>
               \o SubSeq(kDenseCalls, 3, Len(kDenseCalls))

LibraryCalls == IF descriptor.family = "nvfp4" THEN kNvfp4Calls ELSE kDenseCalls

NextCall == LibraryCalls[call.tried + 1]

AfterCall(ok) ==
  IF call.tried + 1 < Len(LibraryCalls) THEN "describe" ELSE IF ok THEN "heuristic" ELSE "destroy"

CallLibrary ==
  /\ call.step = "describe"
  /\ \E works \in BOOLEAN :
       /\ works /\ ~NextCall.creates => NextCall.object \in call.objects
       /\ call' = [call EXCEPT !.tried = call.tried + 1, !.ok = call.ok /\ works,
                               !.step = AfterCall(call.ok /\ works),
                               !.objects = call.objects \cup (IF works THEN {NextCall.object} ELSE {})]
  /\ UNCHANGED <<operator, heuristics>>

\* Plausible bug: without an algorithm everything is tried again.
FindAlgorithmRetrying ==
  /\ call.step = "heuristic"
  /\ call' \in {[call EXCEPT !.step = "matmul"], [call EXCEPT !.step = "describe", !.tried = 0]}
  /\ UNCHANGED <<operator, heuristics>>

\* cublasLtMatmulAlgoGetHeuristic may fail or find no algorithm.
FindAlgorithm ==
  /\ call.step = "heuristic"
  /\ call' \in {[call EXCEPT !.step = "matmul"], [call EXCEPT !.step = "destroy", !.ok = FALSE]}
  /\ UNCHANGED <<operator, heuristics>>

\* cublasLtMatmul and cudaDeviceSynchronize: done, not started, or lost half way.
Matmul ==
  /\ call.step = "matmul"
  /\ LET product == LibraryMatmul(call.plan, call.a, call.b, call.alpha)
         half == [o \in DOMAIN Target |-> IF o = 0 THEN product[o] ELSE Target[o]]
     IN  call' \in { [Written(call, product) EXCEPT !.step = "destroy"],
                     [call EXCEPT !.step = "destroy", !.ok = FALSE],
                     [Written(call, half) EXCEPT !.step = "destroy", !.ok = FALSE] }
  /\ UNCHANGED <<operator, heuristics>>

Served(c) ==
  IF descriptor.family = "scaled_fp8" THEN [c EXCEPT !.step = "collect"] ELSE Ended(c, "ok")

\* Plausible bug: a failure returns before the cleanup.
DestroyObjectsOfSuccess ==
  /\ call.step = "destroy"
  /\ call' = IF call.ok THEN Served([call EXCEPT !.objects = {}]) ELSE Unserved(call)
  /\ UNCHANGED <<operator, heuristics>>

DestroyObjects ==
  /\ call.step = "destroy"
  /\ LET destroyed == [call EXCEPT !.objects = {}] IN
     call' = IF call.ok THEN Served(destroyed) ELSE Unserved(destroyed)
  /\ UNCHANGED <<operator, heuristics>>

\* RunDenseRowMajorFp32 copies its output to the host and frees its tensors.
CollectOutput ==
  /\ call.step = "collect"
  /\ call' \in {[call EXCEPT !.step = "return", !.temps = {}], Unserved(call)}
  /\ UNCHANGED <<operator, heuristics>>

\* DeviceTensorFp32::CopyFromHost: refused for another size, and cudaMemcpy may fail.
Upload(data) ==
  IF Cardinality(DOMAIN call.out) # Cardinality(DOMAIN data) THEN {Ended(call, "shape")}
  ELSE { Ended([call EXCEPT !.out = data], "ok"),
         Ended(call, "copy"),
         Ended([call EXCEPT !.out[0] = data[0]], "copy") }

ReturnOutput ==
  /\ call.step = "return"
  /\ call' \in Upload(call.c)
  /\ UNCHANGED <<operator, heuristics>>

\* Plausible bug: FP8 bytes are not decoded on the host.
ReadableFloatsOnly(d) == d.storage \in {"fp32", "float32", "bf16"} /\ d.packed_nbytes = Expected(d)

\* ReadDenseWeightToHostFp32: the bytes of the manifest are decoded again.
Readable(d) == d.storage \in DOMAIN kWidth /\ d.packed_nbytes = Expected(d)

\* The CPU path.  A scaled operator has its activations and weight on the host already.
Fallback ==
  /\ call.step = "fallback"
  /\ LET computed(weights) == CpuMatmul(HostActivations, call.rows, weights,
                                        descriptor.output_rows, descriptor.input_cols)
     IN IF descriptor.family = "scaled_fp8" THEN call' \in Upload(computed(hostWeight))
        ELSE IF ~Readable(descriptor) THEN call' = Ended(call, "decode")
        ELSE call' \in {Ended(call, "copy")} \cup Upload(computed(Decoded(descriptor)))
  /\ UNCHANGED <<operator, heuristics>>

\* What the program does by itself once a call has begun.
Continue ==
  \/ CreateHandle \/ CreateNvfp4 \/ CreateDense
  \/ PackActivations \/ DownloadActivations \/ StageTensors \/ UploadTemporary
  \/ CheckOperands \/ ReadTensorScales \/ ZeroOutput \/ CallLibrary \/ FindAlgorithm
  \/ Matmul \/ DestroyObjects \/ CollectOutput \/ ReturnOutput \/ Fallback

LinearNext == Run \/ Continue

LinearSpec == LinearInit /\ [][LinearNext]_linearVars /\ WF_linearVars(Continue)

-----------------------------------------------------------------------------
(* Properties *)

\* The reference: activations as the format keeps them, times the weight transposed.
Weight ==
  CASE descriptor.family = "nvfp4" ->
         [o \in Elements(descriptor) |->
            descriptor.tensor_scale * Code(o)
            * RowMajorScales(descriptor)[RowOf(descriptor, o) * Blocks + BlockOf(descriptor, o)]]
    [] OTHER -> Source(descriptor)

Product ==
  [o \in 0 .. call.rows * descriptor.output_rows - 1 |->
     Sum([l \in 0 .. descriptor.input_cols - 1 |->
            HostActivations[(o \div descriptor.output_rows) * descriptor.input_cols + l]
            * Weight[(o % descriptor.output_rows) * descriptor.input_cols + l]])]

\* A scaled operator run on one row with the fast path on: it may have read its weight
\* through a dead descriptor (ScaledMatchesReference is about those runs).
MayUseDeadDescriptor == descriptor.family = "scaled_fp8" /\ fastpath /\ call.rows = 1

\* Any other run that reports success leaves exactly the product in the caller's tensor,
\* by whichever path, after whatever attempt failed and whatever was there before
\* (UploadedLinearOp::Run, ScaledFp8LinearOp::Run).
SuccessIsProduct == call.outcome = "ok" /\ ~MayUseDeadDescriptor => call.out = Product

\* Between calls no library object and no tensor of a call is left, whichever call of
\* CUDA or cuBLASLt failed, and what could not be created has left nothing
\* (dense_gemm_runner.cpp, nvfp4_gemm_runner.cpp, CublasLtHandle::Create).
NothingLeaks ==
  /\ call.step \in {"idle", "fallback"} => call.objects = {} /\ call.temps = {}
  /\ phase = "refused" => device = NoBuffers /\ dense = kNull /\ hostWeight = kNull

\* A dense operator that could be created always finds its weight again for the CPU
\* path: a run of it fails only over a copy or the caller's output
\* (ReadDenseWeightToHostFp32 against DeviceDenseWeightFp32::Upload).
FallbackServes ==
  descriptor.family # "nvfp4" => call.outcome \in {"none", "ok", "copy", "shape"}

\* Every call returns, whatever fails on the way (UploadedLinearOp::Run).
CallsReturn == call.step # "idle" ~> call.step = "idle"

\* A scaled FP8 operator computes what the CPU computes (scaled_fp8_linear_test.cpp:131).
ScaledMatchesReference ==
  descriptor.family = "scaled_fp8" /\ call.outcome = "ok" => call.out = Product
=============================================================================
