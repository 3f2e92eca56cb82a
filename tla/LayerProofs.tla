---------------------------- MODULE LayerProofs ----------------------------
(***************************************************************************)
(* Theorems about LinearOp and ExpertLayer, which share the lemmas about   *)
(* finite sums.                                                            *)
(*                                                                         *)
(* LinearOp, for every set of descriptors, shapes, numbers of rows and     *)
(* tile sizes: failures leave nothing behind, the CPU path serves every    *)
(* dense operator that could be created, the block scales of an NVFP4      *)
(* operator are where the GEMM reads them, and whatever reports success    *)
(* has computed the product.                                               *)
(*                                                                         *)
(* ExpertLayer, for every configuration, bias, catalog entry, number of    *)
(* tokens and row of logits: tokens go to the experts that are best in the *)
(* best groups, and a run that reports success has written the mixture     *)
(* and, of itself alone, the trace.                                        *)
(***************************************************************************)
EXTENDS LinearOp, ExpertLayer, TLAPS, FiniteSetTheorems, WellFoundedInduction

-----------------------------------------------------------------------------
(* The operator's invariant *)

Fields == DOMAIN kIdle
Families == {"dense", "nvfp4", "scaled_fp8"}

BufferNames == {"packed", "block_scales", "matmul_block_scales", "tensor_scale"}
IsBuffers(d) == DOMAIN d = BufferNames /\ d = [b \in BufferNames |-> d[b]]

\* What exists of the operator, by how far its creation has come.
Holds ==
  /\ IsBuffers(device)
  /\ phase \in {"check", "refused", "swizzle", "packed"} => device = NoBuffers
  /\ descriptor.family = "nvfp4" => dense = kNull /\ hostWeight = kNull
  /\ descriptor.family # "nvfp4" => device = NoBuffers
  /\ phase \in {"check", "refused"} => dense = kNull /\ hostWeight = kNull
  /\ phase \in {"dense_copy", "host_copy"} => hostWeight = kNull

\* What a created operator may be.
Created ==
  /\ phase # "check" /\ phase # "refused" => descriptor.family \in Families
  /\ descriptor.family = "dense" /\ phase \in {"dense_copy", "done"} => DenseUploadable(descriptor)
  /\ descriptor.family = "dense" => phase # "host_copy"

\* Library objects exist from the first description to the cleanup, tensors from
\* the first operand to the way out; only NVFP4 packs and reads scales, and only
\* NVFP4 has nothing to fall back to.
CallOK(c, family) ==
  /\ DOMAIN c = Fields
  /\ c.step \notin {"describe", "heuristic", "matmul", "destroy"} => c.objects = {}
  /\ c.step \in {"idle", "fallback", "download"} => c.temps = {}
  /\ c.step \in {"pack", "scales"} => family = "nvfp4"
  /\ family # "nvfp4" => c.outcome \in {"none", "ok", "copy", "shape"}

Inv ==
  /\ Holds /\ Created
  /\ CallOK(call, descriptor.family)
  /\ call.step # "idle" => phase = "done"

LEMMA FieldNames ==
  Fields = {"step", "rows", "seed", "outRows", "out", "plan", "a", "b", "c", "scale",
            "alpha", "tried", "objects", "temps", "ok", "outcome"}
BY DEF Fields, kIdle

\* The ways out of a call.
LEMMA EndedGives ==
  ASSUME NEW c, DOMAIN c = Fields, NEW why
  PROVE  /\ DOMAIN Ended(c, why) = Fields
         /\ Ended(c, why).step = "idle"
         /\ Ended(c, why).outcome = why
         /\ Ended(c, why).objects = c.objects
         /\ Ended(c, why).temps = {}
BY FieldNames DEF Ended

LEMMA UnservedGives ==
  ASSUME NEW c, DOMAIN c = Fields
  PROVE  /\ DOMAIN Unserved(c) = Fields
         /\ Unserved(c).step \in {"idle", "fallback"}
         /\ descriptor.family # "nvfp4" => Unserved(c).outcome = "none"
         /\ Unserved(c).objects = c.objects
         /\ Unserved(c).temps = {}
BY FieldNames, EndedGives DEF Unserved

LEMMA NoBuffersIs == IsBuffers(NoBuffers)
BY DEF IsBuffers, NoBuffers, BufferNames

LEMMA InvInit == LinearInit => Inv
BY FieldNames, NoBuffersIs DEF LinearInit, Init, Inv, Holds, Created, CallOK, kIdle, Fields

-----------------------------------------------------------------------------
(* The steps *)

LEMMA HandleKeepsInv == Inv /\ CreateHandle => Inv'
BY DEF CreateHandle, uploadVars, Inv, Holds, Created

LEMMA BufferSet ==
  ASSUME NEW d, IsBuffers(d), NEW b \in BufferNames, NEW contents
  PROVE  IsBuffers([d EXCEPT ![b] = contents])
BY Zenon DEF IsBuffers

LEMMA NothingIsLeft ==
  ASSUME NEW d, IsBuffers(d)
  PROVE  Release(d) = NoBuffers
<1>1. NoBuffers = [b \in BufferNames |-> kNull]
  BY DEF NoBuffers, BufferNames
<1>2. DOMAIN Release(d) = BufferNames
  BY Zenon DEF Release, IsBuffers
<1>3. Release(d) = [b \in BufferNames |-> Release(d)[b]]
  BY Zenon DEF Release, IsBuffers
<1>4. ASSUME NEW b \in BufferNames PROVE Release(d)[b] = kNull
  BY Zenon DEF Release, IsBuffers, BufferNames
<1>. QED BY <1>1, <1>3, <1>4, Zenon

\* The buffers are allocated one by one, and a failure releases all of them.
LEMMA Nvfp4KeepsInv == Inv /\ CreateNvfp4 => Inv'
<1>. SUFFICES ASSUME Inv, CreateNvfp4 PROVE Inv'
  OBVIOUS
<1>. USE DEF CreateNvfp4, Inv, Holds, Created, Families
<1>1. CASE Reject
  BY <1>1 DEF Reject
<1>2. CASE BeginSwizzle
  BY <1>2 DEF BeginSwizzle
<1>3. CASE SwizzleScale
  BY <1>3 DEF SwizzleScale
<1>4. CASE SwizzleDone
  BY <1>4 DEF SwizzleDone
<1>5. CASE AllocateAndCopy
  <2>1. phase \in BufferNames /\ phase' \in {"block_scales", "matmul_block_scales", "tensor_scale", "done"}
    BY <1>5 DEF AllocateAndCopy, After, BufferNames
  <2>2. IsBuffers(device')
    BY <1>5, <2>1, BufferSet DEF AllocateAndCopy
  <2>3. UNCHANGED <<dense, hostWeight, descriptor, call>> /\ descriptor.family = "nvfp4"
    BY <1>5 DEF AllocateAndCopy
  <2>4. phase # "done"
    BY <2>1 DEF BufferNames
  <2>. QED BY <2>1, <2>2, <2>3, <2>4
<1>6. CASE UploadFails
  <2>1. Release(device) = NoBuffers
    BY NothingIsLeft
  <2>2. IsBuffers(NoBuffers)
    BY NoBuffersIs
  <2>3. device' = NoBuffers
    BY <1>6, <2>1 DEF UploadFails
  <2>4. UNCHANGED <<dense, hostWeight, descriptor, call>> /\ phase' = "refused"
    BY <1>6 DEF UploadFails
  <2>5. dense = kNull /\ hostWeight = kNull /\ phase # "done"
    BY <1>6 DEF UploadFails, After
  <2>. QED BY <2>2, <2>3, <2>4, <2>5
<1>. QED BY <1>1, <1>2, <1>3, <1>4, <1>5, <1>6 DEF Next

LEMMA DenseKeepsInv == Inv /\ CreateDense => Inv'
BY DEF CreateDense, Acceptable, Inv, Holds, Created, Families

-----------------------------------------------------------------------------
(* The steps of a call *)

\* A step of a call leaves the operator alone.
LEMMA StepKeepsInv ==
  ASSUME Inv, phase = "done", UNCHANGED operator, CallOK(call', descriptor.family)
  PROVE  Inv'
BY DEF operator, uploadVars, Inv, Holds, Created

LEMMA StepIs ==
  ASSUME NEW c, DOMAIN c = Fields, NEW step
  PROVE  LET next == [c EXCEPT !.step = step] IN
         /\ DOMAIN next = Fields /\ next.step = step
         /\ next.objects = c.objects /\ next.temps = c.temps /\ next.outcome = c.outcome
BY Zenon, FieldNames

LEMMA EndedOK ==
  ASSUME NEW c, DOMAIN c = Fields, c.objects = {}, NEW family, NEW why,
         family # "nvfp4" => why \in {"none", "ok", "copy", "shape"}
  PROVE  CallOK(Ended(c, why), family)
BY EndedGives DEF CallOK

LEMMA UnservedOK ==
  ASSUME NEW c, DOMAIN c = Fields, c.objects = {}
  PROVE  CallOK(Unserved(c), descriptor.family)
BY UnservedGives DEF CallOK

\* A call begins.
LEMMA BegunGives ==
  ASSUME NEW rows, NEW seed, NEW outRows, NEW out
  PROVE  LET begun == Begun(rows, seed, outRows, out) IN
         /\ DOMAIN begun = Fields
         /\ begun.objects = {} /\ begun.temps = {} /\ begun.outcome = "none"
BY DEF Begun, kIdle, Fields

LEMMA PlannedGives ==
  ASSUME NEW c, DOMAIN c = Fields, NEW step
  PROVE  /\ DOMAIN Planned(c, step) = Fields
         /\ Planned(c, step).step = step
         /\ Planned(c, step).objects = c.objects
         /\ Planned(c, step).temps = c.temps
         /\ Planned(c, step).outcome = c.outcome
BY Zenon, FieldNames DEF Planned

LEMMA RunKeepsInv == Inv /\ Run => Inv'
<1>. SUFFICES ASSUME Inv, Run PROVE Inv'
  OBVIOUS
<1>1. phase = "done" /\ UNCHANGED operator
  BY DEF Run
<1>2. PICK rows, seed, outRows, out :
        LET begun == Begun(rows, seed, outRows, out) IN
        RunDense(begun) \/ RunNvfp4(begun) \/ RunScaled(begun)
  BY ZenonT(60) DEF Run
<1>. DEFINE begun == Begun(rows, seed, outRows, out)
<1>3. DOMAIN begun = Fields /\ begun.objects = {} /\ begun.temps = {} /\ begun.outcome = "none"
  BY BegunGives
<1>. HIDE DEF begun
<1>4. CASE RunDense(begun)
  <2>1. DOMAIN [Planned(begun, "checks") EXCEPT !.b = dense] = Fields
    BY <1>3, PlannedGives, Zenon
  <2>2. LET next == [Planned(begun, "checks") EXCEPT !.b = dense] IN
        next.step = "checks" /\ next.objects = {} /\ next.outcome = "none"
    BY <1>3, PlannedGives, FieldNames, SMTT(30)
  <2>3. CallOK([begun EXCEPT !.step = "fallback"], descriptor.family)
    BY <1>3, StepIs DEF CallOK
  <2>4. CallOK([Planned(begun, "checks") EXCEPT !.b = dense], descriptor.family)
    BY <2>1, <2>2 DEF CallOK
  <2>. QED BY <1>1, <1>4, <2>3, <2>4, StepKeepsInv DEF RunDense
<1>5. CASE RunNvfp4(begun)
  <2>1. CallOK(Planned(begun, "pack"), descriptor.family)
    BY <1>3, <1>5, PlannedGives DEF CallOK, RunNvfp4
  <2>2. CallOK(Ended(begun, "plan"), descriptor.family)
    BY <1>3, <1>5, EndedOK DEF RunNvfp4
  <2>. QED BY <1>1, <1>5, <2>1, <2>2, StepKeepsInv DEF RunNvfp4
<1>6. CASE RunScaled(begun)
  <2>1. CallOK([begun EXCEPT !.step = "download"], descriptor.family)
    BY <1>3, StepIs DEF CallOK
  <2>2. CallOK(Ended(begun, "shape"), descriptor.family)
    BY <1>3, EndedOK
  <2>. QED BY <1>1, <1>6, <2>1, <2>2, StepKeepsInv DEF RunScaled
<1>. QED BY <1>2, <1>4, <1>5, <1>6 DEF begun

\* Every later step is one of a created operator, and takes the call on or ends it.
LEMMA InCall ==
  ASSUME Inv, call.step # "idle"
  PROVE  phase = "done" /\ DOMAIN call = Fields /\ CallOK(call, descriptor.family)
BY DEF Inv, CallOK

LEMMA StepOK ==
  ASSUME Inv, NEW next, DOMAIN next = Fields,
         next.objects = {} \/ next.step \in {"describe", "heuristic", "matmul", "destroy"},
         next.outcome = call.outcome,
         next.step \notin {"idle", "fallback", "download", "pack"},
         next.step = "scales" => descriptor.family = "nvfp4"
  PROVE  CallOK(next, descriptor.family)
BY DEF Inv, CallOK

LEMMA PackKeepsInv == Inv /\ PackActivations => Inv'
<1>. SUFFICES ASSUME Inv, PackActivations PROVE Inv'
  OBVIOUS
<1>1. /\ call.step = "pack" /\ UNCHANGED operator /\ phase = "done"
      /\ DOMAIN call = Fields /\ call.objects = {}
  BY InCall DEF PackActivations, CallOK
<1>2. CASE call' = Unserved(call)
  BY <1>1, <1>2, UnservedOK, StepKeepsInv
<1>3. CASE call' # Unserved(call)
  <2>1. PICK a, b, scale : call' = [call EXCEPT !.step = "checks", !.temps = {"packed"}, !.a = a,
                                                !.scale = scale, !.b = b]
    BY <1>3 DEF PackActivations
  <2>2. DOMAIN call' = Fields
    BY <1>1, <2>1, Zenon
  <2>3. call'.step = "checks" /\ call'.objects = {} /\ call'.outcome = call.outcome
    BY <1>1, <2>1, FieldNames, Zenon
  <2>. QED BY <1>1, <2>2, <2>3, StepOK, StepKeepsInv
<1>. QED BY <1>2, <1>3

LEMMA DownloadKeepsInv == Inv /\ DownloadActivations => Inv'
<1>. SUFFICES ASSUME Inv, DownloadActivations PROVE Inv'
  OBVIOUS
<1>1. /\ call.step = "download" /\ UNCHANGED operator /\ phase = "done"
      /\ DOMAIN call = Fields /\ call.objects = {} /\ call.temps = {}
  BY InCall DEF DownloadActivations, CallOK
<1>2. CallOK(Ended(call, "copy"), descriptor.family)
  BY <1>1, EndedOK
<1>3. CallOK([call EXCEPT !.step = "fallback"], descriptor.family)
  BY <1>1, StepIs, InCall DEF CallOK
<1>4. CallOK([call EXCEPT !.step = "stage", !.plan = Plan(descriptor, call.rows)], descriptor.family)
  <2>. DEFINE next == [call EXCEPT !.step = "stage", !.plan = Plan(descriptor, call.rows)]
  <2>1. DOMAIN next = Fields
    BY <1>1, Zenon
  <2>2. next.step = "stage" /\ next.objects = {} /\ next.outcome = call.outcome
    BY <1>1, FieldNames, Zenon
  <2>. HIDE DEF next
  <2>3. CallOK(next, descriptor.family)
    BY <2>1, <2>2, StepOK
  <2>. QED BY <2>3 DEF next
<1>5. call' \in {Ended(call, "copy"), [call EXCEPT !.step = "fallback"],
                 [call EXCEPT !.step = "stage", !.plan = Plan(descriptor, call.rows)]}
  BY Zenon DEF DownloadActivations
<1>. QED BY <1>1, <1>2, <1>3, <1>4, <1>5, StepKeepsInv

LEMMA StageKeepsInv == Inv /\ StageTensors => Inv'
<1>. SUFFICES ASSUME Inv, StageTensors PROVE Inv'
  OBVIOUS
<1>1. /\ call.step = "stage" /\ UNCHANGED operator /\ phase = "done"
      /\ DOMAIN call = Fields /\ call.objects = {}
  BY InCall DEF StageTensors, CallOK
<1>2. CASE call' = Unserved(call)
  BY <1>1, <1>2, UnservedOK, StepKeepsInv
<1>3. CASE call' # Unserved(call)
  <2>1. PICK c : call' = [call EXCEPT !.step = "upload", !.temps = {"activations", "output"},
                                      !.a = HostActivations, !.c = c]
    BY <1>3 DEF StageTensors
  <2>2. DOMAIN call' = Fields
    BY <1>1, <2>1, Zenon
  <2>3. call'.step = "upload" /\ call'.objects = {} /\ call'.outcome = call.outcome
    BY <1>1, <2>1, FieldNames, Zenon
  <2>. QED BY <1>1, <2>2, <2>3, StepOK, StepKeepsInv
<1>. QED BY <1>2, <1>3

LEMMA UploadKeepsInv == Inv /\ UploadTemporary => Inv'
<1>. SUFFICES ASSUME Inv, UploadTemporary PROVE Inv'
  OBVIOUS
<1>1. /\ call.step = "upload" /\ UNCHANGED operator /\ phase = "done"
      /\ DOMAIN call = Fields /\ call.objects = {}
  BY InCall DEF UploadTemporary, CallOK
<1>2. CASE call' = Unserved(call)
  BY <1>1, <1>2, UnservedOK, StepKeepsInv
<1>3. CASE call' # Unserved(call)
  <2>1. PICK b : call' = [call EXCEPT !.step = "checks", !.b = b, !.temps = @ \cup {"weights"}]
    BY <1>3, Zenon DEF UploadTemporary
  <2>2. DOMAIN call' = Fields
    BY <1>1, <2>1, Zenon
  <2>3. call'.step = "checks" /\ call'.objects = {} /\ call'.outcome = call.outcome
    BY <1>1, <2>1, FieldNames, Zenon
  <2>. QED BY <1>1, <2>2, <2>3, StepOK, StepKeepsInv
<1>. QED BY <1>2, <1>3

LEMMA ChecksKeepInv == Inv /\ CheckOperands => Inv'
<1>. SUFFICES ASSUME Inv, CheckOperands PROVE Inv'
  OBVIOUS
<1>1. /\ call.step = "checks" /\ UNCHANGED operator /\ phase = "done"
      /\ DOMAIN call = Fields /\ call.objects = {}
  BY InCall DEF CheckOperands, CallOK
<1>2. CASE call' = Unserved(call)
  BY <1>1, <1>2, UnservedOK, StepKeepsInv
<1>3. CASE call' # Unserved(call)
  <2>. DEFINE step == IF descriptor.family = "nvfp4" THEN "scales" ELSE "zero"
  <2>1. call' = [call EXCEPT !.step = step,
                             !.a = IF descriptor.family = "dense" THEN CallerActivations ELSE @]
    BY <1>3 DEF CheckOperands
  <2>. HIDE DEF step
  <2>2. DOMAIN call' = Fields
    BY <1>1, <2>1, Zenon
  <2>3. call'.step = step /\ call'.objects = {} /\ call'.outcome = call.outcome
    BY <1>1, <2>1, FieldNames, Zenon
  <2>. QED BY <1>1, <2>2, <2>3, StepOK, StepKeepsInv DEF step
<1>. QED BY <1>2, <1>3

LEMMA ScalesKeepInv == Inv /\ ReadTensorScales => Inv'
<1>. SUFFICES ASSUME Inv, ReadTensorScales PROVE Inv'
  OBVIOUS
<1>1. /\ call.step = "scales" /\ UNCHANGED operator /\ phase = "done"
      /\ DOMAIN call = Fields /\ call.objects = {}
  BY InCall DEF ReadTensorScales, CallOK
<1>2. CASE call' = Unserved(call)
  BY <1>1, <1>2, UnservedOK, StepKeepsInv
<1>3. CASE call' # Unserved(call)
  <2>1. call' = [call EXCEPT !.step = "zero", !.alpha = Alpha]
    BY <1>3 DEF ReadTensorScales
  <2>2. DOMAIN call' = Fields
    BY <1>1, <2>1, Zenon
  <2>3. call'.step = "zero" /\ call'.objects = {} /\ call'.outcome = call.outcome
    BY <1>1, <2>1, FieldNames, Zenon
  <2>. QED BY <1>1, <2>2, <2>3, StepOK, StepKeepsInv
<1>. QED BY <1>2, <1>3

LEMMA WrittenGives ==
  ASSUME NEW c, DOMAIN c = Fields, NEW data
  PROVE  /\ DOMAIN Written(c, data) = Fields
         /\ Written(c, data).objects = c.objects /\ Written(c, data).temps = c.temps
         /\ Written(c, data).outcome = c.outcome
BY Zenon, FieldNames DEF Written

\* From the first description to the cleanup a step only has to stay there.
LEMMA LibraryStepKeepsInv ==
  ASSUME Inv, call.step \in {"zero", "describe", "heuristic", "matmul"}, UNCHANGED operator,
         DOMAIN call' = Fields, call'.outcome = call.outcome,
         call'.step \in {"describe", "heuristic", "matmul", "destroy"}
  PROVE  Inv'
BY InCall, StepOK, StepKeepsInv

LEMMA ZeroKeepsInv == Inv /\ ZeroOutput => Inv'
<1>. SUFFICES ASSUME Inv, ZeroOutput PROVE Inv'
  OBVIOUS
<1>1. call.step = "zero" /\ UNCHANGED operator /\ DOMAIN call = Fields
  BY InCall DEF ZeroOutput
<1>2. PICK data : call' \in { [Written(call, data) EXCEPT !.step = "describe"],
                              [call EXCEPT !.step = "describe", !.ok = FALSE] }
  BY DEF ZeroOutput
<1>3. DOMAIN call' = Fields /\ call'.outcome = call.outcome /\ call'.step = "describe"
  <2>1. CASE call' = [Written(call, data) EXCEPT !.step = "describe"]
    BY <1>1, <2>1, WrittenGives, StepIs
  <2>2. CASE call' = [call EXCEPT !.step = "describe", !.ok = FALSE]
    BY <1>1, <2>2, FieldNames, Zenon
  <2>. QED BY <1>2, <2>1, <2>2
<1>. QED BY <1>1, <1>3, LibraryStepKeepsInv

LEMMA LibraryKeepsInv == Inv /\ CallLibrary => Inv'
<1>. SUFFICES ASSUME Inv, CallLibrary PROVE Inv'
  OBVIOUS
<1>1. call.step = "describe" /\ UNCHANGED operator /\ DOMAIN call = Fields
  BY InCall DEF CallLibrary
<1>2. PICK works, objects :
        call' = [call EXCEPT !.tried = call.tried + 1, !.ok = call.ok /\ works,
                             !.step = AfterCall(call.ok /\ works), !.objects = objects]
  BY Zenon DEF CallLibrary
<1>3. /\ DOMAIN call' = Fields /\ call'.outcome = call.outcome
      /\ call'.step = AfterCall(call.ok /\ works)
  BY <1>1, <1>2, FieldNames, Zenon
<1>4. call'.step \in {"describe", "heuristic", "destroy"}
  BY <1>3 DEF AfterCall
<1>. QED BY <1>1, <1>3, <1>4, LibraryStepKeepsInv

LEMMA AlgorithmKeepsInv == Inv /\ FindAlgorithm => Inv'
<1>. SUFFICES ASSUME Inv, FindAlgorithm PROVE Inv'
  OBVIOUS
<1>1. call.step = "heuristic" /\ UNCHANGED operator /\ DOMAIN call = Fields
  BY InCall DEF FindAlgorithm
<1>2. CASE call' = [call EXCEPT !.step = "matmul"]
  BY <1>1, <1>2, StepIs, LibraryStepKeepsInv
<1>3. CASE call' = [call EXCEPT !.step = "destroy", !.ok = FALSE]
  <2>1. DOMAIN call' = Fields /\ call'.outcome = call.outcome /\ call'.step = "destroy"
    BY <1>1, <1>3, FieldNames, Zenon
  <2>. QED BY <1>1, <2>1, LibraryStepKeepsInv
<1>. QED BY <1>2, <1>3 DEF FindAlgorithm

LEMMA MatmulKeepsInv == Inv /\ Matmul => Inv'
<1>. SUFFICES ASSUME Inv, Matmul PROVE Inv'
  OBVIOUS
<1>1. call.step = "matmul" /\ UNCHANGED operator /\ DOMAIN call = Fields
  BY InCall DEF Matmul
<1>2. PICK product, half :
        call' \in { [Written(call, product) EXCEPT !.step = "destroy"],
                    [call EXCEPT !.step = "destroy", !.ok = FALSE],
                    [Written(call, half) EXCEPT !.step = "destroy", !.ok = FALSE] }
  BY Zenon DEF Matmul
<1>3. DOMAIN call' = Fields /\ call'.outcome = call.outcome /\ call'.step = "destroy"
  <2>1. CASE call' = [Written(call, product) EXCEPT !.step = "destroy"]
    BY <1>1, <2>1, WrittenGives, StepIs
  <2>2. CASE call' = [call EXCEPT !.step = "destroy", !.ok = FALSE]
    BY <1>1, <2>2, FieldNames, Zenon
  <2>3. CASE call' = [Written(call, half) EXCEPT !.step = "destroy", !.ok = FALSE]
    BY <1>1, <2>3, WrittenGives, FieldNames, Zenon
  <2>. QED BY <1>2, <2>1, <2>2, <2>3
<1>. QED BY <1>1, <1>3, LibraryStepKeepsInv

\* The cleanup destroys what there is, whatever failed.
LEMMA DestroyKeepsInv == Inv /\ DestroyObjects => Inv'
<1>. SUFFICES ASSUME Inv, DestroyObjects PROVE Inv'
  OBVIOUS
<1>. DEFINE destroyed == [call EXCEPT !.objects = {}]
<1>1. call.step = "destroy" /\ UNCHANGED operator /\ DOMAIN call = Fields /\ phase = "done"
  BY InCall DEF DestroyObjects
<1>2. DOMAIN destroyed = Fields /\ destroyed.objects = {} /\ destroyed.outcome = call.outcome
  BY <1>1, FieldNames, Zenon
<1>3. call' \in {Ended(destroyed, "ok"), Unserved(destroyed), [destroyed EXCEPT !.step = "collect"]}
  BY DEF DestroyObjects, Served
<1>. HIDE DEF destroyed
<1>4. CallOK(Ended(destroyed, "ok"), descriptor.family)
  BY <1>2, EndedOK
<1>5. CallOK(Unserved(destroyed), descriptor.family)
  BY <1>2, UnservedOK
<1>6. CallOK([destroyed EXCEPT !.step = "collect"], descriptor.family)
  <2>. DEFINE next == [destroyed EXCEPT !.step = "collect"]
  <2>1. /\ DOMAIN next = Fields /\ next.step = "collect"
        /\ next.objects = {} /\ next.outcome = call.outcome
    BY <1>2, StepIs
  <2>. HIDE DEF next
  <2>2. CallOK(next, descriptor.family)
    BY <2>1, StepOK
  <2>. QED BY <2>2 DEF next
<1>. QED BY <1>1, <1>3, <1>4, <1>5, <1>6, StepKeepsInv

LEMMA CollectKeepsInv == Inv /\ CollectOutput => Inv'
<1>. SUFFICES ASSUME Inv, CollectOutput PROVE Inv'
  OBVIOUS
<1>1. /\ call.step = "collect" /\ UNCHANGED operator /\ phase = "done"
      /\ DOMAIN call = Fields /\ call.objects = {}
  BY InCall DEF CollectOutput, CallOK
<1>2. CASE call' = Unserved(call)
  BY <1>1, <1>2, UnservedOK, StepKeepsInv
<1>3. CASE call' = [call EXCEPT !.step = "return", !.temps = {}]
  <2>1. /\ DOMAIN call' = Fields /\ call'.step = "return"
        /\ call'.objects = {} /\ call'.outcome = call.outcome
    BY <1>1, <1>3, FieldNames, Zenon
  <2>. QED BY <1>1, <2>1, StepOK, StepKeepsInv
<1>. QED BY <1>2, <1>3 DEF CollectOutput

\* The upload of an output ends the call, over its shape or a copy if it fails.
LEMMA UploadOK ==
  ASSUME DOMAIN call = Fields, call.objects = {}, NEW data, NEW next \in Upload(data)
  PROVE  CallOK(next, descriptor.family)
<1>1. CallOK(Ended(call, "shape"), descriptor.family) /\ CallOK(Ended(call, "copy"), descriptor.family)
  BY EndedOK
<1>2. DOMAIN [call EXCEPT !.out = data] = Fields /\ [call EXCEPT !.out = data].objects = {}
  BY FieldNames, Zenon
<1>3. CallOK(Ended([call EXCEPT !.out = data], "ok"), descriptor.family)
  BY <1>2, EndedOK
<1>4. DOMAIN [call EXCEPT !.out[0] = data[0]] = Fields /\ [call EXCEPT !.out[0] = data[0]].objects = {}
  BY FieldNames, Zenon
<1>5. CallOK(Ended([call EXCEPT !.out[0] = data[0]], "copy"), descriptor.family)
  BY <1>4, EndedOK
<1>. QED BY <1>1, <1>3, <1>5, Zenon DEF Upload

LEMMA ReturnKeepsInv == Inv /\ ReturnOutput => Inv'
<1>. SUFFICES ASSUME Inv, ReturnOutput PROVE Inv'
  OBVIOUS
<1>1. /\ call.step = "return" /\ UNCHANGED operator /\ phase = "done"
      /\ DOMAIN call = Fields /\ call.objects = {}
  BY InCall DEF ReturnOutput, CallOK
<1>2. call' \in Upload(call.c)
  BY DEF ReturnOutput
<1>. QED BY <1>1, <1>2, UploadOK, StepKeepsInv

\* A dense weight that could be uploaded can be read again.
LEMMA UploadedIsReadable ==
  ASSUME DenseUploadable(descriptor)
  PROVE  Readable(descriptor)
BY DEF DenseUploadable, Readable, kWidth

LEMMA FallbackKeepsInv == Inv /\ Fallback => Inv'
<1>. SUFFICES ASSUME Inv, Fallback PROVE Inv'
  OBVIOUS
<1>1. /\ call.step = "fallback" /\ UNCHANGED operator /\ phase = "done"
      /\ DOMAIN call = Fields /\ call.objects = {}
  BY InCall DEF Fallback, CallOK
<1>2. CallOK(Ended(call, "copy"), descriptor.family)
  BY <1>1, EndedOK
<1>3. ASSUME descriptor.family # "scaled_fp8", ~Readable(descriptor)
      PROVE  CallOK(Ended(call, "decode"), descriptor.family)
  <2>1. descriptor.family = "nvfp4"
    BY <1>1, <1>3, UploadedIsReadable DEF Inv, Created, Families
  <2>. QED BY <1>1, <2>1, EndedOK
<1>4. PICK data :
        \/ call' \in Upload(data) \/ call' = Ended(call, "copy")
        \/ /\ descriptor.family # "scaled_fp8" /\ ~Readable(descriptor)
           /\ call' = Ended(call, "decode")
  BY Zenon DEF Fallback
<1>5. CallOK(call', descriptor.family)
  BY <1>1, <1>2, <1>3, <1>4, UploadOK
<1>. QED BY <1>1, <1>5, StepKeepsInv

-----------------------------------------------------------------------------
LEMMA InvNext == Inv /\ [LinearNext]_linearVars => Inv'
<1>. SUFFICES ASSUME Inv, [LinearNext]_linearVars PROVE Inv'
  OBVIOUS
<1>1. CASE UNCHANGED linearVars
  BY <1>1 DEF linearVars, operator, uploadVars, Inv, Holds, Created
<1>2. CASE LinearNext
  BY <1>2, HandleKeepsInv, Nvfp4KeepsInv, DenseKeepsInv, RunKeepsInv, PackKeepsInv,
     DownloadKeepsInv, StageKeepsInv, UploadKeepsInv, ChecksKeepInv, ScalesKeepInv, ZeroKeepsInv,
     LibraryKeepsInv, AlgorithmKeepsInv, MatmulKeepsInv, DestroyKeepsInv, CollectKeepsInv,
     ReturnKeepsInv, FallbackKeepsInv
     DEF LinearNext, Continue
<1>. QED BY <1>1, <1>2

LEMMA InvAlways == LinearSpec => []Inv
<1>1. LinearInit => Inv
  BY InvInit
<1>2. Inv /\ [LinearNext]_linearVars => Inv'
  BY InvNext
<1>. QED BY <1>1, <1>2, PTL DEF LinearSpec

-----------------------------------------------------------------------------
(* Sums *)

\* A set of finite sets has a member no other member is a proper subset of.
LEMMA SmallestSet ==
  ASSUME NEW S, IsFiniteSet(S), NEW X \in SUBSET SUBSET S, X # {}
  PROVE  \E T \in X : \A U \in X : U \subseteq T => U = T
<1>1. IsWellFoundedOn(StrictSubsetOrdering(S), FiniteSubsetsOf(S))
  BY FS_StrictSubsetOrderingWellFounded
<1>2. X \subseteq FiniteSubsetsOf(S)
  BY FS_Subset DEF FiniteSubsetsOf
<1>3. PICK T \in X : \A U \in X : ~(<<U, T>> \in StrictSubsetOrdering(S))
  BY <1>1, <1>2, WFMin
<1>. QED BY <1>3 DEF StrictSubsetOrdering

\* sum adds up the values of f over every subset of S, in whatever order.
Adds(sum, f, S) ==
  /\ sum \in [SUBSET S -> Int]
  /\ sum[{}] = 0
  /\ \A T \in SUBSET S : \A i \in T : sum[T] = f[i] + sum[T \ {i}]

\* Such sums exist: one more index x adds to the sums of the sets x is in.
LEMMA AddsExist ==
  ASSUME NEW f, NEW S, IsFiniteSet(S), \A i \in S : f[i] \in Int
  PROVE  \E sum : Adds(sum, f, S)
<1>. DEFINE X == {T \in SUBSET S : ~\E sum : Adds(sum, f, T)}
<1>1. SUFFICES ASSUME X # {} PROVE FALSE
  OBVIOUS
<1>2. PICK T \in X : \A U \in X : U \subseteq T => U = T
  <2>1. X \in SUBSET SUBSET S
    OBVIOUS
  <2>. HIDE DEF X
  <2>. QED BY ONLY <1>1, <2>1, IsFiniteSet(S), SmallestSet
<1>3. CASE T = {}
  <2>. DEFINE sum == [U \in SUBSET T |-> 0]
  <2>1. Adds(sum, f, T)
    BY <1>3 DEF Adds
  <2>. QED BY <1>2, <2>1
<1>4. ASSUME NEW x \in T PROVE FALSE
  <2>. DEFINE R == T \ {x}
  <2>1. PICK sum : Adds(sum, f, R)
    BY <1>2
  <2>. DEFINE with(U) == IF x \in U THEN f[x] + sum[U \ {x}] ELSE sum[U]
              more == [U \in SUBSET T |-> with(U)]
  <2>2. f[x] \in Int /\ \A i \in T : f[i] \in Int
    OBVIOUS
  <2>3. \A U \in SUBSET T : U \ {x} \in SUBSET R /\ (x \notin U => U \in SUBSET R)
    OBVIOUS
  <2>4. /\ sum \in [SUBSET R -> Int] /\ sum[{}] = 0
        /\ \A U \in SUBSET R : \A i \in U : sum[U] = f[i] + sum[U \ {i}]
    BY <2>1 DEF Adds
  <2>. HIDE DEF R
  <2>5. \A U \in SUBSET T : with(U) \in Int
    BY ONLY <2>2, <2>3, <2>4
  <2>6. ASSUME NEW U \in SUBSET T, NEW i \in U
        PROVE  with(U) = f[i] + with(U \ {i})
    <3>1. CASE i = x
      BY ONLY <3>1, U \in SUBSET T, i \in U
    <3>2. CASE i # x /\ x \notin U
      BY ONLY <2>3, <2>4, <3>2, U \in SUBSET T, i \in U
    <3>3. CASE i # x /\ x \in U
      <4>1. i \in U \ {x} /\ U \ {x} \in SUBSET R /\ (U \ {x}) \ {i} \in SUBSET R
        BY <3>3 DEF R
      <4>2. sum[U \ {x}] = f[i] + sum[(U \ {x}) \ {i}]
        BY <2>4, <4>1
      <4>3. (U \ {i}) \ {x} = (U \ {x}) \ {i} /\ x \in U \ {i}
        BY <3>3
      <4>4. sum[(U \ {x}) \ {i}] \in Int
        BY <2>4, <4>1
      <4>5. f[i] \in Int
        BY <2>2
      <4>6. with(U) = f[x] + sum[U \ {x}] /\ with(U \ {i}) = f[x] + sum[(U \ {x}) \ {i}]
        BY <3>3, <4>3
      <4>. HIDE DEF with
      <4>. QED BY ONLY <2>2, <4>2, <4>4, <4>5, <4>6
    <3>. QED BY <3>1, <3>2, <3>3
  <2>7. with({}) = 0
    BY <2>4
  <2>. HIDE DEF with
  <2>8. Adds(more, f, T)
    <3>1. \A U \in SUBSET T : \A i \in U : U \ {i} \in SUBSET T
      OBVIOUS
    <3>. QED BY ONLY <2>5, <2>6, <2>7, <3>1 DEF Adds
  <2>. QED BY <1>2, <2>8
<1>. QED BY <1>3, <1>4

\* What the recursion of FoldFunction defines.
Iterates(sum, f, S) ==
  sum = [T \in SUBSET S |-> IF T = {} THEN 0
                            ELSE f[CHOOSE i \in T : TRUE] + sum[T \ {CHOOSE i \in T : TRUE}]]

LEMMA SumIs ==
  ASSUME NEW f
  PROVE  Sum(f) = (CHOOSE sum : Iterates(sum, f, DOMAIN f))[DOMAIN f]
BY DEF Sum, FoldFunction, FoldFunctionOnSet, MapThenFoldSet, Iterates

LEMMA SumAdds ==
  ASSUME NEW f, IsFiniteSet(DOMAIN f), \A i \in DOMAIN f : f[i] \in Int,
         NEW sum, Adds(sum, f, DOMAIN f)
  PROVE  Sum(f) = sum[DOMAIN f]
<1>. DEFINE S == DOMAIN f
            iter == CHOOSE g : Iterates(g, f, S)
            first(U) == CHOOSE i \in U : TRUE
<1>1. ASSUME NEW U \in SUBSET S, U # {}
      PROVE  first(U) \in U /\ U \ {first(U)} \in SUBSET S /\ sum[U] = f[first(U)] + sum[U \ {first(U)}]
  <2>1. first(U) \in U
    BY <1>1
  <2>. HIDE DEF first
  <2>. QED BY <2>1 DEF Adds
<1>2. sum = [U \in SUBSET S |-> sum[U]] /\ sum[{}] = 0
  BY DEF Adds
<1>3. Iterates(sum, f, S)
  <2>. HIDE DEF first, S
  <2>1. \A U \in SUBSET S : sum[U] = IF U = {} THEN 0 ELSE f[first(U)] + sum[U \ {first(U)}]
    BY <1>1, <1>2
  <2>2. sum = [U \in SUBSET S |-> IF U = {} THEN 0 ELSE f[first(U)] + sum[U \ {first(U)}]]
    BY <1>2, <2>1
  <2>. QED BY <2>2 DEF Iterates, first
<1>4. Iterates(iter, f, S)
  BY <1>3
<1>. HIDE DEF iter
<1>. DEFINE X == {U \in SUBSET S : iter[U] # sum[U]}
<1>5. X = {}
  <2>1. SUFFICES ASSUME X # {} PROVE FALSE
    OBVIOUS
  <2>2. PICK U \in X : \A V \in X : V \subseteq U => V = U
    <3>1. X \in SUBSET SUBSET S
      OBVIOUS
    <3>. HIDE DEF X
    <3>. QED BY <2>1, <3>1, SmallestSet
  <2>3. CASE U = {}
    BY <1>2, <1>4, <2>2, <2>3 DEF Iterates
  <2>4. CASE U # {}
    <3>1. first(U) \in U /\ U \ {first(U)} \in SUBSET S /\ sum[U] = f[first(U)] + sum[U \ {first(U)}]
      BY <1>1, <2>4
    <3>2. iter[U] = f[first(U)] + iter[U \ {first(U)}]
      BY <1>4, <2>2, <2>4 DEF Iterates
    <3>. HIDE DEF first
    <3>3. U \ {first(U)} \notin X
      BY <2>2, <3>1
    <3>. QED BY <2>2, <3>1, <3>2, <3>3
  <2>. QED BY <2>3, <2>4
<1>6. Sum(f) = iter[S]
  BY SumIs DEF iter
<1>. QED BY <1>5, <1>6

\* A factor can be taken out of a sum.
LEMMA SumScaled ==
  ASSUME NEW S, IsFiniteSet(S), NEW f \in [S -> Int], NEW c \in Int
  PROVE  Sum([i \in S |-> c * f[i]]) = c * Sum(f)
<1>. DEFINE g == [i \in S |-> c * f[i]]
<1>1. PICK sum : Adds(sum, f, S)
  BY AddsExist
<1>. DEFINE scaled == [T \in SUBSET S |-> c * sum[T]]
<1>2. /\ sum \in [SUBSET S -> Int] /\ sum[{}] = 0
      /\ \A T \in SUBSET S : \A i \in T : sum[T] = f[i] + sum[T \ {i}]
  BY <1>1 DEF Adds
<1>3. Adds(scaled, g, S)
  <2>1. ASSUME NEW T \in SUBSET S, NEW i \in T PROVE scaled[T] = g[i] + scaled[T \ {i}]
    <3>1. T \ {i} \in SUBSET S /\ i \in S /\ sum[T] = f[i] + sum[T \ {i}]
      BY <1>2
    <3>2. f[i] \in Int /\ sum[T \ {i}] \in Int
      BY <1>2, <3>1
    <3>3. c * (f[i] + sum[T \ {i}]) = c * f[i] + c * sum[T \ {i}]
      BY ONLY <3>2, c \in Int, SMT
    <3>. QED BY <3>1, <3>3
  <2>2. scaled \in [SUBSET S -> Int] /\ scaled[{}] = 0
    BY <1>2
  <2>. HIDE DEF scaled, g
  <2>. QED BY <2>1, <2>2 DEF Adds
<1>4. DOMAIN f = S /\ DOMAIN g = S /\ (\A i \in S : f[i] \in Int) /\ (\A i \in S : g[i] \in Int)
  OBVIOUS
<1>5. Sum(f) = sum[S]
  BY <1>1, <1>4, SumAdds
<1>6. Sum(g) = scaled[S]
  <2>. HIDE DEF scaled, g
  <2>. QED BY <1>3, <1>4, SumAdds
<1>. QED BY <1>2, <1>5, <1>6

LEMMA SumTyped ==
  ASSUME NEW S, IsFiniteSet(S), NEW f \in [S -> Int]
  PROVE  Sum(f) \in Int
<1>1. DOMAIN f = S /\ \A i \in S : f[i] \in Int
  OBVIOUS
<1>2. PICK sum : Adds(sum, f, S)
  BY <1>1, AddsExist
<1>3. Sum(f) = sum[S]
  BY <1>1, <1>2, SumAdds
<1>. QED BY <1>2, <1>3 DEF Adds

-----------------------------------------------------------------------------
(* The block scales on the device *)

\* The layout is the packer's: its lemmas hold whatever the packer does.
Packing == INSTANCE Nvfp4PackingProofs
  WITH Jobs <- {}, kThreadsPerBlock <- 1, kInf <- 3, kLimit <- 2, kMinScale <- 1,
       job <- descriptor, todo <- {}, allocated <- {}, global_max_bits <- 0, tensor_scale <- 0,
       packed <- 0, block_scales <- 0, matmul_block_scales <- 0

Padded(d) == PaddedBlocksPerRow(d.input_cols)
Place(d, s) == ScaleOffset(s \div BlocksPerRow(d.input_cols), s % BlocksPerRow(d.input_cols), Padded(d))
Scales(d) == d.output_rows * BlocksPerRow(d.input_cols)

\* n scales have been moved: each is at its place, the rest of the buffer is zero.
Moved(d, n, buffer) ==
  /\ DOMAIN buffer = 0..ScaleBytes(d.output_rows, d.input_cols) - 1
  /\ \A s \in 0..n - 1 : buffer[Place(d, s)] = s + 1
  /\ \A o \in DOMAIN buffer : (\A s \in 0..n - 1 : Place(d, s) # o) => buffer[o] = 0

LEMMA LayoutIs ==
  /\ \A r, c : HasLayout(r, c) <=> Packing!HasLayout(r, c)
  /\ \A c : BlocksPerRow(c) = Packing!BlocksPerRow(c)
  /\ \A c : PaddedBlocksPerRow(c) = Packing!PaddedBlocksPerRow(c)
  /\ \A r, c : ScaleBytes(r, c) = Packing!ScaleBytes(r, c)
  /\ \A r, b, p : ScaleOffset(r, b, p) = Packing!ScaleOffset(r, b, p)
BY Zenon DEF HasLayout, BlocksPerRow, PaddedBlocksPerRow, ScaleBytes, ScaleOffset, RoundUp, kRowTile,
   Packing!HasLayout, Packing!BlocksPerRow, Packing!PaddedBlocksPerRow, Packing!ScaleBytes,
   Packing!ScaleOffset, Packing!RoundUp, Packing!kRowTile

LEMMA PlaceInBuffer ==
  ASSUME NEW rows \in Nat, NEW cols \in Nat, HasLayout(rows, cols),
         NEW row \in 0..rows - 1, NEW block \in 0..BlocksPerRow(cols) - 1
  PROVE  ScaleOffset(row, block, PaddedBlocksPerRow(cols)) \in 0..ScaleBytes(rows, cols) - 1
<1>1. Packing!ScaleOffset(row, block, Packing!PaddedBlocksPerRow(cols)) \in 0..Packing!ScaleBytes(rows, cols) - 1
  BY LayoutIs, TileAssumption, Packing!OffsetInBuffer
<1>. QED BY <1>1, LayoutIs

LEMMA PlacesDiffer ==
  ASSUME NEW rows \in Nat, NEW cols \in Nat, HasLayout(rows, cols),
         NEW r \in 0..rows - 1, NEW b \in 0..BlocksPerRow(cols) - 1,
         NEW s \in 0..rows - 1, NEW c \in 0..BlocksPerRow(cols) - 1,
         ScaleOffset(r, b, PaddedBlocksPerRow(cols)) = ScaleOffset(s, c, PaddedBlocksPerRow(cols))
  PROVE  r = s /\ b = c
<1>1. /\ Packing!HasLayout(rows, cols)
      /\ r \in 0..rows - 1 /\ b \in 0..Packing!BlocksPerRow(cols) - 1
      /\ s \in 0..rows - 1 /\ c \in 0..Packing!BlocksPerRow(cols) - 1
      /\ Packing!ScaleOffset(r, b, Packing!PaddedBlocksPerRow(cols))
         = Packing!ScaleOffset(s, c, Packing!PaddedBlocksPerRow(cols))
  BY LayoutIs
<1>. QED BY ONLY <1>1, rows \in Nat, cols \in Nat, TileAssumption, Packing!OffsetInjective

\* A weight that can be uploaded has a layout, and a scale for every block.
LEMMA UploadableIs ==
  ASSUME NEW d \in Descriptors, Uploadable(d)
  PROVE  /\ d.output_rows \in Nat \ {0} /\ d.input_cols \in Nat
         /\ HasLayout(d.output_rows, d.input_cols)
         /\ BlocksPerRow(d.input_cols) \in Nat \ {0}
         /\ d.block_scales_nbytes = Scales(d) /\ Scales(d) \in Nat
         /\ d.family = "nvfp4"
<1>0. d.family = "nvfp4"
  BY LinearAssumption, Zenon DEF Uploadable
<1>1. d.output_rows \in Nat \ {0} /\ d.input_cols \in Nat /\ d.input_cols # 0
  BY LinearAssumption DEF Uploadable
<1>2. d.input_cols % kBlockWidth = 0 /\ d.block_scales_nbytes = d.output_rows * (d.input_cols \div kBlockWidth)
      /\ d.block_scales_nbytes > 0
  BY DEF Uploadable
<1>3. HasLayout(d.output_rows, d.input_cols)
  BY <1>1, <1>2 DEF HasLayout
<1>4. BlocksPerRow(d.input_cols) \in Nat
  BY <1>1, TileAssumption DEF BlocksPerRow
<1>5. d.block_scales_nbytes = Scales(d)
  BY <1>2 DEF Scales, BlocksPerRow
<1>6. BlocksPerRow(d.input_cols) # 0
  BY <1>1, <1>2, <1>4, <1>5 DEF Scales
<1>. QED BY <1>0, <1>1, <1>3, <1>4, <1>5, <1>6 DEF Scales

\* The row and the block of a scale.
LEMMA RowAndBlock ==
  ASSUME NEW d \in Descriptors, Uploadable(d), NEW s \in 0..Scales(d) - 1
  PROVE  LET n == BlocksPerRow(d.input_cols) IN
         s \div n \in 0..d.output_rows - 1 /\ s % n \in 0..n - 1 /\ s = (s \div n) * n + (s % n)
<1>. DEFINE n == BlocksPerRow(d.input_cols)
<1>1. n \in Nat \ {0} /\ d.output_rows \in Nat \ {0} /\ s \in Nat /\ s < d.output_rows * n
  BY UploadableIs DEF Scales
<1>. HIDE DEF n
<1>2. s \div n \in Nat /\ s % n \in 0..n - 1 /\ s = (s \div n) * n + (s % n)
  BY ONLY <1>1, SMT
<1>3. s \div n < d.output_rows
  BY <1>1, TileAssumption, Packing!DivBelow
<1>4. s \div n \in 0..d.output_rows - 1
  BY ONLY <1>1, <1>2, <1>3
<1>. QED BY <1>2, <1>4 DEF n

LEMMA ScaleOfBlock ==
  ASSUME NEW d \in Descriptors, Uploadable(d),
         NEW r \in 0..d.output_rows - 1, NEW b \in 0..BlocksPerRow(d.input_cols) - 1
  PROVE  LET n == BlocksPerRow(d.input_cols)  s == r * n + b IN
         s \in 0..Scales(d) - 1 /\ s \div n = r /\ s % n = b
<1>. DEFINE n == BlocksPerRow(d.input_cols)
<1>1. n \in Nat \ {0} /\ d.output_rows \in Nat \ {0} /\ r \in Nat /\ r < d.output_rows /\ b \in 0..n - 1
      /\ Scales(d) = d.output_rows * n /\ Scales(d) \in Nat
  BY UploadableIs DEF Scales
<1>. HIDE DEF n
<1>2. (r * n + b) \div n = r /\ (r * n + b) % n = b /\ r * n + b \in Nat
  <2>1. n \in Nat \ {0} /\ r \in Nat /\ b \in 0..n - 1
    BY <1>1
  <2>. QED BY ONLY <2>1, SMT
<1>3. r * n + b < d.output_rows * n
  BY <1>1, TileAssumption, Packing!BelowTile
<1>4. r * n + b \in 0..Scales(d) - 1
  BY ONLY <1>1, <1>2, <1>3
<1>. QED BY <1>2, <1>4 DEF n

LEMMA PlaceOfScale ==
  ASSUME NEW d \in Descriptors, Uploadable(d), NEW s \in 0..Scales(d) - 1
  PROVE  Place(d, s) \in 0..ScaleBytes(d.output_rows, d.input_cols) - 1
BY RowAndBlock, UploadableIs, PlaceInBuffer DEF Place, Padded

LEMMA ScalesApart ==
  ASSUME NEW d \in Descriptors, Uploadable(d),
         NEW s \in 0..Scales(d) - 1, NEW t \in 0..Scales(d) - 1, Place(d, s) = Place(d, t)
  PROVE  s = t
<1>. DEFINE n == BlocksPerRow(d.input_cols)
<1>1. s \div n = t \div n /\ s % n = t % n
  <2>1. /\ d.output_rows \in Nat /\ d.input_cols \in Nat /\ HasLayout(d.output_rows, d.input_cols)
        /\ s \div n \in 0..d.output_rows - 1 /\ s % n \in 0..n - 1
        /\ t \div n \in 0..d.output_rows - 1 /\ t % n \in 0..n - 1
    BY RowAndBlock, UploadableIs
  <2>2. ScaleOffset(s \div n, s % n, PaddedBlocksPerRow(d.input_cols))
        = ScaleOffset(t \div n, t % n, PaddedBlocksPerRow(d.input_cols))
    BY DEF Place, Padded
  <2>. QED BY ONLY <2>1, <2>2, PlacesDiffer DEF n
<1>2. s = (s \div n) * n + (s % n) /\ t = (t \div n) * n + (t % n)
  BY RowAndBlock
<1>. HIDE DEF n
<1>. QED BY ONLY <1>1, <1>2

\* One turn of the loop.
LEMMA MoveOne ==
  ASSUME NEW d \in Descriptors, Uploadable(d), NEW n \in Nat, n < Scales(d),
         NEW buffer, Moved(d, n, buffer)
  PROVE  Moved(d, n + 1, [buffer EXCEPT ![Place(d, n)] = n + 1])
<1>. DEFINE more == [buffer EXCEPT ![Place(d, n)] = n + 1]
<1>1. Scales(d) \in Nat
  BY UploadableIs
<1>2. n \in 0..Scales(d) - 1 /\ \A s \in 0..n - 1 : s \in 0..Scales(d) - 1 /\ s # n
  BY <1>1
<1>3. Place(d, n) \in DOMAIN buffer
  BY <1>2, PlaceOfScale DEF Moved
<1>4. \A s \in 0..n - 1 : Place(d, s) # Place(d, n)
  BY <1>2, ScalesApart
<1>5. 0..(n + 1) - 1 = (0..n - 1) \cup {n}
  OBVIOUS
<1>6. DOMAIN more = DOMAIN buffer /\ more[Place(d, n)] = n + 1
      /\ \A o \in DOMAIN buffer : o # Place(d, n) => more[o] = buffer[o]
  BY <1>3
<1>7. \A s \in 0..n - 1 : Place(d, s) \in DOMAIN buffer
  BY <1>2, PlaceOfScale DEF Moved
<1>. HIDE DEF more
<1>8. \A s \in 0..(n + 1) - 1 : more[Place(d, s)] = s + 1
  BY <1>4, <1>5, <1>6, <1>7 DEF Moved
<1>9. ASSUME NEW o \in DOMAIN more, \A s \in 0..(n + 1) - 1 : Place(d, s) # o
      PROVE  more[o] = 0
  BY <1>5, <1>6, <1>9 DEF Moved
<1>10. Moved(d, n + 1, more)
  BY <1>6, <1>8, <1>9 DEF Moved
<1>. QED BY <1>10 DEF more

\* How far the upload of an NVFP4 weight has come.
WeightOK ==
  /\ descriptor \in Descriptors
  /\ descriptor.family = "nvfp4" /\ phase \notin {"check", "refused"} => Uploadable(descriptor)
  /\ phase = "check" => at = 0
  /\ phase = "swizzle" => at \in Nat /\ at <= Scales(descriptor) /\ Moved(descriptor, at, swizzled)
  /\ phase \in {"packed", "block_scales", "matmul_block_scales", "tensor_scale"} =>
       Moved(descriptor, Scales(descriptor), swizzled)
  /\ phase \in {"matmul_block_scales", "tensor_scale", "done"} /\ descriptor.family = "nvfp4" =>
       device.block_scales = RowMajorScales(descriptor)
  /\ phase \in {"tensor_scale", "done"} /\ descriptor.family = "nvfp4" =>
       Moved(descriptor, Scales(descriptor), device.matmul_block_scales)
  /\ phase = "done" /\ descriptor.family = "nvfp4" =>
       device.tensor_scale = <<descriptor.tensor_scale>>

LEMMA WeightOKInit == LinearInit => WeightOK
BY DEF LinearInit, Init, WeightOK

LEMMA WeightOKKept ==
  ASSUME WeightOK, UNCHANGED uploadVars
  PROVE  WeightOK'
BY DEF WeightOK, uploadVars

LEMMA Nvfp4KeepsWeightOK == Inv /\ WeightOK /\ CreateNvfp4 => WeightOK'
<1>. SUFFICES ASSUME Inv, WeightOK, CreateNvfp4 PROVE WeightOK'
  OBVIOUS
<1>0. descriptor' = descriptor /\ descriptor \in Descriptors /\ descriptor.family = "nvfp4" /\ IsBuffers(device)
  BY DEF CreateNvfp4, Next, Reject, BeginSwizzle, SwizzleScale, SwizzleDone, AllocateAndCopy,
     UploadFails, WeightOK, Inv, Holds
<1>1. CASE Reject \/ UploadFails
  BY <1>0, <1>1 DEF Reject, UploadFails, WeightOK
<1>2. CASE BeginSwizzle
  <2>. DEFINE size == ScaleBytes(descriptor.output_rows, descriptor.input_cols)
  <2>1. Uploadable(descriptor) /\ phase' = "swizzle" /\ swizzled' = [o \in 0..size - 1 |-> 0] /\ at' = at
    BY <1>2 DEF BeginSwizzle
  <2>2. Scales(descriptor) \in Nat
    BY <1>0, <2>1, UploadableIs
  <2>3. at = 0
    BY <1>2 DEF BeginSwizzle, WeightOK
  <2>4. Moved(descriptor, 0, swizzled')
    <3>. HIDE DEF size
    <3>1. DOMAIN swizzled' = 0..size - 1 /\ \A o \in 0..size - 1 : swizzled'[o] = 0
      BY <2>1
    <3>. QED BY <3>1 DEF Moved, size
  <2>. QED BY <1>0, <2>1, <2>2, <2>3, <2>4 DEF WeightOK
<1>3. CASE SwizzleScale
  <2>1. /\ phase = "swizzle" /\ phase' = "swizzle" /\ at' = at + 1 /\ at < Scales(descriptor)
        /\ swizzled' = [swizzled EXCEPT ![Place(descriptor, at)] = RowMajorScales(descriptor)[at]]
    BY <1>3 DEF SwizzleScale, Scales, Blocks, Place, Padded
  <2>2. Uploadable(descriptor) /\ at \in Nat /\ Moved(descriptor, at, swizzled)
    BY <1>0, <2>1 DEF WeightOK
  <2>3. Scales(descriptor) \in Nat /\ descriptor.block_scales_nbytes = Scales(descriptor)
    BY <1>0, <2>2, UploadableIs
  <2>4. RowMajorScales(descriptor)[at] = at + 1
    BY <2>1, <2>2, <2>3 DEF RowMajorScales
  <2>5. Moved(descriptor, at + 1, swizzled')
    BY <1>0, <2>1, <2>2, <2>4, MoveOne
  <2>6. at' \in Nat /\ at' <= Scales(descriptor)
    BY <2>1, <2>2, <2>3
  <2>. QED BY <1>0, <2>1, <2>2, <2>5, <2>6 DEF WeightOK
<1>4. CASE SwizzleDone
  <2>1. phase = "swizzle" /\ phase' = "packed" /\ at = Scales(descriptor) /\ swizzled' = swizzled
    BY <1>4 DEF SwizzleDone, Scales, Blocks
  <2>. QED BY <1>0, <2>1 DEF WeightOK
<1>5. CASE AllocateAndCopy
  <2>1. /\ phase \in BufferNames /\ swizzled' = swizzled
        /\ device' = [device EXCEPT ![phase] = Contents(phase)] /\ phase' = After[phase]
    BY <1>5 DEF AllocateAndCopy, After, BufferNames
  <2>2. DOMAIN device = BufferNames
    BY <1>0 DEF IsBuffers
  <2>3. device'[phase] = Contents(phase) /\ \A b \in BufferNames : b # phase => device'[b] = device[b]
    BY ONLY <2>1, <2>2
  <2>4. Uploadable(descriptor) /\ Moved(descriptor, Scales(descriptor), swizzled)
    BY <1>0, <2>1 DEF WeightOK, BufferNames
  <2>5. CASE phase = "packed"
    BY <1>0, <2>1, <2>4, <2>5 DEF WeightOK, After
  <2>6. CASE phase = "block_scales"
    <3>1. device'["block_scales"] = RowMajorScales(descriptor) /\ phase' = "matmul_block_scales"
      BY <2>1, <2>3, <2>6 DEF Contents, After
    <3>. QED BY <1>0, <2>1, <2>4, <3>1 DEF WeightOK
  <2>7. CASE phase = "matmul_block_scales"
    <3>1. device'["matmul_block_scales"] = swizzled /\ phase' = "tensor_scale"
      BY <2>1, <2>3, <2>7 DEF Contents, After
    <3>2. device'["block_scales"] = RowMajorScales(descriptor)
      BY <1>0, <2>3, <2>7 DEF WeightOK, BufferNames
    <3>. QED BY <1>0, <2>1, <2>4, <3>1, <3>2 DEF WeightOK
  <2>8. CASE phase = "tensor_scale"
    <3>1. phase' = "done" /\ device'["matmul_block_scales"] = device["matmul_block_scales"]
          /\ device'["block_scales"] = device["block_scales"]
      BY <2>1, <2>3, <2>8 DEF After, BufferNames
    <3>2. device'["tensor_scale"] = <<descriptor.tensor_scale>>
      BY <2>3, <2>8 DEF Contents
    <3>. QED BY <1>0, <2>4, <2>8, <3>1, <3>2 DEF WeightOK
  <2>. QED BY <2>1, <2>5, <2>6, <2>7, <2>8 DEF BufferNames
<1>. QED BY <1>1, <1>2, <1>3, <1>4, <1>5 DEF CreateNvfp4, Next

LEMMA DenseKeepsWeightOK == WeightOK /\ CreateDense => WeightOK'
BY DEF CreateDense, WeightOK

LEMMA WeightOKNext == Inv /\ WeightOK /\ [LinearNext]_linearVars => WeightOK'
<1>. SUFFICES ASSUME Inv, WeightOK, [LinearNext]_linearVars PROVE WeightOK'
  OBVIOUS
<1>1. CreateNvfp4 \/ CreateDense \/ UNCHANGED uploadVars
  BY DEF LinearNext, Continue, linearVars, operator, CreateHandle, Run, PackActivations, DownloadActivations,
     StageTensors, UploadTemporary, CheckOperands, ReadTensorScales, ZeroOutput, CallLibrary, FindAlgorithm,
     Matmul, DestroyObjects, CollectOutput, ReturnOutput, Fallback
<1>. QED BY <1>1, Nvfp4KeepsWeightOK, DenseKeepsWeightOK, WeightOKKept

LEMMA WeightOKAlways == LinearSpec => []WeightOK
BY WeightOKInit, WeightOKNext, InvAlways, PTL DEF LinearSpec

-----------------------------------------------------------------------------
(* What a GEMM computes *)

\* CallerActivations, HostActivations and Product, by the arguments of the call.
CallersOf(rows, seed) == Activations(seed, rows, descriptor.input_cols)
HostOf(rows, seed) == Quantized(CallersOf(rows, seed))
Terms(rows, seed, o) ==
  [l \in 0 .. descriptor.input_cols - 1 |->
     HostOf(rows, seed)[(o \div descriptor.output_rows) * descriptor.input_cols + l]
     * Weight[(o % descriptor.output_rows) * descriptor.input_cols + l]]
ProductOf(rows, seed) == [o \in 0 .. rows * descriptor.output_rows - 1 |-> Sum(Terms(rows, seed, o))]

LEMMA ProductIs == Product = ProductOf(call.rows, call.seed)
BY DEF Product, ProductOf, Terms, HostOf, CallersOf, HostActivations, CallerActivations

LEMMA InMatrix ==
  ASSUME NEW rows \in Nat, NEW n \in Nat, NEW k \in Nat, NEW o \in 0..rows * n - 1, NEW l \in 0..k - 1
  PROVE  /\ n # 0 /\ o \div n \in 0..rows - 1 /\ o % n \in 0..n - 1
         /\ (o \div n) * k + l \in 0..rows * k - 1
         /\ (o % n) * k + l \in 0..n * k - 1
<1>1. k \in Nat \ {0} /\ rows * k \in Nat /\ n * k \in Nat /\ rows * n \in Nat
  OBVIOUS
<1>2. n \in Nat \ {0}
  BY <1>1
<1>3. o \in Nat /\ o < rows * n
  BY <1>1
<1>4. o \div n \in Nat /\ o % n \in 0..n - 1
  BY <1>2, <1>3
<1>5. o \div n < rows
  <2>1. o \in Nat /\ n \in Nat \ {0} /\ rows \in Nat /\ o < rows * n
    BY <1>2, <1>3
  <2>. QED BY ONLY <2>1, TileAssumption, Packing!DivBelow
<1>6. (o \div n) * k + l < rows * k /\ (o \div n) * k + l \in Nat
  <2>1. k \in Nat \ {0} /\ o \div n \in Nat /\ rows \in Nat /\ l \in 0..k - 1 /\ o \div n < rows
    BY <1>1, <1>4, <1>5
  <2>. QED BY ONLY <2>1, TileAssumption, Packing!BelowTile
<1>7. (o % n) * k + l < n * k /\ (o % n) * k + l \in Nat
  <2>1. k \in Nat \ {0} /\ o % n \in Nat /\ n \in Nat /\ l \in 0..k - 1 /\ o % n < n
    BY <1>1, <1>2, <1>4
  <2>. QED BY ONLY <2>1, TileAssumption, Packing!BelowTile
<1>. DEFINE q == o \div n
            m == o % n
<1>8. q \in 0..rows - 1
  BY <1>4, <1>5
<1>. HIDE DEF q, m
<1>9. q * k + l \in 0..rows * k - 1 /\ m * k + l \in 0..n * k - 1
  BY ONLY <1>1, <1>6, <1>7 DEF q, m
<1>. QED BY <1>2, <1>4, <1>8, <1>9 DEF q, m

\* Activations are small numbers.
LEMMA ActivationsTyped ==
  ASSUME NEW rows \in Nat, NEW seed \in Nat, descriptor \in Descriptors
  PROVE  /\ DOMAIN CallersOf(rows, seed) = 0..rows * descriptor.input_cols - 1
         /\ \A o \in 0..rows * descriptor.input_cols - 1 : CallersOf(rows, seed)[o] \in Int
<1>1. descriptor.input_cols \in Nat
  BY LinearAssumption
<1>2. \A o \in 0..rows * descriptor.input_cols - 1 : (o + seed) % 5 \in Int
  BY <1>1
<1>. QED BY <1>2 DEF CallersOf, Activations

LEMMA CodeTyped == \A o \in Nat : Code(o) \in 0..2
BY DEF Code

\* The library's product of a dense operator, with its weight as it was decoded.
LEMMA DenseProduct ==
  ASSUME NEW rows \in Nat, NEW seed \in Nat, descriptor \in Descriptors,
         descriptor.family = "dense", DenseUploadable(descriptor)
  PROVE  LibraryMatmul(Plan(descriptor, rows), CallersOf(rows, seed), Source(descriptor), 1)
         = ProductOf(rows, seed)
<1>. DEFINE n == descriptor.output_rows
            k == descriptor.input_cols
            a == CallersOf(rows, seed)
            b == Source(descriptor)
            entry(o) == Sum([l \in 0..k - 1 |-> a[(o \div n) * k + l] * b[(o % n) * k + l]])
<1>1. n \in Nat /\ k \in Nat /\ descriptor.storage \in {"fp32", "bf16", "fp8"}
  BY LinearAssumption DEF DenseUploadable
<1>2. a = HostOf(rows, seed)
  BY DEF HostOf, Quantized, CallersOf, Activations
<1>3. Weight = b
  BY DEF Weight
<1>4. \A o \in 0..rows * k - 1 : a[o] \in Int
  BY ActivationsTyped
<1>5. \A o \in 0..n * k - 1 : b[o] \in Int
  <2>1. \A o \in 0..n * k - 1 : Decode(descriptor.storage, Code(o)) \in Int
    BY <1>1, CodeTyped, LinearAssumption
  <2>. QED BY <2>1 DEF Source, Decoded, Elements
<1>6. LibraryMatmul(Plan(descriptor, rows), a, b, 1) = [o \in 0..rows * n - 1 |-> 1 * entry(o)]
  BY DEF LibraryMatmul, Plan
<1>7. ASSUME NEW o \in 0..rows * n - 1 PROVE Sum(Terms(rows, seed, o)) = 1 * entry(o)
  <2>. DEFINE terms == [l \in 0..k - 1 |-> a[(o \div n) * k + l] * b[(o % n) * k + l]]
  <2>1. terms = Terms(rows, seed, o)
    BY <1>2, <1>3 DEF Terms
  <2>2. \A l \in 0..k - 1 : terms[l] \in Int
    <3>. HIDE DEF n, k, a, b
    <3>. QED BY <1>1, <1>4, <1>5, InMatrix
  <2>3. terms \in [0..k - 1 -> Int]
    BY <2>2
  <2>4. IsFiniteSet(0..k - 1)
    BY <1>1, FS_Interval
  <2>5. entry(o) = Sum(terms)
    OBVIOUS
  <2>. HIDE DEF terms, entry
  <2>6. Sum(terms) \in Int
    BY ONLY <2>3, <2>4, SumTyped
  <2>. QED BY ONLY <2>1, <2>5, <2>6
<1>. HIDE DEF entry
<1>. QED BY <1>6, <1>7 DEF ProductOf

\* And of an NVFP4 one, with what is on the device: the scales are where the layout puts them,
\* and the factors that were set aside come back as alpha.
PackedOf(rows, seed) == Codes(CallersOf(rows, seed))
ScaleOf(rows, seed) == TensorScale(CallersOf(rows, seed))
AlphaOf(rows, seed) == ScaleOf(rows, seed) * descriptor.tensor_scale

LEMMA ScaleFound ==
  ASSUME Inv, WeightOK, phase = "done", descriptor.family = "nvfp4", NEW o \in Elements(descriptor)
  PROVE  LET s == RowOf(descriptor, o) * Blocks + BlockOf(descriptor, o) IN
         /\ RowMajorScales(descriptor)[s] \in Int
         /\ Nvfp4Operand(descriptor, device)[o] = Code(o) * RowMajorScales(descriptor)[s]
<1>. DEFINE d == descriptor
            r == RowOf(d, o)
            b == BlockOf(d, o)
            s == r * BlocksPerRow(d.input_cols) + b
            scales == device.matmul_block_scales
<1>1. d \in Descriptors /\ Uploadable(d) /\ Moved(d, Scales(d), scales)
  BY DEF WeightOK
<1>. HIDE DEF d, scales
<1>2. /\ d.output_rows \in Nat \ {0} /\ d.input_cols \in Nat \ {0}
      /\ d.input_cols = BlocksPerRow(d.input_cols) * kBlockWidth
      /\ BlocksPerRow(d.input_cols) \in Nat \ {0}
      /\ Scales(d) \in Nat /\ d.block_scales_nbytes = Scales(d)
  <2>1. /\ d.output_rows \in Nat \ {0} /\ d.input_cols \in Nat
        /\ BlocksPerRow(d.input_cols) \in Nat \ {0}
        /\ Scales(d) \in Nat /\ d.block_scales_nbytes = Scales(d)
        /\ d.input_cols > 0 /\ d.input_cols % kBlockWidth = 0
    BY <1>1, UploadableIs DEF HasLayout
  <2>2. d.input_cols = BlocksPerRow(d.input_cols) * kBlockWidth
    <3>1. d.input_cols \in Nat /\ d.input_cols % kBlockWidth = 0 /\ kBlockWidth \in Nat \ {0}
      BY <2>1, TileAssumption
    <3>. QED BY ONLY <3>1, SMT DEF BlocksPerRow
  <2>. QED BY <2>1, <2>2
<1>3. o \in Nat /\ o < d.output_rows * d.input_cols
  <2>1. o \in 0..d.output_rows * d.input_cols - 1 /\ d.output_rows * d.input_cols \in Nat
    BY <1>2 DEF Elements, d
  <2>. QED BY <2>1
<1>4. r \in 0..d.output_rows - 1 /\ o % d.input_cols \in 0..d.input_cols - 1
  <2>1. o \in Nat /\ d.input_cols \in Nat \ {0} /\ d.output_rows \in Nat /\ o < d.output_rows * d.input_cols
    BY <1>2, <1>3
  <2>2. o \div d.input_cols \in Nat /\ o % d.input_cols \in 0..d.input_cols - 1
    BY ONLY <2>1, SMT
  <2>3. o \div d.input_cols < d.output_rows
    BY ONLY <2>1, TileAssumption, Packing!DivBelow
  <2>. QED BY <2>1, <2>2, <2>3 DEF RowOf
<1>5. b \in 0..BlocksPerRow(d.input_cols) - 1
  <2>. DEFINE m == o % d.input_cols
  <2>1. /\ m \in Nat /\ kBlockWidth \in Nat \ {0} /\ BlocksPerRow(d.input_cols) \in Nat
        /\ m < BlocksPerRow(d.input_cols) * kBlockWidth
    BY <1>2, <1>4, TileAssumption
  <2>. HIDE DEF m
  <2>2. m \div kBlockWidth \in Nat
    BY ONLY <2>1, SMT
  <2>3. m \div kBlockWidth < BlocksPerRow(d.input_cols)
    BY ONLY <2>1, TileAssumption, Packing!DivBelow
  <2>4. m \div kBlockWidth \in 0..BlocksPerRow(d.input_cols) - 1
    BY ONLY <2>1, <2>2, <2>3
  <2>. QED BY <2>4 DEF BlockOf, m
<1>6. s \in 0..Scales(d) - 1 /\ Place(d, s) = ScaleOffset(r, b, Padded(d))
  <2>. HIDE DEF r, b
  <2>. QED BY <1>1, <1>4, <1>5, ScaleOfBlock DEF Place
<1>. HIDE DEF r, b, s
<1>7. scales[ScaleOffset(r, b, Padded(d))] = s + 1
  BY <1>1, <1>6 DEF Moved
<1>8. RowMajorScales(d)[s] = s + 1 /\ s + 1 \in Int
  BY <1>2, <1>6 DEF RowMajorScales
<1>9. Nvfp4Operand(d, device)[o] = Code(o) * scales[ScaleOffset(r, b, Padded(d))]
  BY DEF Nvfp4Operand, scales, r, b, Padded, d
<1>. QED BY <1>7, <1>8, <1>9 DEF d, r, b, s, Blocks

LEMMA Nvfp4Product ==
  ASSUME NEW rows \in Nat, NEW seed \in Nat, Inv, WeightOK, phase = "done", descriptor.family = "nvfp4",
         ScaleOf(rows, seed) \in Nat \ {0}
  PROVE  LibraryMatmul(Plan(descriptor, rows), PackedOf(rows, seed), Nvfp4Operand(descriptor, device),
                       AlphaOf(rows, seed))
         = ProductOf(rows, seed)
<1>. DEFINE n == descriptor.output_rows
            k == descriptor.input_cols
            a == PackedOf(rows, seed)
            b == Nvfp4Operand(descriptor, device)
            scale == ScaleOf(rows, seed)
            tensor_scale == descriptor.tensor_scale
            alpha == AlphaOf(rows, seed)
            terms(o) == [l \in 0..k - 1 |-> a[(o \div n) * k + l] * b[(o % n) * k + l]]
<1>1. n \in Nat /\ k \in Nat /\ descriptor \in Descriptors
  BY LinearAssumption DEF WeightOK
<1>2. scale \in Nat \ {0} /\ tensor_scale \in Int /\ alpha = scale * tensor_scale
  BY <1>1, LinearAssumption DEF AlphaOf
<1>3. ASSUME NEW o \in 0..rows * k - 1
      PROVE  a[o] \in Int /\ HostOf(rows, seed)[o] = scale * a[o]
  <2>1. o \in DOMAIN CallersOf(rows, seed) /\ CallersOf(rows, seed)[o] \in Int
    BY <1>1, ActivationsTyped
  <2>. DEFINE x == CallersOf(rows, seed)[o]
  <2>2. a[o] = x \div scale /\ HostOf(rows, seed)[o] = scale * a[o]
    BY <2>1 DEF PackedOf, HostOf, Quantized, Codes, ScaleOf
  <2>. HIDE DEF x, a, scale
  <2>3. x \in Int
    BY <2>1 DEF x
  <2>4. x \div scale \in Int
    BY ONLY <1>2, <2>3
  <2>. QED BY <2>2, <2>4
<1>4. ASSUME NEW o \in 0..n * k - 1
      PROVE  b[o] \in Int /\ Weight[o] = tensor_scale * b[o]
  <2>. DEFINE s == RowMajorScales(descriptor)[RowOf(descriptor, o) * Blocks + BlockOf(descriptor, o)]
  <2>1. o \in Elements(descriptor)
    BY DEF Elements
  <2>2. s \in Int /\ b[o] = Code(o) * s
    BY <2>1, ScaleFound
  <2>3. Weight[o] = tensor_scale * Code(o) * s
    BY <2>1 DEF Weight
  <2>. HIDE DEF s, b, tensor_scale
  <2>4. Code(o) \in Int
    BY <1>1, CodeTyped
  <2>5. tensor_scale * Code(o) * s = tensor_scale * (Code(o) * s) /\ Code(o) * s \in Int
    BY ONLY <1>2, <2>2, <2>4, SMT
  <2>. QED BY <2>2, <2>3, <2>5
<1>5. LibraryMatmul(Plan(descriptor, rows), a, b, alpha) = [o \in 0..rows * n - 1 |-> alpha * Sum(terms(o))]
  BY DEF LibraryMatmul, Plan
<1>6. ASSUME NEW o \in 0..rows * n - 1 PROVE Sum(Terms(rows, seed, o)) = alpha * Sum(terms(o))
  <2>. DEFINE i(l) == (o \div n) * k + l
              j(l) == (o % n) * k + l
              f == [l \in 0..k - 1 |-> a[i(l)] * b[j(l)]]
              g == [l \in 0..k - 1 |-> alpha * f[l]]
  <2>. HIDE DEF n, k, a, b, scale, tensor_scale, alpha
  <2>1. ASSUME NEW l \in 0..k - 1
        PROVE  /\ a[i(l)] \in Int /\ b[j(l)] \in Int
               /\ HostOf(rows, seed)[i(l)] * Weight[j(l)] = alpha * (a[i(l)] * b[j(l)])
    <3>1. i(l) \in 0..rows * k - 1 /\ j(l) \in 0..n * k - 1
      BY <1>1, InMatrix
    <3>. HIDE DEF i, j
    <3>2. a[i(l)] \in Int /\ b[j(l)] \in Int
      BY <1>3, <1>4, <3>1
    <3>3. HostOf(rows, seed)[i(l)] = scale * a[i(l)] /\ Weight[j(l)] = tensor_scale * b[j(l)]
      BY <1>3, <1>4, <3>1
    <3>4. (scale * a[i(l)]) * (tensor_scale * b[j(l)]) = alpha * (a[i(l)] * b[j(l)])
      BY ONLY <1>2, <3>2, SMT
    <3>. QED BY <3>2, <3>3, <3>4
  <2>2. Terms(rows, seed, o) = [l \in 0..k - 1 |-> HostOf(rows, seed)[i(l)] * Weight[j(l)]]
    BY DEF Terms, n, k
  <2>. HIDE DEF i, j
  <2>3. Terms(rows, seed, o) = g
    BY <2>1, <2>2
  <2>4. f \in [0..k - 1 -> Int]
    BY <2>1
  <2>5. terms(o) = f
    BY DEF i, j
  <2>6. IsFiniteSet(0..k - 1) /\ alpha \in Int
    BY <1>1, <1>2, FS_Interval
  <2>7. g = [l \in 0..k - 1 |-> alpha * f[l]]
    OBVIOUS
  <2>. HIDE DEF f, g, terms
  <2>8. Sum([l \in 0..k - 1 |-> alpha * f[l]]) = alpha * Sum(f)
    BY ONLY <2>4, <2>6, SumScaled
  <2>. QED BY ONLY <2>3, <2>5, <2>7, <2>8
<1>. HIDE DEF terms, a, b
<1>. QED BY <1>5, <1>6 DEF ProductOf, a, b

\* The CPU computes the same sums from the same numbers.
LEMMA CpuProduct ==
  ASSUME NEW rows, NEW seed, descriptor.family # "nvfp4"
  PROVE  CpuMatmul(HostOf(rows, seed), rows, Source(descriptor), descriptor.output_rows, descriptor.input_cols)
         = ProductOf(rows, seed)
<1>1. Weight = Source(descriptor)
  BY DEF Weight
<1>. QED BY <1>1 DEF CpuMatmul, ProductOf, Terms

-----------------------------------------------------------------------------
(* What a call computes *)

WeightIsSource ==
  phase = "done" =>
    /\ descriptor.family = "dense" => dense = Source(descriptor)
    /\ descriptor.family = "scaled_fp8" => hostWeight = Source(descriptor)

\* A call that may have read its weight through a dead descriptor.
Dead(rows) == descriptor.family = "scaled_fp8" /\ fastpath /\ rows = 1

LibrarySteps == {"zero", "describe", "heuristic", "matmul"}
GemmSteps == {"checks", "scales"} \cup LibrarySteps
ScaledSteps == GemmSteps \cup {"stage", "upload", "destroy", "collect", "return"}

\* What the GEMM will be given, as far as the call has come.
Operands(c) ==
  /\ descriptor.family \in {"dense", "nvfp4"} /\ c.step \in GemmSteps \cup {"pack"} =>
       c.plan = Plan(descriptor, c.rows)
  /\ descriptor.family = "dense" /\ c.step \in GemmSteps => c.b = Source(descriptor) /\ c.alpha = 1
  /\ descriptor.family = "dense" /\ c.step \in LibrarySteps => c.a = CallersOf(c.rows, c.seed)
  /\ descriptor.family = "nvfp4" /\ c.step \in GemmSteps =>
       /\ c.a = PackedOf(c.rows, c.seed) /\ c.b = Nvfp4Operand(descriptor, device)
       /\ c.scale = ScaleOf(c.rows, c.seed) /\ c.scale \in Nat \ {0}
  /\ descriptor.family = "nvfp4" /\ c.step \in LibrarySteps => c.alpha = AlphaOf(c.rows, c.seed)

\* Which paths a family takes, and what is in the output once a path has succeeded.
Answering(c) ==
  /\ c.rows \in Nat /\ c.seed \in Nat
  /\ c.step = "pack" => c.rows \in RowCounts /\ c.seed \in Seeds
  /\ c.step # "idle" => c.outcome = "none"
  /\ c.step = "fallback" => descriptor.family # "nvfp4"
  /\ descriptor.family = "scaled_fp8" /\ c.step \in ScaledSteps => Dead(c.rows)
  /\ descriptor.family # "scaled_fp8" => c.step \notin {"download", "stage", "upload", "collect", "return"}
  /\ Operands(c)
  /\ c.step = "destroy" /\ c.ok /\ descriptor.family # "scaled_fp8" => c.out = ProductOf(c.rows, c.seed)
  /\ c.outcome = "ok" /\ ~Dead(c.rows) => c.out = ProductOf(c.rows, c.seed)

AnswerOK == WeightIsSource /\ Answering(call)

LEMMA ProductKept ==
  ASSUME UNCHANGED descriptor, NEW rows, NEW seed
  PROVE  /\ ProductOf(rows, seed)' = ProductOf(rows, seed)
         /\ CallersOf(rows, seed)' = CallersOf(rows, seed)
         /\ PackedOf(rows, seed)' = PackedOf(rows, seed)
         /\ ScaleOf(rows, seed)' = ScaleOf(rows, seed)
         /\ AlphaOf(rows, seed)' = AlphaOf(rows, seed)
<1>1. CallersOf(rows, seed)' = CallersOf(rows, seed)
  BY DEF CallersOf
<1>2. PackedOf(rows, seed)' = PackedOf(rows, seed)
  BY <1>1 DEF PackedOf, Codes
<1>3. \A a : Quantized(a)' = Quantized(a)
  BY Zenon DEF Quantized, Codes
<1>4. HostOf(rows, seed)' = HostOf(rows, seed)
  BY <1>1, <1>3 DEF HostOf
<1>5. Weight' = Weight
  BY Zenon DEF Weight, Blocks
<1>6. \A o : Terms(rows, seed, o)' = Terms(rows, seed, o)
  BY <1>4, <1>5, Zenon DEF Terms
<1>7. ProductOf(rows, seed)' = ProductOf(rows, seed)
  BY <1>6, Zenon DEF ProductOf
<1>8. ScaleOf(rows, seed)' = ScaleOf(rows, seed)
  BY <1>1 DEF ScaleOf
<1>9. AlphaOf(rows, seed)' = AlphaOf(rows, seed)
  BY <1>8 DEF AlphaOf
<1>. QED BY <1>1, <1>2, <1>7, <1>8, <1>9

\* A step leaves what has been computed alone, unless it changes the call.
LEMMA AnswerKept ==
  ASSUME WeightIsSource', Answering(call'), UNCHANGED <<descriptor, fastpath>>,
         device' = device \/ call'.step = "idle"
  PROVE  AnswerOK'
<1>1. \A rows, seed : /\ ProductOf(rows, seed)' = ProductOf(rows, seed)
                      /\ CallersOf(rows, seed)' = CallersOf(rows, seed)
                      /\ PackedOf(rows, seed)' = PackedOf(rows, seed)
                      /\ ScaleOf(rows, seed)' = ScaleOf(rows, seed)
                      /\ AlphaOf(rows, seed)' = AlphaOf(rows, seed)
  BY ProductKept
<1>2. \A rows : Dead(rows)' <=> Dead(rows)
  BY Zenon DEF Dead
<1>3. device' = device => Nvfp4Operand(descriptor, device)' = Nvfp4Operand(descriptor, device)
  BY DEF Nvfp4Operand
<1>4. Operands(call)'
  BY <1>1, <1>3 DEF Answering, Operands, GemmSteps, LibrarySteps
<1>5. Answering(call)'
  BY <1>1, <1>2, <1>4, Zenon DEF Answering
<1>. QED BY <1>5 DEF AnswerOK

LEMMA AnswerStep ==
  ASSUME AnswerOK, UNCHANGED operator, Answering(call')
  PROVE  AnswerOK'
BY AnswerKept DEF AnswerOK, WeightIsSource, operator, uploadVars

\* The ways out of a call.
LEMMA EndedAnswers ==
  ASSUME NEW c, DOMAIN c = Fields, c.rows \in Nat, c.seed \in Nat, NEW why,
         why = "ok" /\ ~Dead(c.rows) => c.out = ProductOf(c.rows, c.seed)
  PROVE  Answering(Ended(c, why))
<1>. DEFINE e == Ended(c, why)
<1>1. e.step = "idle" /\ e.outcome = why /\ e.rows = c.rows /\ e.seed = c.seed /\ e.out = c.out
  BY FieldNames, Zenon DEF Ended
<1>. HIDE DEF e
<1>2. Operands(e)
  BY <1>1 DEF Operands, GemmSteps, LibrarySteps
<1>3. Answering(e)
  BY <1>1, <1>2 DEF Answering, ScaledSteps, GemmSteps, LibrarySteps
<1>. QED BY <1>3 DEF e

LEMMA FallingBackAnswers ==
  ASSUME NEW c, c.step = "fallback", c.rows \in Nat, c.seed \in Nat, c.outcome = "none",
         descriptor.family # "nvfp4"
  PROVE  Answering(c)
BY DEF Answering, Operands, ScaledSteps, GemmSteps, LibrarySteps

LEMMA UnservedAnswers ==
  ASSUME NEW c, DOMAIN c = Fields, c.rows \in Nat, c.seed \in Nat
  PROVE  Answering(Unserved(c))
<1>1. CASE descriptor.family = "nvfp4"
  BY <1>1, EndedAnswers DEF Unserved
<1>2. CASE descriptor.family # "nvfp4"
  <2>. DEFINE e == [Ended(c, "none") EXCEPT !.step = "fallback"]
  <2>1. e.step = "fallback" /\ e.outcome = "none" /\ e.rows = c.rows /\ e.seed = c.seed
    BY FieldNames, Zenon DEF Ended
  <2>. HIDE DEF e
  <2>2. Answering(e)
    BY <1>2, <2>1, FallingBackAnswers
  <2>. QED BY <1>2, <2>2 DEF Unserved, e
<1>. QED BY <1>1, <1>2

LEMMA InAnswer ==
  ASSUME Inv, AnswerOK, call.step # "idle"
  PROVE  /\ DOMAIN call = Fields /\ phase = "done" /\ descriptor.family \in Families
         /\ call.rows \in Nat /\ call.seed \in Nat /\ call.outcome = "none"
BY InCall DEF Inv, Created, AnswerOK, Answering

LEMMA AnswerInit == LinearInit => AnswerOK
<1>. SUFFICES ASSUME LinearInit PROVE AnswerOK
  OBVIOUS
<1>1. call.step = "idle" /\ call.rows \in Nat /\ call.seed \in Nat /\ call.outcome = "none" /\ phase = "check"
  BY DEF LinearInit, kIdle, Init
<1>. QED BY <1>1 DEF AnswerOK, WeightIsSource, Answering, Operands, ScaledSteps, GemmSteps, LibrarySteps

\* The weight of a created operator is what its source decodes to.
LEMMA CreationKeepsAnswers ==
  ASSUME Inv, AnswerOK, CreateHandle \/ CreateNvfp4 \/ CreateDense
  PROVE  AnswerOK'
<1>1. UNCHANGED <<descriptor, fastpath, call>>
  BY DEF CreateHandle, CreateNvfp4, CreateDense, uploadVars, Next, Reject, BeginSwizzle, SwizzleScale,
     SwizzleDone, AllocateAndCopy, UploadFails
<1>2. Answering(call')
  BY <1>1 DEF AnswerOK
<1>3. CASE CreateHandle
  BY <1>1, <1>2, <1>3, AnswerKept DEF CreateHandle, uploadVars, AnswerOK, WeightIsSource
<1>4. CASE CreateNvfp4
  <2>1. phase # "done"
    BY <1>4 DEF CreateNvfp4, Next, Reject, BeginSwizzle, SwizzleScale, SwizzleDone, AllocateAndCopy,
       UploadFails, After
  <2>2. call'.step = "idle"
    BY <1>1, <2>1 DEF Inv
  <2>3. WeightIsSource'
    BY <1>1, <1>4 DEF CreateNvfp4, WeightIsSource
  <2>. QED BY <1>1, <1>2, <2>2, <2>3, AnswerKept
<1>5. CASE CreateDense
  <2>1. Source(descriptor)' = Source(descriptor)
    BY <1>1
  <2>2. device' = device
    BY <1>5 DEF CreateDense
  <2>3. WeightIsSource'
    BY <1>1, <1>5, <2>1 DEF CreateDense, WeightIsSource, AnswerOK, Inv, Created
  <2>. QED BY <1>1, <1>2, <2>2, <2>3, AnswerKept
<1>. QED BY <1>3, <1>4, <1>5

LEMMA BegunFields ==
  ASSUME NEW rows, NEW seed, NEW outRows, NEW out
  PROVE  LET begun == Begun(rows, seed, outRows, out) IN
         /\ DOMAIN begun = Fields /\ begun.step = "idle" /\ begun.outcome = "none"
         /\ begun.rows = rows /\ begun.seed = seed /\ begun.alpha = 1
BY DEF Begun, kIdle, Fields

LEMMA RunAnswers == Inv /\ AnswerOK /\ Run => AnswerOK'
<1>. SUFFICES ASSUME Inv, AnswerOK, Run PROVE AnswerOK'
  OBVIOUS
<1>1. phase = "done" /\ UNCHANGED operator
  BY DEF Run
<1>2. PICK rows, seed, outRows, out :
        /\ rows \in (IF descriptor.family = "scaled_fp8" THEN ScaledRowCounts ELSE RowCounts)
        /\ seed \in Seeds
        /\ LET begun == Begun(rows, seed, outRows, out) IN
           RunDense(begun) \/ RunNvfp4(begun) \/ RunScaled(begun)
  BY ZenonT(60) DEF Run
<1>3. rows \in Nat /\ seed \in Nat
  BY <1>2, LinearAssumption
<1>. DEFINE begun == Begun(rows, seed, outRows, out)
<1>4. /\ DOMAIN begun = Fields /\ begun.step = "idle" /\ begun.outcome = "none"
      /\ begun.rows = rows /\ begun.seed = seed /\ begun.alpha = 1
  BY BegunFields
<1>. HIDE DEF begun
<1>5. Answering(Ended(begun, "plan")) /\ Answering(Ended(begun, "shape"))
  BY <1>3, <1>4, EndedAnswers
<1>6. CASE RunDense(begun)
  <2>. DEFINE next == [Planned(begun, "checks") EXCEPT !.b = dense]
              falling == [begun EXCEPT !.step = "fallback"]
  <2>1. descriptor.family = "dense" /\ dense = Source(descriptor)
    BY <1>1, <1>6 DEF RunDense, AnswerOK, WeightIsSource
  <2>2. /\ next.step = "checks" /\ next.rows = rows /\ next.seed = seed /\ next.outcome = "none"
        /\ next.plan = Plan(descriptor, rows) /\ next.b = dense /\ next.alpha = 1
    BY <1>4, FieldNames, Zenon DEF Planned
  <2>3. falling.step = "fallback" /\ falling.rows = rows /\ falling.seed = seed /\ falling.outcome = "none"
    BY <1>4, FieldNames, Zenon
  <2>4. call' = next \/ call' = falling
    BY <1>6, Zenon DEF RunDense
  <2>. HIDE DEF next, falling
  <2>5. Answering(falling)
    BY <1>3, <2>1, <2>3, FallingBackAnswers
  <2>6. Answering(next)
    BY <1>3, <2>1, <2>2 DEF Answering, Operands, LibrarySteps
  <2>. QED BY <1>1, <2>4, <2>5, <2>6, AnswerStep
<1>7. CASE RunNvfp4(begun)
  <2>. DEFINE next == Planned(begun, "pack")
  <2>1. descriptor.family = "nvfp4"
    BY <1>7 DEF RunNvfp4
  <2>2. /\ next.step = "pack" /\ next.rows = rows /\ next.seed = seed /\ next.outcome = "none"
        /\ next.plan = Plan(descriptor, rows)
    BY <1>4, FieldNames, Zenon DEF Planned
  <2>3. call' = next \/ call' = Ended(begun, "plan")
    BY <1>7, Zenon DEF RunNvfp4
  <2>. HIDE DEF next
  <2>4. rows \in RowCounts /\ seed \in Seeds
    BY <1>2, <2>1
  <2>5. Answering(next)
    BY <1>3, <2>1, <2>2, <2>4 DEF Answering, Operands, GemmSteps, LibrarySteps
  <2>. QED BY <1>1, <1>5, <2>3, <2>5, AnswerStep
<1>8. CASE RunScaled(begun)
  <2>. DEFINE next == [begun EXCEPT !.step = "download"]
  <2>1. descriptor.family = "scaled_fp8"
    BY <1>8 DEF RunScaled
  <2>2. next.step = "download" /\ next.rows = rows /\ next.seed = seed /\ next.outcome = "none"
    BY <1>4, FieldNames, Zenon
  <2>3. call' = next \/ call' = Ended(begun, "shape")
    BY <1>8, Zenon DEF RunScaled
  <2>. HIDE DEF next
  <2>4. Answering(next)
    BY <1>3, <2>1, <2>2 DEF Answering, Operands, ScaledSteps, GemmSteps, LibrarySteps
  <2>. QED BY <1>1, <1>5, <2>3, <2>4, AnswerStep
<1>. QED BY <1>2, <1>6, <1>7, <1>8 DEF begun

LEMMA PackAnswers == Inv /\ WeightOK /\ AnswerOK /\ PackActivations => AnswerOK'
<1>. SUFFICES ASSUME Inv, WeightOK, AnswerOK, PackActivations PROVE AnswerOK'
  OBVIOUS
<1>1. call.step = "pack" /\ UNCHANGED operator /\ descriptor.family = "nvfp4"
  BY InCall DEF PackActivations, CallOK
<1>2. DOMAIN call = Fields /\ call.rows \in Nat /\ call.seed \in Nat /\ call.outcome = "none"
  BY <1>1, InAnswer
<1>. DEFINE next == [call EXCEPT !.step = "checks", !.temps = {"packed"},
                                 !.a = PackedOf(call.rows, call.seed), !.scale = ScaleOf(call.rows, call.seed),
                                 !.b = Nvfp4Operand(descriptor, device)]
<1>3. call' = next \/ call' = Unserved(call)
  BY DEF PackActivations, PackedOf, ScaleOf, CallersOf, CallerActivations
<1>4. /\ next.step = "checks" /\ next.rows = call.rows /\ next.seed = call.seed /\ next.outcome = "none"
      /\ next.plan = call.plan /\ next.a = PackedOf(call.rows, call.seed)
      /\ next.b = Nvfp4Operand(descriptor, device) /\ next.scale = ScaleOf(call.rows, call.seed)
  BY <1>2, FieldNames, Zenon
<1>. HIDE DEF next
<1>5. call.plan = Plan(descriptor, call.rows)
  BY <1>1 DEF AnswerOK, Answering, Operands
<1>6. ScaleOf(call.rows, call.seed) \in Nat \ {0}
  <2>1. call.rows \in RowCounts /\ call.seed \in Seeds
    BY <1>1 DEF AnswerOK, Answering
  <2>2. descriptor \in Descriptors
    BY DEF WeightOK
  <2>. QED BY <1>1, <2>1, <2>2, TensorScaleAssumption DEF ScaleOf, CallersOf
<1>7. Answering(next)
  BY <1>1, <1>2, <1>4, <1>5, <1>6 DEF Answering, Operands, LibrarySteps
<1>. QED BY <1>1, <1>2, <1>3, <1>7, UnservedAnswers, AnswerStep

LEMMA DownloadAnswers == Inv /\ AnswerOK /\ DownloadActivations => AnswerOK'
<1>. SUFFICES ASSUME Inv, AnswerOK, DownloadActivations PROVE AnswerOK'
  OBVIOUS
<1>1. call.step = "download" /\ UNCHANGED operator
  BY DEF DownloadActivations
<1>2. DOMAIN call = Fields /\ call.rows \in Nat /\ call.seed \in Nat /\ call.outcome = "none"
  BY <1>1, InAnswer
<1>3. descriptor.family = "scaled_fp8"
  BY <1>1 DEF AnswerOK, Answering
<1>. DEFINE next == [call EXCEPT !.step = "stage", !.plan = Plan(descriptor, call.rows)]
            falling == [call EXCEPT !.step = "fallback"]
<1>4. call' = Ended(call, "copy") \/ call' = falling \/ (call' = next /\ fastpath /\ call.rows = 1)
  BY Zenon DEF DownloadActivations
<1>5. /\ next.step = "stage" /\ next.rows = call.rows /\ next.seed = call.seed /\ next.outcome = "none"
      /\ falling.step = "fallback" /\ falling.rows = call.rows /\ falling.seed = call.seed
      /\ falling.outcome = "none"
  BY <1>2, FieldNames, Zenon
<1>. HIDE DEF next, falling
<1>6. Answering(Ended(call, "copy")) /\ Answering(falling)
  BY <1>2, <1>3, <1>5, EndedAnswers, FallingBackAnswers
<1>7. ASSUME fastpath, call.rows = 1 PROVE Answering(next)
  <2>1. Dead(next.rows)
    BY <1>3, <1>5, <1>7, Zenon DEF Dead
  <2>. QED BY <1>2, <1>3, <1>5, <2>1 DEF Answering, Operands, GemmSteps, LibrarySteps
<1>8. Answering(call')
  BY <1>4, <1>6, <1>7, Zenon
<1>. QED BY <1>1, <1>8, AnswerStep

LEMMA StageAnswers == Inv /\ AnswerOK /\ StageTensors => AnswerOK'
<1>. SUFFICES ASSUME Inv, AnswerOK, StageTensors PROVE AnswerOK'
  OBVIOUS
<1>1. call.step = "stage" /\ UNCHANGED operator
  BY DEF StageTensors
<1>2. DOMAIN call = Fields /\ call.rows \in Nat /\ call.seed \in Nat /\ call.outcome = "none"
  BY <1>1, InAnswer
<1>3. descriptor.family = "scaled_fp8" /\ Dead(call.rows)
  BY <1>1 DEF AnswerOK, Answering, ScaledSteps
<1>4. CASE call' = Unserved(call)
  BY <1>1, <1>2, <1>4, UnservedAnswers, AnswerStep
<1>5. CASE call' # Unserved(call)
  <2>1. PICK c : call' = [call EXCEPT !.step = "upload", !.temps = {"activations", "output"},
                                      !.a = HostActivations, !.c = c]
    BY <1>5 DEF StageTensors
  <2>2. call'.step = "upload" /\ call'.rows = call.rows /\ call'.seed = call.seed /\ call'.outcome = "none"
    BY <1>2, <2>1, FieldNames, Zenon
  <2>3. Answering(call')
    BY <1>2, <1>3, <2>2 DEF Answering, Operands, GemmSteps, LibrarySteps
  <2>. QED BY <1>1, <2>3, AnswerStep
<1>. QED BY <1>4, <1>5

LEMMA UploadAnswers == Inv /\ AnswerOK /\ UploadTemporary => AnswerOK'
<1>. SUFFICES ASSUME Inv, AnswerOK, UploadTemporary PROVE AnswerOK'
  OBVIOUS
<1>1. call.step = "upload" /\ UNCHANGED operator
  BY DEF UploadTemporary
<1>2. DOMAIN call = Fields /\ call.rows \in Nat /\ call.seed \in Nat /\ call.outcome = "none"
  BY <1>1, InAnswer
<1>3. descriptor.family = "scaled_fp8" /\ Dead(call.rows)
  BY <1>1 DEF AnswerOK, Answering, ScaledSteps
<1>4. CASE call' = Unserved(call)
  BY <1>1, <1>2, <1>4, UnservedAnswers, AnswerStep
<1>5. CASE call' # Unserved(call)
  <2>1. PICK b : call' = [call EXCEPT !.step = "checks", !.b = b, !.temps = @ \cup {"weights"}]
    BY <1>5, Zenon DEF UploadTemporary
  <2>2. call'.step = "checks" /\ call'.rows = call.rows /\ call'.seed = call.seed /\ call'.outcome = "none"
    BY <1>2, <2>1, FieldNames, Zenon
  <2>3. Answering(call')
    BY <1>2, <1>3, <2>2 DEF Answering, Operands
  <2>. QED BY <1>1, <2>3, AnswerStep
<1>. QED BY <1>4, <1>5

LEMMA ChecksAnswers == Inv /\ AnswerOK /\ CheckOperands => AnswerOK'
<1>. SUFFICES ASSUME Inv, AnswerOK, CheckOperands PROVE AnswerOK'
  OBVIOUS
<1>1. call.step = "checks" /\ UNCHANGED operator
  BY DEF CheckOperands
<1>2. /\ DOMAIN call = Fields /\ call.rows \in Nat /\ call.seed \in Nat /\ call.outcome = "none"
      /\ descriptor.family \in Families
  BY <1>1, InAnswer
<1>3. CASE call' = Unserved(call)
  BY <1>1, <1>2, <1>3, UnservedAnswers, AnswerStep
<1>4. CASE call' # Unserved(call)
  <2>. DEFINE step == IF descriptor.family = "nvfp4" THEN "scales" ELSE "zero"
              a == IF descriptor.family = "dense" THEN CallerActivations ELSE call.a
  <2>1. call' = [call EXCEPT !.step = step, !.a = a]
    BY <1>4 DEF CheckOperands
  <2>. HIDE DEF step, a
  <2>2. /\ call'.step = step /\ call'.rows = call.rows /\ call'.seed = call.seed /\ call'.outcome = "none"
        /\ call'.plan = call.plan /\ call'.a = a /\ call'.b = call.b /\ call'.alpha = call.alpha
        /\ call'.scale = call.scale
    BY <1>2, <2>1, FieldNames, Zenon
  <2>3. CallerActivations = CallersOf(call.rows, call.seed)
    BY DEF CallerActivations, CallersOf
  <2>4. Operands(call')
    BY <1>1, <2>2, <2>3 DEF AnswerOK, Answering, Operands, GemmSteps, LibrarySteps, step, a
  <2>5. descriptor.family = "scaled_fp8" => Dead(call.rows)
    BY <1>1 DEF AnswerOK, Answering, ScaledSteps, GemmSteps
  <2>6. Answering(call')
    BY <1>2, <2>2, <2>4, <2>5 DEF Answering, step
  <2>. QED BY <1>1, <2>6, AnswerStep
<1>. QED BY <1>3, <1>4

LEMMA ScalesAnswers == Inv /\ WeightOK /\ AnswerOK /\ ReadTensorScales => AnswerOK'
<1>. SUFFICES ASSUME Inv, WeightOK, AnswerOK, ReadTensorScales PROVE AnswerOK'
  OBVIOUS
<1>1. call.step = "scales" /\ UNCHANGED operator /\ descriptor.family = "nvfp4"
  BY InCall DEF ReadTensorScales, CallOK
<1>2. DOMAIN call = Fields /\ call.rows \in Nat /\ call.seed \in Nat /\ call.outcome = "none"
  BY <1>1, InAnswer
<1>3. CASE call' = Unserved(call)
  BY <1>1, <1>2, <1>3, UnservedAnswers, AnswerStep
<1>4. CASE call' # Unserved(call)
  <2>1. call' = [call EXCEPT !.step = "zero", !.alpha = Alpha]
    BY <1>4 DEF ReadTensorScales
  <2>2. /\ call'.step = "zero" /\ call'.rows = call.rows /\ call'.seed = call.seed /\ call'.outcome = "none"
        /\ call'.plan = call.plan /\ call'.a = call.a /\ call'.b = call.b /\ call'.alpha = Alpha
        /\ call'.scale = call.scale
    BY <1>2, <2>1, FieldNames, Zenon
  <2>3. Alpha = AlphaOf(call.rows, call.seed)
    <3>1. phase = "done" /\ device.tensor_scale = <<descriptor.tensor_scale>>
      BY <1>1, InAnswer DEF WeightOK
    <3>2. call.scale = ScaleOf(call.rows, call.seed)
      BY <1>1 DEF AnswerOK, Answering, Operands, GemmSteps
    <3>. QED BY <3>1, <3>2 DEF Alpha, AlphaOf
  <2>4. Operands(call')
    BY <1>1, <2>2, <2>3 DEF AnswerOK, Answering, Operands, GemmSteps, LibrarySteps
  <2>5. Answering(call')
    BY <1>1, <1>2, <2>2, <2>4 DEF Answering
  <2>. QED BY <1>1, <2>5, AnswerStep
<1>. QED BY <1>3, <1>4

\* While the GEMM is described, its operands stay what they are; to give up is to have failed.
LEMMA LibraryStepAnswers ==
  ASSUME Inv, AnswerOK, call.step \in LibrarySteps, UNCHANGED operator,
         call'.rows = call.rows, call'.seed = call.seed, call'.outcome = call.outcome,
         call'.plan = call.plan, call'.a = call.a, call'.b = call.b, call'.alpha = call.alpha,
         call'.scale = call.scale,
         call'.step \in LibrarySteps \/ (call'.step = "destroy" /\ ~call'.ok)
  PROVE  AnswerOK'
<1>1. call.rows \in Nat /\ call.seed \in Nat /\ call.outcome = "none" /\ call.step \in GemmSteps
  BY InAnswer DEF LibrarySteps, GemmSteps
<1>2. descriptor.family = "scaled_fp8" => Dead(call.rows)
  BY <1>1 DEF AnswerOK, Answering, ScaledSteps
<1>3. CASE call'.step \in LibrarySteps
  <2>1. Operands(call')
    BY <1>1, <1>3 DEF AnswerOK, Answering, Operands, GemmSteps
  <2>2. call'.step \notin {"idle", "pack", "fallback", "download", "stage", "upload", "collect", "return",
                          "destroy"}
    BY <1>3 DEF LibrarySteps
  <2>3. Answering(call')
    BY <1>1, <1>2, <2>1, <2>2 DEF Answering
  <2>. QED BY <2>3, AnswerStep
<1>4. CASE call'.step = "destroy" /\ ~call'.ok
  <2>1. Operands(call')
    BY <1>4 DEF Operands, GemmSteps, LibrarySteps
  <2>2. call'.step = "destroy" /\ call'.outcome = "none" /\ call'.rows \in Nat /\ call'.seed \in Nat
    BY <1>1, <1>4
  <2>3. call'.step \notin {"idle", "fallback", "download", "stage", "upload", "collect", "return"}
        /\ call'.outcome # "ok"
    BY <2>2
  <2>4. Answering(call')
    BY <1>2, <1>4, <2>1, <2>2, <2>3, Zenon DEF Answering
  <2>. QED BY <2>4, AnswerStep
<1>. QED BY <1>3, <1>4, Zenon

LEMMA ZeroAnswers == Inv /\ AnswerOK /\ ZeroOutput => AnswerOK'
<1>. SUFFICES ASSUME Inv, AnswerOK, ZeroOutput PROVE AnswerOK'
  OBVIOUS
<1>1. call.step = "zero" /\ UNCHANGED operator
  BY DEF ZeroOutput
<1>2. DOMAIN call = Fields
  BY <1>1, InAnswer
<1>3. PICK data : call' \in { [Written(call, data) EXCEPT !.step = "describe"],
                              [call EXCEPT !.step = "describe", !.ok = FALSE] }
  BY DEF ZeroOutput
<1>4. /\ call'.step = "describe" /\ call'.rows = call.rows /\ call'.seed = call.seed
      /\ call'.outcome = call.outcome /\ call'.plan = call.plan /\ call'.a = call.a /\ call'.b = call.b
      /\ call'.alpha = call.alpha /\ call'.scale = call.scale
  <2>1. CASE call' = [Written(call, data) EXCEPT !.step = "describe"]
    BY <1>2, <2>1, FieldNames, Zenon DEF Written
  <2>2. CASE call' = [call EXCEPT !.step = "describe", !.ok = FALSE]
    BY <1>2, <2>2, FieldNames, Zenon
  <2>. QED BY <1>3, <2>1, <2>2
<1>. QED BY <1>1, <1>4, LibraryStepAnswers DEF LibrarySteps

LEMMA LibraryAnswers == Inv /\ AnswerOK /\ CallLibrary => AnswerOK'
<1>. SUFFICES ASSUME Inv, AnswerOK, CallLibrary PROVE AnswerOK'
  OBVIOUS
<1>1. call.step = "describe" /\ UNCHANGED operator
  BY DEF CallLibrary
<1>2. DOMAIN call = Fields
  BY <1>1, InAnswer
<1>3. PICK works, objects :
        call' = [call EXCEPT !.tried = call.tried + 1, !.ok = call.ok /\ works,
                             !.step = AfterCall(call.ok /\ works), !.objects = objects]
  BY Zenon DEF CallLibrary
<1>4. /\ call'.step = AfterCall(call.ok /\ works) /\ call'.rows = call.rows /\ call'.seed = call.seed
      /\ call'.outcome = call.outcome /\ call'.plan = call.plan /\ call'.a = call.a /\ call'.b = call.b
      /\ call'.alpha = call.alpha /\ call'.scale = call.scale /\ call'.ok = (call.ok /\ works)
  BY <1>2, <1>3, FieldNames, Zenon
<1>5. call'.step \in {"describe", "heuristic"} \/ (call'.step = "destroy" /\ ~(call.ok /\ works))
  BY <1>4, Zenon DEF AfterCall
<1>6. call'.step \in LibrarySteps \/ (call'.step = "destroy" /\ ~call'.ok)
  BY <1>4, <1>5, Zenon DEF LibrarySteps
<1>. QED BY <1>1, <1>4, <1>6, LibraryStepAnswers DEF LibrarySteps

LEMMA AlgorithmAnswers == Inv /\ AnswerOK /\ FindAlgorithm => AnswerOK'
<1>. SUFFICES ASSUME Inv, AnswerOK, FindAlgorithm PROVE AnswerOK'
  OBVIOUS
<1>1. call.step = "heuristic" /\ UNCHANGED operator
  BY DEF FindAlgorithm
<1>2. DOMAIN call = Fields
  BY <1>1, InAnswer
<1>3. CASE call' = [call EXCEPT !.step = "matmul"]
  <2>1. /\ call'.step = "matmul" /\ call'.rows = call.rows /\ call'.seed = call.seed
        /\ call'.outcome = call.outcome /\ call'.plan = call.plan /\ call'.a = call.a /\ call'.b = call.b
        /\ call'.alpha = call.alpha /\ call'.scale = call.scale
    BY <1>2, <1>3, FieldNames, Zenon
  <2>. QED BY <1>1, <2>1, LibraryStepAnswers DEF LibrarySteps
<1>4. CASE call' = [call EXCEPT !.step = "destroy", !.ok = FALSE]
  <2>1. /\ call'.step = "destroy" /\ call'.rows = call.rows /\ call'.seed = call.seed
        /\ call'.outcome = call.outcome /\ call'.plan = call.plan /\ call'.a = call.a /\ call'.b = call.b
        /\ call'.alpha = call.alpha /\ call'.scale = call.scale /\ ~call'.ok
    BY <1>2, <1>4, FieldNames, Zenon
  <2>. QED BY <1>1, <2>1, LibraryStepAnswers DEF LibrarySteps
<1>. QED BY <1>3, <1>4 DEF FindAlgorithm

\* A GEMM that is done has computed the product of what the call was for.
LEMMA MatmulAnswers == Inv /\ WeightOK /\ AnswerOK /\ Matmul => AnswerOK'
<1>. SUFFICES ASSUME Inv, WeightOK, AnswerOK, Matmul PROVE AnswerOK'
  OBVIOUS
<1>1. call.step = "matmul" /\ UNCHANGED operator
  BY DEF Matmul
<1>2. /\ DOMAIN call = Fields /\ phase = "done" /\ descriptor.family \in Families
      /\ call.rows \in Nat /\ call.seed \in Nat /\ call.outcome = "none"
  BY <1>1, InAnswer
<1>. DEFINE product == LibraryMatmul(call.plan, call.a, call.b, call.alpha)
            done == [Written(call, product) EXCEPT !.step = "destroy"]
<1>3. call.step \in GemmSteps /\ call.step \in LibrarySteps
  BY <1>1 DEF GemmSteps, LibrarySteps
<1>4. CASE call' = done
  <2>. HIDE DEF product
  <2>1. /\ done.step = "destroy" /\ done.rows = call.rows /\ done.seed = call.seed
        /\ done.outcome = call.outcome
        /\ descriptor.family # "scaled_fp8" => done.out = product
    BY <1>2, FieldNames, Zenon DEF Written
  <2>. HIDE DEF done
  <2>2. descriptor.family = "dense" => product = ProductOf(call.rows, call.seed)
    <3>. SUFFICES ASSUME descriptor.family = "dense" PROVE product = ProductOf(call.rows, call.seed)
      OBVIOUS
    <3>1. /\ call.plan = Plan(descriptor, call.rows) /\ call.b = Source(descriptor) /\ call.alpha = 1
          /\ call.a = CallersOf(call.rows, call.seed)
      BY <1>3 DEF AnswerOK, Answering, Operands
    <3>2. descriptor \in Descriptors /\ DenseUploadable(descriptor)
      BY <1>2 DEF WeightOK, Inv, Created
    <3>3. LibraryMatmul(Plan(descriptor, call.rows), CallersOf(call.rows, call.seed), Source(descriptor), 1)
          = ProductOf(call.rows, call.seed)
      BY <1>2, <3>2, DenseProduct
    <3>. QED BY <3>1, <3>3 DEF product
  <2>3. descriptor.family = "nvfp4" => product = ProductOf(call.rows, call.seed)
    <3>. SUFFICES ASSUME descriptor.family = "nvfp4" PROVE product = ProductOf(call.rows, call.seed)
      OBVIOUS
    <3>1. /\ call.plan = Plan(descriptor, call.rows) /\ call.alpha = AlphaOf(call.rows, call.seed)
          /\ ScaleOf(call.rows, call.seed) \in Nat \ {0}
          /\ call.a = PackedOf(call.rows, call.seed) /\ call.b = Nvfp4Operand(descriptor, device)
      BY <1>3 DEF AnswerOK, Answering, Operands
    <3>2. LibraryMatmul(Plan(descriptor, call.rows), PackedOf(call.rows, call.seed),
                        Nvfp4Operand(descriptor, device), AlphaOf(call.rows, call.seed))
          = ProductOf(call.rows, call.seed)
      BY <1>2, <3>1, Nvfp4Product
    <3>. QED BY <3>1, <3>2 DEF product
  <2>4. descriptor.family = "scaled_fp8" => Dead(call.rows)
    BY <1>3 DEF AnswerOK, Answering, ScaledSteps
  <2>5. Operands(done)
    BY <2>1 DEF Operands, GemmSteps, LibrarySteps
  <2>6. descriptor.family # "scaled_fp8" => done.out = ProductOf(call.rows, call.seed)
    BY <1>2, <2>1, <2>2, <2>3 DEF Families
  <2>7. Answering(done)
    BY <1>2, <2>1, <2>4, <2>5, <2>6 DEF Answering
  <2>. QED BY <1>1, <1>4, <2>7, AnswerStep
<1>5. CASE call' # done
  <2>1. PICK half : call' \in { [call EXCEPT !.step = "destroy", !.ok = FALSE],
                                [Written(call, half) EXCEPT !.step = "destroy", !.ok = FALSE] }
    BY <1>5, Zenon DEF Matmul
  <2>2. /\ call'.step = "destroy" /\ call'.rows = call.rows /\ call'.seed = call.seed
        /\ call'.outcome = call.outcome /\ call'.plan = call.plan /\ call'.a = call.a /\ call'.b = call.b
        /\ call'.alpha = call.alpha /\ call'.scale = call.scale /\ ~call'.ok
    <3>1. CASE call' = [call EXCEPT !.step = "destroy", !.ok = FALSE]
      BY <1>2, <3>1, FieldNames, Zenon
    <3>2. CASE call' = [Written(call, half) EXCEPT !.step = "destroy", !.ok = FALSE]
      BY <1>2, <3>2, FieldNames, Zenon DEF Written
    <3>. QED BY <2>1, <3>1, <3>2, Zenon
  <2>. QED BY <1>1, <1>3, <2>2, LibraryStepAnswers
<1>. QED BY <1>4, <1>5

\* A GEMM that failed is forgotten; the output of one that did not is the caller's tensor,
\* or is on its way there.
LEMMA DestroyAnswers == Inv /\ AnswerOK /\ DestroyObjects => AnswerOK'
<1>. SUFFICES ASSUME Inv, AnswerOK, DestroyObjects PROVE AnswerOK'
  OBVIOUS
<1>1. call.step = "destroy" /\ UNCHANGED operator
  BY DEF DestroyObjects
<1>2. DOMAIN call = Fields /\ call.rows \in Nat /\ call.seed \in Nat /\ call.outcome = "none"
  BY <1>1, InAnswer
<1>. DEFINE destroyed == [call EXCEPT !.objects = {}]
            collecting == [destroyed EXCEPT !.step = "collect"]
<1>3. /\ DOMAIN destroyed = Fields /\ destroyed.rows = call.rows /\ destroyed.seed = call.seed
      /\ destroyed.out = call.out
  BY <1>2, FieldNames, Zenon
<1>4. /\ collecting.step = "collect" /\ collecting.rows = call.rows /\ collecting.seed = call.seed
      /\ collecting.outcome = "none"
  BY <1>2, FieldNames, Zenon
<1>5. \/ call' = Unserved(destroyed)
      \/ call.ok /\ descriptor.family = "scaled_fp8" /\ call' = collecting
      \/ call.ok /\ descriptor.family # "scaled_fp8" /\ call' = Ended(destroyed, "ok")
  BY Zenon DEF DestroyObjects, Served
<1>6. call.ok /\ descriptor.family # "scaled_fp8" => call.out = ProductOf(call.rows, call.seed)
  BY <1>1, Zenon DEF AnswerOK, Answering
<1>7. descriptor.family = "scaled_fp8" => Dead(call.rows)
  BY <1>1 DEF AnswerOK, Answering, ScaledSteps
<1>. HIDE DEF destroyed, collecting
<1>8. Answering(Unserved(destroyed))
  BY <1>2, <1>3, UnservedAnswers
<1>9. ASSUME descriptor.family = "scaled_fp8" PROVE Answering(collecting)
  BY <1>2, <1>4, <1>7, <1>9 DEF Answering, Operands, GemmSteps, LibrarySteps
<1>10. ASSUME call.ok, descriptor.family # "scaled_fp8" PROVE Answering(Ended(destroyed, "ok"))
  <2>1. destroyed.out = ProductOf(destroyed.rows, destroyed.seed)
    BY <1>3, <1>6, <1>10, Zenon
  <2>. QED BY <1>2, <1>3, <2>1, EndedAnswers
<1>11. Answering(call')
  BY <1>5, <1>8, <1>9, <1>10, Zenon
<1>. QED BY <1>1, <1>11, AnswerStep

LEMMA CollectAnswers == Inv /\ AnswerOK /\ CollectOutput => AnswerOK'
<1>. SUFFICES ASSUME Inv, AnswerOK, CollectOutput PROVE AnswerOK'
  OBVIOUS
<1>1. call.step = "collect" /\ UNCHANGED operator
  BY DEF CollectOutput
<1>2. DOMAIN call = Fields /\ call.rows \in Nat /\ call.seed \in Nat /\ call.outcome = "none"
  BY <1>1, InAnswer
<1>3. descriptor.family = "scaled_fp8" /\ Dead(call.rows)
  BY <1>1 DEF AnswerOK, Answering, ScaledSteps
<1>. DEFINE next == [call EXCEPT !.step = "return", !.temps = {}]
<1>4. next.step = "return" /\ next.rows = call.rows /\ next.seed = call.seed /\ next.outcome = "none"
  BY <1>2, FieldNames, Zenon
<1>5. call' = next \/ call' = Unserved(call)
  BY DEF CollectOutput
<1>. HIDE DEF next
<1>6. Answering(next)
  BY <1>2, <1>3, <1>4 DEF Answering, Operands, GemmSteps, LibrarySteps
<1>. QED BY <1>1, <1>2, <1>5, <1>6, UnservedAnswers, AnswerStep

\* What is uploaded to the caller's tensor is its content only if the upload succeeds.
LEMMA UploadedAnswers ==
  ASSUME Inv, AnswerOK, call.step # "idle", NEW data, NEW next \in Upload(data),
         Dead(call.rows) \/ data = ProductOf(call.rows, call.seed)
  PROVE  Answering(next)
<1>1. DOMAIN call = Fields /\ call.rows \in Nat /\ call.seed \in Nat
  BY InAnswer
<1>. DEFINE full == [call EXCEPT !.out = data]
            part == [call EXCEPT !.out[0] = data[0]]
<1>2. next \in {Ended(call, "shape"), Ended(full, "ok"), Ended(call, "copy"), Ended(part, "copy")}
  BY Zenon DEF Upload
<1>3. /\ DOMAIN full = Fields /\ full.rows = call.rows /\ full.seed = call.seed /\ full.out = data
      /\ DOMAIN part = Fields /\ part.rows = call.rows /\ part.seed = call.seed
  BY <1>1, FieldNames, Zenon
<1>. HIDE DEF full, part
<1>4. Answering(Ended(full, "ok"))
  <2>1. ~Dead(full.rows) => full.out = ProductOf(full.rows, full.seed)
    BY <1>3, Zenon
  <2>. QED BY <1>1, <1>3, <2>1, EndedAnswers
<1>5. Answering(Ended(part, "copy")) /\ Answering(Ended(call, "copy")) /\ Answering(Ended(call, "shape"))
  BY <1>1, <1>3, EndedAnswers
<1>. QED BY <1>2, <1>4, <1>5

LEMMA ReturnAnswers == Inv /\ AnswerOK /\ ReturnOutput => AnswerOK'
<1>. SUFFICES ASSUME Inv, AnswerOK, ReturnOutput PROVE AnswerOK'
  OBVIOUS
<1>1. call.step = "return" /\ UNCHANGED operator /\ call' \in Upload(call.c)
  BY DEF ReturnOutput
<1>2. Dead(call.rows)
  BY <1>1 DEF AnswerOK, Answering, ScaledSteps
<1>3. Answering(call')
  BY <1>1, <1>2, UploadedAnswers
<1>. QED BY <1>1, <1>3, AnswerStep

LEMMA FallbackAnswers == Inv /\ AnswerOK /\ Fallback => AnswerOK'
<1>. SUFFICES ASSUME Inv, AnswerOK, Fallback PROVE AnswerOK'
  OBVIOUS
<1>1. call.step = "fallback" /\ UNCHANGED operator
  BY DEF Fallback
<1>2. /\ DOMAIN call = Fields /\ call.rows \in Nat /\ call.seed \in Nat /\ phase = "done"
      /\ descriptor.family \in Families
  BY <1>1, InAnswer
<1>3. descriptor.family # "nvfp4"
  BY <1>1 DEF AnswerOK, Answering
<1>. DEFINE computed(weights) == CpuMatmul(HostActivations, call.rows, weights,
                                           descriptor.output_rows, descriptor.input_cols)
<1>4. computed(Source(descriptor)) = ProductOf(call.rows, call.seed)
  <2>1. HostActivations = HostOf(call.rows, call.seed)
    BY DEF HostActivations, HostOf, CallerActivations, CallersOf
  <2>. QED BY <1>3, <2>1, CpuProduct
<1>5. CASE call' \in Upload(computed(Source(descriptor)))
  <2>. HIDE DEF computed
  <2>1. Answering(call')
    BY <1>1, <1>4, <1>5, UploadedAnswers
  <2>. QED BY <1>1, <2>1, AnswerStep
<1>6. CASE call' = Ended(call, "decode") \/ call' = Ended(call, "copy")
  BY <1>1, <1>2, <1>6, EndedAnswers, AnswerStep
<1>7. descriptor.family = "scaled_fp8" => call' \in Upload(computed(Source(descriptor)))
  <2>1. descriptor.family = "scaled_fp8" => hostWeight = Source(descriptor)
    BY <1>2 DEF AnswerOK, WeightIsSource
  <2>2. descriptor.family = "scaled_fp8" => call' \in Upload(computed(hostWeight))
    BY DEF Fallback
  <2>. HIDE DEF computed
  <2>. QED BY <2>1, <2>2
<1>8. descriptor.family = "dense" =>
        \/ call' = Ended(call, "decode") \/ call' = Ended(call, "copy")
        \/ call' \in Upload(computed(Source(descriptor)))
  <2>1. descriptor.family = "dense" => Decoded(descriptor) = Source(descriptor)
    BY DEF Source
  <2>2. descriptor.family = "dense" =>
          \/ call' = Ended(call, "decode") \/ call' = Ended(call, "copy")
          \/ call' \in Upload(computed(Decoded(descriptor)))
    BY DEF Fallback
  <2>. HIDE DEF computed
  <2>. QED BY <2>1, <2>2
<1>. QED BY <1>2, <1>3, <1>5, <1>6, <1>7, <1>8 DEF Families

LEMMA AnswerNext == Inv /\ WeightOK /\ AnswerOK /\ [LinearNext]_linearVars => AnswerOK'
<1>. SUFFICES ASSUME Inv, WeightOK, AnswerOK, [LinearNext]_linearVars PROVE AnswerOK'
  OBVIOUS
<1>1. CASE UNCHANGED linearVars
  BY <1>1, AnswerStep DEF linearVars, AnswerOK
<1>2. CASE LinearNext
  BY <1>2, CreationKeepsAnswers, RunAnswers, PackAnswers, DownloadAnswers, StageAnswers, UploadAnswers,
     ChecksAnswers, ScalesAnswers, ZeroAnswers, LibraryAnswers, AlgorithmAnswers, MatmulAnswers,
     DestroyAnswers, CollectAnswers, ReturnAnswers, FallbackAnswers
     DEF LinearNext, Continue
<1>. QED BY <1>1, <1>2

LEMMA AnswerAlways == LinearSpec => []AnswerOK
<1>1. Inv /\ WeightOK /\ AnswerOK /\ [LinearNext]_linearVars => AnswerOK'
  BY AnswerNext
<1>. QED BY AnswerInit, InvAlways, WeightOKAlways, <1>1, PTL DEF LinearSpec

-----------------------------------------------------------------------------
(* The operator's theorems *)

\* Whichever call of CUDA or cuBLASLt fails, between calls no library object and no tensor
\* of a call is left, and what could not be created has left nothing.
THEOREM NothingEverLeaks ==
  LinearSpec => []NothingLeaks
<1>1. Inv => NothingLeaks
  BY DEF Inv, Holds, CallOK, NothingLeaks
<1>. QED BY <1>1, InvAlways, PTL

\* A dense or scaled operator that could be created always answers: a run of it fails only
\* over a copy or over the output tensor it was given.
THEOREM FallbackAlwaysServes ==
  LinearSpec => []FallbackServes
<1>1. Inv => FallbackServes
  BY DEF Inv, CallOK, FallbackServes
<1>. QED BY <1>1, InvAlways, PTL

\* Whatever fails, a weight that is on the device has every block scale of the checkpoint where
\* the GEMM looks for it, for every shape and every tile size, and zeros around them.
THEOREM ScalesUploadedInPlace ==
  LinearSpec => []UploadedScalesInPlace
<1>1. ASSUME Inv, WeightOK, descriptor.is_nvfp4, phase = "done" PROVE UploadedScalesInPlace
  <2>. DEFINE d == descriptor
             scales == device.matmul_block_scales
             places == {ScaleOffset(r, b, Padded(d)) : r \in 0..d.output_rows - 1,
                                                      b \in 0..BlocksPerRow(d.input_cols) - 1}
  <2>1. d \in Descriptors /\ d.family = "nvfp4"
    BY <1>1, LinearAssumption, Zenon DEF WeightOK
  <2>2. /\ Uploadable(d) /\ device.block_scales = RowMajorScales(d)
        /\ Moved(d, Scales(d), scales)
    BY <1>1, <2>1 DEF WeightOK
  <2>3. Scales(d) \in Nat /\ d.block_scales_nbytes = Scales(d)
    BY <2>1, <2>2, UploadableIs
  <2>. HIDE DEF d, scales
  <2>4. ASSUME NEW r \in 0..d.output_rows - 1, NEW b \in 0..BlocksPerRow(d.input_cols) - 1
        PROVE  scales[ScaleOffset(r, b, Padded(d))] = device.block_scales[r * BlocksPerRow(d.input_cols) + b]
    <3>. DEFINE s == r * BlocksPerRow(d.input_cols) + b
    <3>1. s \in 0..Scales(d) - 1 /\ Place(d, s) = ScaleOffset(r, b, Padded(d))
      BY <2>1, <2>2, ScaleOfBlock DEF Place
    <3>. HIDE DEF s
    <3>2. scales[Place(d, s)] = s + 1
      BY <2>2, <3>1 DEF Moved
    <3>3. RowMajorScales(d)[s] = s + 1
      BY <2>3, <3>1 DEF RowMajorScales
    <3>. QED BY <2>2, <3>1, <3>2, <3>3 DEF s
  <2>5. ASSUME NEW o \in DOMAIN scales \ places
        PROVE  scales[o] = 0
    <3>1. ASSUME NEW s \in 0..Scales(d) - 1 PROVE Place(d, s) \in places
      BY <2>1, <2>2, RowAndBlock DEF Place
    <3>. HIDE DEF places
    <3>2. \A s \in 0..Scales(d) - 1 : Place(d, s) # o
      BY <2>5, <3>1
    <3>. QED BY <2>2, <3>2 DEF Moved
  <2>. QED BY <2>4, <2>5 DEF UploadedScalesInPlace, d, scales, Padded, Blocks
<1>2. ~(descriptor.is_nvfp4 /\ phase = "done") => UploadedScalesInPlace
  BY ONLY SMT DEF UploadedScalesInPlace
<1>3. Inv /\ WeightOK => UploadedScalesInPlace
  BY <1>1, <1>2, Zenon
<1>. QED BY <1>3, InvAlways, WeightOKAlways, PTL

\* A run that reports success has computed the product: activations as the format keeps them,
\* times the weight transposed, whichever path computed it and whatever failed before, for every
\* weight, batch and content of the output tensor; except where the weight may have been read
\* through a descriptor that is gone (UploadedLinearOp::Run, ScaledFp8LinearOp::Run).
THEOREM RunsComputeTheProduct ==
  LinearSpec => []SuccessIsProduct
<1>1. AnswerOK => SuccessIsProduct
  BY ProductIs, Zenon DEF AnswerOK, Answering, SuccessIsProduct, MayUseDeadDescriptor, Dead
<1>. QED BY <1>1, AnswerAlways, PTL

LEMMA LeastNatural ==
  ASSUME NEW T \in SUBSET Nat, T # {}
  PROVE  \E x \in T : \A y \in T : x <= y
<1>1. PICK x \in T : \A y \in T : ~(<<y, x>> \in OpToRel(<, Nat))
  BY NatLessThanWellFounded, WFMin
<1>2. \A y \in T : ~(y < x)
  BY <1>1 DEF OpToRel
<1>. QED BY <1>2

LEMMA FirstNaturals ==
  ASSUME NEW n \in Nat
  PROVE  IsFiniteSet(0 .. n - 1) /\ Cardinality(0 .. n - 1) = n
<1>1. IsFiniteSet(0 .. n - 1) /\ Cardinality(0 .. n - 1) = (IF 0 > n - 1 THEN 0 ELSE n - 1 - 0 + 1)
  BY FS_Interval
<1>. QED BY <1>1

-----------------------------------------------------------------------------
(* The expert layer: ranking *)

\* s ranks k of the indices: no two alike, in decreasing order, none passed over for a worse one.
RanksBest(s, scores, k) ==
  /\ s \in [1 .. k -> DOMAIN scores]
  /\ IsInjective(s)
  /\ \A a, b \in 1 .. k : a < b => scores[s[a]] >= scores[s[b]]
  /\ \A x \in Range(s), e \in DOMAIN scores \ Range(s) : scores[x] >= scores[e]

LEMMA RankedRanks ==
  ASSUME NEW scores, \A e \in DOMAIN scores : scores[e] \in Int,
         NEW k \in Nat, NEW s \in Ranked(scores, k)
  PROVE  RanksBest(s, scores, k)
<1>1. /\ s \in [1 .. k -> DOMAIN scores] /\ IsInjective(s)
      /\ \A i \in 1 .. k - 1 : scores[s[i]] >= scores[s[i + 1]]
      /\ \A e \in DOMAIN scores \ Range(s) : k > 0 => scores[e] <= scores[s[k]]
  BY DEF Ranked
<1>. DEFINE v(i) == scores[s[i]]
<1>2. \A i \in 1 .. k : v(i) \in Int
  BY <1>1
<1>3. \A i \in 1 .. k - 1 : v(i) >= v(i + 1)
  BY <1>1
<1>. HIDE DEF v
<1>4. \A a, b \in 1 .. k : a < b => v(a) >= v(b)
  <2>. DEFINE T == {b \in 1 .. k : \E a \in 1 .. k : a < b /\ ~(v(a) >= v(b))}
  <2>1. SUFFICES ASSUME T # {} PROVE FALSE
    OBVIOUS
  <2>2. PICK b \in T : \A y \in T : b <= y
    <3>1. T \in SUBSET Nat
      OBVIOUS
    <3>. HIDE DEF T
    <3>. QED BY ONLY <2>1, <3>1, LeastNatural
  <2>3. PICK a \in 1 .. k : a < b /\ ~(v(a) >= v(b))
    BY <2>2
  <2>4. b \in 1 .. k /\ b - 1 \in 1 .. k - 1 /\ b - 1 \notin T
    BY <2>2, <2>3
  <2>5. v(b - 1) >= v(b)
    <3>1. (b - 1) + 1 = b
      BY <2>4
    <3>. QED BY <1>3, <2>4, <3>1
  <2>6. a = b - 1 \/ a < b - 1
    BY <2>3, <2>4
  <2>7. v(a) >= v(b - 1)
    BY <1>2, <2>4, <2>6
  <2>. HIDE DEF T
  <2>8. v(a) \in Int /\ v(b) \in Int /\ v(b - 1) \in Int
    BY <1>2, <2>3, <2>4
  <2>. QED BY <2>3, <2>5, <2>7, <2>8
<1>5. ASSUME NEW x \in Range(s), NEW e \in DOMAIN scores \ Range(s) PROVE scores[x] >= scores[e]
  <2>1. PICK a \in 1 .. k : x = s[a]
    BY <1>1 DEF Range
  <2>2. v(k) >= scores[e] /\ k \in 1 .. k /\ scores[e] \in Int
    BY <1>1, <2>1 DEF v
  <2>3. v(a) >= v(k)
    BY <1>2, <1>4, <2>1, <2>2
  <2>4. v(a) >= scores[e]
    BY <1>2, <2>1, <2>2, <2>3
  <2>. QED BY <2>1, <2>4 DEF v
<1>. QED BY <1>1, <1>4, <1>5 DEF RanksBest, v

LEMMA InjectiveCounts ==
  ASSUME NEW S, IsFiniteSet(S), NEW T, NEW s \in [S -> T], IsInjective(s)
  PROVE  IsFiniteSet(Range(s)) /\ Cardinality(Range(s)) = Cardinality(S)
<1>1. s \in [S -> Range(s)] /\ \A y \in Range(s) : \E x \in S : s[x] = y
  BY DEF Range
<1>2. s \in Bijection(S, Range(s))
  BY <1>1 DEF IsInjective, Bijection, Injection, Surjection
<1>3. ExistsBijection(S, Range(s))
  BY <1>2 DEF ExistsBijection
<1>. QED BY <1>3, FS_Bijection

-----------------------------------------------------------------------------
(* The two best of a group *)

\* top is the best of the first n values and the best of the others, if there are any.
AreTopTwo(top, values, n) ==
  \E i \in 0 .. n - 1 :
    /\ values[i] = top[1]
    /\ \A l \in 0 .. n - 1 : values[l] <= top[1]
    /\ \A l \in 0 .. n - 1 : l # i => values[l] <= top[2]
    /\ IF n = 1 THEN top[2] = kMinusInfinity
       ELSE \E j \in 0 .. n - 1 : j # i /\ values[j] = top[2]

\* One turn of the loop.
Improved(top, v) ==
  IF v > top[1] THEN <<v, top[1]>> ELSE IF v > top[2] THEN <<top[1], v>> ELSE top

Scans(f, values, n) ==
  f = [i \in 0 .. n |-> IF i = 0 THEN <<kMinusInfinity, kMinusInfinity>>
                        ELSE Improved(f[i - 1], values[i - 1])]

LEMMA ScanExists ==
  ASSUME NEW values
  PROVE  \A n \in Nat : \E f : Scans(f, values, n)
<1>. DEFINE T == {n \in Nat : ~\E f : Scans(f, values, n)}
            none == <<kMinusInfinity, kMinusInfinity>>
<1>1. SUFFICES ASSUME T # {} PROVE FALSE
  OBVIOUS
<1>2. PICK n \in T : \A y \in T : n <= y
  BY <1>1, LeastNatural
<1>3. CASE n = 0
  <2>. DEFINE f == [i \in 0 .. 0 |-> none]
  <2>1. f = [i \in 0 .. 0 |-> IF i = 0 THEN none ELSE Improved(f[i - 1], values[i - 1])]
    OBVIOUS
  <2>2. Scans(f, values, n)
    BY <2>1, <1>3 DEF Scans
  <2>. QED BY <2>2, <1>2
<1>4. CASE n # 0
  <2>1. n \in Nat /\ n - 1 \in Nat /\ n - 1 \notin T
    BY <1>2, <1>4
  <2>2. PICK g : Scans(g, values, n - 1)
    BY <2>1
  <2>. DEFINE next == Improved(g[n - 1], values[n - 1])
              f == [i \in 0 .. n |-> IF i = n THEN next ELSE g[i]]
              F(i) == IF i = 0 THEN none ELSE Improved(f[i - 1], values[i - 1])
              G(i) == IF i = 0 THEN none ELSE Improved(g[i - 1], values[i - 1])
  <2>3. \A i \in 0 .. n - 1 : f[i] = g[i]
    BY <2>1
  <2>4. \A i \in 0 .. n - 1 : g[i] = G(i)
    <3>1. g = [i \in 0 .. n - 1 |-> G(i)]
      BY <2>2, Zenon DEF Scans
    <3>. HIDE DEF G
    <3>. QED BY <3>1, Zenon
  <2>5. ASSUME NEW i \in 0 .. n PROVE f[i] = F(i)
    <3>1. CASE i = n
      <4>1. f[i] = next /\ n - 1 \in 0 .. n - 1 /\ i # 0
        <5>. HIDE DEF next
        <5>. QED BY <3>1, <2>1
      <4>2. f[i - 1] = g[n - 1]
        BY <4>1, <3>1, <2>3
      <4>. HIDE DEF f
      <4>. QED BY <4>1, <4>2, <3>1, Zenon
    <3>2. CASE i # n
      <4>1. i \in 0 .. n - 1 /\ (i # 0 => i - 1 \in 0 .. n - 1)
        BY <3>2, <2>1
      <4>2. f[i] = g[i] /\ (i # 0 => f[i - 1] = g[i - 1]) /\ g[i] = G(i)
        BY <4>1, <2>3, <2>4
      <4>. HIDE DEF f
      <4>. QED BY <4>2, Zenon
    <3>. QED BY <3>1, <3>2
  <2>6. f = [i \in 0 .. n |-> f[i]]
    OBVIOUS
  <2>7. [i \in 0 .. n |-> f[i]] = [i \in 0 .. n |-> F(i)]
    <3>. HIDE DEF f, F
    <3>. QED BY <2>5, Zenon
  <2>8. f = [i \in 0 .. n |-> F(i)]
    BY <2>6, <2>7, Zenon
  <2>9. Scans(f, values, n)
    <3>. HIDE DEF f
    <3>. QED BY <2>8, Zenon DEF Scans
  <2>. QED BY <2>9, <1>2
<1>. QED BY <1>3, <1>4

LEMMA TopTwoScans ==
  ASSUME NEW values, NEW n \in Nat
  PROVE  \E f : Scans(f, values, n) /\ TopTwo(values, n) = f[n]
<1>1. PICK g : Scans(g, values, n)
  BY ScanExists
<1>. DEFINE f == CHOOSE h : Scans(h, values, n)
<1>2. Scans(f, values, n)
  BY <1>1
<1>3. TopTwo(values, n) = f[n]
  BY Zenon DEF TopTwo, Scans, Improved
<1>. QED BY <1>2, <1>3

LEMMA TopTwoImproved ==
  ASSUME NEW n \in Nat \ {0}, NEW values, \A i \in 0 .. n : values[i] \in Int,
         NEW a \in Int, NEW b \in Int, AreTopTwo(<<a, b>>, values, n), b <= a,
         values[n] > kMinusInfinity
  PROVE  LET top == Improved(<<a, b>>, values[n]) IN
         AreTopTwo(top, values, n + 1) /\ top = <<top[1], top[2]>>
         /\ top[1] \in Int /\ top[2] \in Int /\ top[2] <= top[1]
<1>1. PICK i \in 0 .. n - 1 :
        /\ values[i] = a
        /\ \A l \in 0 .. n - 1 : values[l] <= a
        /\ \A l \in 0 .. n - 1 : l # i => values[l] <= b
        /\ IF n = 1 THEN b = kMinusInfinity ELSE \E j \in 0 .. n - 1 : j # i /\ values[j] = b
  BY DEF AreTopTwo
<1>2. (n + 1) - 1 = n /\ n + 1 # 1 /\ i \in 0 .. n /\ n \in 0 .. n /\ i # n /\ values[n] \in Int
  OBVIOUS
<1>3. \A l \in 0 .. n : l = n \/ l \in 0 .. n - 1
  OBVIOUS
<1>4. CASE values[n] > a
  <2>1. Improved(<<a, b>>, values[n]) = <<values[n], a>>
    BY <1>4 DEF Improved
  <2>2. \A l \in 0 .. n : values[l] <= values[n] /\ (l # n => values[l] <= a)
    BY <1>1, <1>2, <1>3, <1>4
  <2>3. AreTopTwo(<<values[n], a>>, values, n + 1)
    BY <1>1, <1>2, <2>2 DEF AreTopTwo
  <2>. QED BY <2>1, <2>3, <1>2, <1>4
<1>5. CASE ~(values[n] > a) /\ values[n] > b
  <2>1. Improved(<<a, b>>, values[n]) = <<a, values[n]>>
    BY <1>5 DEF Improved
  <2>2. \A l \in 0 .. n : values[l] <= a /\ (l # i => values[l] <= values[n])
    BY <1>1, <1>2, <1>3, <1>5
  <2>3. AreTopTwo(<<a, values[n]>>, values, n + 1)
    BY <1>1, <1>2, <2>2 DEF AreTopTwo
  <2>. QED BY <2>1, <2>3, <1>2, <1>5
<1>6. CASE ~(values[n] > a) /\ ~(values[n] > b)
  <2>1. Improved(<<a, b>>, values[n]) = <<a, b>>
    BY <1>6 DEF Improved
  <2>2. \A l \in 0 .. n : values[l] <= a /\ (l # i => values[l] <= b)
    BY <1>1, <1>2, <1>3, <1>6
  <2>3. n # 1
    BY <1>1, <1>2, <1>6 DEF kMinusInfinity
  <2>4. PICK j \in 0 .. n - 1 : j # i /\ values[j] = b
    BY <1>1, <2>3
  <2>5. j \in 0 .. n
    OBVIOUS
  <2>6. AreTopTwo(<<a, b>>, values, n + 1)
    BY <1>1, <1>2, <2>2, <2>4, <2>5 DEF AreTopTwo
  <2>. QED BY <2>1, <2>6
<1>. QED BY <1>4, <1>5, <1>6

\* What one pass finds are the two best.
LEMMA TopTwoAre ==
  ASSUME NEW n \in Nat \ {0}, NEW values,
         \A i \in 0 .. n - 1 : values[i] \in Int /\ values[i] > kMinusInfinity
  PROVE  AreTopTwo(TopTwo(values, n), values, n)
<1>1. PICK f : Scans(f, values, n) /\ TopTwo(values, n) = f[n]
  BY TopTwoScans
<1>2. f[0] = <<kMinusInfinity, kMinusInfinity>>
      /\ \A i \in 1 .. n : f[i] = Improved(f[i - 1], values[i - 1])
  <2>. DEFINE F(i) == IF i = 0 THEN <<kMinusInfinity, kMinusInfinity>> ELSE Improved(f[i - 1], values[i - 1])
  <2>1. f = [i \in 0 .. n |-> F(i)]
    BY <1>1, Zenon DEF Scans
  <2>2. \A i \in 0 .. n : f[i] = F(i)
    <3>. HIDE DEF F
    <3>. QED BY <2>1, Zenon
  <2>3. 0 \in 0 .. n /\ \A i \in 1 .. n : i \in 0 .. n /\ i # 0
    OBVIOUS
  <2>. QED BY <2>2, <2>3, Zenon
<1>. DEFINE Good(k) == /\ AreTopTwo(f[k], values, k)
                       /\ f[k] = <<f[k][1], f[k][2]>>
                       /\ f[k][1] \in Int /\ f[k][2] \in Int /\ f[k][2] <= f[k][1]
            T == {k \in 1 .. n : ~Good(k)}
<1>3. Good(1)
  <2>1. f[1] = Improved(f[0], values[0]) /\ values[0] \in Int /\ values[0] > kMinusInfinity
    <3>1. 1 \in 1 .. n /\ 1 - 1 = 0 /\ 0 \in 0 .. n - 1
      OBVIOUS
    <3>. QED BY <1>2, <3>1
  <2>2. f[1] = <<values[0], kMinusInfinity>>
    BY <1>2, <2>1 DEF Improved
  <2>3. AreTopTwo(<<values[0], kMinusInfinity>>, values, 1)
    <3>1. 0 .. 1 - 1 = {0}
      OBVIOUS
    <3>. QED BY <2>1, <3>1 DEF AreTopTwo
  <2>. QED BY <2>1, <2>2, <2>3 DEF kMinusInfinity
<1>4. T = {}
  <2>1. SUFFICES ASSUME T # {} PROVE FALSE
    OBVIOUS
  <2>2. PICK k \in T : \A y \in T : k <= y
    <3>1. T \in SUBSET Nat
      OBVIOUS
    <3>. HIDE DEF T
    <3>. QED BY ONLY <2>1, <3>1, LeastNatural
  <2>3. k \in 1 .. n /\ ~Good(k)
    BY <2>2
  <2>4. k # 1
    BY <1>3, <2>3
  <2>5. k - 1 \in 1 .. n /\ k - 1 \notin T
    BY <2>2, <2>3, <2>4
  <2>6. Good(k - 1)
    BY <2>5
  <2>. HIDE DEF T
  <2>7. /\ k - 1 \in Nat \ {0} /\ (k - 1) + 1 = k
        /\ \A i \in 0 .. k - 1 : values[i] \in Int
        /\ values[k - 1] > kMinusInfinity
    BY <2>3, <2>5
  <2>8. PICK a, b : a = f[k - 1][1] /\ b = f[k - 1][2]
    OBVIOUS
  <2>9. f[k - 1] = <<a, b>> /\ a \in Int /\ b \in Int /\ b <= a /\ AreTopTwo(<<a, b>>, values, k - 1)
    BY <2>6, <2>8
  <2>10. f[k] = Improved(<<a, b>>, values[k - 1])
    BY <1>2, <2>3, <2>9
  <2>11. Good(k)
    <3>. DEFINE top == Improved(<<a, b>>, values[k - 1])
    <3>1. AreTopTwo(top, values, (k - 1) + 1) /\ top = <<top[1], top[2]>>
          /\ top[1] \in Int /\ top[2] \in Int /\ top[2] <= top[1]
      BY <2>7, <2>9, TopTwoImproved
    <3>. HIDE DEF top
    <3>2. f[k] = top
      BY <2>10 DEF top
    <3>. QED BY <2>7, <3>1, <3>2
  <2>. QED BY <2>3, <2>11
<1>5. Good(n)
  <2>1. n \in 1 .. n
    OBVIOUS
  <2>. HIDE DEF Good
  <2>. QED BY <1>4, <2>1
<1>. QED BY <1>1, <1>5

-----------------------------------------------------------------------------
(* Groups of experts *)

ConfigOK(c) ==
  /\ ConfigValid(c)
  /\ {c.n_routed_experts, c.n_group, c.topk_group, c.top_k} \subseteq Nat

\* The groups are consecutive blocks of the same size.
LEMMA GroupsAreBlocks ==
  ASSUME NEW c, ConfigOK(c)
  PROVE  /\ GroupSize(c) \in Nat \ {0} /\ c.n_group \in Nat \ {0}
         /\ c.n_routed_experts = c.n_group * GroupSize(c)
         /\ \A g \in Groups(c), i \in 0 .. GroupSize(c) - 1 :
              g * GroupSize(c) + i \in Experts(c) /\ GroupOf(c, g * GroupSize(c) + i) = g
         /\ \A e \in Experts(c) :
              /\ GroupOf(c, e) \in Groups(c)
              /\ \E i \in 0 .. GroupSize(c) - 1 : e = GroupOf(c, e) * GroupSize(c) + i
<1>. DEFINE n == c.n_routed_experts
            m == c.n_group
            z == n \div m
<1>1. n \in Nat \ {0} /\ m \in Nat \ {0} /\ n % m = 0
  BY DEF ConfigOK, ConfigValid
<1>2. z = GroupSize(c)
  BY DEF GroupSize
<1>. HIDE DEF n, m
<1>3. z \in Nat \ {0} /\ n = m * z
  <2>1. z \in Nat /\ n = z * m + (n % m)
    BY <1>1, SMT
  <2>2. n = z * m
    BY <1>1, <2>1
  <2>3. n = m * z
    BY <1>1, <2>1, <2>2, SMT
  <2>4. z # 0
    BY <1>1, <2>2
  <2>. HIDE DEF z
  <2>. QED BY <2>1, <2>3, <2>4
<1>. HIDE DEF z
<1>4. ASSUME NEW g \in 0 .. m - 1, NEW i \in 0 .. z - 1
      PROVE  g * z + i \in 0 .. n - 1 /\ (g * z + i) \div z = g
  <2>1. g + 1 <= m /\ (g + 1) * z <= m * z
    BY <1>1, <1>3, SMT
  <2>2. (g + 1) * z = g * z + z /\ g * z \in Nat
    BY <1>1, <1>3, SMT
  <2>3. g * z + i \in Nat /\ g * z + i < n
    BY <1>3, <2>1, <2>2
  <2>4. (g * z + i) \div z = g
    BY <1>3, SMT
  <2>. QED BY <1>1, <2>3, <2>4
<1>5. ASSUME NEW e \in 0 .. n - 1
      PROVE  e \div z \in 0 .. m - 1 /\ \E i \in 0 .. z - 1 : e = (e \div z) * z + i
  <2>1. e \div z \in Nat /\ e % z \in 0 .. z - 1 /\ e = (e \div z) * z + (e % z)
    BY <1>1, <1>3, SMT
  <2>2. e < m * z /\ e \in Nat
    BY <1>1, <1>3
  <2>3. e \div z < m
    BY <1>1, <1>3, <2>2, SMT
  <2>. QED BY <1>1, <2>1, <2>3
<1>. QED BY <1>1, <1>2, <1>3, <1>4, <1>5 DEF Experts, Groups, GroupOf, n, m

FiniteScores(scores, c) ==
  /\ DOMAIN scores = Experts(c)
  /\ \A e \in Experts(c) : scores[e] \in Int /\ scores[e] > kMinusInfinity

\* A greatest member is the maximum.
LEMMA MaxIs ==
  ASSUME NEW S \in SUBSET Int, NEW x \in S, \A y \in S : y <= x
  PROVE  Max(S) = x
<1>1. \E z \in S : \A y \in S : z >= y
  OBVIOUS
<1>2. Max(S) \in S /\ \A y \in S : Max(S) >= y
  BY <1>1 DEF Max
<1>3. PICK m : m = Max(S)
  OBVIOUS
<1>4. m \in Int /\ x \in Int /\ m >= x /\ m <= x
  BY <1>2, <1>3
<1>. QED BY <1>3, <1>4

\* The pass over a group computes its score.
LEMMA GroupScoreIs ==
  ASSUME ConfigOK(slice.config), NEW scores, FiniteScores(scores, slice.config),
         NEW g \in Groups(slice.config)
  PROVE  GroupScore(slice.config, scores, g) = TwoBest(scores, g) /\ TwoBest(scores, g) \in Int
<1>. DEFINE c == slice.config
            size == GroupSize(c)
            place(i) == g * size + i
            values == [i \in 0 .. size - 1 |-> scores[place(i)]]
            members == {e \in DOMAIN scores : GroupOf(c, e) = g}
            pairs == {p \in members \X members : p[1] # p[2]}
            sums == {scores[p[1]] + scores[p[2]] : p \in pairs}
            top == TopTwo(values, size)
<1>1. /\ size \in Nat \ {0}
      /\ \A i \in 0 .. size - 1 : place(i) \in Experts(c) /\ GroupOf(c, place(i)) = g
      /\ \A e \in Experts(c) : \E i \in 0 .. size - 1 : e = GroupOf(c, e) * size + i
  BY GroupsAreBlocks
<1>2. /\ \A i \in 0 .. size - 1 : place(i) \in members /\ values[i] = scores[place(i)]
      /\ \A e \in members : \E i \in 0 .. size - 1 : e = place(i)
      /\ \A e \in members : scores[e] \in Int /\ scores[e] > kMinusInfinity
  <2>. HIDE DEF size
  <2>. QED BY <1>1 DEF FiniteScores
<1>3. \A i, j \in 0 .. size - 1 : i # j => place(i) # place(j)
  <2>1. g \in Nat
    BY GroupsAreBlocks DEF Groups
  <2>. HIDE DEF size
  <2>. QED BY <1>1, <2>1
<1>4. AreTopTwo(top, values, size)
  <2>1. \A i \in 0 .. size - 1 : values[i] \in Int /\ values[i] > kMinusInfinity
    <3>. HIDE DEF values, place, members, size
    <3>. QED BY <1>2
  <2>. HIDE DEF values, size
  <2>. QED BY <1>1, <2>1, TopTwoAre
<1>5. PICK i \in 0 .. size - 1 :
        /\ values[i] = top[1]
        /\ \A l \in 0 .. size - 1 : values[l] <= top[1]
        /\ \A l \in 0 .. size - 1 : l # i => values[l] <= top[2]
        /\ IF size = 1 THEN top[2] = kMinusInfinity
           ELSE \E j \in 0 .. size - 1 : j # i /\ values[j] = top[2]
  <2>. HIDE DEF values, size, top
  <2>. QED BY <1>4 DEF AreTopTwo
<1>6. GroupScore(c, scores, g) = top[1] + (IF top[2] = kMinusInfinity THEN top[1] ELSE top[2])
  BY DEF GroupScore
<1>7. TwoBest(scores, g) = IF pairs = {} THEN 2 * scores[CHOOSE e \in members : TRUE] ELSE Max(sums)
  BY DEF TwoBest
<1>. HIDE DEF values, place, members, size, top, c
<1>8. top[1] \in Int /\ scores[place(i)] = top[1] /\ place(i) \in members
  BY <1>2, <1>5
<1>9. CASE size = 1
  <2>1. 0 .. size - 1 = {0}
    BY <1>9
  <2>2. members = {place(i)}
    BY <1>2, <1>5, <2>1
  <2>3. pairs = {}
    BY <2>2
  <2>4. (CHOOSE e \in members : TRUE) = place(i)
    BY <2>2
  <2>5. top[2] = kMinusInfinity
    BY <1>5, <1>9
  <2>6. GroupScore(c, scores, g) = top[1] + top[1]
    BY <1>6, <2>5, Zenon
  <2>7. TwoBest(scores, g) = 2 * top[1]
    <3>. HIDE DEF pairs, sums
    <3>. QED BY <1>7, <1>8, <2>3, <2>4, Zenon
  <2>8. top[1] + top[1] = 2 * top[1] /\ 2 * top[1] \in Int
    BY <1>8
  <2>. QED BY <2>6, <2>7, <2>8 DEF c
<1>10. CASE size # 1
  <2>1. PICK j \in 0 .. size - 1 : j # i /\ values[j] = top[2]
    BY <1>5, <1>10
  <2>2. top[2] \in Int /\ top[2] > kMinusInfinity /\ scores[place(j)] = top[2] /\ place(j) \in members
    BY <1>2, <2>1
  <2>3. <<place(i), place(j)>> \in pairs
    BY <1>3, <1>8, <2>1, <2>2
  <2>4. top[1] + top[2] \in sums
    BY <1>8, <2>2, <2>3
  <2>5. ASSUME NEW a \in members, NEW b \in members, a # b
        PROVE  scores[a] + scores[b] <= top[1] + top[2] /\ scores[a] + scores[b] \in Int
    <3>1. PICK k \in 0 .. size - 1, l \in 0 .. size - 1 : a = place(k) /\ b = place(l)
      BY <1>2
    <3>2. values[k] = scores[a] /\ values[l] = scores[b] /\ scores[a] \in Int /\ scores[b] \in Int
      BY <1>2, <3>1
    <3>3. k # l
      BY <2>5, <3>1
    <3>4. (scores[a] <= top[1] /\ scores[b] <= top[2]) \/ (scores[a] <= top[2] /\ scores[b] <= top[1])
      BY <1>5, <3>2, <3>3
    <3>. QED BY <1>8, <2>2, <3>2, <3>4
  <2>6. sums \in SUBSET Int /\ \A y \in sums : y <= top[1] + top[2]
    BY <2>5
  <2>. HIDE DEF sums, pairs
  <2>7. Max(sums) = top[1] + top[2]
    BY <2>4, <2>6, MaxIs
  <2>8. pairs # {}
    BY <2>3
  <2>. QED BY <1>6, <1>7, <1>8, <2>2, <2>7, <2>8 DEF c
<1>. QED BY <1>9, <1>10

\* The groups that are chosen are the best.
LEMMA ChosenAreBest ==
  ASSUME ConfigOK(slice.config), NEW scores, FiniteScores(scores, slice.config),
         NEW groups \in ChosenGroups(slice.config, scores)
  PROVE  groups \subseteq Groups(slice.config) /\ IsFiniteSet(groups) /\ BestGroups(scores, groups)
<1>. DEFINE c == slice.config
            score == [g \in Groups(c) |-> GroupScore(c, scores, g)]
            k == Least(c.topk_group, c.n_group)
<1>1. k \in Nat
  BY DEF ConfigOK, Least
<1>2. PICK r \in Ranked(score, k) : groups = Range(r)
  BY DEF ChosenGroups
<1>3. \A g \in Groups(c) : score[g] = TwoBest(scores, g) /\ score[g] \in Int
  BY GroupScoreIs
<1>4. DOMAIN score = Groups(c)
  OBVIOUS
<1>. HIDE DEF score, c, k
<1>5. RanksBest(r, score, k)
  BY <1>1, <1>3, <1>4, RankedRanks
<1>6. IsFiniteSet(1 .. k) /\ Cardinality(1 .. k) = k
  BY <1>1, FS_Interval
<1>7. IsFiniteSet(Range(r)) /\ Cardinality(Range(r)) = k
  BY <1>5, <1>6, InjectiveCounts DEF RanksBest
<1>8. groups \subseteq Groups(c)
  BY <1>2, <1>4, <1>5 DEF RanksBest, Range
<1>9. \A g \in groups, h \in Groups(c) \ groups : TwoBest(scores, g) >= TwoBest(scores, h)
  BY <1>2, <1>3, <1>4, <1>5, <1>8 DEF RanksBest
<1>. QED BY <1>2, <1>7, <1>8, <1>9 DEF BestGroups, c, k

\* The experts of some groups.
InGroups(c, groups) == {e \in Experts(c) : GroupOf(c, e) \in groups}

LEMMA ExpertsOfGroups ==
  ASSUME NEW c, ConfigOK(c), NEW groups \in SUBSET Groups(c), IsFiniteSet(groups)
  PROVE  /\ IsFiniteSet(InGroups(c, groups))
         /\ Cardinality(InGroups(c, groups)) = Cardinality(groups) * GroupSize(c)
<1>. DEFINE size == GroupSize(c)
            S == groups \X (0 .. size - 1)
            place == [p \in S |-> p[1] * size + p[2]]
<1>1. /\ size \in Nat \ {0}
      /\ \A g \in Groups(c), i \in 0 .. size - 1 :
           g * size + i \in Experts(c) /\ GroupOf(c, g * size + i) = g
      /\ \A e \in Experts(c) : \E i \in 0 .. size - 1 : e = GroupOf(c, e) * size + i
  BY GroupsAreBlocks
<1>2. Groups(c) \subseteq Nat
  BY GroupsAreBlocks DEF Groups
<1>. HIDE DEF size
<1>3. place \in [S -> InGroups(c, groups)]
  BY <1>1 DEF InGroups
<1>4. \A p, q \in S : place[p] = place[q] => p = q
  <2>1. ASSUME NEW p \in S, NEW q \in S, place[p] = place[q] PROVE p = q
    <3>1. p[1] = q[1]
      BY <1>1, <2>1
    <3>2. p[1] * size \in Nat /\ p[2] \in Nat /\ q[2] \in Nat
      <4>1. p[1] \in Nat /\ size \in Nat
        BY <1>1, <1>2
      <4>. QED BY <4>1, <1>1
    <3>3. p[2] = q[2]
      BY <2>1, <3>1, <3>2
    <3>. QED BY <3>1, <3>3
  <2>. QED BY <2>1
<1>5. \A e \in InGroups(c, groups) : \E p \in S : place[p] = e
  <2>1. ASSUME NEW e \in InGroups(c, groups) PROVE \E p \in S : place[p] = e
    <3>1. PICK i \in 0 .. size - 1 : e = GroupOf(c, e) * size + i
      BY <1>1 DEF InGroups
    <3>2. <<GroupOf(c, e), i>> \in S
      BY <2>1 DEF InGroups
    <3>. QED BY <3>1, <3>2
  <2>. QED BY <2>1
<1>. HIDE DEF place
<1>. HIDE DEF S
<1>6. place \in Bijection(S, InGroups(c, groups))
  BY <1>3, <1>4, <1>5 DEF Bijection, Injection, Surjection, IsInjective
<1>7. IsFiniteSet(0 .. size - 1) /\ Cardinality(0 .. size - 1) = size
  BY <1>1, FirstNaturals
<1>8. IsFiniteSet(S) /\ Cardinality(S) = Cardinality(groups) * size
  BY <1>7, FS_Product DEF S
<1>9. ExistsBijection(S, InGroups(c, groups))
  BY <1>6 DEF ExistsBijection
<1>10. IsFiniteSet(InGroups(c, groups)) /\ Cardinality(InGroups(c, groups)) = Cardinality(S)
  BY <1>8, <1>9, FS_Bijection
<1>. QED BY <1>8, <1>10 DEF size

-----------------------------------------------------------------------------
(* Selections *)

\* What RoutedToTheBest says of one token.
RoutesBest(forChoice, s) ==
  /\ s \in [1 .. slice.config.top_k -> Experts(slice.config)] /\ IsInjective(s)
  /\ \E groups \in SUBSET Groups(slice.config) :
       /\ BestGroups(forChoice, groups)
       /\ \A x \in Range(s), e \in Experts(slice.config) \ Range(s) :
            Competing(forChoice, groups, x) >= Competing(forChoice, groups, e)
       /\ \A a, b \in DOMAIN s :
            a < b => Competing(forChoice, groups, s[a]) >= Competing(forChoice, groups, s[b])

\* What GroupLimited says of one token.
StaysInGroups(forChoice, s) ==
  /\ \A e \in Experts(slice.config) : forChoice[e] > 0
  /\ slice.config.top_k <= slice.config.topk_group * GroupSize(slice.config)
  => Cardinality({GroupOf(slice.config, e) : e \in Range(s)}) <= slice.config.topk_group

LEMMA SelectionRanks ==
  ASSUME ConfigOK(slice.config), NEW logits, NEW bias,
         FiniteScores(ScoresForChoice(logits, bias), slice.config),
         NEW s \in Selections(slice.config, logits, bias)
  PROVE  \E groups \in ChosenGroups(slice.config, ScoresForChoice(logits, bias)) :
           RanksBest(s, Masked(slice.config, ScoresForChoice(logits, bias), groups), slice.config.top_k)
<1>. DEFINE c == slice.config
            scores == ScoresForChoice(logits, bias)
<1>1. Least(c.top_k, c.n_routed_experts) = c.top_k /\ c.top_k \in Nat
  BY DEF Least, ConfigOK, ConfigValid
<1>2. PICK groups \in ChosenGroups(c, scores) : s \in Ranked(Masked(c, scores, groups), c.top_k)
  BY <1>1 DEF Selections
<1>3. \A e \in Experts(c) : scores[e] \in Int
  BY DEF FiniteScores
<1>. HIDE DEF scores, c
<1>4. \A e \in DOMAIN Masked(c, scores, groups) : Masked(c, scores, groups)[e] \in Int
  BY <1>3 DEF Masked
<1>5. RanksBest(s, Masked(c, scores, groups), c.top_k)
  BY <1>1, <1>2, <1>4, RankedRanks
<1>. QED BY <1>2, <1>5 DEF scores, c

LEMMA MaskedIs ==
  ASSUME NEW c, NEW scores, NEW groups
  PROVE  /\ DOMAIN Masked(c, scores, groups) = Experts(c)
         /\ \A e \in Experts(c) : Masked(c, scores, groups)[e] =
                                   IF GroupOf(c, e) \in groups THEN scores[e] ELSE 0
  BY DEF Masked

LEMMA SelectionIsBest ==
  ASSUME ConfigOK(slice.config), NEW logits, NEW bias,
         FiniteScores(ScoresForChoice(logits, bias), slice.config),
         NEW s \in Selections(slice.config, logits, bias)
  PROVE  /\ s \in [1 .. slice.config.top_k -> Experts(slice.config)] /\ IsInjective(s)
         /\ RoutesBest(ScoresForChoice(logits, bias), s)
         /\ StaysInGroups(ScoresForChoice(logits, bias), s)
<1>. DEFINE c == slice.config
            k == c.top_k
            scores == ScoresForChoice(logits, bias)
<1>1. PICK groups \in ChosenGroups(c, scores) : RanksBest(s, Masked(c, scores, groups), k)
  BY SelectionRanks
<1>2. groups \subseteq Groups(c) /\ IsFiniteSet(groups) /\ BestGroups(scores, groups)
  BY ChosenAreBest
<1>3. DOMAIN scores = Experts(c) /\ \A e \in Experts(c) : scores[e] \in Int
  BY DEF FiniteScores
<1>4. k \in Nat /\ c.topk_group \in Nat /\ c.n_group \in Nat /\ GroupSize(c) \in Nat \ {0}
  BY GroupsAreBlocks DEF ConfigOK
<1>5. ConfigOK(c)
  OBVIOUS
<1>. HIDE DEF c, k, scores
<1>6. /\ s \in [1 .. k -> Experts(c)] /\ IsInjective(s)
      /\ \A a, b \in 1 .. k : a < b =>
           Masked(c, scores, groups)[s[a]] >= Masked(c, scores, groups)[s[b]]
      /\ \A x \in Range(s), e \in Experts(c) \ Range(s) :
           Masked(c, scores, groups)[x] >= Masked(c, scores, groups)[e]
      /\ Range(s) \subseteq Experts(c)
  BY <1>1, MaskedIs DEF RanksBest, Range
<1>7. RoutesBest(scores, s)
  <2>1. \A e \in Experts(c) : Competing(scores, groups, e) = Masked(c, scores, groups)[e]
    BY MaskedIs DEF Competing, c
  <2>2. ASSUME NEW x \in Range(s), NEW e \in Experts(c) \ Range(s)
        PROVE  Competing(scores, groups, x) >= Competing(scores, groups, e)
    BY <1>6, <2>1
  <2>3. ASSUME NEW a \in DOMAIN s, NEW b \in DOMAIN s, a < b
        PROVE  Competing(scores, groups, s[a]) >= Competing(scores, groups, s[b])
    BY <1>6, <2>1, <2>3
  <2>. QED BY <1>2, <1>6, <2>2, <2>3 DEF RoutesBest, c, k
<1>8. StaysInGroups(scores, s)
  <2>1. SUFFICES ASSUME \A e \in Experts(c) : scores[e] > 0, k <= c.topk_group * GroupSize(c)
                 PROVE  Cardinality({GroupOf(c, e) : e \in Range(s)}) <= c.topk_group
    BY DEF StaysInGroups, c, k
  <2>2. /\ Cardinality(groups) \in Nat
        /\ Cardinality(groups) <= c.topk_group
        /\ Cardinality(groups) = c.topk_group \/ Cardinality(groups) = c.n_group
    BY <1>2, <1>4, FS_CardinalityType DEF BestGroups, Least, c
  <2>3. CASE \A x \in Range(s) : GroupOf(c, x) \in groups
    <3>1. {GroupOf(c, e) : e \in Range(s)} \subseteq groups
      BY <2>3
    <3>2. Cardinality({GroupOf(c, e) : e \in Range(s)}) <= Cardinality(groups)
          /\ Cardinality({GroupOf(c, e) : e \in Range(s)}) \in Nat
      BY <1>2, <3>1, FS_Subset, FS_CardinalityType
    <3>. QED BY <1>4, <2>2, <3>2
  <2>4. ASSUME NEW x \in Range(s), GroupOf(c, x) \notin groups PROVE FALSE
    <3>1. InGroups(c, groups) \subseteq Range(s) \ {x}
      BY <1>3, <1>6, <2>1, <2>4, MaskedIs DEF InGroups
    <3>2. IsFiniteSet(1 .. k) /\ Cardinality(1 .. k) = k
      <4>1. k \in Nat
        BY <1>4
      <4>. QED BY ONLY <4>1, FS_Interval
    <3>3. IsFiniteSet(Range(s)) /\ Cardinality(Range(s)) = k
      BY <1>6, <3>2, InjectiveCounts
    <3>4. IsFiniteSet(Range(s) \ {x}) /\ Cardinality(Range(s) \ {x}) = k - 1
      BY <3>3, FS_RemoveElement
    <3>5. /\ IsFiniteSet(InGroups(c, groups))
          /\ Cardinality(InGroups(c, groups)) = Cardinality(groups) * GroupSize(c)
      BY <1>2, <1>5, ExpertsOfGroups
    <3>6. Cardinality(InGroups(c, groups)) <= k - 1
      BY <3>1, <3>4, FS_Subset
    <3>7. CASE Cardinality(groups) = c.topk_group
      BY <1>4, <2>1, <3>5, <3>6, <3>7
    <3>8. CASE Cardinality(groups) = c.n_group
      <4>1. IsFiniteSet(Groups(c)) /\ Cardinality(Groups(c)) = c.n_group
        BY <1>4, FirstNaturals DEF Groups
      <4>2. groups = Groups(c)
        BY <1>2, <3>8, <4>1, FS_Subset
      <4>3. GroupOf(c, x) \in Groups(c)
        BY <1>5, <1>6, <2>4, GroupsAreBlocks
      <4>. QED BY <2>4, <4>2, <4>3
    <3>. QED BY <2>2, <3>7, <3>8
  <2>. QED BY <2>3, <2>4
<1>. QED BY <1>6, <1>7, <1>8 DEF c, k, scores

-----------------------------------------------------------------------------
(* The layer's invariant: the run as far as it has come *)

RunFields == DOMAIN kIdleRun

SliceOK(s) ==
  /\ ConfigOK(s.config)
  /\ s.bias \in Biases /\ DOMAIN s.bias = Experts(s.config)
  /\ s.fc1 = Format("fc1", s.bindings.fc1)
  /\ s.shared_up = Format("shared_up", s.bindings.shared_up)
  /\ s.shared_down = Format("shared_down", s.bindings.shared_down)

Rows(r) == 0 .. r.tokens - 1
Normed(t) == <<"norm", Input(t)>>

\* What each step makes of a token's row, for a layer s and a run r.
LogitsOf(s, r, t) ==
  LET n == s.config.n_routed_experts IN [e \in 0 .. n - 1 |-> r.row[(e + t) % n]]
LatentOf(s, t) == <<"fc1", s.fc1, Normed(t)>>
SharedUpOf(s, t) == <<"shared_up", s.shared_up, Normed(t)>>
PartOf(s, r, t, i) ==
  LET experts == r.selected[t + 1]
  IN  <<experts[i], LatentOf(s, t), ExpertWeight(s.config, LogitsOf(s, r, t), s.bias, experts, i)>>
RoutedOf(s, r, t, n) == [i \in 1 .. n |-> PartOf(s, r, t, i)]
ActivatedOf(s, t) == <<"relu2", SharedUpOf(s, t)>>
SharedOf(s, t) == <<"shared_down", s.shared_down, ActivatedOf(s, t)>>

AllNormed(r) == [t \in Rows(r) |-> Normed(t)]
AllLogits(s, r) == [t \in Rows(r) |-> LogitsOf(s, r, t)]
AllLatent(s, r) == [t \in Rows(r) |-> LatentOf(s, t)]
AllSharedUp(s, r) == [t \in Rows(r) |-> SharedUpOf(s, t)]
AllShared(s, r) == [t \in Rows(r) |-> SharedOf(s, t)]
AllProjected(r) == [t \in Rows(r) |-> <<"fc2", r.routed[t]>>]

\* The loop over the tokens.
LoopOK(s, r) ==
  /\ r.token \in 0 .. r.tokens
  /\ IF r.step \in {"select", "expert"} THEN r.token < r.tokens ELSE r.token = r.tokens
  /\ r.selected \in Seq([1 .. s.config.top_k -> Experts(s.config)])
  /\ Len(r.selected) = (IF r.step = "expert" THEN r.token + 1 ELSE r.token)
  /\ \A i \in 1 .. Len(r.selected) : r.selected[i] \in Selections(s.config, LogitsOf(s, r, i - 1), s.bias)
  /\ r.step # "select" => r.selection = r.selected[Len(r.selected)]
  /\ r.routed = [t \in Rows(r) |-> r.routed[t]]
  /\ r.activated = [t \in Rows(r) |-> r.activated[t]]
  /\ \A t \in 0 .. r.token - 1 :
       r.routed[t] = RoutedOf(s, r, t, s.config.top_k) /\ r.activated[t] = ActivatedOf(s, t)
  /\ \A t \in r.token + 1 .. r.tokens - 1 : r.routed[t] = <<>>
  /\ r.step = "select" => r.routed[r.token] = <<>>
  /\ r.step = "expert" => /\ r.at \in 0 .. s.config.top_k
                          /\ r.routed[r.token] = RoutedOf(s, r, r.token, r.at)

BeforeGate == {"norm", "gate"}
BeforeUp == BeforeGate \union {"fc1", "shared_up"}
BeforeLoop == BeforeUp \union {"copy"}
AfterLoop == {"shared_down", "fc2", "combine", "idle"}

\* A run that has neither failed nor not begun.
Working(s, r) ==
  /\ SliceOK(s)
  /\ r.step \in BeforeLoop \union {"select", "expert"} \union AfterLoop
  /\ r.tokens \in Nat \ {0}
  /\ r.row \in RouterRows /\ DOMAIN r.row = Experts(s.config)
  /\ r.traced => r.tokens = 1
  /\ r.step \in BeforeLoop => r.token = 0 /\ r.selected = kNone
  /\ r.step # "norm" => r.normalized = AllNormed(r)
  /\ r.step \notin BeforeGate => r.logits = AllLogits(s, r)
  /\ r.step \notin BeforeUp \/ (r.step = "shared_up" /\ r.ok) =>
       r.latent = AllLatent(s, r)
  /\ r.step \notin BeforeUp => r.shared_up = AllSharedUp(s, r)
  /\ r.step \notin BeforeLoop => LoopOK(s, r)
  /\ r.step \in {"fc2", "combine", "idle"} => r.shared = AllShared(s, r)
  /\ r.step \in {"combine", "idle"} => r.projected = AllProjected(r)

Quiet(r) == r.step = "idle" /\ r.outcome # "ok" /\ r.selected = kNone

\* What the loop, and the end of a run, have written into the trace of a single token.
HiddenOf(r) == [i \in DOMAIN r.selection |-> <<"relu2", r.selection[i], r.latent[0]>>]
OutputsOf(r) == [i \in DOMAIN r.selection |-> <<r.selection[i], r.latent[0]>>]
LoopTraced(r, tr) ==
  /\ tr.normalized = r.normalized[0] /\ tr.order = r.selection
  /\ tr.hidden = HiddenOf(r) /\ tr.outputs = OutputsOf(r) /\ tr.contributions = r.routed[0]
EndTraced(r, tr) ==
  /\ tr.logits = r.logits[0] /\ tr.selected = r.selection /\ tr.latent = r.latent[0]
  /\ tr.routed = r.routed[0] /\ tr.projected = r.projected[0] /\ tr.shared = r.shared[0]
  /\ tr.mixer = <<r.projected[0], r.shared[0]>>

\* What has been given to the caller.
Given(r, out, tr) ==
  /\ r.step = "idle" => out = [t \in Rows(r) |-> <<r.projected[t], r.shared[t], Input(t)>>]
  /\ r.traced /\ r.step \in AfterLoop => LoopTraced(r, tr)
  /\ r.traced /\ r.step = "idle" => EndTraced(r, tr)

ExpertInv ==
  /\ DOMAIN run = RunFields /\ DOMAIN trace = DOMAIN kOldTrace
  /\ slice = kNone \/ SliceOK(slice)
  /\ Quiet(run) \/ (slice # kNone /\ Working(slice, run) /\ Given(run, output, trace))

LEMMA RunFieldNames ==
  RunFields = {"step", "tokens", "traced", "row", "ok", "normalized", "logits", "latent",
               "shared_up", "token", "selection", "selected", "at", "routed", "activated",
               "shared", "projected", "outcome"}
BY DEF RunFields, kIdleRun

\* A run that differs from r in some fields only.
Keeps(q, r, changed) == DOMAIN q = RunFields /\ \A f \in RunFields \ changed : q[f] = r[f]

LEMMA SameRows ==
  ASSUME NEW s, NEW r, NEW q, q.tokens = r.tokens, q.row = r.row
  PROVE  /\ Rows(q) = Rows(r) /\ AllNormed(q) = AllNormed(r) /\ AllLogits(s, q) = AllLogits(s, r)
         /\ AllLatent(s, q) = AllLatent(s, r) /\ AllSharedUp(s, q) = AllSharedUp(s, r)
         /\ AllShared(s, q) = AllShared(s, r)
         /\ \A t : LogitsOf(s, q, t) = LogitsOf(s, r, t)
<1>1. Rows(q) = Rows(r)
  BY DEF Rows
<1>2. \A t : LogitsOf(s, q, t) = LogitsOf(s, r, t)
  BY DEF LogitsOf
<1>. QED BY <1>1, <1>2 DEF AllNormed, AllLogits, AllLatent, AllSharedUp, AllShared

LEMMA NormalizedWorks ==
  ASSUME NEW s, NEW r, DOMAIN r = RunFields, Working(s, r), r.step = "norm",
         NEW q, q = [r EXCEPT !.step = "gate", !.normalized = AllNormed(r)]
  PROVE  DOMAIN q = RunFields /\ Working(s, q) /\ q.step = "gate" /\ q.outcome = r.outcome
<1>1. /\ q.step = "gate" /\ q.normalized = AllNormed(r)
      /\ Keeps(q, r, {"step", "normalized"})
  BY RunFieldNames, Zenon DEF Keeps
<1>2. /\ q.tokens = r.tokens /\ q.traced = r.traced /\ q.row = r.row
      /\ q.token = r.token /\ q.selected = r.selected /\ q.outcome = r.outcome
  BY <1>1, RunFieldNames DEF Keeps
<1>10. /\ Rows(q) = Rows(r) /\ AllNormed(q) = AllNormed(r) /\ AllLogits(s, q) = AllLogits(s, r)
       /\ AllLatent(s, q) = AllLatent(s, r) /\ AllSharedUp(s, q) = AllSharedUp(s, r)
  BY <1>2, SameRows
<1>. QED BY ONLY Working(s, r), <1>1, <1>2, <1>10, r.step = "norm" DEF Working, Keeps, BeforeGate, BeforeUp, BeforeLoop, AfterLoop

LEMMA GatedWorks ==
  ASSUME NEW s, NEW r, DOMAIN r = RunFields, Working(s, r), r.step = "gate",
         NEW q, q = [r EXCEPT !.step = "fc1", !.logits = AllLogits(s, r)]
  PROVE  DOMAIN q = RunFields /\ Working(s, q) /\ q.step = "fc1"
<1>1. /\ q.step = "fc1" /\ q.logits = AllLogits(s, r)
      /\ Keeps(q, r, {"step", "logits"})
  BY RunFieldNames, Zenon DEF Keeps
<1>2. /\ q.tokens = r.tokens /\ q.traced = r.traced /\ q.row = r.row
      /\ q.token = r.token /\ q.selected = r.selected /\ q.normalized = r.normalized
  BY <1>1, RunFieldNames DEF Keeps
<1>10. /\ Rows(q) = Rows(r) /\ AllNormed(q) = AllNormed(r) /\ AllLogits(s, q) = AllLogits(s, r)
       /\ AllLatent(s, q) = AllLatent(s, r) /\ AllSharedUp(s, q) = AllSharedUp(s, r)
  BY <1>2, SameRows
<1>. QED BY ONLY Working(s, r), <1>1, <1>2, <1>10, r.step = "gate" DEF Working, Keeps, BeforeGate, BeforeUp, BeforeLoop, AfterLoop

LEMMA Fc1Works ==
  ASSUME NEW s, NEW r, DOMAIN r = RunFields, Working(s, r), r.step = "fc1",
         NEW q, \/ q = [r EXCEPT !.step = "shared_up", !.ok = FALSE]
                \/ q = [r EXCEPT !.step = "shared_up", !.latent = AllLatent(s, r)]
  PROVE  DOMAIN q = RunFields /\ Working(s, q) /\ q.step = "shared_up"
<1>1. CASE q = [r EXCEPT !.step = "shared_up", !.ok = FALSE]
  <2>1. q.step = "shared_up" /\ ~q.ok /\ Keeps(q, r, {"step", "ok"})
    BY <1>1, RunFieldNames, Zenon DEF Keeps
  <2>2. /\ q.tokens = r.tokens /\ q.traced = r.traced /\ q.row = r.row
        /\ q.token = r.token /\ q.selected = r.selected /\ q.normalized = r.normalized
        /\ q.logits = r.logits
    BY <2>1, RunFieldNames DEF Keeps
  <2>10. /\ Rows(q) = Rows(r) /\ AllNormed(q) = AllNormed(r) /\ AllLogits(s, q) = AllLogits(s, r)
         /\ AllLatent(s, q) = AllLatent(s, r) /\ AllSharedUp(s, q) = AllSharedUp(s, r)
    BY <2>2, SameRows
  <2>. QED BY ONLY Working(s, r), <2>1, <2>2, <2>10, r.step = "fc1" DEF Working, Keeps, BeforeGate, BeforeUp, BeforeLoop, AfterLoop
<1>2. CASE q = [r EXCEPT !.step = "shared_up", !.latent = AllLatent(s, r)]
  <2>1. /\ q.step = "shared_up" /\ q.latent = AllLatent(s, r)
        /\ Keeps(q, r, {"step", "latent"})
    BY <1>2, RunFieldNames, Zenon DEF Keeps
  <2>2. /\ q.tokens = r.tokens /\ q.traced = r.traced /\ q.row = r.row
        /\ q.token = r.token /\ q.selected = r.selected /\ q.normalized = r.normalized
        /\ q.logits = r.logits
    BY <2>1, RunFieldNames DEF Keeps
  <2>10. /\ Rows(q) = Rows(r) /\ AllNormed(q) = AllNormed(r) /\ AllLogits(s, q) = AllLogits(s, r)
         /\ AllLatent(s, q) = AllLatent(s, r) /\ AllSharedUp(s, q) = AllSharedUp(s, r)
    BY <2>2, SameRows
  <2>. QED BY ONLY Working(s, r), <2>1, <2>2, <2>10, r.step = "fc1" DEF Working, Keeps, BeforeGate, BeforeUp, BeforeLoop, AfterLoop
<1>. QED BY <1>1, <1>2

LEMMA SharedUpWorks ==
  ASSUME NEW s, NEW r, DOMAIN r = RunFields, Working(s, r), r.step = "shared_up", r.ok,
         NEW q, q = [r EXCEPT !.step = "copy", !.shared_up = AllSharedUp(s, r)]
  PROVE  DOMAIN q = RunFields /\ Working(s, q) /\ q.step = "copy"
<1>1. /\ q.step = "copy" /\ q.shared_up = AllSharedUp(s, r)
      /\ Keeps(q, r, {"step", "shared_up"})
  BY RunFieldNames, Zenon DEF Keeps
<1>2. /\ q.tokens = r.tokens /\ q.traced = r.traced /\ q.row = r.row
      /\ q.token = r.token /\ q.selected = r.selected /\ q.normalized = r.normalized
      /\ q.logits = r.logits /\ q.latent = r.latent
  BY <1>1, RunFieldNames DEF Keeps
<1>3. r.latent = AllLatent(s, r)
  BY Zenon DEF Working
<1>10. /\ Rows(q) = Rows(r) /\ AllNormed(q) = AllNormed(r) /\ AllLogits(s, q) = AllLogits(s, r)
       /\ AllLatent(s, q) = AllLatent(s, r) /\ AllSharedUp(s, q) = AllSharedUp(s, r)
  BY <1>2, SameRows
<1>. QED BY ONLY Working(s, r), <1>1, <1>2, <1>3, <1>10, r.step = "shared_up" DEF Working, Keeps, BeforeGate, BeforeUp, BeforeLoop, AfterLoop

LEMMA CopiedWorks ==
  ASSUME NEW s, NEW r, DOMAIN r = RunFields, Working(s, r), r.step = "copy",
         NEW q, q = [r EXCEPT !.step = "select", !.routed = [t \in Rows(r) |-> <<>>],
                              !.activated = [t \in Rows(r) |-> Junk], !.shared = [t \in Rows(r) |-> Junk]]
  PROVE  DOMAIN q = RunFields /\ Working(s, q) /\ q.step = "select"
<1>1. /\ q.step = "select" /\ q.routed = [t \in Rows(r) |-> <<>>]
      /\ q.activated = [t \in Rows(r) |-> Junk]
      /\ Keeps(q, r, {"step", "routed", "activated", "shared"})
  BY RunFieldNames, Zenon DEF Keeps
<1>2. /\ q.tokens = r.tokens /\ q.traced = r.traced /\ q.row = r.row
      /\ q.token = r.token /\ q.selected = r.selected /\ q.normalized = r.normalized
      /\ q.logits = r.logits /\ q.latent = r.latent /\ q.shared_up = r.shared_up
  BY <1>1, RunFieldNames DEF Keeps
<1>3. r.token = 0 /\ r.selected = <<>> /\ r.tokens \in Nat \ {0}
  BY DEF Working, BeforeLoop, kNone
<1>4. LoopOK(s, q)
  <2>1. <<>> \in Seq([1 .. s.config.top_k -> Experts(s.config)]) /\ Len(<<>>) = 0
    OBVIOUS
  <2>2. q.routed = [t \in Rows(q) |-> q.routed[t]] /\ q.activated = [t \in Rows(q) |-> q.activated[t]]
    BY <1>1, <1>2 DEF Rows
  <2>3. \A t \in 0 .. q.tokens - 1 : q.routed[t] = <<>>
    BY <1>1, <1>2 DEF Rows
  <2>4. q.step = "select" /\ q.token = 0 /\ q.selected = <<>> /\ q.tokens \in Nat \ {0}
    BY <1>1, <1>2, <1>3
  <2>5. /\ q.token \in 0 .. q.tokens /\ q.token < q.tokens /\ 0 \in 0 .. q.tokens - 1
        /\ 1 .. 0 = {} /\ 0 .. 0 - 1 = {} /\ 0 + 1 .. q.tokens - 1 \subseteq 0 .. q.tokens - 1
    BY <2>4
  <2>. QED BY <2>1, <2>2, <2>3, <2>4, <2>5 DEF LoopOK
<1>10. /\ Rows(q) = Rows(r) /\ AllNormed(q) = AllNormed(r) /\ AllLogits(s, q) = AllLogits(s, r)
       /\ AllLatent(s, q) = AllLatent(s, r) /\ AllSharedUp(s, q) = AllSharedUp(s, r)
  BY <1>2, SameRows
<1>. QED BY ONLY Working(s, r), <1>1, <1>2, <1>4, <1>10, r.step = "copy" DEF Working, Keeps, BeforeGate, BeforeUp, BeforeLoop, AfterLoop

LEMMA SamePart ==
  ASSUME NEW s, NEW r, NEW q, NEW t, q.row = r.row, q.selected[t + 1] = r.selected[t + 1]
  PROVE  /\ \A i : PartOf(s, q, t, i) = PartOf(s, r, t, i)
         /\ \A n : RoutedOf(s, q, t, n) = RoutedOf(s, r, t, n)
<1>1. LogitsOf(s, q, t) = LogitsOf(s, r, t)
  BY DEF LogitsOf
<1>2. \A i : PartOf(s, q, t, i) = PartOf(s, r, t, i)
  BY <1>1 DEF PartOf
<1>. QED BY <1>2 DEF RoutedOf

\* The experts of one more token are selected.
LEMMA SelectedLoops ==
  ASSUME NEW s, NEW r, LoopOK(s, r), r.step = "select", r.tokens \in Nat \ {0},
         NEW x \in [1 .. s.config.top_k -> Experts(s.config)],
         x \in Selections(s.config, LogitsOf(s, r, r.token), s.bias), s.config.top_k \in Nat,
         NEW q, q.step = "expert", q.selection = x, q.selected = Append(r.selected, x), q.at = 0,
         q.tokens = r.tokens, q.row = r.row, q.token = r.token, q.routed = r.routed,
         q.activated = r.activated
  PROVE  LoopOK(s, q)
<1>. DEFINE S == [1 .. s.config.top_k -> Experts(s.config)]
<1>1. /\ r.token \in 0 .. r.tokens /\ r.token < r.tokens
      /\ r.selected \in Seq(S) /\ Len(r.selected) = r.token
      /\ \A i \in 1 .. Len(r.selected) : r.selected[i] \in Selections(s.config, LogitsOf(s, r, i - 1), s.bias)
      /\ r.routed = [t \in Rows(r) |-> r.routed[t]]
      /\ r.activated = [t \in Rows(r) |-> r.activated[t]]
      /\ \A t \in 0 .. r.token - 1 :
           r.routed[t] = RoutedOf(s, r, t, s.config.top_k) /\ r.activated[t] = ActivatedOf(s, t)
      /\ \A t \in r.token + 1 .. r.tokens - 1 : r.routed[t] = <<>>
      /\ r.routed[r.token] = <<>>
  BY DEF LoopOK
<1>. HIDE DEF S
<1>2. /\ q.selected \in Seq(S) /\ Len(q.selected) = r.token + 1
      /\ q.selected[r.token + 1] = x
      /\ \A i \in 1 .. r.token : q.selected[i] = r.selected[i]
  <2>1. x \in S
    BY DEF S
  <2>. QED BY ONLY <1>1, <2>1, q.selected = Append(r.selected, x)
<1>3. \A t : LogitsOf(s, q, t) = LogitsOf(s, r, t)
  BY SameRows
<1>4. ASSUME NEW i \in 1 .. Len(q.selected)
      PROVE  q.selected[i] \in Selections(s.config, LogitsOf(s, q, i - 1), s.bias)
  <2>1. CASE i = r.token + 1
    <3>1. i - 1 = r.token
      BY <1>1, <2>1
    <3>. QED BY <1>2, <1>3, <2>1, <3>1
  <2>2. CASE i # r.token + 1
    BY <1>1, <1>2, <1>3, <2>2
  <2>. QED BY <2>1, <2>2
<1>5. ASSUME NEW t \in 0 .. r.token - 1
      PROVE  q.routed[t] = RoutedOf(s, q, t, s.config.top_k)
  <2>1. t + 1 \in 1 .. r.token
    BY <1>1
  <2>2. q.selected[t + 1] = r.selected[t + 1] /\ q.row = r.row
    BY <1>2, <2>1
  <2>3. RoutedOf(s, q, t, s.config.top_k) = RoutedOf(s, r, t, s.config.top_k)
    BY ONLY <2>2, SamePart
  <2>. QED BY <1>1, <2>3
<1>6. RoutedOf(s, q, r.token, 0) = <<>>
  BY DEF RoutedOf
<1>7. Rows(q) = Rows(r)
  BY SameRows
<1>8. /\ q.selected \in Seq(S) /\ Len(q.selected) = q.token + 1
      /\ q.selection = q.selected[Len(q.selected)]
  BY <1>2
<1>9. /\ q.token \in 0 .. q.tokens /\ q.token < q.tokens
       /\ q.routed = [t \in Rows(q) |-> q.routed[t]]
       /\ q.activated = [t \in Rows(q) |-> q.activated[t]]
       /\ q.at \in 0 .. s.config.top_k /\ q.routed[q.token] = RoutedOf(s, q, q.token, q.at)
  <2>1. 0 \in 0 .. s.config.top_k
    OBVIOUS
  <2>. QED BY <1>1, <1>6, <1>7, <2>1
<1>10. \A t \in 0 .. q.token - 1 :
         q.routed[t] = RoutedOf(s, q, t, s.config.top_k) /\ q.activated[t] = ActivatedOf(s, t)
  BY <1>1, <1>5
<1>11. \A t \in q.token + 1 .. q.tokens - 1 : q.routed[t] = <<>>
  BY <1>1
<1>. QED BY ONLY <1>4, <1>8, <1>9, <1>10, <1>11, q.step = "expert" DEF LoopOK, S

\* One of a token's experts has been run.
LEMMA PartLoops ==
  ASSUME NEW s, NEW r, LoopOK(s, r), r.step = "expert", r.tokens \in Nat \ {0},
         s.config.top_k \in Nat, r.at < s.config.top_k,
         NEW q, q.step = "expert", q.at = r.at + 1,
         q.routed = [r.routed EXCEPT ![r.token] = Append(r.routed[r.token], PartOf(s, r, r.token, r.at + 1))],
         q.selection = r.selection, q.selected = r.selected,
         q.tokens = r.tokens, q.row = r.row, q.token = r.token, q.activated = r.activated
  PROVE  LoopOK(s, q)
<1>1. /\ r.token \in 0 .. r.tokens /\ r.token < r.tokens
      /\ \A i \in 1 .. Len(r.selected) : r.selected[i] \in Selections(s.config, LogitsOf(s, r, i - 1), s.bias)
      /\ r.routed = [t \in Rows(r) |-> r.routed[t]]
      /\ r.activated = [t \in Rows(r) |-> r.activated[t]]
      /\ \A t \in 0 .. r.token - 1 :
           r.routed[t] = RoutedOf(s, r, t, s.config.top_k) /\ r.activated[t] = ActivatedOf(s, t)
      /\ \A t \in r.token + 1 .. r.tokens - 1 : r.routed[t] = <<>>
      /\ r.at \in 0 .. s.config.top_k
      /\ r.routed[r.token] = RoutedOf(s, r, r.token, r.at)
  BY DEF LoopOK
<1>2. Rows(q) = Rows(r) /\ \A t : LogitsOf(s, q, t) = LogitsOf(s, r, t)
  BY SameRows
<1>3. \A t, n : RoutedOf(s, q, t, n) = RoutedOf(s, r, t, n)
  BY SamePart
<1>4. r.token \in Rows(r) /\ \A t \in Rows(r) : t < r.token <=> t \in 0 .. r.token - 1
  BY <1>1 DEF Rows
<1>5. /\ q.routed = [t \in Rows(r) |-> q.routed[t]]
      /\ \A t \in Rows(r) : t # r.token => q.routed[t] = r.routed[t]
      /\ q.routed[r.token] = Append(r.routed[r.token], PartOf(s, r, r.token, r.at + 1))
  BY <1>1, <1>4
<1>6. q.routed[r.token] = RoutedOf(s, r, r.token, r.at + 1)
  <2>. DEFINE n == r.at
              part(i) == PartOf(s, r, r.token, i)
  <2>1. n \in Nat
    BY <1>1
  <2>. HIDE DEF n, part
  <2>2. Append([i \in 1 .. n |-> part(i)], part(n + 1)) = [i \in 1 .. n + 1 |-> part(i)]
    BY ONLY <2>1
  <2>. QED BY <1>1, <1>5, <2>2 DEF RoutedOf, n, part
<1>7. \A t \in 0 .. r.token - 1 : t \in Rows(r) /\ t # r.token
  BY <1>1 DEF Rows
<1>8. \A t \in r.token + 1 .. r.tokens - 1 : t \in Rows(r) /\ t # r.token
  BY <1>1 DEF Rows
<1>9. r.at + 1 \in 0 .. s.config.top_k
  BY <1>1
<1>10. /\ q.selected \in Seq([1 .. s.config.top_k -> Experts(s.config)])
       /\ Len(q.selected) = q.token + 1 /\ q.selection = q.selected[Len(q.selected)]
  BY DEF LoopOK
<1>11. \A i \in 1 .. Len(q.selected) : q.selected[i] \in Selections(s.config, LogitsOf(s, q, i - 1), s.bias)
  BY <1>1, <1>2
<1>12. \A t \in 0 .. q.token - 1 :
         q.routed[t] = RoutedOf(s, q, t, s.config.top_k) /\ q.activated[t] = ActivatedOf(s, t)
  <2>1. ASSUME NEW t \in 0 .. r.token - 1
        PROVE  q.routed[t] = RoutedOf(s, q, t, s.config.top_k) /\ q.activated[t] = ActivatedOf(s, t)
    <3>1. RoutedOf(s, q, t, s.config.top_k) = RoutedOf(s, r, t, s.config.top_k)
      BY <1>3
    <3>2. q.routed[t] = r.routed[t] /\ q.activated[t] = r.activated[t]
      BY <1>5, <1>7
    <3>. QED BY ONLY <1>1, <2>1, <3>1, <3>2
  <2>. QED BY <2>1
<1>13. \A t \in q.token + 1 .. q.tokens - 1 : q.routed[t] = <<>>
  BY <1>1, <1>5, <1>8
<1>14. /\ q.token \in 0 .. q.tokens /\ q.token < q.tokens
       /\ q.routed = [t \in Rows(q) |-> q.routed[t]]
       /\ q.activated = [t \in Rows(q) |-> q.activated[t]]
       /\ q.at \in 0 .. s.config.top_k /\ q.routed[q.token] = RoutedOf(s, q, q.token, q.at)
  <2>1. RoutedOf(s, q, r.token, r.at + 1) = RoutedOf(s, r, r.token, r.at + 1)
    BY <1>3
  <2>. QED BY ONLY <1>1, <1>2, <1>5, <1>6, <1>9, <2>1, q.token = r.token, q.tokens = r.tokens,
         q.at = r.at + 1, q.activated = r.activated
<1>. QED BY ONLY <1>10, <1>11, <1>12, <1>13, <1>14, q.step = "expert" DEF LoopOK

\* A token's experts have all been run.
LEMMA FinishedLoops ==
  ASSUME NEW s, NEW r, LoopOK(s, r), r.step = "expert", r.tokens \in Nat \ {0},
         s.config.top_k \in Nat, r.at = s.config.top_k,
         NEW q, q.step = (IF r.token + 1 < r.tokens THEN "select" ELSE "shared_down"),
         q.token = r.token + 1,
         q.activated = [r.activated EXCEPT ![r.token] = ActivatedOf(s, r.token)],
         q.selection = r.selection, q.selected = r.selected,
         q.tokens = r.tokens, q.row = r.row, q.routed = r.routed
  PROVE  LoopOK(s, q)
<1>1. /\ r.token \in 0 .. r.tokens /\ r.token < r.tokens
      /\ Len(r.selected) = r.token + 1
      /\ \A i \in 1 .. Len(r.selected) : r.selected[i] \in Selections(s.config, LogitsOf(s, r, i - 1), s.bias)
      /\ r.routed = [t \in Rows(r) |-> r.routed[t]]
      /\ r.activated = [t \in Rows(r) |-> r.activated[t]]
      /\ \A t \in 0 .. r.token - 1 :
           r.routed[t] = RoutedOf(s, r, t, s.config.top_k) /\ r.activated[t] = ActivatedOf(s, t)
      /\ \A t \in r.token + 1 .. r.tokens - 1 : r.routed[t] = <<>>
      /\ r.routed[r.token] = RoutedOf(s, r, r.token, r.at)
      /\ r.selection = r.selected[Len(r.selected)]
      /\ r.selected \in Seq([1 .. s.config.top_k -> Experts(s.config)])
  BY DEF LoopOK
<1>2. Rows(q) = Rows(r) /\ \A t : LogitsOf(s, q, t) = LogitsOf(s, r, t)
  BY SameRows
<1>3. \A t, n : RoutedOf(s, q, t, n) = RoutedOf(s, r, t, n)
  BY SamePart
<1>4. r.token \in Rows(r)
  BY <1>1 DEF Rows
<1>5. /\ q.activated = [t \in Rows(r) |-> q.activated[t]]
      /\ \A t \in Rows(r) : t # r.token => q.activated[t] = r.activated[t]
      /\ q.activated[r.token] = ActivatedOf(s, r.token)
  BY <1>1, <1>4
<1>6. \A t \in 0 .. r.token : t = r.token \/ (t \in 0 .. r.token - 1 /\ t \in Rows(r) /\ t # r.token)
  BY <1>1 DEF Rows
<1>7. \A t \in 0 .. q.token - 1 :
        q.routed[t] = RoutedOf(s, q, t, s.config.top_k) /\ q.activated[t] = ActivatedOf(s, t)
  <2>1. q.token - 1 = r.token
    BY <1>1
  <2>2. ASSUME NEW t \in 0 .. r.token
        PROVE  q.routed[t] = RoutedOf(s, q, t, s.config.top_k) /\ q.activated[t] = ActivatedOf(s, t)
    <3>1. RoutedOf(s, q, t, s.config.top_k) = RoutedOf(s, r, t, s.config.top_k)
      BY <1>3
    <3>2. CASE t = r.token
      BY ONLY <1>1, <1>5, <3>1, <3>2, q.routed = r.routed, r.at = s.config.top_k
    <3>3. CASE t # r.token
      BY ONLY <1>1, <1>5, <1>6, <3>1, <3>3, q.routed = r.routed, t \in 0 .. r.token
    <3>. QED BY <3>2, <3>3
  <2>. QED BY <2>1, <2>2
<1>8. \A t \in q.token + 1 .. q.tokens - 1 : q.routed[t] = <<>>
  <2>1. \A t \in q.token + 1 .. q.tokens - 1 : t \in r.token + 1 .. r.tokens - 1
    BY <1>1
  <2>. QED BY <1>1, <2>1
<1>9. q.step = "select" => q.routed[q.token] = <<>> /\ q.token < q.tokens
  <2>1. r.token + 1 < r.tokens => r.token + 1 \in r.token + 1 .. r.tokens - 1
    BY <1>1
  <2>. QED BY <1>1, <2>1
<1>10. q.step # "select" => q.step = "shared_down" /\ q.token = q.tokens
  BY <1>1
<1>11. q.token \in 0 .. q.tokens /\ q.step # "expert" /\ q.step \in {"select", "shared_down"}
  BY <1>1
<1>. QED BY ONLY <1>1, <1>2, <1>5, <1>7, <1>8, <1>9, <1>10, <1>11, q.selection = r.selection,
       q.selected = r.selected, q.token = r.token + 1, q.routed = r.routed DEF LoopOK

\* Nothing of the loop changes after it.
LEMMA AfterLoopKept ==
  ASSUME NEW s, NEW r, LoopOK(s, r), r.step \in AfterLoop, r.tokens \in Nat \ {0},
         NEW q, q.step \in AfterLoop, q.token = r.token, q.activated = r.activated,
         q.selection = r.selection, q.selected = r.selected,
         q.tokens = r.tokens, q.row = r.row, q.routed = r.routed
  PROVE  LoopOK(s, q)
<1>1. Rows(q) = Rows(r) /\ \A t : LogitsOf(s, q, t) = LogitsOf(s, r, t)
  BY SameRows
<1>2. \A t, n : RoutedOf(s, q, t, n) = RoutedOf(s, r, t, n)
  BY SamePart
<1>3. \A i \in 1 .. Len(q.selected) : q.selected[i] \in Selections(s.config, LogitsOf(s, q, i - 1), s.bias)
  BY <1>1 DEF LoopOK
<1>4. \A t \in 0 .. q.token - 1 :
        q.routed[t] = RoutedOf(s, q, t, s.config.top_k) /\ q.activated[t] = ActivatedOf(s, t)
  <2>1. ASSUME NEW t \in 0 .. r.token - 1
        PROVE  r.routed[t] = RoutedOf(s, q, t, s.config.top_k) /\ r.activated[t] = ActivatedOf(s, t)
    <3>1. RoutedOf(s, q, t, s.config.top_k) = RoutedOf(s, r, t, s.config.top_k)
      BY <1>2
    <3>2. r.routed[t] = RoutedOf(s, r, t, s.config.top_k) /\ r.activated[t] = ActivatedOf(s, t)
      BY DEF LoopOK
    <3>. QED BY ONLY <3>1, <3>2
  <2>. QED BY <2>1
<1>5. /\ r.step \notin {"select", "expert"} /\ q.step \notin {"select", "expert"}
      /\ r.step # "select" /\ r.step # "expert" /\ q.step # "select" /\ q.step # "expert"
  BY DEF AfterLoop
<1>6. /\ q.selected \in Seq([1 .. s.config.top_k -> Experts(s.config)])
      /\ Len(q.selected) = q.token /\ q.selection = q.selected[Len(q.selected)]
      /\ q.token \in 0 .. q.tokens /\ q.token = q.tokens
      /\ \A t \in q.token + 1 .. q.tokens - 1 : q.routed[t] = <<>>
  BY <1>5 DEF LoopOK
<1>7. q.routed = [t \in Rows(q) |-> q.routed[t]] /\ q.activated = [t \in Rows(q) |-> q.activated[t]]
  BY <1>1 DEF LoopOK
<1>. QED BY ONLY <1>3, <1>4, <1>5, <1>6, <1>7 DEF LoopOK

LEMMA SharedDownWorks ==
  ASSUME NEW s, NEW r, DOMAIN r = RunFields, Working(s, r), r.step = "shared_down",
         NEW q, q = [r EXCEPT !.step = "fc2", !.shared = AllShared(s, r)]
  PROVE  DOMAIN q = RunFields /\ Working(s, q) /\ q.step = "fc2"
<1>1. q.step = "fc2" /\ q.shared = AllShared(s, r) /\ Keeps(q, r, {"step", "shared"})
  BY RunFieldNames, Zenon DEF Keeps
<1>2. /\ q.tokens = r.tokens /\ q.traced = r.traced /\ q.row = r.row
      /\ q.token = r.token /\ q.selected = r.selected /\ q.normalized = r.normalized
      /\ q.logits = r.logits /\ q.latent = r.latent /\ q.shared_up = r.shared_up
      /\ q.routed = r.routed /\ q.activated = r.activated /\ q.selection = r.selection
  BY <1>1, RunFieldNames DEF Keeps
<1>3. /\ Rows(q) = Rows(r) /\ AllNormed(q) = AllNormed(r) /\ AllLogits(s, q) = AllLogits(s, r)
      /\ AllLatent(s, q) = AllLatent(s, r) /\ AllSharedUp(s, q) = AllSharedUp(s, r)
      /\ AllShared(s, q) = AllShared(s, r)
  BY <1>2, SameRows
<1>4. LoopOK(s, r) /\ r.tokens \in Nat \ {0}
  BY DEF Working, BeforeLoop, BeforeUp, BeforeGate
<1>5. LoopOK(s, q)
  <2>1. r.step \in AfterLoop /\ q.step \in AfterLoop
    BY <1>1 DEF AfterLoop
  <2>. QED BY ONLY <1>2, <1>4, <2>1, AfterLoopKept
<1>. QED BY ONLY Working(s, r), <1>1, <1>2, <1>3, <1>5, r.step = "shared_down"
     DEF Working, Keeps, BeforeGate, BeforeUp, BeforeLoop, AfterLoop

LEMMA Fc2Works ==
  ASSUME NEW s, NEW r, DOMAIN r = RunFields, Working(s, r), r.step = "fc2",
         NEW q, q = [r EXCEPT !.step = "combine", !.projected = AllProjected(r)]
  PROVE  DOMAIN q = RunFields /\ Working(s, q) /\ q.step = "combine"
<1>1. q.step = "combine" /\ q.projected = AllProjected(r) /\ Keeps(q, r, {"step", "projected"})
  BY RunFieldNames, Zenon DEF Keeps
<1>2. /\ q.tokens = r.tokens /\ q.traced = r.traced /\ q.row = r.row
      /\ q.token = r.token /\ q.selected = r.selected /\ q.normalized = r.normalized
      /\ q.logits = r.logits /\ q.latent = r.latent /\ q.shared_up = r.shared_up
      /\ q.routed = r.routed /\ q.activated = r.activated /\ q.selection = r.selection
      /\ q.shared = r.shared
  BY <1>1, RunFieldNames DEF Keeps
<1>3. /\ Rows(q) = Rows(r) /\ AllNormed(q) = AllNormed(r) /\ AllLogits(s, q) = AllLogits(s, r)
      /\ AllLatent(s, q) = AllLatent(s, r) /\ AllSharedUp(s, q) = AllSharedUp(s, r)
      /\ AllShared(s, q) = AllShared(s, r)
  BY <1>2, SameRows
<1>4. LoopOK(s, r) /\ r.tokens \in Nat \ {0}
  BY DEF Working, BeforeLoop, BeforeUp, BeforeGate
<1>5. LoopOK(s, q)
  <2>1. r.step \in AfterLoop /\ q.step \in AfterLoop
    BY <1>1 DEF AfterLoop
  <2>. QED BY ONLY <1>2, <1>4, <2>1, AfterLoopKept
<1>6. AllProjected(q) = AllProjected(r)
  BY <1>2, <1>3 DEF AllProjected
<1>. QED BY ONLY Working(s, r), <1>1, <1>2, <1>3, <1>5, <1>6, r.step = "fc2"
     DEF Working, Keeps, BeforeGate, BeforeUp, BeforeLoop, AfterLoop

LEMMA CombinedWorks ==
  ASSUME NEW s, NEW r, DOMAIN r = RunFields, Working(s, r), r.step = "combine",
         NEW q, q = [r EXCEPT !.step = "idle", !.outcome = "ok"]
  PROVE  DOMAIN q = RunFields /\ Working(s, q) /\ q.step = "idle"
<1>1. q.step = "idle" /\ Keeps(q, r, {"step", "outcome"})
  BY RunFieldNames, Zenon DEF Keeps
<1>2. /\ q.tokens = r.tokens /\ q.traced = r.traced /\ q.row = r.row
      /\ q.token = r.token /\ q.selected = r.selected /\ q.normalized = r.normalized
      /\ q.logits = r.logits /\ q.latent = r.latent /\ q.shared_up = r.shared_up
      /\ q.routed = r.routed /\ q.activated = r.activated /\ q.selection = r.selection
      /\ q.shared = r.shared /\ q.projected = r.projected
  BY <1>1, RunFieldNames DEF Keeps
<1>3. /\ Rows(q) = Rows(r) /\ AllNormed(q) = AllNormed(r) /\ AllLogits(s, q) = AllLogits(s, r)
      /\ AllLatent(s, q) = AllLatent(s, r) /\ AllSharedUp(s, q) = AllSharedUp(s, r)
      /\ AllShared(s, q) = AllShared(s, r)
  BY <1>2, SameRows
<1>4. LoopOK(s, r) /\ r.tokens \in Nat \ {0}
  BY DEF Working, BeforeLoop, BeforeUp, BeforeGate
<1>5. LoopOK(s, q)
  <2>1. r.step \in AfterLoop /\ q.step \in AfterLoop
    BY <1>1 DEF AfterLoop
  <2>. QED BY ONLY <1>2, <1>4, <2>1, AfterLoopKept
<1>6. AllProjected(q) = AllProjected(r)
  BY <1>2, <1>3 DEF AllProjected
<1>. QED BY ONLY Working(s, r), <1>1, <1>2, <1>3, <1>5, <1>6, r.step = "combine"
     DEF Working, Keeps, BeforeGate, BeforeUp, BeforeLoop, AfterLoop

\* The three kinds of step of the loop.
LEMMA LoopWorks ==
  ASSUME NEW s, NEW r, DOMAIN r = RunFields, Working(s, r),
         NEW changed \in SUBSET {"step", "selection", "selected", "at", "routed", "activated", "token"},
         NEW q, Keeps(q, r, changed), LoopOK(s, q),
         r.step \in {"select", "expert"}, q.step \in {"select", "expert", "shared_down"}
  PROVE  Working(s, q)
<1>1. /\ q.tokens = r.tokens /\ q.traced = r.traced /\ q.row = r.row
      /\ q.normalized = r.normalized /\ q.logits = r.logits /\ q.latent = r.latent
      /\ q.shared_up = r.shared_up
  BY RunFieldNames DEF Keeps
<1>2. /\ Rows(q) = Rows(r) /\ AllNormed(q) = AllNormed(r) /\ AllLogits(s, q) = AllLogits(s, r)
      /\ AllLatent(s, q) = AllLatent(s, r) /\ AllSharedUp(s, q) = AllSharedUp(s, r)
  BY <1>1, SameRows
<1>. QED BY ONLY Working(s, r), <1>1, <1>2, LoopOK(s, q), r.step \in {"select", "expert"},
       q.step \in {"select", "expert", "shared_down"}
     DEF Working, BeforeGate, BeforeUp, BeforeLoop, AfterLoop

-----------------------------------------------------------------------------
(* The layer's steps *)

LEMMA ExpertInvInit == ExpertInit => ExpertInv
BY DEF ExpertInit, ExpertInv, Quiet, kIdleRun, RunFields

\* Whatever is running may fail.
LEMMA FailedIsQuiet ==
  ASSUME Failed
  PROVE  DOMAIN run' = RunFields /\ Quiet(run')
<1>1. DOMAIN run' = RunFields
  BY Zenon DEF Failed, RunFields
<1>2. run'.step = "idle" /\ run'.outcome = "failed" /\ run'.selected = kNone
  BY DEF Failed, kIdleRun
<1>. QED BY <1>1, <1>2 DEF Quiet

LEMMA FailedKeeps ==
  ASSUME ExpertInv, Failed, UNCHANGED slice, DOMAIN trace' = DOMAIN trace
  PROVE  ExpertInv'
<1>1. DOMAIN run' = RunFields /\ Quiet(run')
  BY FailedIsQuiet
<1>. QED BY ONLY ExpertInv, <1>1, UNCHANGED slice, DOMAIN trace' = DOMAIN trace DEF ExpertInv

\* A step that goes on without giving the caller anything.
LEMMA WorkKeeps ==
  ASSUME ExpertInv, UNCHANGED <<slice, output, trace>>, slice # kNone,
         DOMAIN run' = RunFields, Working(slice, run'), Given(run', output, trace)
  PROVE  ExpertInv'
BY ONLY ExpertInv, UNCHANGED <<slice, output, trace>>, slice # kNone,
        DOMAIN run' = RunFields, Working(slice, run'), Given(run', output, trace) DEF ExpertInv

LEMMA NothingGivenYet ==
  ASSUME NEW r, r.step \notin AfterLoop, NEW out, NEW tr
  PROVE  Given(r, out, tr)
BY DEF Given, AfterLoop

\* A step that is not idle is one of a run that works.
LEMMA InRun ==
  ASSUME ExpertInv, run.step # "idle"
  PROVE  /\ slice # kNone /\ DOMAIN run = RunFields /\ Working(slice, run)
         /\ Given(run, output, trace)
BY DEF ExpertInv, Quiet

LEMMA CreateKeeps == ExpertInv /\ CreateSlice => ExpertInv'
<1>. SUFFICES ASSUME ExpertInv, CreateSlice PROVE ExpertInv'
  OBVIOUS
<1>1. slice = kNone /\ UNCHANGED <<output, trace, run>> /\ Quiet(run)
  BY DEF CreateSlice, ExpertInv
<1>2. PICK config \in Configs, bias \in Biases, b \in Bindings :
        /\ ConfigValid(config)
        /\ DOMAIN bias = Experts(config)
        /\ SharedDownFamily(b.shared_down) # "refused"
        /\ slice' = [config |-> config, bias |-> bias, bindings |-> b,
                     fc1 |-> ProjectionFamily(b.fc1), shared_up |-> ProjectionFamily(b.shared_up),
                     shared_down |-> SharedDownFamily(b.shared_down)]
  BY DEF CreateSlice
<1>3. ConfigOK(config)
  BY <1>2, ExpertAssumption DEF ConfigOK
<1>4. /\ ProjectionFamily(b.fc1) = Format("fc1", b.fc1)
      /\ ProjectionFamily(b.shared_up) = Format("shared_up", b.shared_up)
  BY DEF ProjectionFamily, Format, ScalesReadable
<1>5. SharedDownFamily(b.shared_down) = Format("shared_down", b.shared_down)
  BY <1>2 DEF SharedDownFamily, Format, ScalesReadable
<1>6. SliceOK(slice')
  BY <1>2, <1>3, <1>4, <1>5 DEF SliceOK
<1>. QED BY ONLY ExpertInv, <1>1, <1>6 DEF ExpertInv

LEMMA StartKeeps == ExpertInv /\ Start => ExpertInv'
<1>. SUFFICES ASSUME ExpertInv, Start PROVE ExpertInv'
  OBVIOUS
<1>1. slice # kNone /\ UNCHANGED slice /\ trace' = kOldTrace /\ SliceOK(slice)
  BY DEF Start, ExpertInv
<1>2. PICK tokens \in 1 .. MaxTokens, traced \in BOOLEAN, row \in RouterRows :
        LET junk == [t \in 0 .. tokens - 1 |-> Junk] IN
        /\ DOMAIN row = Experts(slice.config)
        /\ \/ Failed
           \/ /\ traced => tokens = 1
              /\ run' = [kIdleRun EXCEPT !.step = "norm", !.tokens = tokens, !.traced = traced,
                           !.row = row, !.normalized = junk, !.logits = junk, !.latent = junk,
                           !.shared_up = junk, !.projected = junk]
  BY ZenonT(60) DEF Start
<1>. DEFINE junk == [t \in 0 .. tokens - 1 |-> Junk]
<1>3. DOMAIN trace' = DOMAIN trace
  BY <1>1 DEF ExpertInv
<1>4. CASE Failed
  BY <1>1, <1>3, <1>4, FailedKeeps
<1>5. CASE ~Failed
  <2>1. /\ traced => tokens = 1
        /\ run' = [kIdleRun EXCEPT !.step = "norm", !.tokens = tokens, !.traced = traced,
                     !.row = row, !.normalized = junk, !.logits = junk, !.latent = junk,
                     !.shared_up = junk, !.projected = junk]
    BY <1>2, <1>5
  <2>. HIDE DEF junk
  <2>2. DOMAIN run' = RunFields
    BY <2>1, Zenon DEF RunFields
  <2>3. /\ run'.step = "norm" /\ run'.tokens = tokens /\ run'.row = row
        /\ run'.token = 0 /\ run'.selected = kNone
    BY <2>1 DEF kIdleRun
  <2>4. run'.traced = traced
    <3>1. "traced" \in DOMAIN kIdleRun
      BY RunFieldNames DEF RunFields
    <3>. QED BY <2>1, <3>1, Zenon
  <2>5. run'.traced => run'.tokens = 1
    BY <2>1, <2>3, <2>4, Zenon
  <2>6. tokens \in Nat \ {0}
    OBVIOUS
  <2>7. Working(slice, run')
    BY ONLY <1>1, <1>2, <2>3, <2>5, <2>6 DEF Working, BeforeGate, BeforeUp, BeforeLoop, AfterLoop
  <2>8. Given(run', output', trace')
    BY <2>3, NothingGivenYet DEF AfterLoop
  <2>. QED BY ONLY <1>1, <1>3, <2>2, <2>7, <2>8, ExpertInv DEF ExpertInv
<1>. QED BY <1>4, <1>5

LEMMA NormalizeKeeps == ExpertInv /\ Normalize => ExpertInv'
<1>. SUFFICES ASSUME ExpertInv, Normalize PROVE ExpertInv'
  OBVIOUS
<1>1. run.step = "norm" /\ UNCHANGED <<slice, output, trace>>
  BY DEF Normalize
<1>2. slice # kNone /\ DOMAIN run = RunFields /\ Working(slice, run)
  BY <1>1, InRun
<1>3. CASE Failed
  BY <1>1, <1>3, FailedKeeps
<1>4. CASE ~Failed
  <2>1. run' = [run EXCEPT !.step = "gate", !.normalized = AllNormed(run)]
    BY <1>4 DEF Normalize, AllNormed, Rows, Tokens, Normed
  <2>2. DOMAIN run' = RunFields /\ Working(slice, run') /\ run'.step = "gate"
    BY ONLY <1>1, <1>2, <2>1, NormalizedWorks
  <2>3. Given(run', output, trace)
    BY <2>2, NothingGivenYet DEF AfterLoop
  <2>. QED BY ONLY ExpertInv, <1>1, <1>2, <2>2, <2>3, WorkKeeps
<1>. QED BY <1>3, <1>4

LEMMA GateKeeps == ExpertInv /\ Gate => ExpertInv'
<1>. SUFFICES ASSUME ExpertInv, Gate PROVE ExpertInv'
  OBVIOUS
<1>1. run.step = "gate" /\ UNCHANGED <<slice, output, trace>>
  BY DEF Gate
<1>2. slice # kNone /\ DOMAIN run = RunFields /\ Working(slice, run)
  BY <1>1, InRun
<1>3. CASE Failed
  BY <1>1, <1>3, FailedKeeps
<1>4. CASE ~Failed
  <2>1. run.normalized = AllNormed(run)
    BY <1>1, <1>2 DEF Working
  <2>2. ASSUME NEW t \in Rows(run)
        PROVE  Gated(run.normalized[t]) = LogitsOf(slice, run, t)
    <3>1. run.normalized[t][2][2] = t
      BY <2>1 DEF AllNormed, Normed, Input
    <3>. QED BY <3>1 DEF Gated, LogitsOf
  <2>3. [t \in Tokens |-> Gated(run.normalized[t])] = AllLogits(slice, run)
    BY <2>2 DEF AllLogits, Rows, Tokens
  <2>4. run' = [run EXCEPT !.step = "fc1", !.logits = AllLogits(slice, run)]
    BY <1>4, <2>3 DEF Gate
  <2>5. DOMAIN run' = RunFields /\ Working(slice, run') /\ run'.step = "fc1"
    BY ONLY <1>1, <1>2, <2>4, GatedWorks
  <2>6. Given(run', output, trace)
    BY <2>5, NothingGivenYet DEF AfterLoop
  <2>. QED BY ONLY ExpertInv, <1>1, <1>2, <2>5, <2>6, WorkKeeps
<1>. QED BY <1>3, <1>4

LEMMA Fc1Keeps == ExpertInv /\ Fc1 => ExpertInv'
<1>. SUFFICES ASSUME ExpertInv, Fc1 PROVE ExpertInv'
  OBVIOUS
<1>1. run.step = "fc1" /\ UNCHANGED <<slice, output, trace>>
  BY DEF Fc1
<1>2. slice # kNone /\ DOMAIN run = RunFields /\ Working(slice, run)
  BY <1>1, InRun
<1>3. run.normalized = AllNormed(run)
  BY <1>1, <1>2 DEF Working
<1>4. [t \in Tokens |-> <<"fc1", slice.fc1, run.normalized[t]>>] = AllLatent(slice, run)
  BY <1>3 DEF AllLatent, LatentOf, AllNormed, Rows, Tokens
<1>5. \/ run' = [run EXCEPT !.step = "shared_up", !.ok = FALSE]
      \/ run' = [run EXCEPT !.step = "shared_up", !.latent = AllLatent(slice, run)]
  BY <1>4, Zenon DEF Fc1
<1>6. DOMAIN run' = RunFields /\ Working(slice, run') /\ run'.step = "shared_up"
  BY ONLY <1>1, <1>2, <1>5, Fc1Works
<1>7. Given(run', output, trace)
  BY <1>6, NothingGivenYet DEF AfterLoop
<1>. QED BY ONLY ExpertInv, <1>1, <1>2, <1>6, <1>7, WorkKeeps

LEMMA SharedUpKeeps == ExpertInv /\ SharedUp => ExpertInv'
<1>. SUFFICES ASSUME ExpertInv, SharedUp PROVE ExpertInv'
  OBVIOUS
<1>1. run.step = "shared_up" /\ UNCHANGED <<slice, output, trace>>
  BY DEF SharedUp
<1>2. slice # kNone /\ DOMAIN run = RunFields /\ Working(slice, run)
  BY <1>1, InRun
<1>3. CASE Failed
  BY <1>1, <1>3, FailedKeeps
<1>4. CASE ~Failed
  <2>1. run.normalized = AllNormed(run)
    BY <1>1, <1>2 DEF Working
  <2>2. [t \in Tokens |-> <<"shared_up", slice.shared_up, run.normalized[t]>>] = AllSharedUp(slice, run)
    BY <2>1 DEF AllSharedUp, SharedUpOf, AllNormed, Rows, Tokens
  <2>3. run.ok
    BY <1>4, Zenon DEF SharedUp
  <2>4. run' = [run EXCEPT !.step = "copy", !.shared_up = AllSharedUp(slice, run)]
    BY <1>4, <2>2, Zenon DEF SharedUp
  <2>5. DOMAIN run' = RunFields /\ Working(slice, run') /\ run'.step = "copy"
    BY ONLY <1>1, <1>2, <2>3, <2>4, SharedUpWorks
  <2>6. Given(run', output, trace)
    BY <2>5, NothingGivenYet DEF AfterLoop
  <2>. QED BY ONLY ExpertInv, <1>1, <1>2, <2>5, <2>6, WorkKeeps
<1>. QED BY <1>3, <1>4

LEMMA CopyKeeps == ExpertInv /\ CopyScratchToHost => ExpertInv'
<1>. SUFFICES ASSUME ExpertInv, CopyScratchToHost PROVE ExpertInv'
  OBVIOUS
<1>1. run.step = "copy" /\ UNCHANGED <<slice, output, trace>>
  BY DEF CopyScratchToHost
<1>2. slice # kNone /\ DOMAIN run = RunFields /\ Working(slice, run)
  BY <1>1, InRun
<1>3. CASE Failed
  BY <1>1, <1>3, FailedKeeps
<1>4. CASE ~Failed
  <2>1. run' = [run EXCEPT !.step = "select", !.routed = [t \in Rows(run) |-> <<>>],
                           !.activated = [t \in Rows(run) |-> Junk], !.shared = [t \in Rows(run) |-> Junk]]
    BY <1>4, Zenon DEF CopyScratchToHost, Rows, Tokens
  <2>2. DOMAIN run' = RunFields /\ Working(slice, run') /\ run'.step = "select"
    BY ONLY <1>1, <1>2, <2>1, CopiedWorks
  <2>3. Given(run', output, trace)
    BY <2>2, NothingGivenYet DEF AfterLoop
  <2>. QED BY ONLY ExpertInv, <1>1, <1>2, <2>2, <2>3, WorkKeeps
<1>. QED BY <1>3, <1>4

\* In the loop, and after it, the loop's part of the invariant holds.
LEMMA InLoop ==
  ASSUME NEW s, NEW r, Working(s, r), r.step \notin BeforeLoop
  PROVE  LoopOK(s, r) /\ r.tokens \in Nat \ {0} /\ s.config.top_k \in Nat /\ SliceOK(s)
BY DEF Working, SliceOK, ConfigOK

LEMMA ScoresAreFinite ==
  ASSUME NEW s, NEW r, Working(s, r), NEW t \in Nat
  PROVE  FiniteScores(ScoresForChoice(LogitsOf(s, r, t), s.bias), s.config)
<1>. DEFINE n == s.config.n_routed_experts
            forChoice == ScoresForChoice(LogitsOf(s, r, t), s.bias)
<1>1. /\ n \in Nat \ {0} /\ s.bias \in Biases /\ DOMAIN s.bias = Experts(s.config)
      /\ r.row \in RouterRows /\ DOMAIN r.row = Experts(s.config)
  BY DEF Working, SliceOK, ConfigOK, ConfigValid
<1>2. Experts(s.config) = 0 .. n - 1
  BY DEF Experts
<1>3. ASSUME NEW e \in 0 .. n - 1
      PROVE  forChoice[e] \in Int /\ forChoice[e] > kMinusInfinity
  <2>1. (e + t) % n \in 0 .. n - 1
    BY <1>1
  <2>2. forChoice[e] = Sigmoid(r.row[(e + t) % n]) + s.bias[e]
    BY DEF ScoresForChoice, LogitsOf
  <2>3. /\ Sigmoid(r.row[(e + t) % n]) \in Int /\ s.bias[e] \in Int
        /\ Sigmoid(r.row[(e + t) % n]) + s.bias[e] > kMinusInfinity
    BY <1>1, <1>2, <2>1, ExpertAssumption
  <2>. QED BY <2>2, <2>3
<1>4. DOMAIN forChoice = 0 .. n - 1
  BY DEF ScoresForChoice, LogitsOf
<1>. QED BY <1>2, <1>3, <1>4 DEF FiniteScores

LEMMA SelectKeeps == ExpertInv /\ SelectExperts => ExpertInv'
<1>. SUFFICES ASSUME ExpertInv, SelectExperts PROVE ExpertInv'
  OBVIOUS
<1>1. run.step = "select" /\ UNCHANGED <<slice, output, trace>>
  BY DEF SelectExperts
<1>2. slice # kNone /\ DOMAIN run = RunFields /\ Working(slice, run)
  BY <1>1, InRun
<1>3. LoopOK(slice, run) /\ run.tokens \in Nat \ {0} /\ slice.config.top_k \in Nat /\ SliceOK(slice)
  BY <1>1, <1>2, InLoop DEF BeforeLoop, BeforeUp, BeforeGate
<1>4. run.token \in Rows(run) /\ run.token \in Nat
  BY <1>1, <1>3 DEF LoopOK, Rows
<1>5. run.logits[run.token] = LogitsOf(slice, run, run.token)
  <2>1. run.logits = AllLogits(slice, run)
    BY <1>1, <1>2 DEF Working, BeforeGate
  <2>. QED BY <1>4, <2>1 DEF AllLogits
<1>6. PICK s \in Selections(slice.config, LogitsOf(slice, run, run.token), slice.bias) :
        run' = [run EXCEPT !.step = "expert", !.selection = s, !.selected = Append(@, s), !.at = 0]
  BY <1>5, Zenon DEF SelectExperts
<1>7. s \in [1 .. slice.config.top_k -> Experts(slice.config)]
  BY <1>2, <1>3, <1>4, SelectionIsBest, ScoresAreFinite DEF SliceOK
<1>8. /\ run'.step = "expert" /\ run'.selection = s /\ run'.selected = Append(run.selected, s)
      /\ run'.at = 0 /\ Keeps(run', run, {"step", "selection", "selected", "at"})
  BY <1>2, <1>6, RunFieldNames, Zenon DEF Keeps
<1>9. /\ run'.tokens = run.tokens /\ run'.row = run.row /\ run'.token = run.token
      /\ run'.routed = run.routed /\ run'.activated = run.activated
  BY <1>8, RunFieldNames DEF Keeps
<1>10. LoopOK(slice, run')
  BY ONLY <1>1, <1>3, <1>6, <1>7, <1>8, <1>9, SelectedLoops
<1>11. Working(slice, run')
  BY ONLY <1>1, <1>2, <1>8, <1>10, LoopWorks
<1>12. DOMAIN run' = RunFields /\ Given(run', output, trace)
  BY <1>8, NothingGivenYet DEF AfterLoop, Keeps
<1>. QED BY ONLY ExpertInv, <1>1, <1>2, <1>11, <1>12, WorkKeeps

LEMMA ExpertKeeps == ExpertInv /\ RunRoutedExpert => ExpertInv'
<1>. SUFFICES ASSUME ExpertInv, RunRoutedExpert PROVE ExpertInv'
  OBVIOUS
<1>1. /\ run.step = "expert" /\ UNCHANGED <<slice, output, trace>>
      /\ run.at < Len(run.selection)
  BY DEF RunRoutedExpert
<1>2. slice # kNone /\ DOMAIN run = RunFields /\ Working(slice, run)
  BY <1>1, InRun
<1>3. CASE Failed
  BY <1>1, <1>3, FailedKeeps
<1>4. CASE ~Failed
  <2>1. LoopOK(slice, run) /\ run.tokens \in Nat \ {0} /\ slice.config.top_k \in Nat
    BY <1>1, <1>2, InLoop DEF BeforeLoop, BeforeUp, BeforeGate
  <2>2. /\ run.token \in Rows(run) /\ run.token \in Nat
        /\ run.selection = run.selected[run.token + 1] /\ run.at \in Nat
        /\ run.selection \in [1 .. slice.config.top_k -> Experts(slice.config)]
    <3>1. /\ run.token \in 0 .. run.tokens /\ run.token < run.tokens
          /\ Len(run.selected) = run.token + 1
          /\ run.selected \in Seq([1 .. slice.config.top_k -> Experts(slice.config)])
          /\ run.selection = run.selected[Len(run.selected)]
          /\ run.at \in 0 .. slice.config.top_k
      BY <1>1, <2>1 DEF LoopOK
    <3>. QED BY ONLY <2>1, <3>1 DEF Rows
  <2>3. Len(run.selection) = slice.config.top_k
    BY <2>1, <2>2
  <2>4. /\ run.logits[run.token] = LogitsOf(slice, run, run.token)
        /\ run.latent[run.token] = LatentOf(slice, run.token)
    <3>1. run.logits = AllLogits(slice, run) /\ run.latent = AllLatent(slice, run)
      BY <1>1, <1>2 DEF Working, BeforeGate, BeforeUp
    <3>. QED BY <2>2, <3>1 DEF AllLogits, AllLatent
  <2>5. Contribution(run.at + 1) = PartOf(slice, run, run.token, run.at + 1)
    BY <2>2, <2>4 DEF Contribution, PartOf
  <2>6. run' = [run EXCEPT !.at = @ + 1,
                           !.routed[run.token] = Append(@, PartOf(slice, run, run.token, run.at + 1))]
    BY <1>4, <2>5, Zenon DEF RunRoutedExpert
  <2>7. /\ run'.at = run.at + 1 /\ Keeps(run', run, {"at", "routed"})
        /\ run'.routed = [run.routed EXCEPT ![run.token] =
                            Append(run.routed[run.token], PartOf(slice, run, run.token, run.at + 1))]
    BY <1>2, <2>6, RunFieldNames, Zenon DEF Keeps
  <2>8. /\ run'.tokens = run.tokens /\ run'.row = run.row /\ run'.token = run.token
        /\ run'.selection = run.selection /\ run'.selected = run.selected
        /\ run'.activated = run.activated /\ run'.step = "expert"
    BY <1>1, <2>7, RunFieldNames DEF Keeps
  <2>9. run.at < slice.config.top_k
    BY <1>1, <2>3
  <2>10. LoopOK(slice, run')
    BY ONLY <1>1, <2>1, <2>7, <2>8, <2>9, PartLoops
  <2>11. Working(slice, run')
    BY ONLY <1>1, <1>2, <2>7, <2>8, <2>10, LoopWorks
  <2>12. DOMAIN run' = RunFields /\ Given(run', output, trace)
    BY <2>7, <2>8, NothingGivenYet DEF AfterLoop, Keeps
  <2>. QED BY ONLY ExpertInv, <1>1, <1>2, <2>11, <2>12, WorkKeeps
<1>. QED BY <1>3, <1>4

\* What the loop has traced depends on fields that no later step changes.
LEMMA TracedStays ==
  ASSUME NEW r, NEW q, NEW tr, LoopTraced(r, tr),
         q.normalized = r.normalized, q.selection = r.selection, q.latent = r.latent,
         q.routed = r.routed
  PROVE  LoopTraced(q, tr)
BY DEF LoopTraced, HiddenOf, OutputsOf

LEMMA TraceFieldNames ==
  DOMAIN kOldTrace = {"normalized", "order", "hidden", "outputs", "contributions", "logits",
                      "selected", "latent", "routed", "projected", "shared", "mixer"}
BY DEF kOldTrace

LEMMA FinishKeeps == ExpertInv /\ FinishToken => ExpertInv'
<1>. SUFFICES ASSUME ExpertInv, FinishToken PROVE ExpertInv'
  OBVIOUS
<1>1. /\ run.step = "expert" /\ UNCHANGED <<slice, output>> /\ run.at = Len(run.selection)
  BY DEF FinishToken, TokenFinished
<1>2. slice # kNone /\ DOMAIN run = RunFields /\ Working(slice, run)
  BY <1>1, InRun
<1>3. LoopOK(slice, run) /\ run.tokens \in Nat \ {0} /\ slice.config.top_k \in Nat
  BY <1>1, <1>2, InLoop DEF BeforeLoop, BeforeUp, BeforeGate
<1>4. /\ run.token \in Rows(run) /\ run.token \in Nat
      /\ run.selection = run.selected[run.token + 1]
      /\ run.selection \in [1 .. slice.config.top_k -> Experts(slice.config)]
  BY <1>1, <1>3 DEF LoopOK, Rows
<1>5. run.at = slice.config.top_k
  BY <1>1, <1>3, <1>4
<1>6. <<"relu2", run.shared_up[run.token]>> = ActivatedOf(slice, run.token)
  <2>1. run.shared_up = AllSharedUp(slice, run)
    BY <1>1, <1>2 DEF Working, BeforeGate, BeforeUp
  <2>. QED BY <1>4, <2>1 DEF AllSharedUp, ActivatedOf
<1>7. run' = [run EXCEPT !.activated[run.token] = ActivatedOf(slice, run.token),
                         !.token = @ + 1,
                         !.step = IF run.token + 1 < run.tokens THEN "select" ELSE "shared_down"]
  BY <1>6, Zenon DEF FinishToken, TokenFinished
<1>8. /\ run'.step = (IF run.token + 1 < run.tokens THEN "select" ELSE "shared_down")
      /\ run'.token = run.token + 1 /\ Keeps(run', run, {"step", "token", "activated"})
      /\ run'.activated = [run.activated EXCEPT ![run.token] = ActivatedOf(slice, run.token)]
  BY <1>2, <1>7, RunFieldNames, Zenon DEF Keeps
<1>9. /\ run'.tokens = run.tokens /\ run'.row = run.row /\ run'.selection = run.selection
      /\ run'.selected = run.selected /\ run'.routed = run.routed /\ run'.traced = run.traced
      /\ run'.normalized = run.normalized /\ run'.latent = run.latent
  BY <1>8, RunFieldNames DEF Keeps
<1>10. LoopOK(slice, run')
  BY ONLY <1>1, <1>3, <1>5, <1>8, <1>9, FinishedLoops
<1>11. run'.step \in {"select", "shared_down"}
  BY <1>8
<1>12. Working(slice, run')
  BY ONLY <1>1, <1>2, <1>8, <1>10, <1>11, LoopWorks
<1>13. DOMAIN trace = DOMAIN kOldTrace
  BY DEF ExpertInv
<1>14. CASE run.traced
  <2>1. trace' = LoopTrace(run.selection)
    BY <1>14, Zenon DEF FinishToken
  <2>2. run.token = 0
    <3>1. run.tokens = 1
      BY <1>2, <1>14, Zenon DEF Working
    <3>. QED BY <1>4, <3>1 DEF Rows
  <2>3. ExpertHidden = HiddenOf(run) /\ ExpertOutputs = OutputsOf(run)
    BY <2>2 DEF ExpertHidden, HiddenOf, ExpertOutputs, OutputsOf
  <2>4. trace' = [trace EXCEPT !.normalized = run.normalized[0], !.order = run.selection,
                    !.hidden = HiddenOf(run), !.outputs = OutputsOf(run), !.contributions = run.routed[0]]
    BY <2>1, <2>2, <2>3, Zenon DEF LoopTrace
  <2>5. LoopTraced(run, trace') /\ DOMAIN trace' = DOMAIN kOldTrace
    BY <1>13, <2>4, TraceFieldNames DEF LoopTraced
  <2>6. Given(run', output, trace')
    BY <1>9, <1>11, <2>5, TracedStays DEF Given
  <2>. QED BY ONLY ExpertInv, <1>1, <1>2, <1>8, <1>12, <2>5, <2>6 DEF ExpertInv, Keeps
<1>15. CASE ~run.traced
  <2>1. trace' = trace
    BY <1>15, Zenon DEF FinishToken
  <2>2. ~run'.traced
    BY <1>9, <1>15, Zenon
  <2>3. Given(run', output, trace')
    BY <1>11, <2>2, Zenon DEF Given
  <2>. QED BY ONLY ExpertInv, <1>1, <1>2, <1>8, <1>12, <2>1, <2>3 DEF ExpertInv, Keeps
<1>. QED BY <1>14, <1>15

LEMMA SharedDownKeeps == ExpertInv /\ SharedDown => ExpertInv'
<1>. SUFFICES ASSUME ExpertInv, SharedDown PROVE ExpertInv'
  OBVIOUS
<1>1. run.step = "shared_down" /\ UNCHANGED <<slice, output, trace>>
  BY DEF SharedDown
<1>2. /\ slice # kNone /\ DOMAIN run = RunFields /\ Working(slice, run)
      /\ Given(run, output, trace)
  BY <1>1, InRun
<1>3. CASE Failed
  BY <1>1, <1>3, FailedKeeps
<1>4. CASE ~Failed
  <2>1. LoopOK(slice, run) /\ run.tokens \in Nat \ {0}
    BY <1>1, <1>2, InLoop DEF BeforeLoop, BeforeUp, BeforeGate
  <2>2. \A t \in Rows(run) : run.activated[t] = ActivatedOf(slice, t)
    BY <1>1, <2>1 DEF LoopOK, Rows
  <2>3. [t \in Tokens |-> <<"shared_down", slice.shared_down, run.activated[t]>>] = AllShared(slice, run)
    BY <2>2 DEF AllShared, SharedOf, Rows, Tokens
  <2>4. run' = [run EXCEPT !.step = "fc2", !.shared = AllShared(slice, run)]
    BY <1>4, <2>3, Zenon DEF SharedDown
  <2>5. /\ DOMAIN run' = RunFields /\ Working(slice, run') /\ run'.step = "fc2"
        /\ run'.traced = run.traced /\ run'.selection = run.selection
        /\ run'.normalized = run.normalized /\ run'.latent = run.latent
        /\ run'.routed = run.routed
    <3>1. DOMAIN run' = RunFields /\ Working(slice, run') /\ run'.step = "fc2"
      BY ONLY <1>1, <1>2, <2>4, SharedDownWorks
    <3>2. Keeps(run', run, {"step", "shared"})
      BY <1>2, <2>4, Zenon DEF Keeps
    <3>. QED BY <3>1, <3>2, RunFieldNames DEF Keeps
  <2>6. Given(run', output, trace)
    BY <1>1, <1>2, <2>5, TracedStays DEF Given, AfterLoop
  <2>. QED BY ONLY ExpertInv, <1>1, <1>2, <2>5, <2>6, WorkKeeps
<1>. QED BY <1>3, <1>4

LEMMA Fc2Keeps == ExpertInv /\ Fc2 => ExpertInv'
<1>. SUFFICES ASSUME ExpertInv, Fc2 PROVE ExpertInv'
  OBVIOUS
<1>1. run.step = "fc2" /\ UNCHANGED <<slice, output, trace>>
  BY DEF Fc2
<1>2. /\ slice # kNone /\ DOMAIN run = RunFields /\ Working(slice, run)
      /\ Given(run, output, trace)
  BY <1>1, InRun
<1>3. CASE Failed
  BY <1>1, <1>3, FailedKeeps
<1>4. CASE ~Failed
  <2>1. run' = [run EXCEPT !.step = "combine", !.projected = AllProjected(run)]
    BY <1>4, Zenon DEF Fc2, AllProjected, Rows, Tokens
  <2>2. /\ DOMAIN run' = RunFields /\ Working(slice, run') /\ run'.step = "combine"
        /\ run'.traced = run.traced /\ run'.selection = run.selection
        /\ run'.normalized = run.normalized /\ run'.latent = run.latent
        /\ run'.routed = run.routed
    <3>1. DOMAIN run' = RunFields /\ Working(slice, run') /\ run'.step = "combine"
      BY ONLY <1>1, <1>2, <2>1, Fc2Works
    <3>2. Keeps(run', run, {"step", "projected"})
      BY <1>2, <2>1, Zenon DEF Keeps
    <3>. QED BY <3>1, <3>2, RunFieldNames DEF Keeps
  <2>3. Given(run', output, trace)
    BY <1>1, <1>2, <2>2, TracedStays DEF Given, AfterLoop
  <2>. QED BY ONLY ExpertInv, <1>1, <1>2, <2>2, <2>3, WorkKeeps
<1>. QED BY <1>3, <1>4

LEMMA CombineKeeps == ExpertInv /\ Combine => ExpertInv'
<1>. SUFFICES ASSUME ExpertInv, Combine PROVE ExpertInv'
  OBVIOUS
<1>1. run.step = "combine" /\ UNCHANGED slice
  BY DEF Combine
<1>2. /\ slice # kNone /\ DOMAIN run = RunFields /\ Working(slice, run)
      /\ Given(run, output, trace)
  BY <1>1, InRun
<1>3. CASE Failed /\ UNCHANGED trace
  BY <1>1, <1>3, FailedKeeps
<1>4. CASE ~(Failed /\ UNCHANGED trace)
  <2>1. /\ run' = [run EXCEPT !.step = "idle", !.outcome = "ok"]
        /\ output' = [t \in Tokens |-> Mixed(t)]
        /\ trace' = IF run.traced
                    THEN [trace EXCEPT !.logits = run.logits[0], !.selected = run.selection,
                                       !.latent = run.latent[0], !.routed = run.routed[0],
                                       !.projected = run.projected[0], !.shared = run.shared[0],
                                       !.mixer = <<run.projected[0], run.shared[0]>>]
                    ELSE trace
    BY <1>4, Zenon DEF Combine
  <2>2. /\ DOMAIN run' = RunFields /\ Working(slice, run') /\ run'.step = "idle"
        /\ Rows(run') = Rows(run) /\ run'.projected = run.projected
        /\ run'.shared = run.shared /\ run'.routed = run.routed /\ run'.selection = run.selection
        /\ run'.normalized = run.normalized /\ run'.latent = run.latent /\ run'.logits = run.logits
    <3>1. DOMAIN run' = RunFields /\ Working(slice, run') /\ run'.step = "idle"
      BY ONLY <1>1, <1>2, <2>1, CombinedWorks
    <3>2. Keeps(run', run, {"step", "outcome"})
      BY <1>2, <2>1, Zenon DEF Keeps
    <3>. QED BY <3>1, <3>2, RunFieldNames DEF Keeps, Rows
  <2>3. run'.traced = run.traced
    BY <1>2, <2>1, RunFieldNames, Zenon
  <2>4. output' = [t \in Rows(run') |-> <<run'.projected[t], run'.shared[t], Input(t)>>]
    BY <2>1, <2>2 DEF Mixed, Tokens, Rows
  <2>5. DOMAIN trace = DOMAIN kOldTrace
    BY DEF ExpertInv
  <2>6. CASE run.traced
    <3>1. trace' = [trace EXCEPT !.logits = run.logits[0], !.selected = run.selection,
                                 !.latent = run.latent[0], !.routed = run.routed[0],
                                 !.projected = run.projected[0], !.shared = run.shared[0],
                                 !.mixer = <<run.projected[0], run.shared[0]>>]
      BY <2>1, <2>6, Zenon
    <3>2. EndTraced(run, trace') /\ DOMAIN trace' = DOMAIN kOldTrace
      BY <2>5, <3>1, TraceFieldNames DEF EndTraced
    <3>3. /\ trace'.normalized = trace.normalized /\ trace'.order = trace.order
          /\ trace'.hidden = trace.hidden /\ trace'.outputs = trace.outputs
          /\ trace'.contributions = trace.contributions
      BY <2>5, <3>1, TraceFieldNames
    <3>4. LoopTraced(run, trace)
      BY <1>1, <1>2, <2>6, Zenon DEF Given, AfterLoop
    <3>5. LoopTraced(run', trace') /\ EndTraced(run', trace')
      <4>1. LoopTraced(run, trace')
        BY <3>3, <3>4 DEF LoopTraced
      <4>2. LoopTraced(run', trace')
        BY <2>2, <4>1, TracedStays
      <4>. QED BY <2>2, <3>2, <4>2 DEF EndTraced
    <3>6. Given(run', output', trace')
      BY <2>2, <2>4, <3>5 DEF Given
    <3>. QED BY ONLY ExpertInv, <1>1, <1>2, <2>2, <3>2, <3>6 DEF ExpertInv
  <2>7. CASE ~run.traced
    <3>1. trace' = trace /\ ~run'.traced
      BY <2>1, <2>3, <2>7, Zenon
    <3>2. Given(run', output', trace')
      BY <2>4, <3>1 DEF Given
    <3>. QED BY ONLY ExpertInv, <1>1, <1>2, <2>2, <3>1, <3>2 DEF ExpertInv
  <2>. QED BY <2>6, <2>7
<1>. QED BY <1>3, <1>4

LEMMA ExpertInvNext == ExpertInv /\ [ExpertNext]_expertVars => ExpertInv'
<1>. SUFFICES ASSUME ExpertInv, [ExpertNext]_expertVars PROVE ExpertInv'
  OBVIOUS
<1>1. CASE UNCHANGED expertVars
  BY ONLY <1>1, ExpertInv DEF expertVars, ExpertInv
<1>2. CASE ExpertNext
  BY <1>2, CreateKeeps, StartKeeps, NormalizeKeeps, GateKeeps, Fc1Keeps, SharedUpKeeps, CopyKeeps,
     SelectKeeps, ExpertKeeps, FinishKeeps, SharedDownKeeps, Fc2Keeps, CombineKeeps DEF ExpertNext
<1>. QED BY <1>1, <1>2

LEMMA ExpertInvAlways == ExpertSpec => []ExpertInv
BY ExpertInvInit, ExpertInvNext, PTL DEF ExpertSpec

-----------------------------------------------------------------------------
(* The layer's theorems *)

\* The selections a run has made are those of its own logits.
LEMMA SelectedAre ==
  ASSUME ExpertInv, NEW i \in SelectionsSoFar
  PROVE  /\ run.selected[i] \in [1 .. slice.config.top_k -> Experts(slice.config)]
         /\ IsInjective(run.selected[i])
         /\ RoutesBest(BiasedScores(i), run.selected[i])
         /\ StaysInGroups(BiasedScores(i), run.selected[i])
<1>1. run.selected # kNone
  BY DEF SelectionsSoFar, kNone
<1>2. Working(slice, run)
  BY <1>1 DEF ExpertInv, Quiet
<1>3. run.step \notin BeforeLoop
  BY <1>1, <1>2 DEF Working
<1>4. LoopOK(slice, run) /\ run.tokens \in Nat \ {0} /\ SliceOK(slice)
  BY <1>2, <1>3, InLoop
<1>5. i \in 1 .. Len(run.selected) /\ Len(run.selected) \in Nat /\ Len(run.selected) <= run.tokens
  BY <1>4 DEF LoopOK, SelectionsSoFar
<1>6. i - 1 \in Rows(run) /\ i - 1 \in Nat
  BY <1>4, <1>5 DEF Rows
<1>7. run.logits[i - 1] = LogitsOf(slice, run, i - 1)
  BY <1>2, <1>3, <1>6 DEF Working, AllLogits, BeforeLoop, BeforeUp
<1>8. run.selected[i] \in Selections(slice.config, LogitsOf(slice, run, i - 1), slice.bias)
  BY <1>4, <1>5 DEF LoopOK
<1>9. FiniteScores(ScoresForChoice(LogitsOf(slice, run, i - 1), slice.bias), slice.config)
  BY <1>2, <1>6, ScoresAreFinite
<1>10. ConfigOK(slice.config)
  BY <1>4 DEF SliceOK
<1>11. BiasedScores(i) = ScoresForChoice(LogitsOf(slice, run, i - 1), slice.bias)
  BY <1>7 DEF BiasedScores
<1>. QED BY ONLY <1>8, <1>9, <1>10, <1>11, SelectionIsBest

LEMMA SuccessIsOfARun ==
  ASSUME ExpertInv, Succeeded
  PROVE  /\ Working(slice, run) /\ Given(run, output, trace) /\ run.step = "idle"
         /\ LoopOK(slice, run) /\ run.tokens \in Nat \ {0} /\ SliceOK(slice)
         /\ run.token = run.tokens /\ Len(run.selected) = run.tokens
         /\ slice.config.top_k \in Nat \ {0}
<1>1. Working(slice, run) /\ Given(run, output, trace) /\ run.step = "idle"
  BY DEF ExpertInv, Quiet, Succeeded
<1>2. run.step \notin BeforeLoop
  BY <1>1 DEF BeforeLoop, BeforeUp, BeforeGate
<1>3. LoopOK(slice, run) /\ run.tokens \in Nat \ {0} /\ SliceOK(slice)
  BY <1>1, <1>2, InLoop
<1>4. run.token = run.tokens /\ Len(run.selected) = run.tokens
  BY <1>1, <1>3 DEF LoopOK
<1>5. slice.config.top_k \in Nat \ {0}
  BY <1>3 DEF SliceOK, ConfigOK, ConfigValid
<1>. QED BY <1>1, <1>3, <1>4, <1>5

\* The experts of a token are the best by the scores they compete with, those of experts
\* outside some choice of the best groups being 0, and they are in that order, in every run
\* of a layer, whatever its configuration, its bias, its scores and the ties among them
\* (SelectTopExperts, expert_layer.cpp:277).
THEOREM TokensGoToTheBest == ExpertSpec => []RoutedToTheBest
<1>1. ExpertInv => RoutedToTheBest
  <2>. SUFFICES ASSUME ExpertInv, NEW i \in SelectionsSoFar
                PROVE  RoutesBest(BiasedScores(i), run.selected[i])
    BY DEF RoutedToTheBest, RoutesBest
  <2>. QED BY SelectedAre
<1>. QED BY <1>1, ExpertInvAlways, PTL

\* A token is sent to experts of topk_group groups only, where the biased scores are
\* positive and the groups have experts enough, in every run of a layer: where the mask's
\* score 0 is below all of them, it does what it is there for (expert_layer.cpp:337).
THEOREM GroupsStayLimited == ExpertSpec => []GroupLimited
<1>1. ExpertInv => GroupLimited
  <2>. SUFFICES ASSUME ExpertInv, NEW i \in SelectionsSoFar
                PROVE  StaysInGroups(BiasedScores(i), run.selected[i])
    BY DEF GroupLimited, StaysInGroups
  <2>. QED BY SelectedAre
<1>. QED BY <1>1, ExpertInvAlways, PTL

\* A sum over an injective sequence is the sum over what it ranges over.
LEMMA SumOverRange ==
  ASSUME NEW s, IsFiniteSet(DOMAIN s), IsInjective(s), IsFiniteSet(Range(s)),
         NEW f, DOMAIN f = Range(s), \A x \in Range(s) : f[x] \in Int
  PROVE  Sum([j \in DOMAIN s |-> f[s[j]]]) = Sum(f)
<1>. DEFINE S == DOMAIN s
            R == Range(s)
            g == [j \in S |-> f[s[j]]]
            image(T) == {s[j] : j \in T}
<1>1. /\ \A j \in S : s[j] \in R
      /\ \A i, j \in S : s[i] = s[j] => i = j
      /\ image(S) = R /\ image({}) = {}
  BY DEF Range, IsInjective
<1>2. PICK sum : Adds(sum, f, R)
  BY AddsExist
<1>. DEFINE sums == [T \in SUBSET S |-> sum[image(T)]]
<1>3. \A T \in SUBSET S : image(T) \in SUBSET R
  BY <1>1
<1>4. \A T \in SUBSET S : \A i \in T : image(T \ {i}) = image(T) \ {s[i]} /\ s[i] \in image(T)
  BY <1>1
<1>5. /\ sum \in [SUBSET R -> Int] /\ sum[{}] = 0
      /\ \A T \in SUBSET R : \A x \in T : sum[T] = f[x] + sum[T \ {x}]
  BY <1>2 DEF Adds
<1>6. (\A j \in S : g[j] \in Int) /\ DOMAIN g = S
  BY <1>1
<1>7. Adds(sums, g, S)
  <2>. HIDE DEF image
  <2>1. ASSUME NEW T \in SUBSET S, NEW i \in T PROVE sums[T] = g[i] + sums[T \ {i}]
    <3>1. sum[image(T)] = f[s[i]] + sum[image(T) \ {s[i]}]
      BY <1>3, <1>4, <1>5
    <3>. QED BY <1>4, <3>1
  <2>2. sums \in [SUBSET S -> Int] /\ sums[{}] = 0
    BY <1>1, <1>3, <1>5
  <2>. HIDE DEF sums, g
  <2>. QED BY <2>1, <2>2 DEF Adds
<1>8. Sum(f) = sum[R]
  BY <1>2, SumAdds
<1>9. Sum(g) = sums[S]
  <2>. HIDE DEF sums, g, S
  <2>. QED BY <1>6, <1>7, SumAdds DEF S
<1>10. sums[S] = sum[R]
  <2>. HIDE DEF image
  <2>. QED BY <1>1
<1>. QED BY <1>8, <1>9, <1>10

\* What the code computes, summing over the selection, is the weight by its definition.
LEMMA WeightIs ==
  ASSUME ExpertInv, Succeeded, NEW t \in Tokens
  PROVE  \A i \in 1 .. slice.config.top_k :
           ExpertWeight(slice.config, LogitsOf(slice, run, t), slice.bias, run.selected[t + 1], i)
             = WeightOf(t, run.selected[t + 1][i])
<1>. DEFINE s == run.selected[t + 1]
            logits == LogitsOf(slice, run, t)
            k == slice.config.top_k
            f == [x \in Range(s) |-> Sigmoid(logits[x])]
<1>1. /\ Working(slice, run) /\ run.step = "idle" /\ LoopOK(slice, run)
      /\ run.tokens \in Nat \ {0} /\ Len(run.selected) = run.tokens /\ SliceOK(slice)
      /\ slice.config.top_k \in Nat \ {0}
  BY SuccessIsOfARun
<1>2. t \in Nat /\ t \in Rows(run) /\ t + 1 \in SelectionsSoFar
  BY <1>1 DEF Tokens, Rows, SelectionsSoFar, LoopOK
<1>3. s \in [1 .. k -> Experts(slice.config)] /\ IsInjective(s)
  BY <1>2, SelectedAre
<1>4. run.logits[t] = logits
  BY <1>1, <1>2 DEF Working, AllLogits, BeforeGate
<1>5. IsFiniteSet(DOMAIN s) /\ IsFiniteSet(Range(s))
  <2>1. k \in Nat
    BY <1>1
  <2>2. IsFiniteSet(1 .. k)
    BY ONLY <2>1, FS_Interval
  <2>. HIDE DEF s, k
  <2>. QED BY <1>3, <2>1, <2>2, InjectiveCounts
<1>6. \A x \in Range(s) : f[x] \in Int
  <2>1. DOMAIN logits = Experts(slice.config)
    BY DEF LogitsOf, Experts
  <2>2. ASSUME NEW e \in Experts(slice.config) PROVE Sigmoid(logits[e]) \in Int
    <3>. DEFINE n == slice.config.n_routed_experts
    <3>1. n \in Nat \ {0} /\ e \in 0 .. n - 1
      BY <1>1 DEF SliceOK, ConfigOK, ConfigValid, Experts
    <3>2. (e + t) % n \in 0 .. n - 1
      BY <1>2, <3>1
    <3>3. logits[e] = run.row[(e + t) % n]
      BY <3>1 DEF LogitsOf
    <3>4. run.row \in RouterRows /\ DOMAIN run.row = 0 .. n - 1
      BY <1>1 DEF Working, Experts
    <3>. QED BY <3>2, <3>3, <3>4, ExpertAssumption
  <2>3. Range(s) \subseteq Experts(slice.config)
    BY <1>3 DEF Range
  <2>. QED BY <2>2, <2>3
<1>7. Sum([j \in DOMAIN s |-> f[s[j]]]) = Sum(f)
  <2>1. DOMAIN f = Range(s)
    OBVIOUS
  <2>. HIDE DEF f, s
  <2>. QED BY <1>3, <1>5, <1>6, <2>1, SumOverRange
<1>8. [j \in DOMAIN s |-> f[s[j]]] = [j \in DOMAIN s |-> Sigmoid(logits[s[j]])]
  BY DEF Range
<1>9. Sum([j \in DOMAIN s |-> Sigmoid(logits[s[j]])]) = Sum([x \in Range(s) |-> Sigmoid(logits[x])])
  BY <1>7, <1>8
<1>10. ASSUME NEW i \in 1 .. k
       PROVE  ExpertWeight(slice.config, logits, slice.bias, s, i) = WeightOf(t, s[i])
  <2>. HIDE DEF s, logits, f
  <2>1. ExpertWeight(slice.config, logits, slice.bias, s, i) =
          <<Sigmoid(logits[s[i]]),
            IF slice.config.norm_topk_prob THEN Sum([j \in DOMAIN s |-> Sigmoid(logits[s[j]])]) ELSE 1>>
    BY DEF ExpertWeight, Sum
  <2>2. WeightOf(t, s[i]) =
          <<Sigmoid(logits[s[i]]),
            IF slice.config.norm_topk_prob THEN Sum([x \in Range(s) |-> Sigmoid(logits[x])]) ELSE 1>>
    BY <1>4 DEF WeightOf, Sum, s
  <2>. QED BY ONLY <1>9, <2>1, <2>2
<1>. QED BY <1>10

\* A run that reports success has written for every token the sum of its own input, of the
\* shared expert on its own normalized input, and of the projection of its experts' outputs
\* on its own latent row, each with its own weight; each projection in the format of its
\* weights; whatever failed in earlier runs, whatever the experts selected and however many
\* tokens (ExpertLayerSlice::Run, expert_layer.cpp:868-1069).
THEOREM OutputsAreMixtures == ExpertSpec => []OutputIsMixture
<1>1. ExpertInv => OutputIsMixture
  <2>. SUFFICES ASSUME ExpertInv, Succeeded PROVE OutputIsMixture
    BY DEF OutputIsMixture
  <2>1. /\ Working(slice, run) /\ Given(run, output, trace) /\ run.step = "idle"
        /\ LoopOK(slice, run) /\ run.tokens \in Nat \ {0} /\ SliceOK(slice)
        /\ run.token = run.tokens /\ Len(run.selected) = run.tokens
        /\ slice.config.top_k \in Nat \ {0}
    BY SuccessIsOfARun
  <2>2. /\ run.shared = AllShared(slice, run) /\ run.projected = AllProjected(run)
        /\ output = [t \in Rows(run) |-> <<run.projected[t], run.shared[t], Input(t)>>]
        /\ Tokens = Rows(run)
    BY <2>1 DEF Working, Given, Tokens, Rows
  <2>3. ASSUME NEW t \in Tokens
        PROVE  LET experts == run.selected[t + 1]
                   norm == <<"norm", <<"input", t>>>>
                   up == <<"shared_up", Format("shared_up", slice.bindings.shared_up), norm>>
                   latent == <<"fc1", Format("fc1", slice.bindings.fc1), norm>>
               IN /\ Len(experts) = slice.config.top_k /\ IsInjective(experts)
                  /\ output[t] =
                       << <<"fc2", [i \in 1 .. Len(experts) |->
                                      <<experts[i], latent, WeightOf(t, experts[i])>>]>>,
                          <<"shared_down", Format("shared_down", slice.bindings.shared_down),
                            <<"relu2", up>>>>,
                          <<"input", t>> >>
    <3>. DEFINE experts == run.selected[t + 1]
                k == slice.config.top_k
                part(i) == <<experts[i], LatentOf(slice, t), WeightOf(t, experts[i])>>
    <3>1. t \in Nat /\ t \in Rows(run) /\ t + 1 \in SelectionsSoFar /\ t \in 0 .. run.token - 1
      BY <2>1 DEF Tokens, Rows, SelectionsSoFar, LoopOK
    <3>2. experts \in [1 .. k -> Experts(slice.config)] /\ IsInjective(experts)
      BY <3>1, SelectedAre
    <3>3. Len(experts) = k
      BY <2>1, <3>2
    <3>4. run.routed[t] = [i \in 1 .. k |-> part(i)]
      <4>1. run.routed[t] = RoutedOf(slice, run, t, k)
        BY <2>1, <3>1 DEF LoopOK
      <4>2. \A i \in 1 .. k : PartOf(slice, run, t, i) = part(i)
        BY WeightIs DEF PartOf
      <4>. HIDE DEF part
      <4>. QED BY <4>1, <4>2 DEF RoutedOf
    <3>5. output[t] = << <<"fc2", [i \in 1 .. k |-> part(i)]>>, SharedOf(slice, t), Input(t)>>
      <4>. HIDE DEF part
      <4>. QED BY <2>2, <3>1, <3>4 DEF AllShared, AllProjected
    <3>6. /\ slice.fc1 = Format("fc1", slice.bindings.fc1)
          /\ slice.shared_up = Format("shared_up", slice.bindings.shared_up)
          /\ slice.shared_down = Format("shared_down", slice.bindings.shared_down)
      BY <2>1 DEF SliceOK
    <3>7. LatentOf(slice, t) = <<"fc1", Format("fc1", slice.bindings.fc1), <<"norm", <<"input", t>>>>>>
      BY <3>6 DEF LatentOf, Normed, Input
    <3>8. SharedOf(slice, t) =
            <<"shared_down", Format("shared_down", slice.bindings.shared_down),
              <<"relu2", <<"shared_up", Format("shared_up", slice.bindings.shared_up),
                           <<"norm", <<"input", t>>>>>>>>>>
      BY <3>6 DEF SharedOf, ActivatedOf, SharedUpOf, Normed, Input
    <3>. QED BY <3>2, <3>3, <3>5, <3>7, <3>8 DEF Input
  <2>. QED BY <2>3 DEF OutputIsMixture
<1>. QED BY <1>1, ExpertInvAlways, PTL

\* The trace of a run that reports success is that run's in every field, and its fields fit
\* together from the normalized input to the output, whatever the caller's trace held before
\* (expert_layer.cpp:868-1090).
THEOREM TracesAreOfTheirRun == ExpertSpec => []TraceIsOfThisRun
<1>1. ExpertInv => TraceIsOfThisRun
  <2>. SUFFICES ASSUME ExpertInv, Succeeded, run.traced PROVE TraceIsOfThisRun
    BY DEF TraceIsOfThisRun
  <2>. DEFINE k == slice.config.top_k
              order == run.selected[1]
  <2>1. /\ Working(slice, run) /\ Given(run, output, trace) /\ run.step = "idle"
        /\ LoopOK(slice, run) /\ Len(run.selected) = run.tokens /\ run.token = run.tokens
        /\ SliceOK(slice) /\ k \in Nat \ {0}
    BY SuccessIsOfARun
  <2>2. run.tokens = 1 /\ run.projected = AllProjected(run)
    BY <2>1, Zenon DEF Working
  <2>3. Rows(run) = {0} /\ 0 \in Tokens /\ 0 \in 0 .. run.token - 1 /\ 1 \in SelectionsSoFar
    BY <2>1, <2>2 DEF Rows, Tokens, SelectionsSoFar, LoopOK
  <2>4. run.selection = order
    BY <2>1, <2>2 DEF LoopOK
  <2>5. order \in [1 .. k -> Experts(slice.config)]
    BY <2>3, SelectedAre
  <2>6. LoopTraced(run, trace) /\ EndTraced(run, trace)
    BY <2>1, Zenon DEF Given, AfterLoop
  <2>7. run.normalized[0] = Normed(0) /\ run.logits[0] = LogitsOf(slice, run, 0)
        /\ run.latent[0] = LatentOf(slice, 0)
    BY <2>1, <2>3 DEF Working, AllNormed, AllLogits, AllLatent, BeforeGate, BeforeUp
  <2>8. Gated(Normed(0)) = LogitsOf(slice, run, 0)
    BY DEF Gated, Normed, Input, LogitsOf
  <2>9. LatentOf(slice, 0) = <<"fc1", Format("fc1", slice.bindings.fc1), Normed(0)>>
    BY <2>1 DEF LatentOf, SliceOK
  <2>10. run.routed[0] = [i \in 1 .. k |-> <<order[i], LatentOf(slice, 0), WeightOf(0, order[i])>>]
    <3>1. run.routed[0] = RoutedOf(slice, run, 0, k)
      BY <2>1, <2>3 DEF LoopOK
    <3>2. \A i \in 1 .. k : PartOf(slice, run, 0, i) = <<order[i], LatentOf(slice, 0), WeightOf(0, order[i])>>
      BY <2>3, WeightIs DEF PartOf
    <3>. QED BY <3>1, <3>2 DEF RoutedOf
  <2>11. DOMAIN order = 1 .. k
    BY <2>5
  <2>12. output[0] = <<run.projected[0], run.shared[0], Input(0)>>
    BY <2>1, <2>3 DEF Given
  <2>. HIDE DEF order, k
  <2>13. /\ trace.normalized = Normed(0) /\ trace.logits = Gated(Normed(0))
         /\ trace.latent = LatentOf(slice, 0) /\ trace.order = order /\ trace.selected = order
    BY <2>4, <2>6, <2>7, <2>8 DEF LoopTraced, EndTraced
  <2>14. trace.outputs = [i \in 1 .. k |-> <<order[i], LatentOf(slice, 0)>>]
    BY <2>4, <2>6, <2>7, <2>11 DEF LoopTraced, OutputsOf
  <2>15. trace.hidden = [i \in 1 .. k |-> <<"relu2", order[i], LatentOf(slice, 0)>>]
    BY <2>4, <2>6, <2>7, <2>11 DEF LoopTraced, HiddenOf
  <2>16. /\ trace.contributions = run.routed[0] /\ trace.routed = run.routed[0]
         /\ trace.projected = <<"fc2", run.routed[0]>>
         /\ trace.mixer = <<trace.projected, trace.shared>>
         /\ output[0] = <<trace.projected, trace.shared, <<"input", 0>>>>
    BY <2>2, <2>3, <2>6, <2>12 DEF LoopTraced, EndTraced, AllProjected, Input
  <2>17. trace.normalized = <<"norm", <<"input", 0>>>>
    BY <2>13 DEF Normed, Input
  <2>. QED BY <2>9, <2>10, <2>11, <2>13, <2>14, <2>15, <2>16, <2>17 DEF TraceIsOfThisRun, order
<1>. QED BY <1>1, ExpertInvAlways, PTL
=============================================================================
