# Verification of nemotron-inference

A TLA+ development of the C++ runtime under `runtime/` (state machines of the
serving path: the exact-prefix cache and the arena its states live in, the
paged KV pool, the request execution context, the forward pass over a layer
schedule, the linear operators and the GEMMs they run, the expert layer, the
building of the runtime environment with the loading of weights, the packing of
NVFP4 matrices). TLC checks every specification on small instances; TLAPS
proves 39 of the 40 properties that hold (all but the one of liveness), among
them that the cache implements its contract, for all values of the constants.

The host side is single-threaded: no locks, no threads, no callbacks. Every
public call runs to completion before the next one, so a public call is one
atomic action, except where an operation may fail between two steps of one call
(the forward pass, the linear operators, the expert layer, loading, packing):
there each step is an action. Only CUDA
kernels run threads, and there each thread is an action. What makes the system
hard is seldom interleaving but long sequences of legal calls by
several callers on shared bookkeeping, calls that fail half way, values handed
out and used later, and limits being reached.

## 1. Inventory

| part | state | operations | interacts with |
|---|---|---|---|
| reusable-state arena (`cache/reusable_state.cpp`) | id counter, byte count, reference-counted allocations | Allocate, AllocateDescriptor, Retain, Release (handle, descriptor) | called by the prefix cache and by callers directly |
| exact-prefix cache (`cache/prefix_cache.cpp`) | nodes, fingerprint index, committed and prompt heads, byte count, access clock, id counter, enabled | PublishConversationHead, PublishGlobalRoot, Lookup, SetEnabled, Clear | retains and releases arena states |
| paged KV pool (`attention/paged_kv_cache.cpp`) | owner of each page, free list | AllocatePages, ReleasePages, InspectPage | owned by a request context |
| request context (`backend/request_context.cpp`) | pool, page list per layer, sequence length, decode position, device buffers | EnsureAttentionTokens, SetSequenceLength, AdvanceDecodePosition, ResetForNewRequest | written by the layer slices |
| forward pass (`api/single_token_forward_model.cpp`) | immutable plan and slices; per run: current/next buffer, layer position | BuildSingleTokenForwardPlan, RunPrefill, RunSingleToken | resets the context, runs the slices |
| layer slices (`backend/attention_layer.cpp`, `mamba_layer.cpp`, `expert_layer.cpp`) | weights | Run | read and write the context's buffers and pages |
| batch plan (`attention/paged_attention_plan.cpp`) | none | BuildPagedAttentionBatchPlan | attention slice |
| memory budget (`planning/memory_budget.cpp`) | none | BuildMemoryBudgetSummary | sizes arena and cache |
| runtime environment (`api/runtime_environment.cpp`, `runtime_config.cpp`, `loader/loader.cpp`) | owns loader, catalogs, arena, cache | Build, BuildFromManifestFile | everything above |
| artifact loader, weight arena (`loader/artifact_loader.cpp`, `weight_arena*.cpp`) | mapped files, placements | OpenVerified, ViewRange, CreateFromPlan | environment, slices |
| manifest, schedule, catalogs (`loader/manifest.cpp`, `model_schedule.cpp`, `*_catalog.cpp`) | parsed tables | Build, Find | environment, forward pass |
| linear operators (`backend/linear_op.cpp`, `dense_weight.cpp`, `nvfp4_weight.cpp`, `scaled_fp8_linear.cu`) | device weight, host copy | Create, Run | slices; plan and run GEMMs |
| GEMM planning and heuristic cache (`loader/gemm_*.cpp`, `cublaslt_gemm_plan.cpp`, runners) | algorithm cache | plan, look up, run | linear operators |
| NVFP4 packing and scales (`backend/nvfp4_*.cpp`, `device_nvfp4_matrix.cu`) | four device buffers of a matrix or weight | pack on the host, pack on the device, upload, swizzle scales | weights, GEMM runners |
| device wrappers | device pointers | CUDA, cuBLASLt, cuDNN calls | slices, linear operators |

What makes each correct, for the parts modelled so far:

* arena: it counts exactly the references its callers own; its byte count is
  the bytes alive and within capacity; a dead handle stays dead.
* cache: heads and node roles mirror each other; the index holds each node
  once; references are neither leaked nor released twice; the budget is kept by
  evicting in order of age and no more than needed; what a lookup hands out was
  computed for an exact prefix of the prompt asked about, in its context.
* pool and context: a page belongs to one layer or is free; growth never moves
  a token; a refused growth is a real shortage; a successful reset leaves
  nothing behind.
* forward pass: no run sees state of an earlier run, however that one ended;
  each recurrent state advances exactly once per run; each layer reads the
  output of the one before; keys and values are where the page lists say.
* weight loading: buffers are disjoint, aligned and exact copies of the file
  ranges the manifest names, or nothing stays open.
* NVFP4 packing: kernel threads in any order give the host packer's result;
  every block scale is where the GEMM reads it and nowhere else.
* linear operators: a reported success is the product, by whichever of the
  device path and the CPU path; failures leak nothing; the CPU path can serve
  whatever was accepted; every call returns.
* expert layer: a token gets exactly its own experts, the best by the score they
  compete with, on its own values with its own weights; a trace is of one run.
* environment: cache and arena get exactly the memory the service leaves.

The hazards (what a unit test would hardly reach, with its source line and the
properties that would notice) are listed in `PROJECT.json`.

## 2. Modules

| module | models | extends |
|---|---|---|
| `ReusableState` | the arena as a value: each C++ method is an operator from an arena to the arena it leaves (and its result) | |
| `ReusableStateArena` | the arena driven by callers who hold live, dead, default or foreign handles | `ReusableState` |
| `ReusableStateArenaProofs` | theorems about `ReusableStateArena` | |
| `PrefixCache` | the cache on top of the arena, and its callers | `ReusableState` |
| `PrefixCacheContract` | what callers may observe of the cache, without ids, index, clock, bytes, references | |
| `PrefixCacheProofs` | theorems about `PrefixCache` | |
| `PagedKvCache` | the page pool as a value | |
| `RequestContext` | the request context as a value | `PagedKvCache` |
| `RequestContextCalls` | the context driven by its public calls | `RequestContext` |
| `RequestContextProofs` | lemmas about the operators of the pool and the context | `RequestContext` |
| `RequestContextCallsProofs` | theorems about `RequestContextCalls` | `RequestContextProofs` |
| `ForwardPass` | `RunPrefill` over a schedule, step by step, on one context | `RequestContext` |
| `ForwardPassProofs` | theorems about `ForwardPass` | `RequestContextProofs` |
| `ExpertLayer` | an expert layer: the formats of its projections, the selection of experts, the mixture, the trace | |
| `WeightLoading` | `BuildFromManifestFile` from the manifest's verification to the filled weight arena | |
| `RuntimeEnvironment` | the environment around the loaded weights: memory budget, configuration, arena and cache; also built without files | `WeightLoading` |
| `WeightLoadingProofs` | theorems about `WeightLoading` and `RuntimeEnvironment` | `RuntimeEnvironment` |
| `Nvfp4ScaleLayout` | where the block scales of a matrix lie in the GEMM's tiled buffer | |
| `Nvfp4Packing` | packing a device matrix: the kernels thread by thread, against the host packer | `Nvfp4ScaleLayout` |
| `Nvfp4PackingProofs` | theorems about `Nvfp4Packing` | |
| `Nvfp4Weight` | uploading a packed weight of the checkpoint | `Nvfp4ScaleLayout` |
| `LinearOp` | creating and running dense, NVFP4 and scaled FP8 operators: plan, GEMM, fallback | `Nvfp4Weight` |
| `LayerProofs` | theorems about `LinearOp` and `ExpertLayer`, on one theory of finite sums | `LinearOp`, `ExpertLayer` |
| `MC...` | TLC instances | |

The value style follows the code: `PrefixCache` calls `Retain` and `Release`
inside its own methods, `RunPrefill` calls the context's methods inside its own
steps. A component that is called by another is therefore a module of operators
on values; the module that drives it alone and the module that composes it use
the same operators, so a property of either is about the same definition.

### Arena

`Arena(nextId, currentBytes, allocations)` is `ReusableStateArena::Impl`.
`Admits` is the capacity test, in `size_t` (`% SizeModulus`). `AllocateDescriptor`
and `RetainDescriptor` contain their rollbacks. `holds` in `ReusableStateArena`
is a history variable: the references callers believe they own, counted only
from what the calls returned. Labels are left out (nothing reads them).

### Cache

A node is `CacheNode` with its two conversation sets merged into one set of
slots `<<kind, conversation>>`; `heads` merges the two head maps the same way,
0 standing for an absent key. `nodes_by_fingerprint` is a set of pairs. The
fingerprint is a CONSTANT operator: the proofs hold for any function, and the
TLC instance makes two prompts of different contexts collide. `RemoveNodes`
takes a set because eviction and reset remove several nodes in a loop, in an
order that does not matter to the result; `Victims` is the set the eviction loop
removes. Ticks are unique, so "least recently used" is unambiguous.

The callers are part of the model because the hazards are about them: a caller
computes a state into a descriptor (`ComputeState`), publishes it, drops its
reference (`DropState`), looks up, and adopts the state of its last match
(`AdoptMatch`) possibly much later. `computed` and `held` are history.
Callers publish a descriptor for the prompt it was computed for; a caller that
publishes some other prompt's state is outside the model.

### Context and forward pass

A device buffer is the set of entries written to it since it was zeroed; a
CUDA memset that fails leaves the buffer as it was. `ResetForNewRequest` takes
the number of buffers zeroed before the first failure. The two Mamba states
exist together (`HasMamba`), as the plan sizes them.

`ForwardPass` tags each entry with the slot it is for and whether the run in
progress or an earlier one wrote it; the tag is history. Every run chooses its
token count, its stop layer and where it fails. The trace and all numbers are
left out. The pages a release returns are sorted in by rank (`SortedDown`), as
the code sorts its free list after every release. The attention slice uploads
the K cache, then the V cache; the Mamba slice the convolution state, then the
scan state: failures in between are separate outcomes. `PlanAssumption` is the
sizing `BuildSingleTokenForwardPlan` does.

### Weight loading

Verification, loader, tensor catalog, arena plan and arena visit the buffers of
a manifest in one order, a tensor's packed bytes and then its auxiliaries, so a
manifest is that sequence of buffers, and each component is a phase with a
position `next` in it. Any system call may fail; whatever was built is then
destroyed (`Discard`). `fds` and `mappings` are the operating system's view,
`opened` and `indices` the loader's: only files in `opened` are released by its
destructor. A byte of memory is the file and offset it came from. `KeyOf` is the
lexical normal form of a path; two paths with one key are one file, which is what
the code relies on (a link to a directory followed by `..` would break it). Files
do not change while they are loaded. An alignment that is not a power of two is
honoured for offsets only; the address is then aligned to the next power of two
only in the base, so `AddressesAligned` speaks of powers of two.

### NVFP4 packing

Host and device hold a copy of the scale arithmetic each, equal line for line;
`ScaleOffset` is both, with `& 31`, `>> 5`, `& 3` and `<< 9 | ...` written as
`%`, `\div`, `*` and `+` of the tile's dimensions. A kernel launch is a set `todo` of
threads that run in any order; `cudaDeviceSynchronize` waits until it is empty.
A thread's body is one action: it reads only what earlier launches wrote and
writes bytes no other thread writes, which `WritesNeverCollide` checks rather
than assumes; the one shared variable is updated by `atomicMax`. Overlapping
buffers are not modelled, `cudaMalloc` returns distinct memory.

Numbers are small integers. `kInf` is an infinite magnitude, `kLimit` the
product of the two formats' maxima, and the tensor scale `t` stands for the
float `t / kLimit`; the rounding to FP4 and FP8 is a name for what is rounded
(`<<m, t>>`, `PackedByte`), so two results are equal when the code encodes equal
values with equal scales. NaN is left out: on the device it would compare false
everywhere, on the host it is refused. The device packer, unlike the host's,
does not refuse values that are not finite; `DeviceMatchesHost` is about the
matrices the host accepts.

`Nvfp4Weight` moves the scales on the host, one turn of the loop at a time, and
uploads four buffers, each of which may fail. The lengths its checks compare
are those of the descriptor. It is the creation of an NVFP4 operator in
`LinearOp` and is checked there.

### Linear operators

`LinearOp` is one operator, created once and then run again and again. The three
kinds go through different files but share the runners' skeleton, so they share
actions, and what differs is a condition on `descriptor.family`. Every CUDA and
cuBLASLt call is an action or a disjunct that may fail; the ten to twelve calls
that describe a GEMM are a list `LibraryCalls`, made one by one, each remembering
a failure in `ok` as the code's `ok &=` does. `call.objects` and `call.temps` are
what is alive on the library's and the device's side. cuBLASLt is external: a
product with the leading dimensions and transposition the plan gives it, so a
wrong plan gives a wrong product. The caller's output tensor may be fresh, may
have a row too many, and may be the one of the call before.

A pointer to a descriptor is the descriptor's state: `"alive"` is the operator's
own, `"dead"` the local one of `BuildRuntimeGemmPlan`, whose bytes after its
lifetime are chosen freely among what they were, something the upload refuses,
and the descriptor of other bytes. NVFP4 has no CPU path; the other formats fall
back to it from any failure. The weight's tensor scale is what the descriptor
says, uploaded with the weight; that of the activations is derived from them by
the packer (`TensorScale`), and `Codes` is what remains of them in packed form. A
product multiplies by `Alpha`, computed from the two scales read back, so a stale
one of either operand shows. What FP8 rounding keeps of a number, what an
element's bytes mean, and the scale a packer finds are parameters.

### Expert layer

What a vector holds is a term (`<<"fc1", format, <<"norm", <<"input", t>>>>>>`),
so two values are equal when they were computed alike from the same things, and
a row taken from the wrong token or run in the wrong format shows. Only the
router's logits are numbers, because the selection compares them. `Ranked` is
`std::partial_sort`: any order among equal scores. The experts of groups that were
not chosen keep score 0 and still compete, as in the code, and `RoutedToTheBest`
compares the selected experts with all others by the score they compete with
(`Competing`). The trace has the code's twelve fields: the loop over the tokens
fills five and keeps the rest for the end of the run, which `Combine` is.
`CreateSlice` stops short of the combination that dereferences null (a projection
without readable scales and without a GEMM binding); with a GEMM binding such a
projection is dense, and `OutputIsMixture` takes it as such: an FP8 weight that is
run without its scales is a listed hazard that no property catches.

### Environment

`RuntimeEnvironment` extends `WeightLoading` to the whole of
`BuildFromManifestFile`: after the last copy the catalogs may be refused, else
the budget is computed in `size_t` (`Wrap`, `SaturatingAdd` where the code has it)
from the options, the manifest's runtime section and `/proc/meminfo`, and arena
and cache are constructed with it. `Build` does the last part without files. What
was built is kept together with the inputs it was built from, which is history.
Which catalogs are valid is left open.

## 3. Runs

| run | question | bounds | result |
|---|---|---|---|
| `arena` | are references, bytes and ids exact under any order of calls? | capacity 6, sizes 0, 2, 3, ids to 4, 2 references per handle | holds |
| `arena_overflow` | is the capacity respected for every size? | width 8, sizes 2 and 7 | violated: finding 1 |
| `cache` | are heads, index, references, bytes and matches consistent, is eviction by age and minimal, and does the cache implement its contract? | 4 prompts (nested; colliding across contexts; 7, 12, 17 and 22 bytes in a budget of 19: the first two fit exactly, the third evicts one or two, the fourth cannot stay), 2 conversations, 2 states per prompt, arena of 9 bytes, 2 references held | holds |
| `cache_lookup_order` | is the committed head probed first, as documented? | one conversation | violated: finding 2 |
| `context` | are pages accounted for, in any order of calls and failures? | 2 layers, 4 pages of 2 tokens where max_tokens would need 6 | holds |
| `context_leak` | does a reset return all pages? | as above | violated: finding 3 |
| `forward` | is a run independent of how earlier ones ended? | 5 layers of all kinds, an index the schedule skips, 2 pages per layer; unboundedly many runs | holds |
| `experts` | does every token get its own experts' mixture, from the best experts, in the right formats, and a trace of its own run? | 4 experts in 2 or 4 groups (3: refused), 1 to 3 chosen (5: refused), ties, negative biases, 1 or 2 tokens, 4 combinations of formats, a failure at any step | holds |
| `weights` | does a load end with exact, disjoint, aligned buffers, or with nothing open, and does the cache then get exactly what is left? | 2 files, one under two names; sizes 0, 4, 6; manifests of one or two tensors, valid or with each kind of error; alignments 1, 16, 24, 32, 64; bases 32, 64, 128; mmap or read; `size_t` of 4 bits, budgets that fit, fit exactly, do not fit and overflow, host memory known or not, 3 values of the variable | holds |
| `nvfp4_packing` | do kernels in any order compute what the host does, each scale in its place, nothing leaked? | tiles of 4 rows by 2 blocks of 4 values, thread blocks of 4; 11 jobs: one or two tiles of rows, one to three blocks per row, infinite values, fixed scales valid and not, shapes refused | holds |
| `linear` | is a success the product, does nothing leak, does the CPU path serve, is every scale in place, does every call return? | NVFP4 with the real tile sizes (16; 32 by 4 rows; 4 blocks): 130 by 80, 33 by 16, 1 by 96, one misaligned and five refused; dense FP32, BF16 and FP8, misaligned, scaled, of wrong size; scaled FP8; 2 rows (scaled FP8: 1 or 2), 2 inputs, unboundedly many calls | holds |
| `linear_scaled` | does a scaled FP8 operator on one row agree with the CPU? | one scaled FP8 operator, 2 inputs | violated: finding 4 |

Bounds that are part of a module: `MaxIds`, `MaxHolds` (arena), `MaxStateIds`,
`MaxStatesPerPrompt`, `MaxHeld`, `MaxTick` (cache), `MaxAlignmentExponent` (the
powers of two searched), `MaxTokens` of the expert layer (tokens of one call; in
the context and the forward pass `MaxTokens` is the code's own `max_tokens`). The
others only stop counters that grow forever (ids, clock, references). Two references tell "last" from "not
last"; two states per prompt tell a refresh from a replacement; the tick bound
leaves four to six publications or hits in a behaviour. The context, the
forward pass and the linear operators need no such bound: their state space is
finite. Two tokens and up to three experts each tell a token's own rows from
another's and an expert's place in the order from its number; 130 by 80 has
more than one tile of rows and of blocks with the last of each incomplete. In the runs with
a bound, the calls that remain at the bound (releases, lookups, clears) keep
the system from deadlock. Deadlock is checked except where a call returns and
nothing follows: packing, and an operator that could not be created.

Fairness is assumed in one place. `LinearSpec` has `WF_linearVars(Continue)`: once
a public call has begun, the thread that made it goes on to the next statement,
whichever that is, as nothing in the code waits for anything but the device,
whose calls return with success or failure. A caller need never call (`Run` is
not part of `Continue`). `CallsReturn` uses it, and says that the walk through
plan, packing, GEMM and fallback has no loop; all other properties are safety
properties and use none. The other loops of the code (eviction, the layer loop)
are over finite tables and appear inside one action or as one action per layer.

The type invariants (`TypeOK`) of the arena, the cache, the request context, the
forward pass, the weight loading and the packing are proved (`TypeCorrect`), as is
that only a failed reset loses pages (`OnlyFailedResetsLose`); they are not checked
by a run. Those of the linear operators are parts of the invariant in
`LayerProofs`, and those of the expert layer of `ExpertInv` there.

### Findings

1. `Allocate` (`cache/reusable_state.cpp:45`) adds in `size_t`; a request close
   to 2^64 wraps and is granted. The behaviour TLC prints: allocate 2 of 3,
   allocate 7 modulo 8.
2. `Lookup` probes the prompt head before the committed head
   (`cache/prefix_cache.cpp:223-229`); `docs/v1_cache_architecture.md:94` says
   the committed head is probed first. The code's own order is what
   `PrefixCacheContract` states.
3. `ResetForNewRequest` (`backend/request_context.cpp:291`) skips `ReleasePages`
   when zeroing a buffer failed, and clears the page lists anyway: the pages
   never return. `LostOnlyByFailedReset` shows that nothing else loses pages, and
   `CapacitySuffices` that a forward pass is refused pages only after that.
4. `BuildRuntimeGemmPlan` (`backend/scaled_fp8_linear.cu:81`) returns a plan whose
   `launch_plan.descriptor` points to its local `GemmDescriptor`;
   `RunDenseRowMajorFp32` then uploads the weight from it
   (`dense_gemm_runner.cpp:247-252`). With the device path switched on and one
   row of activations a reported success can be the product of other bytes. The
   tests run 16 rows, which never take that path.

Three things the models show that contradict no document: `RunPrefill` accepts
fewer than `max_tokens` tokens and then always fails in the embedding lookup
(`Embed` has no other way out), and a publication too large for the budget
empties the cache before it goes itself (`PublicationTakesEffect`, third case);
and when biased scores in the chosen groups are negative, an expert of a group that was
not chosen wins with its score 0 (`RoutedToTheBest` states exactly when,
`GroupLimited` is about positive scores only).

## 4. Proofs

The proofs are for every number of callers, prompts, conversations, sizes,
budgets and every fingerprint function, from the named assumptions of the
modules (`ArenaAssumption`, `CallerAssumption`, `CacheAssumption`,
`PoolAssumption`, `ContextAssumption`, `PlanAssumption`, `LoadingAssumption`,
`AlignmentAssumption`, `EnvironmentAssumption`, `TileAssumption`,
`PackAssumption`, `LinearAssumption`, `TensorScaleAssumption`, `ExpertAssumption`). They say that sizes
and counts are natural numbers, as `size_t` has them, and little else. Those that
say more: `AlignmentAssumption` bounds the manifest's alignments by a power of two,
as `NormalizeAlignment` doubles until it reaches the alignment and would never
end for one above 2^63; `PlanAssumption` is the plan's own sizing;
`LinearAssumption` has only NVFP4 operators described as NVFP4;
`TensorScaleAssumption` has positive tensor scales of packed activations, to which
the packers clamp them;
`ExpertAssumption` has finite scores, each above minus infinity (with a NaN among
the logits `partial_sort` promises nothing).

`ReusableStateArenaProofs`. `IInv` is `Owned(arena, holds)`: the arena is well
typed, ids in use are below the counter, and what callers hold is exactly what
is counted, handle by handle. `RefsMatchHolds` alone is not inductive: to show
that a fresh id is fresh one needs that all issued ids lie below `nextId`, and
to show that a release finds the right allocation that two issued handles never
share an id. Each operator of `ReusableState` has a lemma (what it does to
`Owned` when it succeeds, and when it is refused); descriptors are two handles
in a row, so their lemmas compose the handles' lemmas, including the rollback.
From `IInv`: `TypeCorrect`, `ReferencesExact`, `StaleHandlesRefused`.

The byte count is a fold over the allocations. A fold is a choice of a function
with a recursive equation (`Iterates`), which says nothing until some function
satisfies it. So the sums are built first: `Sums(sum, entries, S)` says that `sum`
adds up over every subset of `S` in whatever order, and such a `sum` exists for every
finite `S`, because a smallest set without one would be one element away from a set
with one (`SumsExist`, by the well-foundedness of finite subsets). The fold is then
equal to it, and adding or removing one allocation adds or subtracts its bytes.
`BytesExact` has a hypothesis, `NoWrap`: the capacity plus any requested size fits
the word. It is needed, as finding 1 shows, and the run `arena` satisfies it.

`PrefixCacheProofs`. The methods call one another with the invariant broken in
between: a node just created has no role yet, a head just removed leaves its
slot open. `Sound(c, loose, open)` is the invariant of an `Impl` value up to a
set of nodes that may lack a role and a set of slots whose head may be stale;
each operator has a lemma that says how it moves between such values, and every
public call starts and ends at `Sound(Now, {}, {})`. Added to it: every state in
a node was computed for the node's prompt (`Known`), and the match names a
computed state. From the invariant: `HeadsMirrorRoles`, `IndexExact`,
`MatchesAreForRequests`, `DisabledKeepsNothing`. They hold with an arena and
without one (`HasArena`); the TLC instances have one.

`ContractKept` is the refinement. The abstract store maps a prompt to the state
and the slots of its one node (`Indexed` makes it one), the abstract answer is the
last match. Each method has a lemma that gives the store it leaves: publishing adds
or replaces one entry and takes a slot from the one that had it, eviction and reset
restrict the store, a lookup that misses leaves it alone, and what a lookup finds is
an entry the contract allows. `Clear` and a switch-off empty it; what the arena does
is a stutter.

Two more invariants are carried beside `IInv`. `BudgetInv` says that ticks are below
the clock and tell nodes apart (`Clocked`), that the byte count is the sum of what
the nodes' prompts and states weigh (`Weighed`, on the arena's theory of sums), that
it is within the budget, and that what callers computed has a size
(`StatesSized`). The budget
needs the order: `Victims` is the shortest beginning of the nodes by age whose removal
makes the rest fit, which exists because removing all does. From it `BudgetAlwaysKept`,
`EvictionIsMinimal`, `PublicationsTakeEffect`. `RefInv` says that no two computed
states share an allocation (`Apart`) and that the arena keeps on both halves of each
exactly `Uses`: what callers hold plus the number of nodes with that state
(`Backed`). A publication retains before it releases what it replaces, and in
between the count is right for a cache with one use more; so the lemmas are about
`Backed` with any uses, and each method moves from one to another. From it
`ReferencesBalanced`. The arena's lemmas are taken over by
`Arenas == INSTANCE ReusableStateArenaProofs`.

`RequestContextProofs` and `RequestContextCallsProofs`. Growth, the list of all
pages and the count of missing pages are recursive functions over the layers,
and the release sorts by rank; what they compute is needed for every number of
layers. The induction is by least counterexample (`LeastNatural`: a set of
naturals that is not empty has a least member): each function is named with a
predicate that gives its first value and its step (`GrownSteps`), and the lemma is
about any function with that predicate. The invariant `Inv` has four parts: types,
exact pages (`PagesExact`: listed pages are owned by the layer that lists them,
once; the free list is strictly decreasing and holds exactly the pages nobody
owns), `SuccessIsBacked` and `ResetLeavesNothing`. Exact pages are what makes
the release after a complete zeroing succeed (its ids are distinct and allocated)
and the count of free pages meaningful; that the free list stays decreasing is
that ranks of distinct numbers are distinct (`RankPlaces`). From it:
`PagesAreAccounted`, `SuccessIsAlwaysBacked`, `ResetAlwaysLeavesNothing`,
`TokensAlwaysStay`, `OnlyRefusedWhenFull`, `OnlyFailedResetsLose`, for all page
sizes, numbers of layers, pages and tokens. A refusal means a shortage because
what the earlier layers have taken and what the refused one asks for is a
partial sum of what all layers miss (`SpentStep`, `RefusalMeansFull`).

`ForwardPassProofs`. The invariant speaks of the run as far as it has come:
`LayersRun(context, tokens, done)` says that the recurrent states and caches hold
entries of this run only, that the Mamba layers among the first `done` have
advanced both states and the others neither, that the attention layers among them
have exactly the pages the tokens need, with K and V in each. Every slice has a
lemma for what it marks and what it leaves (`MambaMarks`, `AttentionMarks`,
`ExpertMarksNothing`); a slice that fails ends the run, and a run that begins ages
what is there and either zeroes all of it or ends too. `CapacitySuffices` is part
of the invariant: `PlannedPagesSuffice` counts that the pool has a page for each
layer and each page of a full context, so a refused growth without lost pages is a
contradiction (`RefusalNeedsLoss`). From it all five properties of the run
`forward`, for every schedule, in any number of runs.

`WeightLoadingProofs`. `IInv` has five parts: types; what the loader has open
is what it has registered, by key (`LoaderOK`); every buffer viewed
so far lies within a registered file, and after the loader that is all of them
(`Viewed`); the plan holds
one placement per visited buffer, of its size, one behind the other (`PlanOK`);
and the arena's bytes are those of the buffers copied so far (`MemoryOK`). No
part is inductive alone: that a copy is exact needs that later copies write
elsewhere, which is the plan's disjointness, and that it is never refused needs
the loader's views of every buffer. From it: `PlacementsNeverOverlap`,
`FilesAlwaysAccounted`, `ArenaIsTheManifest`, `CopyAlwaysSucceeds`, for every
manifest, every alignment and all file sizes.

`BuffersAreAligned` needs that of two powers of two the smaller divides the larger.
The prover knows nothing of `2^k`, so `PowerOfTwo` is a doubling function, and its
divisibility is proved by the least exponent that fails. `AlignOK` says that every
placement's offset is a multiple of its alignment and the arena's base one of the
strictest (`BaseAlignment`); the buffer's alignment divides that. The environment
takes the loading's steps or leaves its variables alone, except that it may give the
loaded weights back; `EnvironmentKeepsLoading` shows that this step, too, keeps the
invariants, so that all of the above holds under `EnvSpec`. For `BudgetAlwaysExact`
the environment is what `BuiltFrom` computes of its inputs, and what is left is
arithmetic of remainders: where the reservations can be counted, no sum wraps but
saturates, and the smaller total minus what is taken is what both parts get.

`Nvfp4PackingProofs`. The invariant says, for each launch, what the threads
that have run have written and that the others' bytes are untouched: the maximum
is the largest magnitude among the threads not in `todo`, each block not in
`todo` has its scale and its bytes, each scale not in `todo` is in its place.
When `todo` is empty this is the postcondition the next launch starts from. The
arithmetic it rests on is proved first: `ScaleOffset` is injective and stays in
the padded buffer for every tile size and shape (a mixed-radix argument by
division with remainder), and the byte ranges of different blocks are disjoint
and cover the packed buffer. From it: `DevicePacksLikeHost`,
`ScalesAlwaysInPlace`, `BuffersAlwaysAccounted`, `NoWriteCollides`.

`LayerProofs`, linear operators. `Inv` says what exists of the operator by how far
its creation has come (`Holds`), what a created operator may be (`Created`), and
of the call in progress (`CallOK`) that library objects exist only between the
first description and the cleanup, tensors only from the first operand to the way
out, and that only the NVFP4 operator packs and reads scales and has no path to
fall back to. Each step of creation and of a call is a lemma; the ways out of a
call share theirs (`EndedGives`, `UnservedGives`). From it: `NothingLeaks`, and
`FallbackServes` with the fact that a dense weight that could be uploaded can also
be read on the host (`UploadedIsReadable`). `WeightOK` adds, for the scales on
their way to the device, that those moved so far are at their places and the rest
of the buffer is zero (`Moved`), and that a device buffer of the tensor scale
holds the descriptor's; that no move overwrites another is `ScaleOffset`'s
injectivity, taken from the packing's proofs (`Packing`). From it
`ScalesUploadedInPlace`. For `RunsComputeTheProduct` the product of a GEMM is
compared with the definition: the plan's transposition and leading dimensions
index the same elements (`DenseProduct`), and the quantized product is the scales'
product times the sum of the codes' products, because a factor comes out of a sum
(`SumScaled`; `Adds` is the theory of sums, over the indices of a function).
`AnswerOK` follows a call: the operands on the device are those of the call
(`Operands`), the output tensor holds the product after the GEMM, after a
fallback, or the call has not succeeded (`Answering`).

`LayerProofs`, expert layer. The selection comes first. `partial_sort` gives the
best in order (`RankedRanks`); the loop's pair of maxima is the pair of the two
best scores of a group after every turn (`TopTwoScans`, `TopTwoImproved`), by
least counterexample over the turns, so a group's score is the definition's
(`GroupScoreIs`); the chosen groups are best (`ChosenAreBest`); and the masked
ranking is the ranking of all experts by the score they compete with. Where the
mask's 0 is below all experts of the chosen groups and they are enough, they fill
it (`SelectionIsBest`). That is counting: the chosen groups have `topk_group`
times the group size experts (`ExpertsOfGroups`, groups are blocks of equal size),
so a selection that left the groups would have left out one of them. `ExpertInv`
then follows a run: what each step has computed is, for every token, the term its
own input makes (`AllNormed`, `AllLogits`, ...), and within the loop the tokens
before the current one are finished, the current one has its first `at` experts'
contributions, and the later ones none (`LoopOK`); what has been given to the
caller is of this run (`Given`). That a weight is the definition's needs that a
sum over an injective sequence is the sum over what it ranges over
(`SumOverRange`). From it `TokensGoToTheBest`, `GroupsStayLimited`,
`OutputsAreMixtures` and `TracesAreOfTheirRun`, which needs of each trace field
where in the run it was filled.

Only model-checked: `CallsReturn`, as liveness under fairness is beyond the prover;
and `ENABLED`, hence the absence of deadlock, for the same reason. The numbers of a
product (`Decode`, `RoundTrip`, `TensorScale`) and the scores (`Sigmoid`) are
parameters: the proofs say that the program combines them as it should, not what they are.

## 5. Not modelled, and why

* Floating point, number formats and the arithmetic of attention, of the scan and
  of the norms: outside TLC and TLAPS. A device operation is "succeeds" or
  "fails", a product is one of integers, a vector a term.
* cuBLASLt and cuDNN: external. cuBLASLt is the product it is asked for; the
  cuDNN attention graph and the page table it is given are part of "the attention
  slice succeeds or fails", with the batch plan's page count check.
* JSON text (`manifest.cpp`): a parser over characters. What is validated of its
  result is modelled (`ManifestValid`).
* Which kernel, GEMM and embedding catalogs are valid: lookups by name in
  immutable tables; the environment is refused or not, by choice.
* The slices' construction from the catalogs for attention and Mamba layers:
  checks of shapes; for the expert layer it decides formats and is modelled.
* `Describe`, counters and other getters, labels, debug output: they change nothing.
  The trace of the forward pass; that of the expert layer is modelled.
* Moves and destruction of the C++ objects.
* Three overflows and misuses that no run reaches: the cursor of the arena plan
  (`BuildWeightArenaPlan`) is not wrapped in `size_t`; budgets whose reservations
  overflow are computed as the code does but `BudgetIsExact` says nothing of them; and
  layer slices run on a context whose sequence was shortened without a reset
  (`paged_attention_plan.cpp:50`), which `RunPrefill` never does.
* Tools, benchmarks, oracle fixtures: offline.

## 6. Plan

Done: the modules above, and the proofs of all their safety properties. What is
left, in the order of what it adds:

1. The page table of `BuildPagedAttentionBatchPlan` and the offsets of the
   recurrent states of different layers, as functions of the schedule.
2. The forward pass through the interfaces of its layers: `ForwardPass` takes an
   expert layer to write the output or fail, which `OutputsAreMixtures` and the
   failed runs of `ExpertLayer` justify but no refinement states.
3. The batch of the attention slice, whose arithmetic is abstracted, by terms as in
   the expert layer: which query meets which keys.
4. A contract of the arena, as the cache has one: a bag of references and a sum,
   with descriptors as pairs; today the cache's proofs use the arena's lemmas.
