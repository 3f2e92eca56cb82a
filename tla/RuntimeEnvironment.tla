-------------------------- MODULE RuntimeEnvironment --------------------------
(***************************************************************************)
(* RuntimeEnvironment::BuildFromManifestFile as a whole: WeightLoading up   *)
(* to the weight arena, then the catalogs and the schedule, the memory      *)
(* budget (memory_budget.cpp) and the cache and arena that share what it    *)
(* leaves.  RuntimeEnvironment::Build does the same without any files.      *)
(*                                                                         *)
(* Sizes are size_t: sums and products wrap at SizeModulus.                 *)
(***************************************************************************)
EXTENDS WeightLoading

CONSTANTS
  SizeModulus,   \* 2 to the width of size_t
  KiB,           \* bytes in a kB of /proc/meminfo
  Meminfos,      \* MemAvailable and SwapFree in kB; 0 for a line that is missing or unreadable
  Runtimes,      \* manifest.runtime: kv_bytes_per_token, mamba_state_bytes_fp16 and _fp32
  Bootstraps,    \* RuntimeBootstrapOptions: service_target, use_fp16_mamba_state, ...
  EnvValues      \* NEMOTRON_PREFIX_CACHE: "", "on", "off" or neither

Size == 0..SizeModulus - 1
Snapshot == [mem_available_bytes : Size, swap_free_bytes : Size, valid : BOOLEAN]
ServiceTarget ==
  [total_memory_bytes : Size, weights_bytes : Size, workspace_bytes : Size, graph_bytes : Size,
   safety_headroom_bytes : Size, target_active_requests : Size, target_context_tokens : Size,
   host_memory_snapshot : Snapshot, prefer_host_memory_snapshot : BOOLEAN]

ASSUME EnvironmentAssumption ==
  /\ SizeModulus \in Nat \ {0} /\ KiB \in Nat \ {0}
  /\ Meminfos \subseteq [available : Nat, swap : Nat]
  /\ Runtimes \subseteq [kv_bytes_per_token : Size, mamba_state_bytes_fp16 : Size, mamba_state_bytes_fp32 : Size]
  /\ Bootstraps \subseteq [service_target : ServiceTarget, use_fp16_mamba_state : BOOLEAN,
                          prefer_host_memory_snapshot : BOOLEAN]

VARIABLE environment   \* what was built, with the inputs it was built from, or NoEnvironment

NoEnvironment == [built |-> FALSE]
SizeMax == SizeModulus - 1
Wrap(n) == n % SizeModulus

-----------------------------------------------------------------------------
(* The memory budget *)

\* Plausible bug: the host's memory and swap are added like everything else.
WrappingAdd(lhs, rhs) == Wrap(lhs + rhs)

SaturatingAdd(lhs, rhs) == IF lhs > SizeMax - rhs THEN SizeMax ELSE lhs + rhs

\* ReadHostMemorySnapshotFromProcMeminfo
ReadSnapshot(meminfo) ==
  LET available == Wrap(KiB * meminfo.available)  swap == Wrap(KiB * meminfo.swap) IN
  [mem_available_bytes |-> available, swap_free_bytes |-> swap, valid |-> available # 0 \/ swap # 0]

\* ResolveServiceMemoryTarget: the host's snapshot replaces the caller's if it is asked for
\* and can be read.
ResolveServiceMemoryTarget(bootstrap, meminfo) ==
  LET snapshot == ReadSnapshot(meminfo)  target == bootstrap.service_target IN
  IF bootstrap.prefer_host_memory_snapshot /\ snapshot.valid
  THEN [target EXCEPT !.host_memory_snapshot = snapshot, !.prefer_host_memory_snapshot = TRUE]
  ELSE target

HostBudget(target) ==
  SaturatingAdd(target.host_memory_snapshot.mem_available_bytes, target.host_memory_snapshot.swap_free_bytes)

UsesSnapshot(target) ==
  target.prefer_host_memory_snapshot /\ target.host_memory_snapshot.valid /\ HostBudget(target) # 0

PlanningTotal(target) ==
  IF ~UsesSnapshot(target) THEN target.total_memory_bytes
  ELSE IF target.total_memory_bytes = 0 THEN HostBudget(target)
  ELSE Min({target.total_memory_bytes, HostBudget(target)})

MambaBytes(bootstrap, runtime) ==
  IF bootstrap.use_fp16_mamba_state THEN runtime.mamba_state_bytes_fp16 ELSE runtime.mamba_state_bytes_fp32

\* Every byte the service takes before the cache, as if sizes were unbounded.
Reserved(bootstrap, runtime) ==
  LET t == bootstrap.service_target IN
  t.weights_bytes + t.workspace_bytes + t.graph_bytes + t.safety_headroom_bytes
    + runtime.kv_bytes_per_token * t.target_context_tokens * t.target_active_requests
    + MambaBytes(bootstrap, runtime) * t.target_active_requests

\* BuildMemoryBudgetSummary's shared_cache_budget_bytes: sums and products of size_t agree
\* with the unbounded ones up to multiples of SizeModulus.
SharedCacheBudget(bootstrap, runtime, target) ==
  LET reserved == Wrap(Reserved(bootstrap, runtime)) IN
  IF reserved <= PlanningTotal(target) THEN PlanningTotal(target) - reserved ELSE 0

\* LoadRuntimeConfigFromEnv: only a value that reads as false disables the cache.
PrefixCacheEnabled(env) == env # "off"

-----------------------------------------------------------------------------
EnvInit == Init /\ environment = NoEnvironment

\* The arena and the cache are constructed with the same budget, then the cache is switched
\* on or off (ApplyRuntimeConfig).
Assemble ==
  \E bootstrap \in Bootstraps, runtime \in Runtimes, meminfo \in Meminfos, env \in EnvValues :
    LET target == ResolveServiceMemoryTarget(bootstrap, meminfo)
        effective == IF PrefixCacheEnabled(env) THEN SharedCacheBudget(bootstrap, runtime, target) ELSE 0
    IN environment' =
         [built |-> TRUE, bootstrap |-> bootstrap, runtime |-> runtime, meminfo |-> meminfo, env |-> env,
          reusable_state_arena |-> [max_bytes |-> effective],
          prefix_cache |-> [max_bytes |-> effective, enabled |-> PrefixCacheEnabled(env)]]

\* RuntimeEnvironment::Build looks at no file and at none of the loading options: it is
\* modelled where there are no files, with one value of the options.
Build ==
  /\ phase = "verify"
  /\ disk = [k \in Keys |-> 0]
  /\ options = [verify |-> FALSE, mode |-> "mmap", materialize |-> FALSE]
  /\ ManifestValid(manifest)
  /\ Assemble
  /\ UNCHANGED vars

\* The end of BuildFromManifestFile.
FinishFromManifestFile == phase = "ready" /\ Assemble /\ UNCHANGED vars

\* The kernel, GEMM or embedding catalog or the schedule is not valid.
CatalogRefused == phase = "ready" /\ Refuse /\ UNCHANGED environment

Load == Next /\ UNCHANGED environment

EnvNext ==
  \/ environment = NoEnvironment /\ (Load \/ CatalogRefused \/ FinishFromManifestFile \/ Build)
  \/ environment # NoEnvironment /\ UNCHANGED <<vars, environment>>

EnvSpec == EnvInit /\ [][EnvNext]_<<vars, environment>>

-----------------------------------------------------------------------------
(* Properties *)

\* Where the bytes reserved do not overflow size_t, the cache gets exactly what they leave of
\* the smaller of two totals, the configured one and what the host has in memory and swap,
\* whichever are known; and nothing if they leave nothing.  So the service as planned fits
\* both (memory_budget.cpp:94-125, ResolveServiceMemoryTarget).  Memory and swap of the host
\* together may be more than size_t can hold.
BudgetIsExact ==
  /\ environment.built
  /\ Reserved(environment.bootstrap, environment.runtime) < SizeModulus
  /\ KiB * environment.meminfo.available < SizeModulus /\ KiB * environment.meminfo.swap < SizeModulus
  =>
    LET bootstrap == environment.bootstrap
        target == bootstrap.service_target
        reserved == Reserved(bootstrap, environment.runtime)
        fromHost == KiB * (environment.meminfo.available + environment.meminfo.swap)
        fromCaller == target.host_memory_snapshot.mem_available_bytes + target.host_memory_snapshot.swap_free_bytes
        read == bootstrap.prefer_host_memory_snapshot /\ fromHost # 0
        known == {n \in {target.total_memory_bytes} : n # 0}
                 \cup (IF read THEN {fromHost}
                       ELSE {n \in {fromCaller} : target.prefer_host_memory_snapshot
                                                  /\ target.host_memory_snapshot.valid /\ n # 0})
        total == IF known = {} THEN 0 ELSE Min(known)
    IN /\ environment.prefix_cache.max_bytes = environment.reusable_state_arena.max_bytes
       /\ environment.env # "off" => environment.prefix_cache.max_bytes = Max({0, Min({total, SizeMax}) - reserved})
       /\ environment.env = "off" => environment.prefix_cache.max_bytes = 0
=============================================================================
