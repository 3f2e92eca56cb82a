------------------------ MODULE MCRuntimeEnvironment ------------------------
(* TLC instance of RuntimeEnvironment: size_t has 4 bits, a kB 3 bytes.  The    *)
(* host's memory and swap can each be counted, but not always their sum; the   *)
(* service fits exactly, by one byte, not at all, or overflows.  The manifests *)
(* and files are those of MCWeightLoading.                                     *)
EXTENDS RuntimeEnvironment, MCWeightLoading

MCMeminfos == {[available |-> 0, swap |-> 0], [available |-> 2, swap |-> 0], [available |-> 4, swap |-> 2]}
MCRuntimes == {[kv_bytes_per_token |-> 1, mamba_state_bytes_fp16 |-> 1, mamba_state_bytes_fp32 |-> 2]}

NoSnapshot == [mem_available_bytes |-> 0, swap_free_bytes |-> 0, valid |-> FALSE]
OwnSnapshot == [mem_available_bytes |-> 5, swap_free_bytes |-> 4, valid |-> TRUE]

Target(total, requests, snapshot) ==
  [total_memory_bytes |-> total, weights_bytes |-> 2, workspace_bytes |-> 1, graph_bytes |-> 0,
   safety_headroom_bytes |-> 1, target_active_requests |-> requests, target_context_tokens |-> 2,
   host_memory_snapshot |-> snapshot, prefer_host_memory_snapshot |-> snapshot.valid]

MCTargets ==
  {Target(total, 1, snapshot) : total \in {0, 8, 15}, snapshot \in {NoSnapshot, OwnSnapshot}}
  \cup {Target(15, 5, NoSnapshot)}

MCBootstraps ==
  [service_target : MCTargets, use_fp16_mamba_state : BOOLEAN, prefer_host_memory_snapshot : BOOLEAN]
=============================================================================
