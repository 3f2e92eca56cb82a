---------------------------- MODULE MCExpertLayer ----------------------------
(* TLC instance of ExpertLayer: four experts in two groups, or four of one, with *)
(* ties, negative biased scores and more experts wanted than a group has.        *)
EXTENDS ExpertLayer

MCSigmoid(logit) == logit + 2

MCConfigs ==
  [n_routed_experts : {4}, n_group : {2}, topk_group : {1, 2}, top_k : {1, 2, 3, 5},
   norm_topk_prob : BOOLEAN]
  \union [n_routed_experts : {4}, n_group : {3, 4}, topk_group : {2, 5}, top_k : {2},
          norm_topk_prob : {TRUE}]

Row(a, b, c, d) == [e \in 0 .. 3 |-> <<a, b, c, d>>[e + 1]]

MCBiases == {Row(0, 0, 0, 0), Row(2, 0, 0, 0), Row(-4, -4, 0, 1), Row(-5, -5, -5, -5)}

MCRouterRows ==
  {Row(0, 0, 0, 0), Row(3, 0, 2, 2), Row(1, 2, 0, 3), Row(2, 3, 1, 3), Row(0, 1, 2, 1)}

Bound(kernel, scales, gemm) == [kernel |-> kernel, scales |-> scales, gemm |-> gemm]
Fp8 == Bound("fp8_e4m3fn", "readable", "none")
Unreadable == Bound("fp8_e4m3fn", "unreadable", "dense")
Bf16 == Bound("bf16", "none", "dense")
Bf16Scaled == Bound("bf16", "readable", "dense")
Nvfp4 == Bound("none", "none", "nvfp4")

MCBindings ==
  { [fc1 |-> Fp8, shared_up |-> Bf16, shared_down |-> Nvfp4],
    [fc1 |-> Unreadable, shared_up |-> Fp8, shared_down |-> Fp8],
    [fc1 |-> Bf16, shared_up |-> Bf16Scaled, shared_down |-> Bf16Scaled],
    [fc1 |-> Bf16, shared_up |-> Bf16, shared_down |-> Unreadable] }
=============================================================================
