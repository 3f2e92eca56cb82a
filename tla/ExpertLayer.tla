----------------------------- MODULE ExpertLayer -----------------------------
(***************************************************************************)
(* A mixture-of-experts layer (expert_layer.cpp): Create decides in which  *)
(* format each projection is run, Run routes every token to its experts    *)
(* and adds their outputs to those of the shared expert.  Any allocation,  *)
(* projection or copy may fail.                                            *)
(*                                                                         *)
(* What a vector holds is a term: what was computed from what.  Only the   *)
(* router's logits are numbers, for the choice of the experts; Sigmoid is  *)
(* a parameter.  The debug output is left out.                             *)
(***************************************************************************)
EXTENDS Integers, Sequences, FiniteSetsExt, Functions

CONSTANTS
  Sigmoid(_),
  Configs,     \* ExpertLayerConfig: n_routed_experts, n_group, topk_group, top_k, norm_topk_prob
  Biases,      \* gate_score_correction_bias
  Bindings,    \* what the catalogs have for fc1, shared_up and shared_down
  RouterRows,  \* the logits the gate computes for the first token
  MaxTokens

kMinusInfinity == -1000

\* Counts are size_t; scores are finite, and every finite number is above minus infinity.
ASSUME ExpertAssumption ==
  /\ \A c \in Configs :
       {c.n_routed_experts, c.n_group, c.topk_group, c.top_k} \subseteq Nat
  /\ \A row \in RouterRows : \A e \in DOMAIN row : Sigmoid(row[e]) \in Int
  /\ \A bias \in Biases, row \in RouterRows : \A d \in DOMAIN bias, e \in DOMAIN row :
       bias[d] \in Int /\ Sigmoid(row[e]) + bias[d] > kMinusInfinity

VARIABLES
  slice,    \* what Create made, or kNone
  output,   \* the caller's output tensor, row by row
  trace,    \* the caller's trace
  run       \* the run in progress or the last one

expertVars == <<slice, output, trace, run>>

kNone == <<>>
Junk == <<"junk">>   \* what was never written

-----------------------------------------------------------------------------
(* SelectTopExperts *)

Experts(config) == 0 .. config.n_routed_experts - 1
Groups(config) == 0 .. config.n_group - 1
GroupSize(config) == config.n_routed_experts \div config.n_group
GroupOf(config, e) == e \div GroupSize(config)

ScoresForChoice(logits, bias) == [e \in DOMAIN logits |-> Sigmoid(logits[e]) + bias[e]]

\* The two best of n scores, in one pass.
TopTwo(values, n) ==
  LET upTo[i \in 0 .. n] ==
        IF i = 0 THEN <<kMinusInfinity, kMinusInfinity>>
        ELSE LET v == values[i - 1]  top == upTo[i - 1] IN
             IF v > top[1] THEN <<v, top[1]>>
             ELSE IF v > top[2] THEN <<top[1], v>> ELSE top
  IN upTo[n]

GroupScore(config, forChoice, group) ==
  LET size == GroupSize(config)
      top == TopTwo([i \in 0 .. size - 1 |-> forChoice[group * size + i]], size)
  IN  top[1] + (IF top[2] = kMinusInfinity THEN top[1] ELSE top[2])

\* std::partial_sort by decreasing score: the first k indices, equal scores in any order.
Ranked(scores, k) ==
  { s \in [1 .. k -> DOMAIN scores] :
      /\ IsInjective(s)
      /\ \A i \in 1 .. k - 1 : scores[s[i]] >= scores[s[i + 1]]
      /\ \A e \in DOMAIN scores \ Range(s) : k > 0 => scores[e] <= scores[s[k]] }

Least(a, b) == IF a < b THEN a ELSE b

\* Plausible bug: the comparison of the groups' sort is the wrong way round.
WorstGroups(config, forChoice) ==
  {Range(s) : s \in Ranked([g \in Groups(config) |-> - GroupScore(config, forChoice, g)],
                           Least(config.topk_group, config.n_group))}

ChosenGroups(config, forChoice) ==
  {Range(s) : s \in Ranked([g \in Groups(config) |-> GroupScore(config, forChoice, g)],
                           Least(config.topk_group, config.n_group))}

\* An expert's weight: its score without the bias, over the sum of those selected.
ExpertWeight(config, logits, bias, s, i) ==
  <<Sigmoid(logits[s[i]]),
    IF config.norm_topk_prob THEN FoldFunction(+, 0, [j \in DOMAIN s |-> Sigmoid(logits[s[j]])]) ELSE 1>>

\* Plausible bug: the experts of all groups compete.
Unmasked(config, forChoice, groups) == forChoice

\* The experts of the groups that were not chosen compete with the score 0.
Masked(config, forChoice, groups) ==
  [e \in Experts(config) |-> IF GroupOf(config, e) \in groups THEN forChoice[e] ELSE 0]

\* The selections that may result: sequences of experts.
Selections(config, logits, bias) ==
  LET forChoice == ScoresForChoice(logits, bias) IN
  UNION {Ranked(Masked(config, forChoice, groups), Least(config.top_k, config.n_routed_experts)) :
           groups \in ChosenGroups(config, forChoice)}

-----------------------------------------------------------------------------
(* Create *)

\* BuildExpertLayerBindings wants a weight in one of the two catalogs.
HasWeight(b) == b.kernel # "none" \/ b.gemm # "none"

\* BuildScaledFp8LinearConfig: both scales are bound and can be read as scalars.
ScalesReadable(b) == b.scales = "readable"

\* fc1_latent and shared_up: the FP8 operator unless there are no such scales.
ProjectionFamily(b) ==
  IF b.kernel # "none" /\ ScalesReadable(b) THEN "scaled_fp8" ELSE "dense"

\* shared_down: NVFP4 by the GEMM binding, then FP8 by the storage type.
SharedDownFamily(b) ==
  IF b.gemm = "nvfp4" THEN "nvfp4"
  ELSE IF b.kernel = "fp8_e4m3fn" /\ b.scales # "none"
       THEN IF ScalesReadable(b) THEN "scaled_fp8" ELSE "refused"
  ELSE IF b.gemm # "none" THEN "dense" ELSE "refused"

ConfigValid(config) ==
  /\ config.n_routed_experts # 0
  /\ config.top_k \in 1 .. config.n_routed_experts
  /\ config.n_group # 0 /\ config.topk_group # 0
  /\ config.n_routed_experts % config.n_group = 0

\* Where the dense operator is made without a GEMM binding the code dereferences null.
CreateSlice ==
  /\ slice = kNone
  /\ \E config \in Configs, bias \in Biases, b \in Bindings :
       /\ ConfigValid(config)
       /\ DOMAIN bias = Experts(config)
       /\ \A p \in {b.fc1, b.shared_up, b.shared_down} : HasWeight(p)
       /\ \A p \in {b.fc1, b.shared_up} : ProjectionFamily(p) = "dense" => p.gemm # "none"
       /\ SharedDownFamily(b.shared_down) # "refused"
       /\ slice' = [config |-> config, bias |-> bias, bindings |-> b,
                    fc1 |-> ProjectionFamily(b.fc1), shared_up |-> ProjectionFamily(b.shared_up),
                    shared_down |-> SharedDownFamily(b.shared_down)]
  /\ UNCHANGED <<output, trace, run>>

-----------------------------------------------------------------------------
(* Run *)

\* What the caller's trace and output hold before a run does not matter: junk.
kOldTrace == [normalized |-> Junk, order |-> Junk, hidden |-> Junk, outputs |-> Junk,
              contributions |-> Junk, logits |-> Junk, selected |-> Junk, latent |-> Junk,
              routed |-> Junk, projected |-> Junk, shared |-> Junk, mixer |-> Junk]

kIdleRun == [step |-> "idle", tokens |-> 0, traced |-> FALSE, row |-> kNone, ok |-> TRUE,
          normalized |-> kNone, logits |-> kNone, latent |-> kNone, shared_up |-> kNone,
          token |-> 0, selection |-> kNone, selected |-> kNone, at |-> 0,
          routed |-> kNone, activated |-> kNone, shared |-> kNone, projected |-> kNone,
          outcome |-> "none"]

ExpertInit ==
  /\ slice = kNone
  /\ output = kNone
  /\ trace = kOldTrace
  /\ run = kIdleRun

Tokens == 0 .. run.tokens - 1
Input(t) == <<"input", t>>

Failed == run' = [kIdleRun EXCEPT !.outcome = "failed"]

\* The checks and the scratch tensors; a trace is kept of a single token only.
Start ==
  /\ slice # kNone /\ run.step = "idle"
  /\ trace' = kOldTrace
  /\ \E tokens \in 1 .. MaxTokens, traced \in BOOLEAN, row \in RouterRows :
       /\ DOMAIN row = Experts(slice.config)
       /\ LET junk == [t \in 0 .. tokens - 1 |-> Junk] IN
          /\ output' = junk
          /\ \/ Failed
             \/ /\ traced => tokens = 1
                /\ run' = [kIdleRun EXCEPT !.step = "norm", !.tokens = tokens, !.traced = traced,
                             !.row = row, !.normalized = junk, !.logits = junk, !.latent = junk,
                             !.shared_up = junk, !.projected = junk]
  /\ UNCHANGED slice

\* The steps before the loop over the tokens, each of which may fail.
Normalize ==
  /\ run.step = "norm"
  /\ \/ Failed
     \/ run' = [run EXCEPT !.step = "gate", !.normalized = [t \in Tokens |-> <<"norm", Input(t)>>]]
  /\ UNCHANGED <<slice, output, trace>>

\* The gate's logits for a normalized input: those of the t-th token are the row, rotated.
Gated(norm) ==
  LET n == slice.config.n_routed_experts IN [e \in 0 .. n - 1 |-> run.row[(e + norm[2][2]) % n]]

Gate ==
  /\ run.step = "gate"
  /\ \/ Failed
     \/ run' = [run EXCEPT !.step = "fc1", !.logits = [t \in Tokens |-> Gated(run.normalized[t])]]
  /\ UNCHANGED <<slice, output, trace>>

\* When fc1 fails, shared_up is run all the same.
Fc1 ==
  /\ run.step = "fc1"
  /\ run' \in { [run EXCEPT !.step = "shared_up", !.ok = FALSE],
                [run EXCEPT !.step = "shared_up",
                            !.latent = [t \in Tokens |-> <<"fc1", slice.fc1, run.normalized[t]>>]] }
  /\ UNCHANGED <<slice, output, trace>>

SharedUp ==
  /\ run.step = "shared_up"
  /\ \/ Failed
     \/ /\ run.ok
        /\ run' = [run EXCEPT !.step = "copy", !.shared_up =
                     [t \in Tokens |-> <<"shared_up", slice.shared_up, run.normalized[t]>>]]
  /\ UNCHANGED <<slice, output, trace>>

\* The copies to the host, and the host buffers, zeroed.
CopyScratchToHost ==
  /\ run.step = "copy"
  /\ \/ Failed
     \/ run' = [run EXCEPT !.step = "select", !.routed = [t \in Tokens |-> <<>>],
                           !.activated = [t \in Tokens |-> Junk], !.shared = [t \in Tokens |-> Junk]]
  /\ UNCHANGED <<slice, output, trace>>

\* The loop over the tokens: the experts of a token are selected and run one by one.
SelectExperts ==
  /\ run.step = "select"
  /\ \E s \in Selections(slice.config, run.logits[run.token], slice.bias) :
       run' = [run EXCEPT !.step = "expert", !.selection = s, !.selected = Append(@, s), !.at = 0]
  /\ UNCHANGED <<slice, output, trace>>

\* Plausible bug: every token's experts get the first token's latent row.
ContributionOfFirst(i) ==
  <<run.selection[i], run.latent[0],
    ExpertWeight(slice.config, run.logits[run.token], slice.bias, run.selection, i)>>

\* The i-th selected expert's up projection, ReLU squared and down projection, weighted.
Contribution(i) ==
  <<run.selection[i], run.latent[run.token],
    ExpertWeight(slice.config, run.logits[run.token], slice.bias, run.selection, i)>>

RunRoutedExpert ==
  /\ run.step = "expert" /\ run.at < Len(run.selection)
  /\ \/ Failed
     \/ run' = [run EXCEPT !.at = @ + 1, !.routed[run.token] = Append(@, Contribution(run.at + 1))]
  /\ UNCHANGED <<slice, output, trace>>

TokenFinished ==
  /\ run.step = "expert" /\ run.at = Len(run.selection)
  /\ run' = [run EXCEPT !.activated[run.token] = <<"relu2", run.shared_up[run.token]>>,
                        !.token = @ + 1,
                        !.step = IF run.token + 1 < run.tokens THEN "select" ELSE "shared_down"]
  /\ UNCHANGED <<slice, output>>

\* What the loop has kept of its experts goes into the trace: the hidden row between an
\* expert's projections, its output, and the output weighted.
ExpertHidden == [i \in DOMAIN run.selection |-> <<"relu2", run.selection[i], run.latent[run.token]>>]
ExpertOutputs == [i \in DOMAIN run.selection |-> <<run.selection[i], run.latent[run.token]>>]
LoopTrace(order) ==
  [trace EXCEPT !.normalized = run.normalized[run.token], !.order = order,
                !.hidden = ExpertHidden, !.outputs = ExpertOutputs,
                !.contributions = run.routed[run.token]]

\* Plausible bug: the experts are pushed onto the caller's trace, which is not cleared.
FinishTokenPushing ==
  /\ TokenFinished
  /\ trace' = IF run.traced THEN LoopTrace(trace.order \o run.selection) ELSE trace

\* The end of the loop's body: the shared expert's activation and a part of the trace.
FinishToken ==
  /\ TokenFinished
  /\ trace' = IF run.traced THEN LoopTrace(run.selection) ELSE trace

\* In NVFP4 row by row on the host, else as one operator on the device.
SharedDown ==
  /\ run.step = "shared_down"
  /\ \/ Failed
     \/ run' = [run EXCEPT !.step = "fc2", !.shared =
                  [t \in Tokens |-> <<"shared_down", slice.shared_down, run.activated[t]>>]]
  /\ UNCHANGED <<slice, output, trace>>

Fc2 ==
  /\ run.step = "fc2"
  /\ \/ Failed
     \/ run' = [run EXCEPT !.step = "combine", !.projected =
                  [t \in Tokens |-> <<"fc2", run.routed[t]>>]]
  /\ UNCHANGED <<slice, output, trace>>

Mixed(t) == <<run.projected[t], run.shared[t], Input(t)>>

\* The mixture is uploaded, all or a part of it; the rest of the trace is filled in.
Combine ==
  /\ run.step = "combine"
  /\ \/ /\ Failed /\ UNCHANGED trace
        /\ output' \in {output, [output EXCEPT ![0] = Mixed(0)]}
     \/ /\ run' = [run EXCEPT !.step = "idle", !.outcome = "ok"]
        /\ output' = [t \in Tokens |-> Mixed(t)]
        /\ trace' = IF run.traced
                    THEN [trace EXCEPT !.logits = run.logits[0], !.selected = run.selection,
                                       !.latent = run.latent[0], !.routed = run.routed[0],
                                       !.projected = run.projected[0], !.shared = run.shared[0],
                                       !.mixer = <<run.projected[0], run.shared[0]>>]
                    ELSE trace
  /\ UNCHANGED slice

ExpertNext ==
  \/ CreateSlice \/ Start \/ Normalize \/ Gate \/ Fc1 \/ SharedUp \/ CopyScratchToHost
  \/ SelectExperts \/ RunRoutedExpert \/ FinishToken \/ SharedDown \/ Fc2 \/ Combine

ExpertSpec == ExpertInit /\ [][ExpertNext]_expertVars

-----------------------------------------------------------------------------
(* Properties *)

Succeeded == run.step = "idle" /\ run.outcome = "ok"

\* The format a projection's weights are in: NVFP4 when the catalog says so, FP8 when the
\* weight comes with scales that can be read.
Format(name, b) ==
  IF name = "shared_down" /\ b.gemm = "nvfp4" THEN "nvfp4"
  ELSE IF /\ IF name = "shared_down" THEN b.kernel = "fp8_e4m3fn" ELSE b.kernel # "none"
          /\ b.scales = "readable"
       THEN "scaled_fp8" ELSE "dense"

\* The weight of an expert among those of a token: from the router's score alone, without
\* the correction bias, and relative to the experts selected if the configuration says so.
WeightOf(t, e) ==
  LET logits == run.logits[t]
      score(x) == Sigmoid(logits[x])
  IN  <<score(e), IF slice.config.norm_topk_prob
                  THEN FoldFunction(+, 0, [x \in Range(run.selected[t + 1]) |-> score(x)]) ELSE 1>>

\* A run that reports success has written for every token the sum of three parts: its own
\* input, the shared expert on its own normalized input, and the projection of every
\* selected expert's output on its own latent row with its own weight; each projection is
\* run in the format of its weights (ExpertLayerSlice::Run, expert_layer.cpp:868-1069).
OutputIsMixture ==
  Succeeded =>
    \A t \in Tokens :
      LET norm == <<"norm", <<"input", t>>>>
          up == <<"shared_up", Format("shared_up", slice.bindings.shared_up), norm>>
          latent == <<"fc1", Format("fc1", slice.bindings.fc1), norm>>
          experts == run.selected[t + 1]
      IN /\ Len(experts) = slice.config.top_k /\ IsInjective(experts)
         /\ output[t] =
              << <<"fc2", [i \in 1 .. Len(experts) |->
                             <<experts[i], latent, WeightOf(t, experts[i])>>]>>,
                 <<"shared_down", Format("shared_down", slice.bindings.shared_down),
                   <<"relu2", up>>>>,
                 <<"input", t>> >>

\* The score of a group by its definition: the sum of its two best biased scores, twice the
\* score of an only member.
TwoBest(forChoice, group) ==
  LET members == {e \in DOMAIN forChoice : GroupOf(slice.config, e) = group}
      pairs == {p \in members \X members : p[1] # p[2]}
  IN  IF pairs = {} THEN 2 * forChoice[CHOOSE e \in members : TRUE]
      ELSE Max({forChoice[p[1]] + forChoice[p[2]] : p \in pairs})

\* Whether groups are topk_group of the best.
BestGroups(forChoice, groups) ==
  /\ Cardinality(groups) = Least(slice.config.topk_group, slice.config.n_group)
  /\ \A g \in groups, h \in Groups(slice.config) \ groups :
       TwoBest(forChoice, g) >= TwoBest(forChoice, h)

SelectionsSoFar == DOMAIN run.selected
BiasedScores(i) == ScoresForChoice(run.logits[i - 1], slice.bias)

\* What an expert competes with when groups are the best: experts of other groups with 0.
Competing(forChoice, groups, e) == IF GroupOf(slice.config, e) \in groups THEN forChoice[e] ELSE 0

\* A token gets top_k different experts, and for some choice of the best groups they are the
\* best of all experts and in the order of their scores, an expert of another group counting
\* as 0: one is sent outside the best groups only if it beats or ties all of their experts
\* that are left out (SelectTopExperts, expert_layer.cpp:277: the one-pass maxima, the two
\* partial sorts and the mask between them).
RoutedToTheBest ==
  \A i \in SelectionsSoFar :
    LET forChoice == BiasedScores(i)
        s == run.selected[i]
    IN /\ s \in [1 .. slice.config.top_k -> Experts(slice.config)] /\ IsInjective(s)
       /\ \E groups \in SUBSET Groups(slice.config) :
            /\ BestGroups(forChoice, groups)
            /\ \A x \in Range(s), e \in Experts(slice.config) \ Range(s) :
                 Competing(forChoice, groups, x) >= Competing(forChoice, groups, e)
            /\ \A a, b \in DOMAIN s :
                 a < b => Competing(forChoice, groups, s[a]) >= Competing(forChoice, groups, s[b])

\* Where the biased scores are positive and the chosen groups have experts enough, a token
\* is sent to experts of topk_group groups only.  The mask is the score 0, not minus
\* infinity (expert_layer.cpp:337): with a negative biased score it does not hold.
GroupLimited ==
  \A i \in SelectionsSoFar :
    /\ \A e \in Experts(slice.config) : BiasedScores(i)[e] > 0
    /\ slice.config.top_k <= slice.config.topk_group * GroupSize(slice.config)
    => Cardinality({GroupOf(slice.config, e) : e \in Range(run.selected[i])})
         <= slice.config.topk_group

\* The trace of a run that reports success is that run's in every field, and its fields fit
\* together, step by step from the normalized input to the output, though it is filled in
\* three places and the caller may pass one that has been used
\* (expert_layer.cpp:868-1090).
TraceIsOfThisRun ==
  Succeeded /\ run.traced =>
    /\ trace.normalized = <<"norm", <<"input", 0>>>>
    /\ trace.logits = Gated(trace.normalized)
    /\ trace.latent = <<"fc1", Format("fc1", slice.bindings.fc1), trace.normalized>>
    /\ trace.selected = run.selected[1] /\ trace.order = trace.selected
    /\ trace.hidden = [i \in DOMAIN trace.order |-> <<"relu2", trace.order[i], trace.latent>>]
    /\ trace.outputs = [i \in DOMAIN trace.order |-> <<trace.order[i], trace.latent>>]
    /\ trace.contributions =
         [i \in DOMAIN trace.order |-> <<trace.order[i], trace.latent, WeightOf(0, trace.order[i])>>]
    /\ trace.routed = trace.contributions
    /\ trace.projected = <<"fc2", trace.routed>>
    /\ trace.mixer = <<trace.projected, trace.shared>>
    /\ output[0] = <<trace.projected, trace.shared, <<"input", 0>>>>
=============================================================================
