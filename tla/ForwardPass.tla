----------------------------- MODULE ForwardPass -----------------------------
(***************************************************************************)
(* SingleTokenForwardModel::RunPrefill (runtime/src/api/                   *)
(* single_token_forward_model.cpp) over the layer slices (runtime/src/     *)
(* backend/attention_layer.cpp, mamba_layer.cpp, expert_layer.cpp) and one *)
(* request context that is used for request after request.                 *)
(*                                                                         *)
(* A run is a sequence of steps: reset and argument checks, embedding, one *)
(* step per scheduled layer, logits.  Any device operation may fail, which *)
(* ends the run where it stands and leaves in the context whatever was     *)
(* written before; the next run starts with a reset.  What a buffer holds  *)
(* is tracked as entries <<slot, age>>: which layer's, or which page's,    *)
(* part of it was written, and whether by the run in progress ("now") or   *)
(* by an earlier one ("before").  Numbers, matrix shapes other than the    *)
(* token count, and the trace are left out.                                *)
(***************************************************************************)
EXTENDS RequestContext

CONSTANT Schedule   \* plan.layers: a sequence of [index : Nat, kind : Kinds]

Kinds == {"attention", "mamba", "expert"}
AttentionLayers == {Schedule[i].index : i \in {j \in DOMAIN Schedule : Schedule[j].kind = "attention"}}

\* BuildSingleTokenForwardPlan sizes the context: pages for every layer up to
\* the highest index, attention or not, if there is any attention layer.
PlannedLayerCount ==
  IF AttentionLayers = {} THEN 0 ELSE Schedule[Len(Schedule)].index + 1

PlannedPages == LayerCount * RequiredPages(MaxTokens)

ASSUME PlanAssumption ==
  /\ Schedule \in Seq([index : Nat, kind : Kinds]) /\ Schedule # << >>
  /\ \A i, j \in DOMAIN Schedule : i < j => Schedule[i].index < Schedule[j].index
  /\ LayerCount = PlannedLayerCount
  /\ TotalPages = PlannedPages
  /\ HasMamba <=> \E i \in DOMAIN Schedule : Schedule[i].kind = "mamba"

VARIABLES
  context,
  phase,     \* "idle", or the next step of the run: "embed", "layers", "logits"
  tokens,    \* token_count of the run
  stop,      \* stop_layer_index of the run, NoStop if there is none
  done,      \* layers run so far
  current,   \* the buffer the next layer reads
  outcome    \* why the last run ended

vars == <<context, phase, tokens, stop, done, current, outcome>>
request == <<tokens, stop>>

NoStop == -1
Stops == {NoStop} \cup 0 .. Schedule[Len(Schedule)].index
Outcomes == {"none", "arguments", "reset", "embedding", "pages", "scatter", "plan", "device", "ok"}

Other(buffer) == IF buffer = "hidden" THEN "residual" ELSE "hidden"

Init ==
  /\ context = FreshContext
  /\ phase = "idle"
  /\ tokens = 0 /\ stop = NoStop
  /\ done = 0 /\ current = "hidden"
  /\ outcome = "none"

End(why) == phase' = "idle" /\ outcome' = why

-----------------------------------------------------------------------------
\* What the buffers hold when a run begins was written by an earlier one.
Aged(c) ==
  Context(c.pool, c.pages, c.sequenceLength, c.decodePosition,
          [b \in Buffers |-> {<<e[1], "before">> : e \in c.data[b]}])

\* Plausible bug: the run goes on after a reset that failed.
StartAnyway(count, stopAt, filled) ==
  LET reset == ResetForNewRequest(Aged(context), filled) IN
  /\ phase = "idle"
  /\ tokens' = count /\ stop' = stopAt /\ done' = 0 /\ current' = "hidden"
  /\ IF count = 0 \/ count > MaxTokens
     THEN End("arguments") /\ UNCHANGED context
     ELSE context' = reset[1] /\ phase' = "embed" /\ outcome' = "none"

\* The caller's arguments are checked, then the context is reset.
Start(count, stopAt, filled) ==
  LET reset == ResetForNewRequest(Aged(context), filled) IN
  /\ phase = "idle"
  /\ tokens' = count
  /\ stop' = stopAt
  /\ done' = 0
  /\ current' = "hidden"
  /\ IF count = 0 \/ count > MaxTokens
     THEN End("arguments") /\ UNCHANGED context
     ELSE /\ context' = reset[1]
          /\ IF reset[2] THEN phase' = "embed" /\ outcome' = "none" ELSE End("reset")

\* LookupEmbeddingRowsFp32 accepts an output of exactly token_count rows, and
\* the hidden buffer has max_tokens of them.
Embed ==
  /\ phase = "embed"
  /\ \/ /\ tokens = MaxTokens
        /\ context' = Overwritten(context, "hidden", {<<0, "now">>})
        /\ phase' = "layers"
        /\ UNCHANGED outcome
     \/ End("embedding") /\ UNCHANGED context
  /\ UNCHANGED <<request, done, current>>

Layer == Schedule[done + 1]

\* The residual add fills the other buffer.
Output(c) == Overwritten(c, Other(current), {<<done + 1, "now">>})

\* Plausible bug: the buffers are not swapped.
CompletesWithoutSwap(c) ==
  /\ context' = Output(c)
  /\ done' = done + 1
  /\ phase' = IF done + 1 = Len(Schedule) \/ (stop # NoStop /\ Layer.index >= stop)
              THEN "logits" ELSE "layers"
  /\ UNCHANGED <<current, outcome>>

\* The two buffers swap, and the run goes on unless this was the last layer or
\* the one to stop at.
Completes(c) ==
  /\ context' = Output(c)
  /\ done' = done + 1
  /\ current' = Other(current)
  /\ phase' = IF done + 1 = Len(Schedule) \/ (stop # NoStop /\ Layer.index >= stop)
              THEN "logits" ELSE "layers"
  /\ UNCHANGED outcome

Fails(c, why) ==
  /\ context' = c
  /\ End(why)
  /\ UNCHANGED <<done, current>>

\* Plausible bug: a last page that is not full is left out.
ScatteredFullPages(c) == {c.pages[Layer.index][i] : i \in 1 .. tokens \div TokensPerPage}

\* The pages ScatterMatrixIntoPagedCache writes rows to, and the entries.
ScatteredPages(c) == {c.pages[Layer.index][i] : i \in 1 .. RequiredPages(tokens)}
Scattered(c) == {<<p, "now">> : p \in ScatteredPages(c)}

\* AttentionLayerSlice::Run.  The rows are scattered into a host copy of the
\* caches; the two caches are uploaded one after the other; the batch plan
\* wants exactly the pages the tokens need.
RunAttention ==
  LET set == SetSequenceLength(context, tokens)
      sized == set[1]
      scattered == Len(sized.pages[Layer.index]) >= RequiredPages(tokens)
      keyed == Added(sized, "key_cache", Scattered(sized))
      stored == Added(keyed, "value_cache", Scattered(sized))
      planned == Len(sized.pages[Layer.index]) = RequiredPages(tokens)
      failures ==
        IF ~set[2] THEN {<<sized, "pages">>}
        ELSE IF ~scattered THEN {<<sized, "device">>, <<sized, "scatter">>}
        ELSE IF ~planned THEN {<<sized, "device">>, <<keyed, "device">>, <<stored, "plan">>}
        ELSE {<<c, "device">> : c \in {sized, keyed, stored, Output(stored)}}
  IN
  /\ phase = "layers" /\ Layer.kind = "attention"
  /\ \/ \E f \in failures : Fails(f[1], f[2])
     \/ set[2] /\ scattered /\ planned /\ Completes(stored)
  /\ UNCHANGED request

\* Plausible bug: the scan state is not uploaded.
RunMambaWithoutUpload ==
  LET convolved == Added(context, "mamba_conv_state", {<<Layer.index, "now">>}) IN
  /\ phase = "layers" /\ Layer.kind = "mamba"
  /\ Fails(context, "device") \/ Completes(convolved)
  /\ UNCHANGED request

\* MambaLayerSlice::Run.  The states are advanced in a host copy; the
\* convolution state is uploaded, then the scan state, then the output is added.
RunMamba ==
  LET entry == {<<Layer.index, "now">>}
      convolved == Added(context, "mamba_conv_state", entry)
      advanced == Added(convolved, "mamba_state", entry)
  IN
  /\ phase = "layers" /\ Layer.kind = "mamba"
  /\ \/ \E c \in {context, convolved, advanced, Output(advanced)} : Fails(c, "device")
     \/ Completes(advanced)
  /\ UNCHANGED request

RunExpert ==
  /\ phase = "layers" /\ Layer.kind = "expert"
  /\ \/ \E c \in {context, Output(context)} : Fails(c, "device")
     \/ Completes(context)
  /\ UNCHANGED request

\* Final norm into the scratch buffer, then the lm_head projection.
Logits ==
  LET normed == Overwritten(context, "scratch", {<<done, "now">>}) IN
  /\ phase = "logits"
  /\ \/ \E c \in {context, normed} : Fails(c, "device")
     \/ context' = normed /\ End("ok") /\ UNCHANGED <<done, current>>
  /\ UNCHANGED request

Next ==
  \/ \E count \in 0 .. MaxTokens + 1, stopAt \in Stops, filled \in Fills :
       Start(count, stopAt, filled)
  \/ Embed
  \/ RunAttention
  \/ RunMamba
  \/ RunExpert
  \/ Logits

Spec == Init /\ [][Next]_vars

-----------------------------------------------------------------------------
(* Properties *)

TypeOK ==
  /\ phase \in {"idle", "embed", "layers", "logits"}
  /\ tokens \in 0 .. MaxTokens + 1
  /\ stop \in Stops
  /\ done \in 0 .. Len(Schedule)
  /\ current \in {"hidden", "residual"}
  /\ outcome \in Outcomes
  /\ phase = "layers" => done < Len(Schedule)
  /\ DOMAIN context.data = Buffers

StateBuffers == {"mamba_conv_state", "mamba_state", "key_cache", "value_cache"} \cap Buffers

\* Nothing of an earlier run is left in any recurrent state or KV cache once a
\* run reaches its layers, wherever the earlier run failed.
NoStateOfEarlierRuns ==
  phase \in {"layers", "logits"} =>
    \A b \in StateBuffers : \A e \in context.data[b] : e[2] = "now"

\* A layer about to run finds its own state untouched, and every Mamba layer
\* before it has advanced both its states: no layer's state is advanced twice
\* for one request, and none is skipped.
StatesAdvancedInOrder ==
  phase \in {"layers", "logits"} =>
    \A i \in DOMAIN Schedule : Schedule[i].kind = "mamba" =>
      \A b \in {"mamba_conv_state", "mamba_state"} :
        (\E e \in context.data[b] : e[1] = Schedule[i].index) <=> i <= done

\* The buffer the next step reads holds the output of the last layer run, for
\* this run, and nothing else.
InputIsLastOutput ==
  phase \in {"layers", "logits"} => context.data[current] = {<<done, "now">>}

\* Every attention layer already run has the K and the V of this run in every
\* page its tokens are mapped to, and no other layer wrote to those pages.
KvWhereTokensAre ==
  phase \in {"layers", "logits"} =>
    \A i \in 1 .. done : Schedule[i].kind = "attention" =>
      LET own == Range(context.pages[Schedule[i].index]) IN
      /\ \A b \in {"key_cache", "value_cache"} : \A p \in own : <<p, "now">> \in context.data[b]
      /\ \A j \in 1 .. Len(Schedule) : j # i /\ LayerCount > 0 =>
           own \cap Range(context.pages[Schedule[j].index]) = {}

\* The sizing of the pool suffices: a run is refused pages only after pages were
\* lost, and the exact page count the batch plan asks for is never missed.
CapacitySuffices ==
  /\ outcome = "pages" => Lost(context) # {}
  /\ outcome \notin {"plan", "scatter"}
=============================================================================
