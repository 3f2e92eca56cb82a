-------------------------- MODULE ForwardPassProofs --------------------------
(***************************************************************************)
(* What ForwardPass checks on a small instance, for every schedule, pool   *)
(* and request.  The inductive invariant is Inv: the context has its type  *)
(* and exact pages whatever failed; a run past its embedding has a context *)
(* that bears exactly the marks of the layers run so far (LayersRun), and  *)
(* the buffer the next layer reads holds the last output.                  *)
(***************************************************************************)
EXTENDS ForwardPass, RequestContextProofs

-----------------------------------------------------------------------------
(* The schedule *)

LEMMA ScheduleEntries ==
  /\ Len(Schedule) \in Nat \ {0} /\ DOMAIN Schedule = 1 .. Len(Schedule)
  /\ \A i \in 1 .. Len(Schedule) : Schedule[i].index \in Nat /\ Schedule[i].kind \in Kinds
  /\ \A i, j \in 1 .. Len(Schedule) : Schedule[i].index = Schedule[j].index => i = j
  /\ \A i \in 1 .. Len(Schedule) : Schedule[i].index <= Schedule[Len(Schedule)].index
<1>1. Schedule \in Seq([index : Nat, kind : Kinds]) /\ Schedule # << >>
  BY PlanAssumption
<1>2. Len(Schedule) \in Nat \ {0} /\ DOMAIN Schedule = 1 .. Len(Schedule)
  BY <1>1
<1>3. \A i \in 1 .. Len(Schedule) : Schedule[i] \in [index : Nat, kind : Kinds]
  <2>1. PICK R : R = [index : Nat, kind : Kinds]
    OBVIOUS
  <2>2. Schedule \in Seq(R)
    BY <1>1, <2>1
  <2>3. \A i \in 1 .. Len(Schedule) : Schedule[i] \in R
    BY <2>2
  <2>. QED BY <2>1, <2>3, Zenon
<1>4. \A i \in 1 .. Len(Schedule) : Schedule[i].index \in Nat /\ Schedule[i].kind \in Kinds
  BY <1>3
<1>5. \A i, j \in 1 .. Len(Schedule) : i < j => Schedule[i].index < Schedule[j].index
  BY <1>2, PlanAssumption
<1>6. \A i, j \in 1 .. Len(Schedule) : Schedule[i].index = Schedule[j].index => i = j
  BY <1>2, <1>4, <1>5
<1>7. \A i \in 1 .. Len(Schedule) : i = Len(Schedule) \/ i < Len(Schedule)
  <2>1. ASSUME NEW n \in Nat  PROVE \A i \in 1 .. n : i = n \/ i < n
    OBVIOUS
  <2>. QED BY <1>2, <2>1
<1>8. Len(Schedule) \in 1 .. Len(Schedule)
  BY <1>2
<1>9. \A i \in 1 .. Len(Schedule) : Schedule[i].index <= Schedule[Len(Schedule)].index
  BY <1>4, <1>5, <1>7, <1>8
<1>. QED BY <1>2, <1>4, <1>6, <1>9

\* If the model has attention, the pool has pages for every index of the schedule.
LEMMA EveryIndexHasPages ==
  ASSUME HasAttention \/ \E j \in 1 .. Len(Schedule) : Schedule[j].kind = "attention"
  PROVE  HasAttention /\ \A i \in 1 .. Len(Schedule) : Schedule[i].index \in Layers
<1>1. LayerCount = PlannedLayerCount
  BY PlanAssumption
<1>2. AttentionLayers # {}
  <2>1. CASE HasAttention
    BY <1>1, <2>1 DEF HasAttention, PlannedLayerCount
  <2>2. CASE \E j \in 1 .. Len(Schedule) : Schedule[j].kind = "attention"
    <3>1. PICK j \in 1 .. Len(Schedule) : Schedule[j].kind = "attention"
      BY <2>2
    <3>2. Schedule[j].index \in AttentionLayers
      BY <3>1, ScheduleEntries DEF AttentionLayers
    <3>. QED BY <3>2
  <2>. QED BY <2>1, <2>2
<1>3. LayerCount = Schedule[Len(Schedule)].index + 1
  BY <1>1, <1>2 DEF PlannedLayerCount
<1>4. Schedule[Len(Schedule)].index \in Nat /\ \A i \in 1 .. Len(Schedule) : Schedule[i].index \in Nat
  BY ScheduleEntries
<1>5. \A i \in 1 .. Len(Schedule) : Schedule[i].index \in 0 .. LayerCount - 1
  BY <1>3, <1>4, ScheduleEntries
<1>. QED BY <1>3, <1>4, <1>5 DEF HasAttention, Layers

LEMMA BuffersHeld ==
  /\ {"hidden", "residual", "scratch"} \subseteq Buffers
  /\ HasMamba => {"mamba_conv_state", "mamba_state"} \subseteq Buffers
  /\ HasAttention => {"key_cache", "value_cache"} \subseteq Buffers
<1> DEFINE S == {"hidden", "residual", "scratch", "mamba_conv_state", "mamba_state",
                 "key_cache", "value_cache"}
<1>1. PICK s : s = <<"hidden", "residual", "scratch">>
  OBVIOUS
<1>2. PICK t : t = (IF HasMamba THEN <<"mamba_conv_state", "mamba_state">> ELSE << >>)
  OBVIOUS
<1>3. PICK u : u = (IF HasAttention THEN <<"key_cache", "value_cache">> ELSE << >>)
  OBVIOUS
<1>4. s \in Seq(S) /\ t \in Seq(S) /\ u \in Seq(S)
  <2>1. <<"hidden", "residual", "scratch">> \in Seq(S)
    OBVIOUS
  <2>2. <<"mamba_conv_state", "mamba_state">> \in Seq(S) /\ << >> \in Seq(S)
    OBVIOUS
  <2>3. <<"key_cache", "value_cache">> \in Seq(S)
    OBVIOUS
  <2>. HIDE DEF S
  <2>. QED BY <2>1, <2>2, <2>3, <1>1, <1>2, <1>3
<1>5. Buffers = Range(s) \cup Range(t) \cup Range(u)
  <2>. HIDE DEF S
  <2>1. FillOrder = (s \o t) \o u
    BY ONLY <1>1, <1>2, <1>3, Zenon DEF FillOrder
  <2>2. PICK v : v = s \o t
    OBVIOUS
  <2>3. v \in Seq(S) /\ Range(v) = Range(s) \cup Range(t)
    BY <1>4, <2>2, ConcatenatedRange, Concatenated
  <2>4. Range(v \o u) = Range(v) \cup Range(u)
    BY <1>4, <2>3, ConcatenatedRange
  <2>5. FillOrder = v \o u
    BY <2>1, <2>2
  <2>. QED BY <2>3, <2>4, <2>5, Zenon DEF Buffers
<1>6. {"hidden", "residual", "scratch"} \subseteq Range(s)
  <2>1. DOMAIN s = 1 .. 3 /\ s[1] = "hidden" /\ s[2] = "residual" /\ s[3] = "scratch"
    BY <1>1
  <2>. QED BY <2>1 DEF Range
<1>7. HasMamba => {"mamba_conv_state", "mamba_state"} \subseteq Range(t)
  <2>1. HasMamba => DOMAIN t = 1 .. 2 /\ t[1] = "mamba_conv_state" /\ t[2] = "mamba_state"
    BY <1>2
  <2>. QED BY <2>1 DEF Range
<1>8. HasAttention => {"key_cache", "value_cache"} \subseteq Range(u)
  <2>1. HasAttention => DOMAIN u = 1 .. 2 /\ u[1] = "key_cache" /\ u[2] = "value_cache"
    BY <1>3
  <2>. QED BY <2>1 DEF Range
<1>. QED BY <1>5, <1>6, <1>7, <1>8

-----------------------------------------------------------------------------
(* What a step does to the context *)

\* d differs from c in the contents of its buffers only.
SamePages(c, d) ==
  /\ d.pool = c.pool /\ d.pages = c.pages
  /\ d.sequenceLength = c.sequenceLength /\ d.decodePosition = c.decodePosition
  /\ DOMAIN d.data = Buffers

LEMMA SamePagesKeep ==
  ASSUME NEW c, NEW d, ContextType(c), PagesExact(c), SamePages(c, d)
  PROVE  ContextType(d) /\ PagesExact(d) /\ Lost(d) = Lost(c)
<1>1. ContextType(d)
  BY DEF ContextType, SamePages
<1>2. PagesExact(d)
  BY DEF PagesExact, PagesOwned, SamePages
<1>3. Unlisted(d) = Unlisted(c)
  BY DEF Unlisted, SamePages
<1>. QED BY <1>1, <1>2, <1>3, UnlistedIsLost

LEMMA WithData ==
  ASSUME NEW c, NEW data, DOMAIN data = Buffers,
         NEW d, d = Context(c.pool, c.pages, c.sequenceLength, c.decodePosition, data)
  PROVE  SamePages(c, d) /\ d.data = data
BY DEF Context, SamePages

AddedTo(c, d, buffer, entries) ==
  /\ SamePages(c, d)
  /\ \A b \in Buffers : d.data[b] = IF b = buffer THEN c.data[b] \cup entries ELSE c.data[b]

LEMMA AddedGives ==
  ASSUME NEW c, NEW buffer, NEW entries, NEW d, d = Added(c, buffer, entries)
  PROVE  AddedTo(c, d, buffer, entries)
<1>1. PICK data : data = [b \in Buffers |-> IF b = buffer THEN c.data[b] \cup entries ELSE c.data[b]]
  OBVIOUS
<1>2. d = Context(c.pool, c.pages, c.sequenceLength, c.decodePosition, data)
  BY <1>1, Zenon DEF Added
<1>3. DOMAIN data = Buffers
  BY <1>1
<1>4. SamePages(c, d) /\ d.data = data
  BY <1>2, <1>3, WithData
<1>5. \A b \in Buffers : data[b] = IF b = buffer THEN c.data[b] \cup entries ELSE c.data[b]
  BY <1>1
<1>. QED BY <1>4, <1>5, Zenon DEF AddedTo

Replaced(c, d, buffer, entries) ==
  /\ SamePages(c, d)
  /\ \A b \in Buffers : d.data[b] = IF b = buffer THEN entries ELSE c.data[b]

LEMMA OverwrittenGives ==
  ASSUME NEW c, NEW buffer, NEW entries, NEW d, d = Overwritten(c, buffer, entries)
  PROVE  Replaced(c, d, buffer, entries)
<1>1. PICK data : data = [b \in Buffers |-> IF b = buffer THEN entries ELSE c.data[b]]
  OBVIOUS
<1>2. d = Context(c.pool, c.pages, c.sequenceLength, c.decodePosition, data)
  BY <1>1, Zenon DEF Overwritten
<1>3. DOMAIN data = Buffers
  BY <1>1
<1>4. SamePages(c, d) /\ d.data = data
  BY <1>2, <1>3, WithData
<1>5. \A b \in Buffers : data[b] = IF b = buffer THEN entries ELSE c.data[b]
  BY <1>1
<1>. QED BY <1>4, <1>5, Zenon DEF Replaced

LEMMA AgedGives ==
  ASSUME NEW c, NEW d, d = Aged(c)
  PROVE  SamePages(c, d)
<1>1. PICK data : data = [b \in Buffers |-> {<<e[1], "before">> : e \in c.data[b]}]
  OBVIOUS
<1>2. d = Context(c.pool, c.pages, c.sequenceLength, c.decodePosition, data)
  BY <1>1, Zenon DEF Aged
<1>3. DOMAIN data = Buffers
  BY <1>1
<1>. QED BY <1>2, <1>3, WithData

-----------------------------------------------------------------------------
(* Sizing the sequence *)

Sized(c, count, r) ==
  /\ ContextType(r[1]) /\ r[2] \in BOOLEAN /\ PagesExact(r[1]) /\ r[1].data = c.data
  /\ Lost(r[1]) = Lost(c)
  /\ PagesFit(c, r[1], RequiredPages(count))
  /\ r[2] => \A l \in Layers : Len(r[1].pages[l]) >= RequiredPages(count)

LEMMA SetSizes ==
  ASSUME NEW c, ContextType(c), PagesExact(c), HasAttention,
         NEW count \in 1 .. MaxTokens, NEW r, r = SetSequenceLength(c, count)
  PROVE  Sized(c, count, r)
<1>1. PICK d : d = WithLengths(c, count, count)
  OBVIOUS
<1>2. count \in Nat /\ ~(count > MaxTokens) /\ count \in 0 .. MaxTokens
  BY ContextAssumption
<1>3. r = EnsureAttentionTokens(d, count)
  BY <1>1, <1>2, Zenon DEF SetSequenceLength
<1>4. /\ d.pool = c.pool /\ d.pages = c.pages /\ d.data = c.data
      /\ d.sequenceLength = count /\ d.decodePosition = count
  BY <1>1 DEF WithLengths, Context
<1>5. ContextType(d) /\ PagesExact(d) /\ Unlisted(d) = Unlisted(c)
  BY <1>2, <1>4 DEF ContextType, PagesExact, PagesOwned, Unlisted
<1>6. Ensured(d, count, r)
  BY <1>2, <1>3, <1>5, EnsureGives
<1>7. /\ ContextType(r[1]) /\ r[2] \in BOOLEAN /\ PagesExact(r[1]) /\ Unlisted(r[1]) = Unlisted(c)
      /\ r[1].data = c.data
  BY <1>4, <1>5, <1>6 DEF Ensured, Grows, PagesKept
<1>8. Lost(r[1]) = Lost(c)
  BY <1>7, UnlistedIsLost
<1>9. PagesFit(c, r[1], RequiredPages(count))
  BY <1>4, <1>6 DEF Ensured, PagesFit
<1>. QED BY <1>6, <1>7, <1>8, <1>9 DEF Ensured, Sized

\* The first k layers are s pages short each.
EachShort(c, required, k, s) == \A l \in 0 .. k - 1 : Shortfall(c, required, l) = s

LEMMA SumOfEqual ==
  ASSUME NEW c, NEW required, NEW k \in Nat, NEW m, IsSum(m, c, required, k),
         NEW s \in Nat, EachShort(c, required, k, s)
  PROVE  m[k] = k * s
<1> DEFINE G(n) == IF n = 0 THEN 0 ELSE m[n - 1] + Shortfall(c, required, n - 1)
<1>1. \A n \in 0 .. k : m[n] = G(n)
  <2>1. m = [n \in 0 .. k |-> G(n)]
    BY Zenon DEF IsSum
  <2>. HIDE DEF G
  <2>. QED BY <2>1, Zenon
<1> DEFINE T == {n \in 0 .. k : m[n] # n * s}
<1>2. SUFFICES ASSUME T # {}  PROVE FALSE
  OBVIOUS
<1>3. PICK n \in T : \A y \in T : n <= y
  <2>1. T \in SUBSET Nat
    OBVIOUS
  <2>. QED BY <2>1, <1>2, LeastNatural
<1>4. CASE n = 0
  BY <1>1, <1>3, <1>4
<1>5. CASE n # 0
  <2>1. n \in 1 .. k /\ n - 1 \in 0 .. k /\ n - 1 \in 0 .. k - 1 /\ n - 1 \notin T
    BY <1>3, <1>5
  <2>2. m[n] = m[n - 1] + s
    BY <2>1, <1>1, <1>5 DEF EachShort
  <2>3. m[n - 1] = (n - 1) * s
    BY <2>1
  <2>4. (n - 1) * s + s = n * s
    BY <2>1
  <2>. QED BY <2>2, <2>3, <2>4, <1>3
<1>. QED BY <1>4, <1>5

LEMMA PlannedPagesSuffice ==
  ASSUME NEW count \in 1 .. MaxTokens
  PROVE  LayerCount * RequiredPages(count) <= TotalPages
<1>1. RequiredPages(count) <= RequiredPages(MaxTokens)
  BY PoolAssumption, ContextAssumption DEF RequiredPages
<1>2. RequiredPages(count) \in Nat /\ RequiredPages(MaxTokens) \in Nat
  BY ContextAssumption, RequiredPagesNatural
<1>3. ASSUME NEW a \in Nat, NEW b \in Nat, NEW n \in Nat, a <= b  PROVE n * a <= n * b
  BY <1>3
<1>. QED BY <1>1, <1>2, <1>3, PoolAssumption, PlanAssumption DEF PlannedPages

\* A request is refused pages only when pages were lost: the pool holds what the largest
\* request needs of every layer.
LEMMA RefusalNeedsLoss ==
  ASSUME NEW c, ContextType(c), PagesExact(c), HasAttention,
         NEW count \in 1 .. MaxTokens, NEW r, r = SetSequenceLength(c, count), ~r[2],
         \/ \A l \in Layers : c.pages[l] = << >>
         \/ \A l \in Layers : Len(c.pages[l]) = RequiredPages(count)
  PROVE  Lost(c) # {}
<1>1. PICK d : d = WithLengths(c, count, count)
  OBVIOUS
<1>2. count \in Nat /\ count <= MaxTokens /\ ~(count > MaxTokens) /\ count \in 0 .. MaxTokens
  BY ContextAssumption
<1>3. r = EnsureAttentionTokens(d, count)
  BY <1>1, <1>2, Zenon DEF SetSequenceLength
<1>4. /\ d.pool = c.pool /\ d.pages = c.pages /\ d.data = c.data
      /\ d.sequenceLength = count /\ d.decodePosition = count
  BY <1>1 DEF WithLengths, Context
<1>5. ContextType(d)
  BY <1>2, <1>4 DEF ContextType
<1>6. PICK q \in Nat : q = RequiredPages(count)
  BY <1>2, RequiredPagesNatural
<1>7. LayerCount \in Nat /\ TotalPages \in Nat /\ Layers = 0 .. LayerCount - 1
  BY PoolAssumption DEF Layers
<1>8. PICK m : IsSum(m, d, RequiredPages(count), LayerCount)
  BY <1>7, SumExists
<1>9. m[LayerCount] > Len(d.pool.free)
  BY <1>2, <1>3, <1>5, <1>8, RefusalMeansFull
<1>10. Len(d.pool.free) \in Nat
  BY <1>5 DEF ContextType, PoolType
<1>11. CASE \A l \in Layers : c.pages[l] = << >>
  <2>1. EachShort(d, RequiredPages(count), LayerCount, q)
    BY <1>4, <1>6, <1>7, <1>11 DEF Shortfall, EachShort
  <2>2. m[LayerCount] = LayerCount * q
    BY ONLY <2>1, <1>7, <1>8, SumOfEqual, q \in Nat, SMTT(30)
  <2>3. LayerCount * q <= TotalPages
    BY <1>6, PlannedPagesSuffice
  <2>4. Len(c.pool.free) = TotalPages - Cardinality(Lost(c))
    BY <1>11, FreePagesCounted
  <2>5. ASSUME Lost(c) = {}  PROVE FALSE
    <3>1. Cardinality(Lost(c)) = 0
      BY <2>5, FS_EmptySet
    <3>2. LayerCount * q \in Nat
      BY <1>7
    <3>. QED BY <3>1, <3>2, <2>2, <2>3, <2>4, <1>4, <1>7, <1>9
  <2>. QED BY <2>5
<1>12. CASE \A l \in Layers : Len(c.pages[l]) = RequiredPages(count)
  <2>1. EachShort(d, RequiredPages(count), LayerCount, 0)
    BY <1>4, <1>6, <1>7, <1>12 DEF Shortfall, EachShort
  <2>2. m[LayerCount] = LayerCount * 0
    <3>1. 0 \in Nat
      OBVIOUS
    <3>. QED BY ONLY <2>1, <3>1, <1>7, <1>8, SumOfEqual, SMTT(30)
  <2>. QED BY <2>2, <1>7, <1>9, <1>10
<1>. QED BY <1>11, <1>12

-----------------------------------------------------------------------------
(* The marks the layers leave *)

StatesOfThisRun(c) == \A b \in StateBuffers : \A e \in c.data[b] : e[2] = "now"

Advanced(c, n) ==
  \A i \in 1 .. Len(Schedule) : Schedule[i].kind = "mamba" =>
    \A b \in {"mamba_conv_state", "mamba_state"} :
      (\E e \in c.data[b] : e[1] = Schedule[i].index) <=> i <= n

\* No layer has pages before the first attention layer runs, and then all have what the
\* tokens need, to the page.
Mapped(c, count, n) ==
  \/ /\ \A l \in Layers : c.pages[l] = << >>
     /\ \A i \in 1 .. n : Schedule[i].kind # "attention"
  \/ \A l \in Layers : Len(c.pages[l]) = RequiredPages(count)

Stored(c, n) ==
  \A i \in 1 .. n : Schedule[i].kind = "attention" =>
    \A b \in {"key_cache", "value_cache"} : \A p \in Range(c.pages[Schedule[i].index]) :
      <<p, "now">> \in c.data[b]

\* The context of a run that has count tokens, after its first n layers.
LayersRun(c, count, n) ==
  StatesOfThisRun(c) /\ Advanced(c, n) /\ Mapped(c, count, n) /\ Stored(c, n)

LEMMA MambaStatesHeld ==
  ASSUME NEW i \in 1 .. Len(Schedule), Schedule[i].kind = "mamba"
  PROVE  {"mamba_conv_state", "mamba_state"} \subseteq StateBuffers
<1>1. HasMamba
  BY ScheduleEntries, PlanAssumption
<1>. QED BY <1>1, BuffersHeld DEF StateBuffers

LEMMA CachesHeld ==
  ASSUME NEW i \in 1 .. Len(Schedule), Schedule[i].kind = "attention"
  PROVE  /\ HasAttention /\ {"key_cache", "value_cache"} \subseteq StateBuffers
         /\ \A j \in 1 .. Len(Schedule) : Schedule[j].index \in Layers
<1>1. HasAttention /\ \A j \in 1 .. Len(Schedule) : Schedule[j].index \in Layers
  BY EveryIndexHasPages
<1>. QED BY <1>1, BuffersHeld DEF StateBuffers

\* Neither the activations nor an expert layer leave a mark.
LEMMA UnmarkedKeeps ==
  ASSUME NEW c, NEW d, NEW count, NEW n \in 0 .. Len(Schedule), LayersRun(c, count, n),
         SamePages(c, d), \A b \in StateBuffers : d.data[b] = c.data[b]
  PROVE  LayersRun(d, count, n)
<1>1. StatesOfThisRun(d)
  BY DEF LayersRun, StatesOfThisRun
<1>2. Advanced(d, n)
  <2>1. ASSUME NEW i \in 1 .. Len(Schedule), Schedule[i].kind = "mamba",
               NEW b \in {"mamba_conv_state", "mamba_state"}
        PROVE  (\E e \in d.data[b] : e[1] = Schedule[i].index) <=> i <= n
    <3>1. d.data[b] = c.data[b]
      BY <2>1, MambaStatesHeld
    <3>. QED BY <3>1, <2>1 DEF LayersRun, Advanced
  <2>. QED BY <2>1 DEF Advanced
<1>3. Mapped(d, count, n)
  BY DEF LayersRun, Mapped, SamePages
<1>4. Stored(d, n)
  <2>1. ASSUME NEW i \in 1 .. n, Schedule[i].kind = "attention", NEW b \in {"key_cache", "value_cache"},
               NEW p \in Range(d.pages[Schedule[i].index])
        PROVE  <<p, "now">> \in d.data[b]
    <3>1. i \in 1 .. Len(Schedule)
      BY ScheduleEntries
    <3>2. d.data[b] = c.data[b] /\ d.pages = c.pages
      BY <2>1, <3>1, CachesHeld DEF SamePages
    <3>. QED BY <3>2, <2>1 DEF LayersRun, Stored
  <2>. QED BY <2>1 DEF Stored
<1>. QED BY <1>1, <1>2, <1>3, <1>4 DEF LayersRun

LEMMA ExpertMarksNothing ==
  ASSUME NEW c, NEW count, NEW n \in Nat, n < Len(Schedule), LayersRun(c, count, n),
         Schedule[n + 1].kind = "expert"
  PROVE  LayersRun(c, count, n + 1)
<1>0. Len(Schedule) \in Nat
  BY ScheduleEntries
<1>1. \A i \in 1 .. n + 1 : i \in 1 .. n \/ i = n + 1
  OBVIOUS
<1>2. \A i \in 1 .. Len(Schedule) : i <= n + 1 <=> i <= n \/ i = n + 1
  BY <1>0
<1>3. \A i \in 1 .. n + 1 : Schedule[i].kind = "attention" => i \in 1 .. n
  BY <1>1
<1>4. \A i \in 1 .. Len(Schedule) : Schedule[i].kind = "mamba" => (i <= n + 1 <=> i <= n)
  BY <1>2
<1>5. Advanced(c, n + 1)
  BY <1>4 DEF LayersRun, Advanced
<1>6. Mapped(c, count, n + 1)
  BY <1>3 DEF LayersRun, Mapped
<1>7. Stored(c, n + 1)
  BY <1>3 DEF LayersRun, Stored
<1>. QED BY <1>5, <1>6, <1>7 DEF LayersRun

\* A Mamba layer marks both its states, once.
LEMMA MambaMarks ==
  ASSUME NEW c, NEW count, NEW n \in Nat, n < Len(Schedule), LayersRun(c, count, n),
         Schedule[n + 1].kind = "mamba",
         NEW v, v = Added(c, "mamba_conv_state", {<<Schedule[n + 1].index, "now">>}),
         NEW a, a = Added(v, "mamba_state", {<<Schedule[n + 1].index, "now">>})
  PROVE  SamePages(c, v) /\ SamePages(c, a) /\ LayersRun(a, count, n + 1)
<1> DEFINE entry == <<Schedule[n + 1].index, "now">>
<1>0. n + 1 \in 1 .. Len(Schedule) /\ Len(Schedule) \in Nat
  BY ScheduleEntries
<1>1. /\ SamePages(c, v)
      /\ \A b \in Buffers : v.data[b] = IF b = "mamba_conv_state" THEN c.data[b] \cup {entry} ELSE c.data[b]
  <2>1. AddedTo(c, v, "mamba_conv_state", {entry})
    BY ONLY v = Added(c, "mamba_conv_state", {entry}), AddedGives
  <2>. QED BY <2>1, Zenon DEF AddedTo
<1>2. /\ SamePages(v, a)
      /\ \A b \in Buffers : a.data[b] = IF b = "mamba_state" THEN v.data[b] \cup {entry} ELSE v.data[b]
  <2>1. AddedTo(v, a, "mamba_state", {entry})
    BY ONLY a = Added(v, "mamba_state", {entry}), AddedGives
  <2>. QED BY <2>1, Zenon DEF AddedTo
<1>3. SamePages(c, a)
  BY <1>1, <1>2 DEF SamePages
<1>4. {"mamba_conv_state", "mamba_state"} \subseteq StateBuffers
  BY <1>0, MambaStatesHeld
<1>5. /\ \A b \in {"mamba_conv_state", "mamba_state"} : a.data[b] = c.data[b] \cup {entry}
      /\ \A b \in StateBuffers \ {"mamba_conv_state", "mamba_state"} : a.data[b] = c.data[b]
  <2>. HIDE DEF entry
  <2>. QED BY <1>1, <1>2, <1>4 DEF StateBuffers
<1>6. entry[1] = Schedule[n + 1].index /\ entry[2] = "now"
  OBVIOUS
<1>7. StatesOfThisRun(a)
  <2>. HIDE DEF entry
  <2>. QED BY <1>5, <1>6, ZenonT(60) DEF LayersRun, StatesOfThisRun
<1>8. Advanced(a, n + 1)
  <2>1. ASSUME NEW i \in 1 .. Len(Schedule), Schedule[i].kind = "mamba",
               NEW b \in {"mamba_conv_state", "mamba_state"}
        PROVE  (\E e \in a.data[b] : e[1] = Schedule[i].index) <=> i <= n + 1
    <3>. HIDE DEF entry
    <3>1. (\E e \in c.data[b] : e[1] = Schedule[i].index) <=> i <= n
      BY <2>1 DEF LayersRun, Advanced
    <3>2. entry[1] = Schedule[i].index <=> i = n + 1
      BY <1>0, <1>6, ScheduleEntries
    <3>3. i <= n + 1 <=> i <= n \/ i = n + 1
      BY <1>0
    <3>. QED BY <1>5, <3>1, <3>2, <3>3
  <2>. QED BY <2>1 DEF Advanced
<1>9. \A i \in 1 .. n + 1 : Schedule[i].kind = "attention" => i \in 1 .. n
  BY <1>0
<1>10. Mapped(a, count, n + 1)
  BY <1>3, <1>9 DEF LayersRun, Mapped, SamePages
<1>11. Stored(a, n + 1)
  <2>1. ASSUME NEW i \in 1 .. n + 1, Schedule[i].kind = "attention", NEW b \in {"key_cache", "value_cache"},
               NEW p \in Range(a.pages[Schedule[i].index])
        PROVE  <<p, "now">> \in a.data[b]
    <3>1. i \in 1 .. Len(Schedule) /\ i \in 1 .. n
      BY <1>0, <1>9, <2>1
    <3>2. a.data[b] = c.data[b] /\ a.pages = c.pages
      <4>1. b \in StateBuffers \ {"mamba_conv_state", "mamba_state"}
        BY <2>1, <3>1, CachesHeld
      <4>. QED BY <4>1, <1>3, <1>5 DEF SamePages
    <3>. QED BY <3>1, <3>2, <2>1 DEF LayersRun, Stored
  <2>. QED BY <2>1 DEF Stored
<1>. QED BY <1>1, <1>3, <1>7, <1>8, <1>10, <1>11 DEF LayersRun

\* The context an attention layer stores into.
ReadyToStore(c, count, n) ==
  /\ StatesOfThisRun(c) /\ Advanced(c, n) /\ Stored(c, n)
  /\ \A l \in Layers : Len(c.pages[l]) = RequiredPages(count)

ReadyUnlessLost(c, count, n, r) ==
  /\ ContextType(r[1]) /\ PagesExact(r[1]) /\ Lost(r[1]) = Lost(c)
  /\ IF r[2] THEN ReadyToStore(r[1], count, n) ELSE Lost(c) # {}

\* Setting the length gives every layer exactly the pages the tokens need, and moves no
\* page that has been written.
LEMMA AttentionSizes ==
  ASSUME NEW c, ContextType(c), PagesExact(c), NEW count \in 1 .. MaxTokens,
         NEW n \in Nat, n < Len(Schedule), LayersRun(c, count, n),
         Schedule[n + 1].kind = "attention",
         NEW r, r = SetSequenceLength(c, count)
  PROVE  ReadyUnlessLost(c, count, n, r)
<1>1. n + 1 \in 1 .. Len(Schedule) /\ Len(Schedule) \in Nat
  BY ScheduleEntries
<1>2. HasAttention /\ \A j \in 1 .. Len(Schedule) : Schedule[j].index \in Layers
  BY <1>1, CachesHeld
<1>3. Sized(c, count, r)
  BY <1>2, SetSizes
<1>4. ASSUME ~r[2]  PROVE Lost(c) # {}
  <2>1. \/ \A l \in Layers : c.pages[l] = << >>
        \/ \A l \in Layers : Len(c.pages[l]) = RequiredPages(count)
    BY DEF LayersRun, Mapped
  <2>. QED BY <2>1, <1>2, <1>4, RefusalNeedsLoss
<1>5. ASSUME r[2]  PROVE ReadyToStore(r[1], count, n)
  <2>1. RequiredPages(count) \in Nat
    <3>1. count \in Nat
      OBVIOUS
    <3>. QED BY <3>1, RequiredPagesNatural
  <2>2. \A l \in Layers : Len(r[1].pages[l]) \in Nat /\ Len(c.pages[l]) \in Nat
    BY <1>3 DEF Sized, ContextType
  <2>3. \A l \in Layers : Len(r[1].pages[l]) >= RequiredPages(count)
    BY <1>3, <1>5 DEF Sized
  <2>4. \A l \in Layers : IF Len(c.pages[l]) >= RequiredPages(count)
                          THEN r[1].pages[l] = c.pages[l]
                          ELSE Len(r[1].pages[l]) <= RequiredPages(count)
    BY <1>3 DEF Sized, PagesFit
  <2>5. ASSUME NEW l \in Layers  PROVE Len(r[1].pages[l]) = RequiredPages(count)
    <3>1. CASE \A k \in Layers : c.pages[k] = << >>
      <4>1. Len(c.pages[l]) = 0
        BY <3>1
      <4>. QED BY <4>1, <2>1, <2>2, <2>3, <2>4
    <3>2. CASE \A k \in Layers : Len(c.pages[k]) = RequiredPages(count)
      BY <3>2, <2>1, <2>2, <2>3, <2>4
    <3>. QED BY <3>1, <3>2 DEF LayersRun, Mapped
  <2>6. r[1].data = c.data
    BY <1>3 DEF Sized
  <2>7. StatesOfThisRun(r[1]) /\ Advanced(r[1], n)
    BY <2>6 DEF LayersRun, StatesOfThisRun, Advanced
  <2>8. Stored(r[1], n)
    <3>1. ASSUME NEW i \in 1 .. n, Schedule[i].kind = "attention"
          PROVE  r[1].pages[Schedule[i].index] = c.pages[Schedule[i].index]
      <4>1. \A l \in Layers : Len(c.pages[l]) = RequiredPages(count)
        BY <3>1 DEF LayersRun, Mapped
      <4>2. Schedule[i].index \in Layers
        BY <1>1, <1>2
      <4>. QED BY <4>1, <4>2, <2>1, <2>4
    <3>. QED BY <3>1, <2>6 DEF LayersRun, Stored
  <2>. QED BY <2>5, <2>7, <2>8 DEF ReadyToStore
<1>. QED BY <1>3, <1>4, <1>5 DEF ReadyUnlessLost, Sized

\* An attention layer leaves the keys and the values of this run in all its pages.
LEMMA AttentionMarks ==
  ASSUME NEW c, ContextType(c), NEW count \in 1 .. MaxTokens,
         NEW n \in Nat, n < Len(Schedule), ReadyToStore(c, count, n),
         Schedule[n + 1].kind = "attention",
         NEW entries,
         entries = {<<p, "now">> : p \in {c.pages[Schedule[n + 1].index][i] : i \in 1 .. RequiredPages(count)}},
         NEW k, k = Added(c, "key_cache", entries),
         NEW s, s = Added(k, "value_cache", entries)
  PROVE  SamePages(c, k) /\ SamePages(c, s) /\ LayersRun(s, count, n + 1)
<1>1. n + 1 \in 1 .. Len(Schedule) /\ Len(Schedule) \in Nat
  BY ScheduleEntries
<1>2. PICK layer : layer = Schedule[n + 1].index
  OBVIOUS
<1>3. HasAttention /\ layer \in Layers /\ {"key_cache", "value_cache"} \subseteq StateBuffers
  BY <1>1, <1>2, CachesHeld
<1>4. AddedTo(c, k, "key_cache", entries)
  BY ONLY k = Added(c, "key_cache", entries), AddedGives
<1>5. AddedTo(k, s, "value_cache", entries)
  BY ONLY s = Added(k, "value_cache", entries), AddedGives
<1>6. SamePages(c, k) /\ SamePages(c, s)
  BY <1>4, <1>5 DEF AddedTo, SamePages
<1>7. /\ \A b \in {"key_cache", "value_cache"} : s.data[b] = c.data[b] \cup entries
      /\ \A b \in StateBuffers \ {"key_cache", "value_cache"} : s.data[b] = c.data[b]
  BY <1>3, <1>4, <1>5 DEF AddedTo, StateBuffers
<1>8. \A p \in Range(c.pages[layer]) : <<p, "now">> \in entries
  <2>1. PICK own : own = c.pages[layer]
    OBVIOUS
  <2>2. own \in Seq(PageIds) /\ Len(own) = RequiredPages(count)
    BY <1>3, <2>1 DEF ContextType, ReadyToStore
  <2>3. DOMAIN own = 1 .. RequiredPages(count)
    BY <2>2
  <2>4. entries = {<<p, "now">> : p \in {own[i] : i \in 1 .. RequiredPages(count)}}
    BY <1>2, <2>1
  <2>. QED BY <2>1, <2>3, <2>4 DEF Range
<1>9. \A e \in entries : e[2] = "now"
  OBVIOUS
<1>10. StatesOfThisRun(s)
  <2>1. ASSUME NEW b \in StateBuffers, NEW e \in s.data[b]  PROVE e[2] = "now"
    <3>1. e \in c.data[b] \/ e \in entries
      BY <1>7
    <3>. QED BY ONLY <3>1, <1>9, ReadyToStore(c, count, n), b \in StateBuffers DEF ReadyToStore, StatesOfThisRun
  <2>. QED BY <2>1 DEF StatesOfThisRun
<1>11. Advanced(s, n + 1)
  <2>1. ASSUME NEW i \in 1 .. Len(Schedule), Schedule[i].kind = "mamba",
               NEW b \in {"mamba_conv_state", "mamba_state"}
        PROVE  (\E e \in s.data[b] : e[1] = Schedule[i].index) <=> i <= n + 1
    <3>1. (\E e \in c.data[b] : e[1] = Schedule[i].index) <=> i <= n
      BY <2>1 DEF ReadyToStore, Advanced
    <3>2. s.data[b] = c.data[b]
      <4>1. b \in StateBuffers \ {"key_cache", "value_cache"}
        BY <2>1, MambaStatesHeld
      <4>. QED BY <4>1, <1>7
    <3>3. i <= n + 1 <=> i <= n \/ i = n + 1
      BY <1>1
    <3>. QED BY <2>1, <3>1, <3>2, <3>3
  <2>. QED BY <2>1 DEF Advanced
<1>12. Mapped(s, count, n + 1)
  BY <1>6 DEF ReadyToStore, Mapped, SamePages
<1>13. Stored(s, n + 1)
  <2>1. ASSUME NEW i \in 1 .. n + 1, Schedule[i].kind = "attention", NEW b \in {"key_cache", "value_cache"},
               NEW p \in Range(s.pages[Schedule[i].index])
        PROVE  <<p, "now">> \in s.data[b]
    <3>1. s.data[b] = c.data[b] \cup entries /\ s.pages = c.pages
      BY <1>6, <1>7 DEF SamePages
    <3>2. CASE i = n + 1
      BY <3>1, <3>2, <1>2, <1>8
    <3>3. CASE i # n + 1
      <4>1. i \in 1 .. n
        BY ONLY <3>3, n \in Nat, i \in 1 .. n + 1
      <4>. QED BY <4>1, <3>1, <2>1 DEF ReadyToStore, Stored
    <3>. QED BY <3>2, <3>3
  <2>. QED BY <2>1 DEF Stored
<1>. QED BY <1>6, <1>10, <1>11, <1>12, <1>13 DEF LayersRun

-----------------------------------------------------------------------------
(* The inductive invariant *)

Untouched(c) == (\A b \in Buffers : c.data[b] = {}) /\ \A l \in Layers : c.pages[l] = << >>

Inv ==
  /\ TypeOK
  /\ ContextType(context) /\ PagesExact(context)
  /\ phase # "idle" => tokens \in 1 .. MaxTokens /\ outcome = "none"
  /\ phase = "embed" => Untouched(context) /\ done = 0 /\ current = "hidden"
  /\ phase \in {"layers", "logits"} =>
       LayersRun(context, tokens, done) /\ context.data[current] = {<<done, "now">>}
  /\ CapacitySuffices

LEMMA InvInit ==
  Init => Inv
<1>. SUFFICES ASSUME Init  PROVE Inv
  OBVIOUS
<1>1. /\ context = FreshContext /\ phase = "idle" /\ tokens = 0 /\ stop = NoStop
      /\ done = 0 /\ current = "hidden" /\ outcome = "none"
  BY DEF Init
<1>2. ContextType(context) /\ PagesExact(context)
  BY <1>1, FreshContextWell
<1>3. 0 \in 0 .. MaxTokens + 1 /\ 0 \in 0 .. Len(Schedule)
  BY ContextAssumption, ScheduleEntries
<1>4. TypeOK
  BY <1>1, <1>2, <1>3 DEF TypeOK, Stops, Outcomes, ContextType
<1>5. CapacitySuffices
  BY <1>1 DEF CapacitySuffices
<1>. QED BY <1>1, <1>2, <1>4, <1>5 DEF Inv

\* Wherever a step fails, what it leaves can be reset.
LEMMA FailsKeepInv ==
  ASSUME Inv, phase # "idle", UNCHANGED request,
         NEW c, ContextType(c), PagesExact(c), NEW why \in Outcomes, Fails(c, why),
         why \notin {"plan", "scatter"}, why = "pages" => Lost(c) # {}
  PROVE  Inv'
<1>1. /\ context' = c /\ phase' = "idle" /\ outcome' = why /\ done' = done /\ current' = current
      /\ tokens' = tokens /\ stop' = stop
  BY DEF Fails, End, request
<1>2. TypeOK'
  BY <1>1 DEF Inv, TypeOK, ContextType
<1>3. CapacitySuffices'
  BY <1>1 DEF CapacitySuffices
<1>. QED BY <1>1, <1>2, <1>3 DEF Inv

\* A layer that completes adds its mark, and its output is what the next one reads.
LEMMA CompletesKeepsInv ==
  ASSUME Inv, phase = "layers", UNCHANGED request,
         NEW c, ContextType(c), PagesExact(c), LayersRun(c, tokens, done + 1), Completes(c)
  PROVE  Inv'
<1>1. /\ context' = Output(c) /\ done' = done + 1 /\ current' = Other(current)
      /\ outcome' = outcome /\ tokens' = tokens /\ stop' = stop
      /\ phase' \in {"layers", "logits"}
      /\ phase' = "layers" => done + 1 # Len(Schedule)
  BY DEF Completes, request
<1>2. /\ done \in 0 .. Len(Schedule) /\ done < Len(Schedule) /\ current \in {"hidden", "residual"}
      /\ tokens \in 1 .. MaxTokens /\ outcome = "none"
  BY DEF Inv, TypeOK
<1>3. done + 1 \in 0 .. Len(Schedule) /\ (done + 1 # Len(Schedule) => done + 1 < Len(Schedule))
  <2>1. ASSUME NEW n \in Nat, NEW k \in 0 .. n, k < n
        PROVE  k + 1 \in 0 .. n /\ (k + 1 # n => k + 1 < n)
    BY <2>1
  <2>2. Len(Schedule) \in Nat
    BY ScheduleEntries
  <2>. QED BY ONLY <1>2, <2>1, <2>2
<1>4. Other(current) \in {"hidden", "residual"} /\ Other(current) \in Buffers
  BY <1>2, BuffersHeld DEF Other
<1>5. Replaced(c, context', Other(current), {<<done + 1, "now">>})
  BY ONLY <1>1, OverwrittenGives DEF Output
<1>6. SamePages(c, context') /\ \A b \in StateBuffers : context'.data[b] = c.data[b]
  BY <1>4, <1>5 DEF Replaced, StateBuffers
<1>7. context'.data[Other(current)] = {<<done + 1, "now">>}
  BY <1>4, <1>5 DEF Replaced
<1>8. ContextType(context') /\ PagesExact(context')
  BY <1>6, SamePagesKeep
<1>9. LayersRun(context', tokens, done + 1)
  BY <1>3, <1>6, UnmarkedKeeps
<1>10. TypeOK'
  BY <1>1, <1>2, <1>3, <1>4, <1>8 DEF Inv, TypeOK, ContextType
<1>11. CapacitySuffices'
  BY <1>1, <1>2 DEF CapacitySuffices
<1>. QED BY <1>1, <1>2, <1>7, <1>8, <1>9, <1>10, <1>11 DEF Inv

LEMMA StartKeepsInv ==
  ASSUME Inv, NEW count \in 0 .. MaxTokens + 1, NEW stopAt \in Stops, NEW filled \in Fills,
         Start(count, stopAt, filled)
  PROVE  Inv'
<1>1. PICK a : a = Aged(context)
  OBVIOUS
<1>2. PICK reset : reset = ResetForNewRequest(a, filled)
  OBVIOUS
<1>3. /\ tokens' = count /\ stop' = stopAt /\ done' = 0 /\ current' = "hidden"
      /\ IF count = 0 \/ count > MaxTokens
         THEN phase' = "idle" /\ outcome' = "arguments" /\ context' = context
         ELSE /\ context' = reset[1]
              /\ IF reset[2] THEN phase' = "embed" /\ outcome' = "none"
                             ELSE phase' = "idle" /\ outcome' = "reset"
  BY <1>1, <1>2, Zenon DEF Start, End
<1>4. ContextType(a) /\ PagesExact(a)
  BY <1>1, AgedGives, SamePagesKeep DEF Inv
<1>5. WasReset(a, filled, reset)
  BY <1>2, <1>4, ResetGives
<1>6. ContextType(context') /\ PagesExact(context')
  BY <1>3, <1>5 DEF WasReset, Inv
<1>7. 0 \in 0 .. Len(Schedule) /\ (~(count = 0 \/ count > MaxTokens) => count \in 1 .. MaxTokens)
  BY ScheduleEntries, ContextAssumption
<1>8. TypeOK'
  BY <1>3, <1>6, <1>7 DEF TypeOK, Outcomes, ContextType
<1>9. ASSUME phase' # "idle"
      PROVE  /\ phase' = "embed" /\ tokens' \in 1 .. MaxTokens /\ outcome' = "none"
             /\ Untouched(context')
  BY <1>3, <1>5, <1>7, <1>9 DEF WasReset, Untouched
<1>10. CapacitySuffices'
  BY <1>3 DEF CapacitySuffices
<1>. QED BY <1>3, <1>6, <1>8, <1>9, <1>10 DEF Inv

LEMMA EmbedKeepsInv ==
  ASSUME Inv, Embed
  PROVE  Inv'
<1>1. /\ phase = "embed" /\ tokens' = tokens /\ stop' = stop /\ done' = done /\ current' = current
      /\ done = 0 /\ current = "hidden" /\ Untouched(context) /\ outcome = "none"
      /\ tokens \in 1 .. MaxTokens /\ ContextType(context) /\ PagesExact(context)
  BY DEF Embed, request, Inv
<1>2. CASE phase' = "idle" /\ outcome' = "embedding" /\ context' = context
  <2>1. TypeOK'
    BY <1>1, <1>2 DEF Inv, TypeOK, Outcomes
  <2>2. CapacitySuffices'
    BY <1>2 DEF CapacitySuffices
  <2>. QED BY <1>1, <1>2, <2>1, <2>2 DEF Inv
<1>3. CASE phase' = "layers" /\ outcome' = outcome
           /\ context' = Overwritten(context, "hidden", {<<0, "now">>})
  <2>1. Replaced(context, context', "hidden", {<<0, "now">>})
    BY ONLY <1>3, OverwrittenGives
  <2>2. SamePages(context, context') /\ \A b \in StateBuffers : context'.data[b] = {}
    BY <1>1, <2>1 DEF Replaced, StateBuffers, Untouched
  <2>3. context'.data["hidden"] = {<<0, "now">>}
    BY <2>1, BuffersHeld DEF Replaced
  <2>4. ContextType(context') /\ PagesExact(context')
    BY <1>1, <2>2, SamePagesKeep
  <2>5. StatesOfThisRun(context')
    BY <2>2 DEF StatesOfThisRun
  <2>6. Advanced(context', 0)
    <3>1. ASSUME NEW i \in 1 .. Len(Schedule), Schedule[i].kind = "mamba",
                 NEW b \in {"mamba_conv_state", "mamba_state"}
          PROVE  (\E e \in context'.data[b] : e[1] = Schedule[i].index) <=> i <= 0
      <4>1. context'.data[b] = {}
        BY <3>1, <2>2, MambaStatesHeld
      <4>2. ~(i <= 0)
        BY ScheduleEntries
      <4>. QED BY <4>1, <4>2
    <3>. QED BY <3>1 DEF Advanced
  <2>7. Mapped(context', tokens, 0) /\ Stored(context', 0)
    <3>1. \A l \in Layers : context'.pages[l] = << >>
      BY <1>1, <2>2 DEF SamePages, Untouched
    <3>. QED BY <3>1 DEF Mapped, Stored
  <2>8. LayersRun(context', tokens', done')
    BY <1>1, <2>5, <2>6, <2>7 DEF LayersRun
  <2>9. TypeOK'
    BY <1>1, <1>3, <2>4, ScheduleEntries DEF Inv, TypeOK, ContextType
  <2>10. CapacitySuffices'
    BY <1>1, <1>3 DEF CapacitySuffices
  <2>. QED BY <1>1, <1>3, <2>3, <2>4, <2>8, <2>9, <2>10 DEF Inv
<1>. QED BY <1>2, <1>3 DEF Embed, End

LEMMA RunningMeans ==
  ASSUME Inv, phase \in {"layers", "logits"}
  PROVE  /\ ContextType(context) /\ PagesExact(context) /\ LayersRun(context, tokens, done)
         /\ tokens \in 1 .. MaxTokens /\ done \in 0 .. Len(Schedule) /\ done \in Nat
         /\ current \in {"hidden", "residual"}
         /\ phase = "layers" => done < Len(Schedule)
<1>1. done \in Nat
  BY ScheduleEntries DEF Inv, TypeOK
<1>. QED BY <1>1 DEF Inv, TypeOK

\* Writing the output disturbs no page and no type.
LEMMA OutputGives ==
  ASSUME NEW c, ContextType(c), PagesExact(c)
  PROVE  ContextType(Output(c)) /\ PagesExact(Output(c))
<1>1. PICK d : d = Output(c)
  OBVIOUS
<1>2. Replaced(c, d, Other(current), {<<done + 1, "now">>})
  BY ONLY <1>1, OverwrittenGives DEF Output
<1>3. ContextType(d) /\ PagesExact(d)
  BY <1>2, SamePagesKeep DEF Replaced
<1>. QED BY <1>1, <1>3

LEMMA MambaKeepsInv ==
  ASSUME Inv, RunMamba
  PROVE  Inv'
<1>1. PICK v : v = Added(context, "mamba_conv_state", {<<Layer.index, "now">>})
  OBVIOUS
<1>2. PICK a : a = Added(v, "mamba_state", {<<Layer.index, "now">>})
  OBVIOUS
<1>3. /\ phase = "layers" /\ Schedule[done + 1].kind = "mamba" /\ UNCHANGED request
      /\ \/ \E c \in {context, v, a, Output(a)} : Fails(c, "device")
         \/ Completes(a)
  BY <1>1, <1>2, Zenon DEF RunMamba, Layer
<1>4. /\ ContextType(context) /\ PagesExact(context) /\ LayersRun(context, tokens, done)
      /\ done \in Nat /\ done < Len(Schedule)
  BY <1>3, RunningMeans
<1>5. SamePages(context, v) /\ SamePages(context, a) /\ LayersRun(a, tokens, done + 1)
  BY <1>1, <1>2, <1>3, <1>4, MambaMarks DEF Layer
<1>6. /\ ContextType(v) /\ PagesExact(v)
      /\ ContextType(a) /\ PagesExact(a)
  BY <1>4, <1>5, SamePagesKeep
<1>7. ContextType(Output(a)) /\ PagesExact(Output(a))
  BY <1>6, OutputGives
<1>8. ASSUME NEW c \in {context, v, a, Output(a)}, Fails(c, "device")  PROVE Inv'
  <2>1. ContextType(c) /\ PagesExact(c)
    BY <1>4, <1>6, <1>7
  <2>2. "device" \in Outcomes
    BY DEF Outcomes
  <2>. QED BY <2>1, <2>2, <1>3, <1>8, FailsKeepInv
<1>9. ASSUME Completes(a)  PROVE Inv'
  BY <1>3, <1>5, <1>6, <1>9, CompletesKeepsInv
<1>. QED BY <1>3, <1>8, <1>9

LEMMA ExpertKeepsInv ==
  ASSUME Inv, RunExpert
  PROVE  Inv'
<1>1. /\ phase = "layers" /\ Schedule[done + 1].kind = "expert" /\ UNCHANGED request
      /\ \/ \E c \in {context, Output(context)} : Fails(c, "device")
         \/ Completes(context)
  BY DEF RunExpert, Layer
<1>2. /\ ContextType(context) /\ PagesExact(context) /\ LayersRun(context, tokens, done)
      /\ done \in Nat /\ done < Len(Schedule)
  BY <1>1, RunningMeans
<1>3. LayersRun(context, tokens, done + 1)
  BY <1>1, <1>2, ExpertMarksNothing
<1>4. ContextType(Output(context)) /\ PagesExact(Output(context))
  BY <1>2, OutputGives
<1>5. ASSUME NEW c \in {context, Output(context)}, Fails(c, "device")  PROVE Inv'
  <2>1. ContextType(c) /\ PagesExact(c)
    BY <1>2, <1>4
  <2>2. "device" \in Outcomes
    BY DEF Outcomes
  <2>. QED BY <2>1, <2>2, <1>1, <1>5, FailsKeepInv
<1>6. ASSUME Completes(context)  PROVE Inv'
  BY <1>1, <1>2, <1>3, <1>6, CompletesKeepsInv
<1>. QED BY <1>1, <1>5, <1>6

LEMMA AttentionKeepsInv ==
  ASSUME Inv, RunAttention
  PROVE  Inv'
<1>1. PICK r : r = SetSequenceLength(context, tokens)
  OBVIOUS
<1>2. PICK entries : entries = Scattered(r[1])
  OBVIOUS
<1>3. PICK k : k = Added(r[1], "key_cache", entries)
  OBVIOUS
<1>4. PICK s : s = Added(k, "value_cache", entries)
  OBVIOUS
<1>5. PICK enough : enough = (Len(r[1].pages[Layer.index]) >= RequiredPages(tokens))
  OBVIOUS
<1>6. PICK exact : exact = (Len(r[1].pages[Layer.index]) = RequiredPages(tokens))
  OBVIOUS
<1>7. PICK failures : failures =
        IF ~r[2] THEN {<<r[1], "pages">>}
        ELSE IF ~enough THEN {<<r[1], "device">>, <<r[1], "scatter">>}
        ELSE IF ~exact THEN {<<r[1], "device">>, <<k, "device">>, <<s, "plan">>}
        ELSE {<<c, "device">> : c \in {r[1], k, s, Output(s)}}
  OBVIOUS
<1>8. /\ phase = "layers" /\ Schedule[done + 1].kind = "attention" /\ UNCHANGED request
      /\ \/ \E f \in failures : Fails(f[1], f[2])
         \/ r[2] /\ enough /\ exact /\ Completes(s)
  BY <1>1, <1>2, <1>3, <1>4, <1>5, <1>6, <1>7, Zenon DEF RunAttention, Layer
<1>9. /\ ContextType(context) /\ PagesExact(context) /\ LayersRun(context, tokens, done)
      /\ done \in Nat /\ done < Len(Schedule) /\ tokens \in 1 .. MaxTokens
  BY <1>8, RunningMeans
<1>10. ReadyUnlessLost(context, tokens, done, r)
  BY <1>1, <1>8, <1>9, AttentionSizes
<1>11. ContextType(r[1]) /\ PagesExact(r[1]) /\ Lost(r[1]) = Lost(context)
  BY <1>10 DEF ReadyUnlessLost
<1>12. CASE ~r[2]
  <2>1. failures = {<<r[1], "pages">>}
    BY <1>7, <1>12
  <2>2. Fails(r[1], "pages")
    BY <1>8, <1>12, <2>1
  <2>3. Lost(r[1]) # {}
    BY <1>10, <1>11, <1>12 DEF ReadyUnlessLost
  <2>4. "pages" \in Outcomes
    BY DEF Outcomes
  <2>. QED BY <1>8, <1>11, <2>2, <2>3, <2>4, FailsKeepInv
<1>13. CASE r[2]
  <2>1. ReadyToStore(r[1], tokens, done)
    BY <1>10, <1>13 DEF ReadyUnlessLost
  <2>2. entries = {<<p, "now">> : p \in {r[1].pages[Schedule[done + 1].index][i] : i \in 1 .. RequiredPages(tokens)}}
    BY <1>2, Zenon DEF Scattered, ScatteredPages, Layer
  <2>3. SamePages(r[1], k) /\ SamePages(r[1], s) /\ LayersRun(s, tokens, done + 1)
    BY <1>3, <1>4, <1>8, <1>9, <1>11, <2>1, <2>2, AttentionMarks
  <2>4. ContextType(k) /\ PagesExact(k) /\ ContextType(s) /\ PagesExact(s)
    BY <1>11, <2>3, SamePagesKeep
  <2>5. ContextType(Output(s)) /\ PagesExact(Output(s))
    BY <2>4, OutputGives
  <2>6. enough /\ exact
    <3>1. done + 1 \in 1 .. Len(Schedule)
      BY <1>9, ScheduleEntries
    <3>2. Schedule[done + 1].index \in Layers
      BY <3>1, <1>8, CachesHeld
    <3>3. Len(r[1].pages[Schedule[done + 1].index]) = RequiredPages(tokens)
      BY <2>1, <3>2 DEF ReadyToStore
    <3>4. RequiredPages(tokens) \in Nat
      <4>1. tokens \in Nat
        BY <1>9
      <4>. QED BY <4>1, RequiredPagesNatural
    <3>5. /\ Len(r[1].pages[Layer.index]) >= RequiredPages(tokens)
          /\ Len(r[1].pages[Layer.index]) = RequiredPages(tokens)
      BY <3>3, <3>4 DEF Layer
    <3>. QED BY <1>5, <1>6, <3>5, Zenon
  <2>7. failures = {<<c, "device">> : c \in {r[1], k, s, Output(s)}}
    BY <1>7, <1>13, <2>6
  <2>8. ASSUME NEW c \in {r[1], k, s, Output(s)}, Fails(c, "device")  PROVE Inv'
    <3>1. ContextType(c) /\ PagesExact(c)
      BY <1>11, <2>4, <2>5
    <3>2. "device" \in Outcomes
      BY DEF Outcomes
    <3>. QED BY <3>1, <3>2, <1>8, <2>8, FailsKeepInv
  <2>9. ASSUME Completes(s)  PROVE Inv'
    BY <1>8, <2>3, <2>4, <2>9, CompletesKeepsInv
  <2>10. \/ \E c \in {r[1], k, s, Output(s)} : Fails(c, "device")
         \/ Completes(s)
    BY <1>8, <2>7
  <2>. QED BY <2>8, <2>9, <2>10
<1>. QED BY <1>12, <1>13

LEMMA LogitsKeepInv ==
  ASSUME Inv, Logits
  PROVE  Inv'
<1>1. PICK w : w = Overwritten(context, "scratch", {<<done, "now">>})
  OBVIOUS
<1>2. /\ phase = "logits" /\ UNCHANGED request
      /\ \/ \E c \in {context, w} : Fails(c, "device")
         \/ Fails(w, "ok")
  BY <1>1, Zenon DEF Logits, Fails
<1>3. ContextType(context) /\ PagesExact(context)
  BY DEF Inv
<1>4. Replaced(context, w, "scratch", {<<done, "now">>})
  BY ONLY <1>1, OverwrittenGives
<1>5. ContextType(w) /\ PagesExact(w)
  BY <1>3, <1>4, SamePagesKeep DEF Replaced
<1>6. PICK c \in {context, w}, why \in {"device", "ok"} : Fails(c, why)
  BY <1>2
<1>7. ContextType(c) /\ PagesExact(c) /\ why \in Outcomes
  BY <1>3, <1>5 DEF Outcomes
<1>. QED BY <1>2, <1>6, <1>7, FailsKeepInv

LEMMA InvNext ==
  Inv /\ [Next]_vars => Inv'
<1>. SUFFICES ASSUME Inv, [Next]_vars  PROVE Inv'
  OBVIOUS
<1>1. ASSUME NEW count \in 0 .. MaxTokens + 1, NEW stopAt \in Stops, NEW filled \in Fills,
             Start(count, stopAt, filled)
      PROVE  Inv'
  BY <1>1, StartKeepsInv
<1>2. CASE UNCHANGED vars
  <2>1. TypeOK'
    BY <1>2 DEF Inv, TypeOK, vars
  <2>2. CapacitySuffices'
    BY <1>2 DEF Inv, CapacitySuffices, vars
  <2>. QED BY <1>2, <2>1, <2>2 DEF Inv, vars
<1>. QED BY <1>1, <1>2, EmbedKeepsInv, AttentionKeepsInv, MambaKeepsInv, ExpertKeepsInv, LogitsKeepInv
     DEF Next

LEMMA InvAlways ==
  Spec => []Inv
BY InvInit, InvNext, PTL DEF Spec

-----------------------------------------------------------------------------
\* The phases, counters and buffers keep their types in every sequence of runs.
THEOREM TypeCorrect ==
  Spec => []TypeOK
<1>1. Inv => TypeOK
  BY DEF Inv
<1>. QED BY <1>1, InvAlways, PTL

\* RunPrefill starts from a reset that succeeded, so no state or KV entry of an earlier
\* request is left when its layers run, wherever that request failed.
THEOREM NoStateIsCarriedOver ==
  Spec => []NoStateOfEarlierRuns
<1>1. Inv => NoStateOfEarlierRuns
  BY DEF Inv, LayersRun, StatesOfThisRun, NoStateOfEarlierRuns
<1>. QED BY <1>1, InvAlways, PTL

\* Every Mamba layer that ran has advanced both its states, and no other has.
THEOREM StatesAdvanceInOrder ==
  Spec => []StatesAdvancedInOrder
<1>1. Inv => StatesAdvancedInOrder
  <2>1. DOMAIN Schedule = 1 .. Len(Schedule)
    BY ScheduleEntries
  <2>. QED BY <2>1 DEF Inv, LayersRun, Advanced, StatesAdvancedInOrder
<1>. QED BY <1>1, InvAlways, PTL

\* The swap of the hidden and residual buffers hands every layer the last output.
THEOREM InputIsAlwaysLastOutput ==
  Spec => []InputIsLastOutput
<1>1. Inv => InputIsLastOutput
  BY DEF Inv, InputIsLastOutput
<1>. QED BY <1>1, InvAlways, PTL

\* Keys and values of the run are in every page its layer is mapped to, and no page is
\* shared with another layer.
THEOREM KvIsWhereTokensAre ==
  Spec => []KvWhereTokensAre
<1>1. Inv => KvWhereTokensAre
  <2>. SUFFICES ASSUME Inv, phase \in {"layers", "logits"},
                       NEW i \in 1 .. done, Schedule[i].kind = "attention"
                PROVE  LET own == Range(context.pages[Schedule[i].index]) IN
                       /\ \A b \in {"key_cache", "value_cache"} : \A p \in own :
                            <<p, "now">> \in context.data[b]
                       /\ \A j \in 1 .. Len(Schedule) : j # i /\ LayerCount > 0 =>
                            own \cap Range(context.pages[Schedule[j].index]) = {}
    BY DEF KvWhereTokensAre
  <2>1. \A b \in {"key_cache", "value_cache"} : \A p \in Range(context.pages[Schedule[i].index]) :
          <<p, "now">> \in context.data[b]
    BY DEF Inv, LayersRun, Stored
  <2>2. i \in 1 .. Len(Schedule)
    BY RunningMeans, ScheduleEntries
  <2>3. \A j \in 1 .. Len(Schedule) : Schedule[j].index \in Layers
    BY <2>2, CachesHeld
  <2>4. PagesOwned(context)
    BY DEF Inv, PagesExact
  <2>5. ASSUME NEW l \in Layers, NEW p \in Range(context.pages[l])  PROVE context.pool.owner[p] = l
    BY <2>4, <2>5 DEF PagesOwned, Range
  <2>6. ASSUME NEW j \in 1 .. Len(Schedule), j # i
        PROVE  Range(context.pages[Schedule[i].index]) \cap Range(context.pages[Schedule[j].index]) = {}
    <3>1. Schedule[i].index # Schedule[j].index
      BY <2>2, <2>6, ScheduleEntries
    <3>2. Schedule[i].index \in Layers /\ Schedule[j].index \in Layers
      BY <2>2, <2>3
    <3>. QED BY <2>5, <3>1, <3>2, ZenonT(60)
  <2>. QED BY <2>1, <2>6
<1>. QED BY <1>1, InvAlways, PTL

\* The planned pool is large enough: pages are refused only after a failed reset lost some,
\* and the page count the batch plan insists on is always met.
THEOREM CapacityAlwaysSuffices ==
  Spec => []CapacitySuffices
<1>1. Inv => CapacitySuffices
  BY DEF Inv
<1>. QED BY <1>1, InvAlways, PTL
=============================================================================
