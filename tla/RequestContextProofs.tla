------------------------ MODULE RequestContextProofs ------------------------
(* Facts about the operators of RequestContext, for every pool and context.    *)
EXTENDS RequestContext, TLAPS, FiniteSetTheorems, WellFoundedInduction

LEMMA LeastNatural ==
  ASSUME NEW T \in SUBSET Nat, T # {}
  PROVE \E x \in T : \A y \in T : x <= y
<1>1. PICK n \in T : TRUE
  OBVIOUS
<1> DEFINE Upto == {0 .. k : k \in T \cap 0 .. n}
<1>2. IsWellFoundedOn(StrictSubsetOrdering(0 .. n), FiniteSubsetsOf(0 .. n))
  BY FS_StrictSubsetOrderingWellFounded
<1>3. Upto \subseteq FiniteSubsetsOf(0 .. n)
  <2>1. ASSUME NEW k \in T \cap 0 .. n  PROVE 0 .. k \in FiniteSubsetsOf(0 .. n)
    <3>1. IsFiniteSet(0 .. k)
      BY FS_Interval
    <3>. QED BY <3>1 DEF FiniteSubsetsOf
  <2>. QED BY <2>1
<1>4. Upto # {}
  BY <1>1
<1>5. PICK X \in Upto : \A Y \in Upto : ~(<<Y, X>> \in StrictSubsetOrdering(0 .. n))
  BY <1>2, <1>3, <1>4, WFMin
<1>6. PICK k \in T \cap 0 .. n : X = 0 .. k
  BY <1>5
<1>7. ASSUME NEW y \in T, y < k  PROVE FALSE
  <2>1. 0 .. y \in Upto
    BY <1>7, <1>6, <1>1
  <2>2. <<0 .. y, X>> \in StrictSubsetOrdering(0 .. n)
    <3>1. k \in X /\ k \notin 0 .. y
      BY <1>6, <1>7, <1>1
    <3>2. 0 .. y \subseteq X /\ X \subseteq 0 .. n
      BY <1>6, <1>7, <1>1
    <3>. QED BY <3>1, <3>2 DEF StrictSubsetOrdering
  <2>. QED BY <2>1, <2>2, <1>5
<1>. QED BY <1>6, <1>7

-----------------------------------------------------------------------------
(* Sequences *)

LEMMA Concatenated ==
  ASSUME NEW S, NEW s \in Seq(S), NEW t \in Seq(S)
  PROVE  /\ s \o t \in Seq(S) /\ Len(s \o t) = Len(s) + Len(t)
         /\ \A i \in 1 .. Len(s) : (s \o t)[i] = s[i]
         /\ \A i \in 1 .. Len(t) : (s \o t)[Len(s) + i] = t[i]
         /\ \A i \in 1 .. Len(s \o t) :
              \/ i \in 1 .. Len(s) /\ (s \o t)[i] = s[i]
              \/ i - Len(s) \in 1 .. Len(t) /\ (s \o t)[i] = t[i - Len(s)]
OBVIOUS

LEMMA PrefixMeans ==
  ASSUME NEW S, NEW s \in Seq(S), NEW t \in Seq(S)
  PROVE  IsPrefix(s, t) <=> (Len(s) <= Len(t) /\ \A i \in 1 .. Len(s) : s[i] = t[i])
<1>1. ASSUME Len(s) <= Len(t), \A i \in 1 .. Len(s) : s[i] = t[i]
      PROVE  IsPrefix(s, t)
  <2>1. SubSeq(s, 1, Len(s)) = SubSeq(t, 1, Len(s))
    BY <1>1
  <2>. QED BY <2>1, <1>1 DEF IsPrefix
<1>2. ASSUME IsPrefix(s, t)
      PROVE  Len(s) <= Len(t) /\ \A i \in 1 .. Len(s) : s[i] = t[i]
  <2>1. Len(s) <= Len(t) /\ SubSeq(s, 1, Len(s)) = SubSeq(t, 1, Len(s))
    BY <1>2 DEF IsPrefix
  <2>2. \A i \in 1 .. Len(s) : SubSeq(s, 1, Len(s))[i] = s[i] /\ SubSeq(t, 1, Len(s))[i] = t[i]
    BY <2>1
  <2>. QED BY <2>1, <2>2
<1>. QED BY <1>1, <1>2

LEMMA ConcatenatedRange ==
  ASSUME NEW S, NEW s \in Seq(S), NEW t \in Seq(S)
  PROVE  Range(s \o t) = Range(s) \cup Range(t)
<1>1. /\ DOMAIN (s \o t) = 1 .. Len(s \o t) /\ DOMAIN s = 1 .. Len(s) /\ DOMAIN t = 1 .. Len(t)
      /\ Len(s) \in Nat /\ Len(t) \in Nat /\ Len(s \o t) = Len(s) + Len(t)
  OBVIOUS
<1>2. \A i \in 1 .. Len(s) : i \in 1 .. Len(s \o t) /\ (s \o t)[i] = s[i]
  OBVIOUS
<1>3. \A i \in 1 .. Len(t) : Len(s) + i \in 1 .. Len(s \o t) /\ (s \o t)[Len(s) + i] = t[i]
  OBVIOUS
<1>4. \A i \in 1 .. Len(s \o t) : \/ i \in 1 .. Len(s) /\ (s \o t)[i] = s[i]
                                  \/ i - Len(s) \in 1 .. Len(t) /\ (s \o t)[i] = t[i - Len(s)]
  BY Concatenated
<1>5. PICK u : u = s \o t
  OBVIOUS
<1>6. \A x \in Range(s) : x \in Range(u)
  BY <1>1, <1>2, <1>5 DEF Range
<1>7. \A x \in Range(t) : x \in Range(u)
  BY <1>1, <1>3, <1>5 DEF Range
<1>8. \A x \in Range(u) : x \in Range(s) \/ x \in Range(t)
  BY <1>1, <1>4, <1>5 DEF Range
<1>. QED BY <1>5, <1>6, <1>7, <1>8

Once(s) == \A i, j \in 1 .. Len(s) : s[i] = s[j] => i = j

Apart(s, t) == \A i \in 1 .. Len(s) : \A j \in 1 .. Len(t) : s[i] # t[j]

LEMMA ConcatenatedOnce ==
  ASSUME NEW S, NEW s \in Seq(S), NEW t \in Seq(S), Once(s), Once(t), Apart(s, t)
  PROVE  Once(s \o t)
<1>. USE DEF Once, Apart
<1>1. PICK u : u = s \o t
  OBVIOUS
<1>2. \A i \in 1 .. Len(u) : \/ i \in 1 .. Len(s) /\ u[i] = s[i]
                             \/ i - Len(s) \in 1 .. Len(t) /\ u[i] = t[i - Len(s)]
  BY <1>1, Concatenated
<1>3. ASSUME NEW i \in 1 .. Len(u), NEW j \in 1 .. Len(u), u[i] = u[j]  PROVE i = j
  <2>1. CASE i \in 1 .. Len(s) /\ u[i] = s[i] /\ j \in 1 .. Len(s) /\ u[j] = s[j]
    BY <2>1, <1>3
  <2>2. CASE i - Len(s) \in 1 .. Len(t) /\ u[i] = t[i - Len(s)]
             /\ j - Len(s) \in 1 .. Len(t) /\ u[j] = t[j - Len(s)]
    <3>1. i - Len(s) = j - Len(s)
      BY <2>2, <1>3
    <3>2. Len(s) \in Int /\ i \in Int /\ j \in Int
      OBVIOUS
    <3>. QED BY <3>1, <3>2
  <2>. QED BY <2>1, <2>2, <1>2, <1>3
<1>. QED BY <1>1, <1>3

-----------------------------------------------------------------------------
(* Types, and what every operation keeps. *)

PoolType(pool) ==
  /\ pool.owner \in [PageIds -> Layers \cup {Unowned}]
  /\ pool.free \in Seq(PageIds)

ContextType(c) ==
  /\ PoolType(c.pool)
  /\ c.pages \in [Layers -> Seq(PageIds)]
  /\ c.sequenceLength \in 0 .. MaxTokens
  /\ c.decodePosition \in 0 .. MaxTokens
  /\ DOMAIN c.data = Buffers

\* The free list names the free pages, each once, in decreasing order.
FreeListExact(pool) ==
  /\ Range(pool.free) = {p \in PageIds : pool.owner[p] = Unowned}
  /\ \A i, j \in DOMAIN pool.free : i < j => pool.free[i] > pool.free[j]

\* Every layer owns the pages it lists, and lists each once.
PagesOwned(c) ==
  \A l \in Layers :
    /\ \A i \in DOMAIN c.pages[l] : c.pool.owner[c.pages[l][i]] = l
    /\ \A i, j \in DOMAIN c.pages[l] : c.pages[l][i] = c.pages[l][j] => i = j

PagesExact(c) == FreeListExact(c.pool) /\ PagesOwned(c)

\* What a growth leaves alone, and what it may only extend.
Grows(c, d) ==
  /\ d.data = c.data /\ d.sequenceLength = c.sequenceLength /\ d.decodePosition = c.decodePosition
  /\ \A l \in Layers : IsPrefix(c.pages[l], d.pages[l])

-----------------------------------------------------------------------------
(* One layer *)

\* The pages taken are the last of the free list, from the back.
LEMMA TakenPages ==
  ASSUME NEW free \in Seq(PageIds), NEW count \in Nat, count <= Len(free)
  PROVE  LET taken == [i \in 1 .. count |-> free[Len(free) + 1 - i]]
             left == SubSeq(free, 1, Len(free) - count)
         IN  /\ taken \in Seq(PageIds) /\ Len(taken) = count /\ DOMAIN taken = 1 .. count
             /\ left \in Seq(PageIds) /\ Len(left) = Len(free) - count
             /\ \A i \in 1 .. Len(left) : left[i] = free[i]
             /\ Range(taken) = {free[i] : i \in Len(free) - count + 1 .. Len(free)}
             /\ Range(left) = {free[i] : i \in 1 .. Len(free) - count}
<1> DEFINE taken == [i \in 1 .. count |-> free[Len(free) + 1 - i]]
           left == SubSeq(free, 1, Len(free) - count)
<1>1. \A i \in 1 .. count : Len(free) + 1 - i \in 1 .. Len(free)
  OBVIOUS
<1>2. taken \in [1 .. count -> PageIds]
  BY <1>1
<1>3. taken \in Seq(PageIds) /\ Len(taken) = count
  BY <1>2
<1>4. left \in Seq(PageIds) /\ Len(left) = Len(free) - count /\ \A i \in 1 .. Len(left) : left[i] = free[i]
  OBVIOUS
<1>5. Range(taken) = {free[i] : i \in Len(free) - count + 1 .. Len(free)}
  <2>1. \A i \in Len(free) - count + 1 .. Len(free) :
           Len(free) + 1 - i \in 1 .. count /\ free[i] = taken[Len(free) + 1 - i]
    OBVIOUS
  <2>2. \A i \in 1 .. count : Len(free) + 1 - i \in Len(free) - count + 1 .. Len(free)
    OBVIOUS
  <2>. QED BY <2>1, <2>2 DEF Range
<1>6. Range(left) = {free[i] : i \in 1 .. Len(free) - count}
  <2>1. DOMAIN left = 1 .. Len(free) - count /\ \A i \in 1 .. Len(free) - count : left[i] = free[i]
    BY <1>4
  <2>. QED BY <2>1, Zenon DEF Range
<1>7. DOMAIN taken = 1 .. count
  OBVIOUS
<1>. QED BY <1>3, <1>4, <1>5, <1>6, <1>7

\* The pages given to the layer: as many as were asked for, off the end of the free list.
Allocated(pool, layer, count, r) ==
  /\ Len(pool.free) >= count
  /\ PoolType(r[1]) /\ Len(r[1].free) = Len(pool.free) - count
  /\ r[2] \in Seq(PageIds) /\ Len(r[2]) = count
  /\ \A p \in PageIds : r[1].owner[p] = IF p \in Range(r[2]) THEN layer ELSE pool.owner[p]
  /\ FreeListExact(pool) =>
       /\ FreeListExact(r[1])
       /\ Once(r[2])
       /\ \A p \in Range(r[2]) : p \in PageIds /\ pool.owner[p] = Unowned

\* AllocatePages refuses and changes nothing, or gives as many pages as were asked
\* for: free ones, each once, which now belong to the layer.
LEMMA AllocatePagesGives ==
  ASSUME NEW pool, PoolType(pool), NEW layer \in Layers, NEW count \in Nat \ {0},
         NEW r, r = AllocatePages(pool, layer, count)
  PROVE  IF Len(pool.free) < count THEN r = <<pool, << >>>> ELSE Allocated(pool, layer, count, r)
<1> DEFINE free == pool.free
           n == Len(free)
           taken == [i \in 1 .. count |-> free[Len(free) + 1 - i]]
           left == SubSeq(free, 1, n - count)
           owners == [p \in PageIds |-> IF p \in Range(taken) THEN layer ELSE pool.owner[p]]
<1>1. free \in Seq(PageIds) /\ n \in Nat /\ pool.owner \in [PageIds -> Layers \cup {Unowned}]
  BY DEF PoolType
<1>2. CASE n < count
  <2>1. r = <<pool, << >>>>
    BY <1>1, <1>2 DEF AllocatePages
  <2>. QED BY <1>2, <2>1
<1>3. ASSUME ~(n < count)  PROVE Allocated(pool, layer, count, r)
  <2>0. n >= count
    BY <1>1, <1>3
  <2>1. r = <<Pool(owners, left), taken>>
    <3>1. ~(count = 0 \/ layer \notin Layers \/ Len(pool.free) - count < 0)
      BY <1>1, <2>0
    <3>. QED BY <3>1, Zenon DEF AllocatePages
  <2>2. /\ taken \in Seq(PageIds) /\ Len(taken) = count /\ DOMAIN taken = 1 .. count
        /\ left \in Seq(PageIds) /\ Len(left) = n - count
        /\ \A i \in 1 .. Len(left) : left[i] = free[i]
        /\ Range(taken) = {free[i] : i \in n - count + 1 .. n}
        /\ Range(left) = {free[i] : i \in 1 .. n - count}
    BY <1>1, <2>0, TakenPages
  <2>3. r[1].owner = owners /\ r[1].free = left /\ r[2] = taken
    <3>. HIDE DEF owners, left, taken
    <3>. QED BY <2>1 DEF Pool
  <2>4. PoolType(r[1]) /\ Len(r[1].free) = n - count
    BY <2>2, <2>3, <1>1 DEF PoolType
  <2>5. \A p \in PageIds : r[1].owner[p] = IF p \in Range(r[2]) THEN layer ELSE pool.owner[p]
    <3>1. \A p \in PageIds : owners[p] = IF p \in Range(taken) THEN layer ELSE pool.owner[p]
      OBVIOUS
    <3>. HIDE DEF owners, taken
    <3>. QED BY <3>1, <2>3
  <2>6. ASSUME FreeListExact(pool)
        PROVE  /\ FreeListExact(r[1]) /\ Once(r[2])
               /\ \A p \in Range(r[2]) : p \in PageIds /\ pool.owner[p] = Unowned
    <3>1. /\ Range(free) = {p \in PageIds : pool.owner[p] = Unowned}
          /\ \A i, j \in 1 .. n : i < j => free[i] > free[j]
          /\ \A i \in 1 .. n : free[i] \in Range(free) /\ free[i] \in PageIds
          /\ Range(free) = {free[i] : i \in 1 .. n}
      BY <2>6, <1>1 DEF FreeListExact, Range
    <3>2. \A i, j \in 1 .. n : free[i] = free[j] => i = j
      BY <3>1, <1>1 DEF PageIds
    <3>3. \A i \in 1 .. count : n + 1 - i \in 1 .. n /\ taken[i] = free[n + 1 - i]
      BY <1>1, <2>0
    <3>4. \A i \in 1 .. count : taken[i] \in PageIds /\ pool.owner[taken[i]] = Unowned
      BY <3>1, <3>3
    <3>5. \A i, j \in 1 .. count : taken[i] = taken[j] => i = j
      BY <3>2, <3>3, <1>1
    <3>6. Range(left) = Range(free) \ Range(taken)
      <4>1. \A i \in 1 .. n : i \in 1 .. n - count \/ i \in n - count + 1 .. n
        BY <1>1, <2>0
      <4>2. \A i \in 1 .. n - count : \A j \in n - count + 1 .. n : free[i] # free[j]
        BY <3>2, <1>1, <2>0
      <4>3. 1 .. n - count \subseteq 1 .. n /\ n - count + 1 .. n \subseteq 1 .. n
        BY <1>1, <2>0
      <4>. HIDE DEF n, taken, left
      <4>. QED BY <4>1, <4>2, <4>3, <2>2, <3>1
    <3>7. \A p \in PageIds : owners[p] = Unowned <=> (pool.owner[p] = Unowned /\ p \notin Range(taken))
      BY <1>1 DEF Layers, Unowned
    <3>8. Range(left) = {p \in PageIds : owners[p] = Unowned}
      <4>. HIDE DEF owners, taken, left
      <4>. QED BY <3>1, <3>6, <3>7
    <3>9. \A i, j \in DOMAIN left : i < j => left[i] > left[j]
      <4>1. DOMAIN left = 1 .. n - count /\ 1 .. n - count \subseteq 1 .. n
        BY <2>2, <1>1, <2>0
      <4>. HIDE DEF n, left
      <4>. QED BY <4>1, <2>2, <3>1
    <3>10. FreeListExact(r[1])
      BY <3>8, <3>9, <2>3, ZenonT(60) DEF FreeListExact
    <3>11. \A p \in Range(taken) : p \in PageIds /\ pool.owner[p] = Unowned
      BY <3>4, <2>2 DEF Range
    <3>12. Once(taken)
      BY <3>5, <2>2 DEF Once
    <3>. QED BY <3>10, <3>11, <3>12, <2>3
  <2>. HIDE DEF taken, left, owners
  <2>. QED BY <2>0, <2>2, <2>3, <2>4, <2>5, <2>6 DEF Allocated
<1>. QED BY <1>2, <1>3

LEMMA GrowsReflexive ==
  ASSUME NEW c, ContextType(c)
  PROVE  Grows(c, c)
<1>1. ASSUME NEW l \in Layers  PROVE IsPrefix(c.pages[l], c.pages[l])
  <2>1. c.pages[l] \in Seq(PageIds)
    BY DEF ContextType
  <2>. QED BY <2>1, PrefixMeans
<1>. QED BY <1>1 DEF Grows

LEMMA GrowsTransitive ==
  ASSUME NEW c, NEW d, NEW e, ContextType(c), ContextType(d), ContextType(e),
         Grows(c, d), Grows(d, e)
  PROVE  Grows(c, e)
<1>1. ASSUME NEW l \in Layers  PROVE IsPrefix(c.pages[l], e.pages[l])
  <2>1. /\ c.pages[l] \in Seq(PageIds) /\ d.pages[l] \in Seq(PageIds) /\ e.pages[l] \in Seq(PageIds)
        /\ IsPrefix(c.pages[l], d.pages[l]) /\ IsPrefix(d.pages[l], e.pages[l])
    BY DEF ContextType, Grows
  <2>. DEFINE s == c.pages[l]  t == d.pages[l]  u == e.pages[l]
  <2>2. Len(s) <= Len(t) /\ \A i \in 1 .. Len(s) : s[i] = t[i]
    BY <2>1, PrefixMeans
  <2>3. Len(t) <= Len(u) /\ \A i \in 1 .. Len(t) : t[i] = u[i]
    BY <2>1, PrefixMeans
  <2>4. Len(s) <= Len(u) /\ \A i \in 1 .. Len(s) : s[i] = u[i]
    BY <2>1, <2>2, <2>3, SMTT(30)
  <2>. QED BY <2>1, <2>4, PrefixMeans
<1>. QED BY <1>1 DEF Grows

\* The owned pages that no layer lists.
Unlisted(c) ==
  {p \in PageIds : c.pool.owner[p] # Unowned /\ \A l \in Layers : p \notin Range(c.pages[l])}

\* The pages stay exact, and none is lost or found.
PagesKept(c, d) == PagesExact(c) => PagesExact(d) /\ Unlisted(d) = Unlisted(c)

\* A layer that has enough pages keeps them, and no other is given too many.
PagesFit(c, d, required) ==
  \A l \in Layers : IF Len(c.pages[l]) >= required THEN d.pages[l] = c.pages[l]
                                                 ELSE Len(d.pages[l]) <= required

LEMMA PagesFitReflexive ==
  ASSUME NEW c, ContextType(c), NEW required \in Nat
  PROVE  PagesFit(c, c, required)
<1>1. \A l \in Layers : Len(c.pages[l]) \in Nat
  BY DEF ContextType
<1>. QED BY <1>1 DEF PagesFit

LEMMA PagesFitTransitive ==
  ASSUME NEW c, NEW d, NEW e, ContextType(c), ContextType(d), NEW required \in Nat,
         PagesFit(c, d, required), PagesFit(d, e, required)
  PROVE  PagesFit(c, e, required)
<1>1. ASSUME NEW l \in Layers
      PROVE  IF Len(c.pages[l]) >= required THEN e.pages[l] = c.pages[l]
                                            ELSE Len(e.pages[l]) <= required
  <2>1. Len(c.pages[l]) \in Nat /\ Len(d.pages[l]) \in Nat
    BY DEF ContextType
  <2>. QED BY <2>1 DEF PagesFit
<1>. QED BY <1>1 DEF PagesFit

\* The pages layer l is short of.
Shortfall(c, required, l) ==
  IF required > Len(c.pages[l]) THEN required - Len(c.pages[l]) ELSE 0

LayerGrown(c, layer, required, r) ==
  /\ ContextType(r[1]) /\ r[2] \in BOOLEAN /\ Grows(c, r[1])
  /\ \A l \in Layers \ {layer} : r[1].pages[l] = c.pages[l]
  /\ r[2] => /\ Len(r[1].pages[layer]) >= required
             /\ Len(r[1].pool.free) = Len(c.pool.free) - Shortfall(c, required, layer)
  /\ ~r[2] => r[1] = c /\ Shortfall(c, required, layer) > Len(c.pool.free)
  /\ PagesKept(c, r[1])
  /\ PagesFit(c, r[1], required)

\* GrowLayer refuses only if the free pages do not make up for what is missing, and then
\* changes nothing; otherwise the layer has enough pages, the old ones in their places, and
\* no more pages were taken than were missing.
LEMMA GrowLayerGives ==
  ASSUME NEW c, ContextType(c), NEW layer \in Layers, NEW required \in Nat,
         NEW r, r = GrowLayer(c, layer, required)
  PROVE  LayerGrown(c, layer, required, r)
<1>a. PICK old : old = c.pages[layer]
  OBVIOUS
<1>b. PICK missing : missing = required - Len(old)
  OBVIOUS
<1>c. PICK a : a = AllocatePages(c.pool, layer, missing)
  OBVIOUS
<1>1. /\ old \in Seq(PageIds) /\ Len(old) \in Nat /\ missing \in Int /\ PoolType(c.pool)
      /\ c.pool.free \in Seq(PageIds) /\ c.pages \in [Layers -> Seq(PageIds)]
      /\ missing = required - Len(old) /\ old = c.pages[layer]
      /\ a = AllocatePages(c.pool, layer, missing)
  BY <1>a, <1>b, <1>c DEF ContextType, PoolType
<1>2. Grows(c, c)
  BY GrowsReflexive
<1>d. Shortfall(c, required, layer) = IF missing > 0 THEN missing ELSE 0
  BY <1>1 DEF Shortfall
<1>3. ASSUME missing <= 0  PROVE LayerGrown(c, layer, required, r)
  <2>1. r = <<c, TRUE>>
    BY <1>3, <1>a, <1>b, Zenon DEF GrowLayer
  <2>2. r[1] = c /\ r[2] = TRUE
    BY <2>1
  <2>3. Len(c.pages[layer]) >= required
    BY <1>1, <1>3
  <2>4. Len(r[1].pool.free) = Len(c.pool.free) - Shortfall(c, required, layer)
    <3>1. Shortfall(c, required, layer) = 0 /\ Len(c.pool.free) \in Nat
      BY <1>1, <1>3, <1>d
    <3>. QED BY <3>1, <2>2
  <2>5. ContextType(r[1]) /\ Grows(c, r[1]) /\ PagesKept(c, r[1]) /\ PagesFit(c, r[1], required)
    BY <2>2, <1>2, PagesFitReflexive DEF PagesKept
  <2>. QED BY <2>2, <2>3, <2>4, <2>5 DEF LayerGrown
<1>4. ASSUME missing > 0, a[2] = << >>  PROVE LayerGrown(c, layer, required, r)
  <2>1. r = <<c, FALSE>>
    <3>1. ~(missing <= 0)
      BY <1>4, <1>1
    <3>. QED BY <3>1, <1>4, <1>a, <1>b, <1>c, Zenon DEF GrowLayer
  <2>2. missing \in Nat \ {0} /\ layer \in Layers
    BY <1>4, <1>1
  <2>3. Len(c.pool.free) < missing
    <3>1. SUFFICES ASSUME ~(Len(c.pool.free) < missing)  PROVE FALSE
      OBVIOUS
    <3>2. Allocated(c.pool, layer, missing, a)
      BY <3>1, <2>2, <1>1, AllocatePagesGives
    <3>. QED BY <3>2, <2>2, <1>4 DEF Allocated
  <2>4. r[1] = c /\ ~r[2] /\ r[2] \in BOOLEAN
    BY <2>1
  <2>5. Shortfall(c, required, layer) > Len(c.pool.free)
    BY <2>2, <2>3, <1>1, <1>4, <1>d
  <2>6. ContextType(r[1]) /\ Grows(c, r[1]) /\ PagesKept(c, r[1]) /\ PagesFit(c, r[1], required)
    BY <2>4, <1>2, PagesFitReflexive DEF PagesKept
  <2>. QED BY <2>4, <2>5, <2>6 DEF LayerGrown
<1>5. ASSUME missing > 0, a[2] # << >>  PROVE LayerGrown(c, layer, required, r)
  <2> DEFINE pages == [l \in Layers |-> IF l = layer THEN c.pages[l] \o a[2] ELSE c.pages[l]]
  <2>1. r = <<Context(a[1], pages, c.sequenceLength, c.decodePosition, c.data), TRUE>>
    <3>1. ~(missing <= 0)
      BY <1>5, <1>1
    <3>. QED BY <3>1, <1>5, <1>a, <1>b, <1>c, Zenon DEF GrowLayer
  <2>2. missing \in Nat \ {0} /\ layer \in Layers
    BY <1>5, <1>1
  <2>3. a # <<c.pool, << >>>>
    BY <1>5
  <2>4. Allocated(c.pool, layer, missing, a)
    <3>1. PoolType(c.pool) /\ a = AllocatePages(c.pool, layer, missing)
      BY <1>1
    <3>. QED BY ONLY <3>1, <2>3, <2>2, AllocatePagesGives
  <2>5. /\ r[2] = TRUE /\ r[1].pool = a[1] /\ r[1].pages = pages /\ r[1].data = c.data
        /\ r[1].sequenceLength = c.sequenceLength /\ r[1].decodePosition = c.decodePosition
    <3>. HIDE DEF pages
    <3>. QED BY <2>1 DEF Context
  <2>6. pages[layer] = old \o a[2] /\ \A l \in Layers \ {layer} : pages[l] = c.pages[l]
    BY <1>1
  <2>7. /\ pages[layer] \in Seq(PageIds) /\ Len(pages[layer]) = Len(old) + missing
        /\ \A i \in 1 .. Len(old) : pages[layer][i] = old[i]
        /\ \A i \in 1 .. missing : pages[layer][Len(old) + i] = a[2][i]
    <3>1. old \in Seq(PageIds) /\ a[2] \in Seq(PageIds) /\ Len(a[2]) = missing
      BY <1>1, <2>4 DEF Allocated
    <3>. HIDE DEF pages
    <3>2. old \o a[2] \in Seq(PageIds) /\ Len(old \o a[2]) = Len(old) + missing
      BY ONLY <3>1, Concatenated, ZenonT(60)
    <3>3. \A i \in 1 .. Len(old) : (old \o a[2])[i] = old[i]
      BY ONLY <3>1, Concatenated
    <3>4. \A i \in 1 .. missing : (old \o a[2])[Len(old) + i] = a[2][i]
      BY ONLY <3>1, Concatenated
    <3>. QED BY <3>2, <3>3, <3>4, <2>6
  <2>8. pages \in [Layers -> Seq(PageIds)]
    <3>1. \A l \in Layers : pages[l] \in Seq(PageIds)
      BY <2>6, <2>7, <1>1
    <3>2. pages = [l \in Layers |-> pages[l]]
      OBVIOUS
    <3>. HIDE DEF pages
    <3>. QED BY <3>1, <3>2
  <2>. HIDE DEF pages
  <2>9. ContextType(r[1])
    BY <2>4, <2>5, <2>8 DEF ContextType, Allocated
  <2>10. Grows(c, r[1])
    <3>1. ASSUME NEW l \in Layers  PROVE IsPrefix(c.pages[l], pages[l])
      <4>1. CASE l = layer
        <5>1. old \in Seq(PageIds) /\ Len(old) \in Nat /\ Len(old) <= Len(old) + missing
          BY <1>1, <2>2
        <5>2. Len(old) <= Len(pages[layer])
          BY <5>1, <2>7
        <5>3. IsPrefix(old, pages[layer])
          BY <2>7, <5>1, <5>2, PrefixMeans
        <5>. QED BY <5>3, <4>1, <1>1
      <4>2. CASE l # layer
        BY <4>2, <2>6, <1>2 DEF Grows
      <4>. QED BY <4>1, <4>2
    <3>. QED BY <3>1, <2>5 DEF Grows
  <2>11. ASSUME PagesExact(c)  PROVE PagesExact(r[1]) /\ Unlisted(r[1]) = Unlisted(c)
    <3>1. FreeListExact(c.pool) /\ PagesOwned(c)
      BY <2>11 DEF PagesExact
    <3>2. /\ FreeListExact(r[1].pool) /\ Once(a[2])
          /\ \A p \in Range(a[2]) : p \in PageIds /\ c.pool.owner[p] = Unowned
          /\ \A p \in PageIds :
               r[1].pool.owner[p] = IF p \in Range(a[2]) THEN layer ELSE c.pool.owner[p]
      BY <3>1, <2>4, <2>5 DEF Allocated
    <3>3. \A l \in Layers : l # Unowned
      BY PoolAssumption DEF Layers, Unowned
    <3>4. \A l \in Layers : DOMAIN c.pages[l] = 1 .. Len(c.pages[l]) /\ DOMAIN pages[l] = 1 .. Len(pages[l])
      BY <1>1, <2>8
    <3>5. \A l \in Layers : /\ Once(c.pages[l])
                            /\ \A p \in Range(c.pages[l]) : p \in PageIds /\ c.pool.owner[p] = l
      BY <3>1, <3>4, <1>1 DEF PagesOwned, Once, Range
    <3>6. Range(pages[layer]) = Range(old) \cup Range(a[2])
      <4>1. old \in Seq(PageIds) /\ a[2] \in Seq(PageIds)
        BY <1>1, <2>4 DEF Allocated
      <4>2. Range(old \o a[2]) = Range(old) \cup Range(a[2])
        BY ONLY <4>1, ConcatenatedRange
      <4>. QED BY <4>2, <2>6
    <3>7. Once(pages[layer])
      <4>1. old \in Seq(PageIds) /\ a[2] \in Seq(PageIds) /\ Once(old) /\ Once(a[2])
        BY <1>1, <2>4, <3>2, <3>5 DEF Allocated
      <4>2. DOMAIN old = 1 .. Len(old) /\ DOMAIN a[2] = 1 .. Len(a[2])
        BY <4>1
      <4>3. \A p \in Range(old) : \A q \in Range(a[2]) : p # q
        BY <3>2, <3>3, <3>5, <1>1
      <4>4. Apart(old, a[2])
        BY <4>2, <4>3 DEF Apart, Range
      <4>5. Once(old \o a[2])
        BY ONLY <4>1, <4>4, ConcatenatedOnce
      <4>. QED BY <4>5, <2>6
    <3>8. \A l \in Layers : /\ Once(pages[l])
                            /\ \A p \in Range(pages[l]) : p \in PageIds /\ r[1].pool.owner[p] = l
      <4>1. ASSUME NEW l \in Layers, l # layer
            PROVE  Once(pages[l]) /\ \A p \in Range(pages[l]) : p \in PageIds /\ r[1].pool.owner[p] = l
        BY <4>1, <2>6, <3>2, <3>3, <3>5
      <4>2. \A p \in Range(pages[layer]) : p \in PageIds /\ r[1].pool.owner[p] = layer
        BY <3>2, <3>5, <3>6, <1>1
      <4>. QED BY <4>1, <4>2, <3>7
    <3>9. PagesOwned(r[1])
      <4>1. \A l \in Layers : \A i \in DOMAIN pages[l] : pages[l][i] \in Range(pages[l])
        BY DEF Range
      <4>. QED BY <4>1, <3>4, <3>8, <2>5 DEF PagesOwned, Once
    <3>10. Unlisted(r[1]) = Unlisted(c)
      <4>1. ASSUME NEW p \in PageIds  PROVE p \in Unlisted(r[1]) <=> p \in Unlisted(c)
        <5>1. CASE p \in Range(a[2])
          BY <5>1, <3>2, <3>6, <2>5 DEF Unlisted
        <5>2. CASE p \notin Range(a[2])
          <6>1. \A l \in Layers : p \in Range(pages[l]) <=> p \in Range(c.pages[l])
            BY <5>2, <3>6, <2>6, <1>1
          <6>. QED BY <5>2, <6>1, <3>2, <2>5 DEF Unlisted
        <5>. QED BY <5>1, <5>2
      <4>. QED BY <4>1 DEF Unlisted
    <3>. QED BY <3>2, <3>9, <3>10 DEF PagesExact
  <2>12. Len(r[1].pages[layer]) >= required
    <3>. QED BY <2>5, <2>7, <1>1
  <2>13. Len(r[1].pool.free) = Len(c.pool.free) - Shortfall(c, required, layer)
    BY <2>4, <2>5, <1>5, <1>d DEF Allocated
  <2>14. PagesFit(c, r[1], required)
    <3>1. ASSUME NEW l \in Layers
          PROVE  IF Len(c.pages[l]) >= required THEN pages[l] = c.pages[l]
                                                ELSE Len(pages[l]) <= required
      <4>1. CASE l = layer
        <5>1. ~(Len(old) >= required) /\ Len(old) + missing = required
          BY <1>1, <2>2
        <5>2. Len(pages[layer]) = required
          BY <5>1, <2>7
        <5>. QED BY <4>1, <5>1, <5>2, <1>1
      <4>2. CASE l # layer
        <5>1. Len(c.pages[l]) \in Nat /\ pages[l] = c.pages[l]
          BY <4>2, <2>6, <1>1
        <5>. QED BY <5>1
      <4>. QED BY <4>1, <4>2
    <3>. QED BY <3>1, <2>5 DEF PagesFit
  <2>. QED BY <2>5, <2>6, <2>9, <2>10, <2>11, <2>12, <2>13, <2>14 DEF LayerGrown, PagesKept
<1>6. missing <= 0 \/ missing > 0
  BY <1>1
<1>. QED BY <1>3, <1>4, <1>5, <1>6

-----------------------------------------------------------------------------
(* All layers *)

\* g holds what the layers have become after none, one, ... k of them grew.
IsGrown(g, c, required, k) ==
  g = [n \in 0 .. k |->
        IF n = 0 THEN <<c, TRUE>>
        ELSE IF ~g[n - 1][2] THEN g[n - 1]
        ELSE GrowLayer(g[n - 1][1], n - 1, required)]

LEMMA GrownExists ==
  ASSUME NEW c, NEW required
  PROVE  \A k \in Nat : \E g : IsGrown(g, c, required, k)
<1> DEFINE T == {k \in Nat : ~ \E g : IsGrown(g, c, required, k)}
<1>1. SUFFICES ASSUME T # {}  PROVE FALSE
  OBVIOUS
<1>2. PICK k \in T : \A y \in T : k <= y
  BY <1>1, LeastNatural
<1>3. CASE k = 0
  <2> DEFINE g == [n \in 0 .. 0 |-> <<c, TRUE>>]
  <2>1. g = [n \in 0 .. 0 |->
              IF n = 0 THEN <<c, TRUE>>
              ELSE IF ~g[n - 1][2] THEN g[n - 1]
              ELSE GrowLayer(g[n - 1][1], n - 1, required)]
    OBVIOUS
  <2>2. IsGrown(g, c, required, k)
    BY <2>1, <1>3 DEF IsGrown
  <2>. QED BY <2>2, <1>2
<1>4. CASE k # 0
  <2>1. k \in Nat /\ k - 1 \in Nat /\ k - 1 \notin T
    BY <1>2, <1>4
  <2>2. PICK g : IsGrown(g, c, required, k - 1)
    BY <2>1
  <2> DEFINE next == IF ~g[k - 1][2] THEN g[k - 1] ELSE GrowLayer(g[k - 1][1], k - 1, required)
             h == [n \in 0 .. k |-> IF n = k THEN next ELSE g[n]]
             F(n) == IF n = 0 THEN <<c, TRUE>>
                     ELSE IF ~h[n - 1][2] THEN h[n - 1]
                     ELSE GrowLayer(h[n - 1][1], n - 1, required)
             G(n) == IF n = 0 THEN <<c, TRUE>>
                     ELSE IF ~g[n - 1][2] THEN g[n - 1]
                     ELSE GrowLayer(g[n - 1][1], n - 1, required)
  <2>3. \A n \in 0 .. k - 1 : h[n] = g[n]
    BY <2>1
  <2>4. \A n \in 0 .. k - 1 : g[n] = G(n)
    <3>1. g = [n \in 0 .. k - 1 |-> G(n)]
      BY <2>2, Zenon DEF IsGrown
    <3>. HIDE DEF G
    <3>. QED BY <3>1, Zenon
  <2>5. ASSUME NEW n \in 0 .. k  PROVE h[n] = F(n)
    <3>1. CASE n = k
      <4>1. h[n] = next /\ k - 1 \in 0 .. k - 1 /\ n # 0
        BY <3>1, <2>1
      <4>2. h[n - 1] = g[k - 1]
        BY <4>1, <3>1, <2>3
      <4>. HIDE DEF h
      <4>. QED BY <4>1, <4>2, <3>1, Zenon
    <3>2. CASE n # k
      <4>1. n \in 0 .. k - 1 /\ (n # 0 => n - 1 \in 0 .. k - 1)
        BY <3>2, <2>1
      <4>2. h[n] = g[n] /\ (n # 0 => h[n - 1] = g[n - 1]) /\ g[n] = G(n)
        BY <4>1, <2>3, <2>4
      <4>. HIDE DEF h
      <4>. QED BY <4>2, Zenon
    <3>. QED BY <3>1, <3>2
  <2>6. h = [n \in 0 .. k |-> h[n]]
    OBVIOUS
  <2>7. [n \in 0 .. k |-> h[n]] = [n \in 0 .. k |-> F(n)]
    <3>. HIDE DEF h, F
    <3>. QED BY <2>5, Zenon
  <2>8. h = [n \in 0 .. k |-> F(n)]
    BY <2>6, <2>7, Zenon
  <2>9. IsGrown(h, c, required, k)
    <3>. HIDE DEF h
    <3>. QED BY <2>8, Zenon DEF IsGrown
  <2>. QED BY <2>9, <1>2
<1>. QED BY <1>3, <1>4

LEMMA EnsureIsGrown ==
  ASSUME NEW c, NEW tokens \in Nat, HasAttention, tokens <= MaxTokens
  PROVE  \E g : /\ IsGrown(g, c, RequiredPages(tokens), LayerCount)
                /\ EnsureAttentionTokens(c, tokens) = g[LayerCount]
<1> DEFINE g == CHOOSE g : IsGrown(g, c, RequiredPages(tokens), LayerCount)
<1>1. IsGrown(g, c, RequiredPages(tokens), LayerCount)
  <2>1. \E x : IsGrown(x, c, RequiredPages(tokens), LayerCount)
    BY GrownExists, PoolAssumption
  <2>. QED BY <2>1, Zenon
<1>2. ~(tokens > MaxTokens)
  BY ContextAssumption
<1>3. EnsureAttentionTokens(c, tokens) = g[LayerCount]
  BY <1>2, Zenon DEF EnsureAttentionTokens, IsGrown
<1>. QED BY <1>1, <1>3

Steps(g, c, required, k) ==
  /\ g[0] = <<c, TRUE>>
  /\ \A n \in 1 .. k : g[n] = IF ~g[n - 1][2] THEN g[n - 1]
                              ELSE GrowLayer(g[n - 1][1], n - 1, required)

LEMMA GrownSteps ==
  ASSUME NEW c, NEW required, NEW k \in Nat, NEW g, IsGrown(g, c, required, k)
  PROVE  Steps(g, c, required, k)
<1> DEFINE G(n) == IF n = 0 THEN <<c, TRUE>>
                   ELSE IF ~g[n - 1][2] THEN g[n - 1]
                   ELSE GrowLayer(g[n - 1][1], n - 1, required)
<1>1. g = [n \in 0 .. k |-> G(n)]
  BY Zenon DEF IsGrown
<1>2. \A n \in 0 .. k : g[n] = G(n)
  <2>. HIDE DEF G
  <2>. QED BY <1>1, Zenon
<1>3. 0 \in 0 .. k /\ \A n \in 1 .. k : n \in 0 .. k /\ n # 0
  OBVIOUS
<1>4. g[0] = <<c, TRUE>>
  BY <1>2, <1>3, Zenon
<1>. QED BY <1>2, <1>3, <1>4, Zenon DEF Steps

IsShortfallSum(u, c, required) ==
  /\ u \in [0 .. LayerCount -> Nat]
  /\ u[0] = 0
  /\ \A n \in 1 .. LayerCount : u[n] = u[n - 1] + Shortfall(c, required, n - 1)

\* What holds after each layer, the refused one and those behind it included.
GrownWell(c, required, n, r) ==
  /\ ContextType(r[1]) /\ r[2] \in BOOLEAN /\ Grows(c, r[1])
  /\ PagesKept(c, r[1])
  /\ PagesFit(c, r[1], required)
  /\ r[2] => \A l \in Layers : IF l < n THEN Len(r[1].pages[l]) >= required
                                        ELSE r[1].pages[l] = c.pages[l]

LEMMA GrownStaysWell ==
  ASSUME NEW c, ContextType(c), NEW required \in Nat, NEW n \in 1 .. LayerCount,
         NEW p, GrownWell(c, required, n - 1, p), p[2],
         NEW r, r = GrowLayer(p[1], n - 1, required)
  PROVE  GrownWell(c, required, n, r)
<1>1. /\ n - 1 \in Layers /\ n \in Nat /\ LayerCount \in Nat
      /\ ContextType(p[1]) /\ Grows(c, p[1]) /\ PagesKept(c, p[1])
      /\ PagesFit(c, p[1], required)
      /\ \A l \in Layers : IF l < n - 1 THEN Len(p[1].pages[l]) >= required
                                        ELSE p[1].pages[l] = c.pages[l]
  BY PoolAssumption DEF Layers, GrownWell
<1>2. PICK layer \in Layers : layer = n - 1
  BY <1>1
<1>3. PICK d : d = p[1]
  OBVIOUS
<1>4. ContextType(d) /\ r = GrowLayer(d, layer, required)
  BY <1>1, <1>2, <1>3
<1>5. LayerGrown(d, layer, required, r)
  BY ONLY <1>4, GrowLayerGives, required \in Nat
<1>6. ContextType(r[1]) /\ r[2] \in BOOLEAN /\ Grows(d, r[1]) /\ PagesKept(d, r[1])
      /\ PagesFit(d, r[1], required)
  BY <1>5 DEF LayerGrown
<1>7. /\ \A l \in Layers \ {layer} : r[1].pages[l] = d.pages[l]
      /\ r[2] => Len(r[1].pages[layer]) >= required
  BY <1>5 DEF LayerGrown
<1>8. Grows(c, r[1])
  BY <1>1, <1>3, <1>4, <1>6, GrowsTransitive
<1>9. ASSUME r[2], NEW l \in Layers
      PROVE IF l < n THEN Len(r[1].pages[l]) >= required ELSE r[1].pages[l] = c.pages[l]
  <2>1. l \in Int
    BY PoolAssumption DEF Layers
  <2>2. CASE l = layer
    BY <2>2, <1>7, <1>9, <1>2, <1>1
  <2>3. CASE l # layer
    <3>1. r[1].pages[l] = p[1].pages[l] /\ (l < n <=> l < n - 1)
      BY <2>1, <2>3, <1>7, <1>3, <1>2, <1>1
    <3>. QED BY <3>1, <1>1
  <2>. QED BY <2>2, <2>3
<1>10. PagesFit(c, r[1], required)
  BY <1>1, <1>3, <1>4, <1>6, PagesFitTransitive
<1>. QED BY <1>1, <1>3, <1>6, <1>8, <1>9, <1>10 DEF GrownWell, PagesKept

LEMMA GrownIsWell ==
  ASSUME NEW c, ContextType(c), NEW required \in Nat,
         NEW g, IsGrown(g, c, required, LayerCount)
  PROVE  \A n \in 0 .. LayerCount : GrownWell(c, required, n, g[n])
<1> DEFINE T == {n \in 0 .. LayerCount : ~GrownWell(c, required, n, g[n])}
<1>1. SUFFICES ASSUME T # {}  PROVE FALSE
  OBVIOUS
<1>2. T \in SUBSET Nat
  BY PoolAssumption
<1>3. PICK n \in T : \A y \in T : n <= y
  BY <1>1, <1>2, LeastNatural
<1>4. /\ g[0] = <<c, TRUE>>
      /\ \A m \in 1 .. LayerCount : g[m] = IF ~g[m - 1][2] THEN g[m - 1]
                                           ELSE GrowLayer(g[m - 1][1], m - 1, required)
  <2>1. LayerCount \in Nat
    BY PoolAssumption
  <2>2. Steps(g, c, required, LayerCount)
    BY <2>1, GrownSteps
  <2>. QED BY <2>2, Zenon DEF Steps
<1>5. CASE n = 0
  <2>1. g[0][1] = c /\ g[0][2] = TRUE
    BY <1>4
  <2>2. Grows(c, c)
    BY GrowsReflexive
  <2>3. \A l \in Layers : ~(l < 0)
    BY PoolAssumption DEF Layers
  <2>4. GrownWell(c, required, 0, g[0])
    BY <2>1, <2>2, <2>3, PagesFitReflexive DEF GrownWell, PagesKept
  <2>. QED BY <2>4, <1>3, <1>5
<1>6. CASE n # 0
  <2>1. n \in 1 .. LayerCount /\ n - 1 \in 0 .. LayerCount /\ n - 1 \notin T /\ n \in Nat
    BY <1>3, <1>6, PoolAssumption
  <2>2. GrownWell(c, required, n - 1, g[n - 1])
    BY <2>1
  <2>3. CASE g[n - 1][2]
    <3>1. g[n] = GrowLayer(g[n - 1][1], n - 1, required)
      BY <2>1, <2>3, <1>4
    <3>2. GrownWell(c, required, n, g[n])
      BY ONLY <3>1, <2>1, <2>2, <2>3, GrownStaysWell, ContextType(c), required \in Nat
    <3>. QED BY <3>2, <1>3
  <2>4. CASE ~g[n - 1][2]
    <3>1. g[n] = g[n - 1]
      BY <2>1, <2>4, <1>4
    <3>2. GrownWell(c, required, n, g[n])
      BY <3>1, <2>2, <2>4 DEF GrownWell
    <3>. QED BY <3>2, <1>3
  <2>. QED BY <2>3, <2>4
<1>. QED BY <1>5, <1>6

-----------------------------------------------------------------------------
(* The calls that grow a context *)

LEMMA RequiredPagesNatural ==
  ASSUME NEW tokens \in Nat
  PROVE  RequiredPages(tokens) \in Nat
BY PoolAssumption DEF RequiredPages

Ensured(c, tokens, r) ==
  /\ ContextType(r[1]) /\ r[2] \in BOOLEAN /\ Grows(c, r[1])
  /\ PagesKept(c, r[1])
  /\ HasAttention => PagesFit(c, r[1], RequiredPages(tokens))
  /\ r[2] /\ ~HasAttention => tokens = 0
  /\ r[2] /\ HasAttention => \A l \in Layers : Len(r[1].pages[l]) >= RequiredPages(tokens)

\* EnsureAttentionTokens only ever appends pages, and when it succeeds every layer has
\* pages for every token.
LEMMA EnsureGives ==
  ASSUME NEW c, ContextType(c), NEW tokens \in Nat,
         NEW r, r = EnsureAttentionTokens(c, tokens)
  PROVE  Ensured(c, tokens, r)
<1>1. CASE ~HasAttention
  <2>1. r = <<c, tokens = 0>>
    BY <1>1, Zenon DEF EnsureAttentionTokens
  <2>2. r[1] = c /\ r[2] \in BOOLEAN /\ (r[2] => tokens = 0)
    <3>1. CASE tokens = 0
      <4>1. r = <<c, TRUE>>
        BY <2>1, <3>1
      <4>. QED BY <4>1, <3>1
    <3>2. CASE tokens # 0
      <4>1. r = <<c, FALSE>>
        BY <2>1, <3>2
      <4>. QED BY <4>1
    <3>. QED BY <3>1, <3>2
  <2>. QED BY <2>2, <1>1, GrowsReflexive DEF Ensured, PagesKept
<1>2. CASE HasAttention /\ tokens > MaxTokens
  <2>1. r = <<c, FALSE>>
    BY <1>2, Zenon DEF EnsureAttentionTokens
  <2>2. r[1] = c /\ r[2] \in BOOLEAN /\ ~r[2]
    BY <2>1
  <2>3. PagesFit(c, c, RequiredPages(tokens))
    BY RequiredPagesNatural, PagesFitReflexive
  <2>. QED BY <2>2, <2>3, GrowsReflexive DEF Ensured, PagesKept
<1>3. CASE HasAttention /\ ~(tokens > MaxTokens)
  <2>1. tokens <= MaxTokens /\ RequiredPages(tokens) \in Nat
    BY <1>3, ContextAssumption, RequiredPagesNatural
  <2>2. PICK g : /\ IsGrown(g, c, RequiredPages(tokens), LayerCount)
                 /\ r = g[LayerCount]
    BY <2>1, <1>3, EnsureIsGrown
  <2>3. LayerCount \in 0 .. LayerCount
    BY PoolAssumption
  <2>4. GrownWell(c, RequiredPages(tokens), LayerCount, r)
    <3>1. \A n \in 0 .. LayerCount : GrownWell(c, RequiredPages(tokens), n, g[n])
      BY ONLY <2>1, <2>2, GrownIsWell, ContextType(c)
    <3>. QED BY <3>1, <2>2, <2>3
  <2>5. \A l \in Layers : l < LayerCount
    BY PoolAssumption DEF Layers
  <2>. QED BY <2>4, <2>5, <1>3 DEF GrownWell, Ensured
<1>. QED BY <1>1, <1>2, <1>3

\* The pages every layer has stay where they are.
PagesStay(c, d) == \A l \in Layers : IsPrefix(c.pages[l], d.pages[l])

Lengthened(c, tokens, r) ==
  /\ ContextType(r[1]) /\ r[2] \in BOOLEAN /\ PagesStay(c, r[1]) /\ r[1].data = c.data
  /\ PagesKept(c, r[1])
  /\ c.decodePosition <= c.sequenceLength => r[1].decodePosition <= r[1].sequenceLength
  /\ r[2] /\ tokens > 0 =>
       HasAttention /\ \A l \in Layers : Len(r[1].pages[l]) >= RequiredPages(r[1].sequenceLength)

LEMMA RefusedLengthens ==
  ASSUME NEW c, ContextType(c), NEW tokens \in Nat,
         NEW ok \in BOOLEAN, ok => tokens = 0, NEW r, r = <<c, ok>>
  PROVE  Lengthened(c, tokens, r)
<1>1. r[1] = c /\ r[2] = ok
  OBVIOUS
<1>2. PagesStay(c, c)
  BY GrowsReflexive DEF Grows, PagesStay
<1>. QED BY <1>1, <1>2 DEF Lengthened, PagesKept

LEMMA EnsuredLengthens ==
  ASSUME NEW c, ContextType(c), NEW tokens \in Nat,
         NEW length \in 0 .. MaxTokens, NEW position \in 0 .. length, tokens <= length,
         NEW r, r = EnsureAttentionTokens(WithLengths(c, length, position), length)
  PROVE  Lengthened(c, tokens, r)
<1>1. PICK d : d = WithLengths(c, length, position)
  OBVIOUS
<1>2. /\ d.pool = c.pool /\ d.pages = c.pages /\ d.data = c.data
      /\ d.sequenceLength = length /\ d.decodePosition = position
  BY <1>1 DEF WithLengths, Context
<1>3. length \in Nat /\ position \in 0 .. MaxTokens /\ position <= length
  BY ContextAssumption
<1>4. ContextType(d)
  BY <1>2, <1>3 DEF ContextType
<1>5. Ensured(d, length, r)
  BY <1>1, <1>3, <1>4, EnsureGives
<1>6. /\ r[1].sequenceLength = length /\ r[1].decodePosition = position
      /\ r[1].data = c.data /\ PagesStay(c, r[1])
  BY <1>5, <1>2 DEF Ensured, Grows, PagesStay
<1>7. PagesKept(c, r[1])
  <2>1. (PagesExact(c) <=> PagesExact(d)) /\ Unlisted(d) = Unlisted(c)
    BY <1>2 DEF PagesExact, PagesOwned, Unlisted
  <2>. QED BY <2>1, <1>5 DEF Ensured, PagesKept
<1>8. tokens > 0 => length # 0
  BY <1>3
<1>. QED BY <1>3, <1>5, <1>6, <1>7, <1>8 DEF Ensured, Lengthened

LEMMA SetLengthens ==
  ASSUME NEW c, ContextType(c), NEW length \in Nat, NEW r, r = SetSequenceLength(c, length)
  PROVE  Lengthened(c, length, r)
<1>1. CASE length > MaxTokens
  <2>1. r = <<c, FALSE>>
    BY <1>1, Zenon DEF SetSequenceLength
  <2>. QED BY <2>1, RefusedLengthens
<1>2. CASE ~(length > MaxTokens)
  <2>1. r = EnsureAttentionTokens(WithLengths(c, length, length), length)
    BY <1>2, Zenon DEF SetSequenceLength
  <2>2. length \in 0 .. MaxTokens /\ length \in 0 .. length /\ length <= length
    BY <1>2, ContextAssumption
  <2>. QED BY <2>1, <2>2, EnsuredLengthens
<1>. QED BY <1>1, <1>2

LEMMA AdvanceLengthens ==
  ASSUME NEW c, ContextType(c), NEW tokens \in Nat, NEW r, r = AdvanceDecodePosition(c, tokens)
  PROVE  Lengthened(c, tokens, r)
<1>1. PICK position : position = c.decodePosition + tokens
  OBVIOUS
<1>2. PICK length : length = IF position > c.sequenceLength THEN position ELSE c.sequenceLength
  OBVIOUS
<1>3. c.decodePosition \in 0 .. MaxTokens /\ c.sequenceLength \in 0 .. MaxTokens
  BY DEF ContextType
<1>4. CASE tokens = 0
  <2>1. r = <<c, TRUE>>
    BY <1>4, Zenon DEF AdvanceDecodePosition
  <2>. QED BY <2>1, <1>4, RefusedLengthens
<1>5. CASE tokens # 0 /\ position > MaxTokens
  <2>1. r = <<c, FALSE>>
    BY <1>5, <1>1, Zenon DEF AdvanceDecodePosition
  <2>. QED BY <2>1, RefusedLengthens
<1>6. CASE tokens # 0 /\ ~(position > MaxTokens)
  <2>1. r = EnsureAttentionTokens(WithLengths(c, length, position), length)
    BY <1>6, <1>1, <1>2, Zenon DEF AdvanceDecodePosition
  <2>2. length \in 0 .. MaxTokens /\ position \in 0 .. length /\ tokens <= length
    BY <1>1, <1>2, <1>3, <1>6, ContextAssumption
  <2>. QED BY <2>1, <2>2, EnsuredLengthens
<1>. QED BY <1>4, <1>5, <1>6

-----------------------------------------------------------------------------
(* Refusals *)

\* m holds the pages the first none, one, ... k layers are short of, together.
IsSum(m, c, required, k) ==
  m = [n \in 0 .. k |-> IF n = 0 THEN 0 ELSE m[n - 1] + Shortfall(c, required, n - 1)]

LEMMA SumExists ==
  ASSUME NEW c, NEW required
  PROVE  \A k \in Nat : \E m : IsSum(m, c, required, k)
<1> DEFINE T == {k \in Nat : ~ \E m : IsSum(m, c, required, k)}
<1>1. SUFFICES ASSUME T # {}  PROVE FALSE
  OBVIOUS
<1>2. PICK k \in T : \A y \in T : k <= y
  BY <1>1, LeastNatural
<1>3. CASE k = 0
  <2> DEFINE m == [n \in 0 .. 0 |-> 0]
  <2>1. m = [n \in 0 .. 0 |-> IF n = 0 THEN 0 ELSE m[n - 1] + Shortfall(c, required, n - 1)]
    OBVIOUS
  <2>2. IsSum(m, c, required, k)
    BY <2>1, <1>3 DEF IsSum
  <2>. QED BY <2>2, <1>2
<1>4. CASE k # 0
  <2>1. k \in Nat /\ k - 1 \in Nat /\ k - 1 \notin T
    BY <1>2, <1>4
  <2>2. PICK m : IsSum(m, c, required, k - 1)
    BY <2>1
  <2> DEFINE next == m[k - 1] + Shortfall(c, required, k - 1)
             v == [n \in 0 .. k |-> IF n = k THEN next ELSE m[n]]
             F(n) == IF n = 0 THEN 0 ELSE v[n - 1] + Shortfall(c, required, n - 1)
             G(n) == IF n = 0 THEN 0 ELSE m[n - 1] + Shortfall(c, required, n - 1)
  <2>3. \A n \in 0 .. k - 1 : v[n] = m[n]
    BY <2>1
  <2>4. \A n \in 0 .. k - 1 : m[n] = G(n)
    <3>1. m = [n \in 0 .. k - 1 |-> G(n)]
      BY <2>2, Zenon DEF IsSum
    <3>. HIDE DEF G
    <3>. QED BY <3>1, Zenon
  <2>5. ASSUME NEW n \in 0 .. k  PROVE v[n] = F(n)
    <3>1. CASE n = k
      <4>1. v[n] = next /\ k - 1 \in 0 .. k - 1 /\ n # 0
        <5>. HIDE DEF next
        <5>. QED BY <3>1, <2>1
      <4>2. v[n - 1] = m[k - 1]
        BY <4>1, <3>1, <2>3
      <4>. HIDE DEF v
      <4>. QED BY <4>1, <4>2, <3>1, Zenon
    <3>2. CASE n # k
      <4>1. n \in 0 .. k - 1 /\ (n # 0 => n - 1 \in 0 .. k - 1)
        BY <3>2, <2>1
      <4>2. v[n] = m[n] /\ (n # 0 => v[n - 1] = m[n - 1]) /\ m[n] = G(n)
        BY <4>1, <2>3, <2>4
      <4>. HIDE DEF v
      <4>. QED BY <4>2, Zenon
    <3>. QED BY <3>1, <3>2
  <2>6. v = [n \in 0 .. k |-> v[n]]
    OBVIOUS
  <2>7. [n \in 0 .. k |-> v[n]] = [n \in 0 .. k |-> F(n)]
    <3>. HIDE DEF v, F
    <3>. QED BY <2>5, Zenon
  <2>8. v = [n \in 0 .. k |-> F(n)]
    BY <2>6, <2>7, Zenon
  <2>9. IsSum(v, c, required, k)
    <3>. HIDE DEF v
    <3>. QED BY <2>8, Zenon DEF IsSum
  <2>. QED BY <2>9, <1>2
<1>. QED BY <1>3, <1>4

\* After n layers the pool is smaller by what they were short of, or that is more than it had.
Spent(c, total, r) ==
  /\ total \in Nat
  /\ IF r[2] THEN Len(r[1].pool.free) = Len(c.pool.free) - total
             ELSE total > Len(c.pool.free)

LEMMA SpentStep ==
  ASSUME NEW c, ContextType(c), NEW required \in Nat, NEW n \in 1 .. LayerCount,
         NEW p, GrownWell(c, required, n - 1, p), p[2],
         NEW total, Spent(c, total, p),
         NEW r, r = GrowLayer(p[1], n - 1, required)
  PROVE  Spent(c, total + Shortfall(c, required, n - 1), r)
<1>1. PICK layer \in Layers : layer = n - 1
  BY PoolAssumption DEF Layers
<1>2. PICK d : d = p[1]
  OBVIOUS
<1>3. ContextType(d) /\ d.pages[layer] = c.pages[layer] /\ ~(layer < n - 1)
  <2>1. ~(layer < n - 1)
    BY <1>1, PoolAssumption
  <2>. QED BY <2>1, <1>1, <1>2 DEF GrownWell
<1>4. LayerGrown(d, layer, required, r)
  BY <1>1, <1>2, <1>3, GrowLayerGives
<1>5. Shortfall(d, required, layer) = Shortfall(c, required, layer)
  BY <1>3 DEF Shortfall
<1>6. Shortfall(c, required, layer) \in Nat
  <2>1. Len(c.pages[layer]) \in Nat
    BY DEF ContextType
  <2>. QED BY <2>1 DEF Shortfall
<1>7. Len(c.pool.free) \in Nat /\ Len(d.pool.free) \in Nat
  BY <1>3, SMTT(30) DEF ContextType, PoolType
<1>8. Len(d.pool.free) = Len(c.pool.free) - total /\ total \in Nat
  BY <1>2 DEF Spent
<1>9. CASE r[2]
  <2>1. Len(r[1].pool.free) = Len(d.pool.free) - Shortfall(c, required, layer)
    BY <1>4, <1>5, <1>9 DEF LayerGrown
  <2>2. Len(r[1].pool.free) = Len(c.pool.free) - (total + Shortfall(c, required, layer))
    BY <2>1, <1>6, <1>7, <1>8
  <2>. QED BY <2>2, <1>1, <1>6, <1>8, <1>9 DEF Spent
<1>10. CASE ~r[2]
  <2>1. Shortfall(c, required, layer) > Len(d.pool.free)
    BY <1>4, <1>5, <1>10 DEF LayerGrown
  <2>2. total + Shortfall(c, required, layer) > Len(c.pool.free)
    BY <2>1, <1>6, <1>7, <1>8
  <2>. QED BY <2>2, <1>1, <1>6, <1>8, <1>10 DEF Spent
<1>. QED BY <1>9, <1>10

LEMMA RefusalMeansFull ==
  ASSUME NEW c, ContextType(c), NEW count \in Nat, count <= MaxTokens, HasAttention,
         NEW r, r = EnsureAttentionTokens(c, count), ~r[2],
         NEW m, IsSum(m, c, RequiredPages(count), LayerCount)
  PROVE  m[LayerCount] > Len(c.pool.free)
<1>1. LayerCount \in Nat /\ RequiredPages(count) \in Nat
  BY PoolAssumption, RequiredPagesNatural
<1>2. PICK required \in Nat : required = RequiredPages(count)
  BY <1>1
<1>3. PICK g : IsGrown(g, c, required, LayerCount) /\ r = g[LayerCount]
  BY <1>2, EnsureIsGrown
<1>4. IsSum(m, c, required, LayerCount)
  BY <1>2
<1> DEFINE G(n) == IF n = 0 THEN 0 ELSE m[n - 1] + Shortfall(c, required, n - 1)
<1>6. \A n \in 0 .. LayerCount : m[n] = G(n)
  <2>1. m = [n \in 0 .. LayerCount |-> G(n)]
    BY <1>4, Zenon DEF IsSum
  <2>. HIDE DEF G
  <2>. QED BY <2>1, Zenon
<1>7. Steps(g, c, required, LayerCount)
  BY <1>1, <1>3, GrownSteps
<1>8. \A n \in 0 .. LayerCount : GrownWell(c, required, n, g[n])
  BY <1>3, GrownIsWell
<1> DEFINE T == {n \in 0 .. LayerCount : ~Spent(c, m[n], g[n])}
<1>9. T = {}
  <2>1. SUFFICES ASSUME T # {}  PROVE FALSE
    OBVIOUS
  <2>2. T \in SUBSET Nat
    BY <1>1
  <2>3. PICK n \in T : \A y \in T : n <= y
    BY <2>1, <2>2, LeastNatural
  <2>4. CASE n = 0
    <3>1. m[0] = 0 /\ g[0] = <<c, TRUE>>
      BY <1>1, <1>6, <1>7 DEF Steps
    <3>2. g[0][1] = c /\ g[0][2] = TRUE
      BY <3>1
    <3>3. Len(c.pool.free) \in Nat
      BY DEF ContextType, PoolType
    <3>4. Spent(c, m[0], g[0])
      BY <3>1, <3>2, <3>3 DEF Spent
    <3>. QED BY <3>4, <2>3, <2>4
  <2>5. CASE n # 0
    <3>1. n \in 1 .. LayerCount /\ n - 1 \in 0 .. LayerCount /\ n - 1 \notin T /\ n \in 0 .. LayerCount
      BY <2>3, <2>5, <1>1
    <3>2. Spent(c, m[n - 1], g[n - 1]) /\ GrownWell(c, required, n - 1, g[n - 1])
      BY <3>1, <1>8
    <3>3. m[n] = m[n - 1] + Shortfall(c, required, n - 1)
      BY <3>1, <1>6, <2>5
    <3>4. CASE g[n - 1][2]
      <4>1. g[n] = GrowLayer(g[n - 1][1], n - 1, required)
        BY <3>1, <3>4, <1>7 DEF Steps
      <4>2. Spent(c, m[n - 1] + Shortfall(c, required, n - 1), g[n])
        BY ONLY <3>1, <3>2, <3>4, <4>1, SpentStep, ContextType(c), required \in Nat
      <4>. QED BY <4>2, <3>3, <2>3
    <3>5. CASE ~g[n - 1][2]
      <4>1. g[n] = g[n - 1]
        BY <3>1, <3>5, <1>7 DEF Steps
      <4>2. Shortfall(c, required, n - 1) \in Nat
        <5>1. n - 1 \in Layers
          BY <3>1, <1>1 DEF Layers
        <5>2. Len(c.pages[n - 1]) \in Nat
          BY <5>1 DEF ContextType
        <5>. QED BY <5>2 DEF Shortfall
      <4>3. Len(c.pool.free) \in Nat
        BY DEF ContextType, PoolType
      <4>4. Spent(c, m[n], g[n])
        BY <3>2, <3>3, <3>5, <4>1, <4>2, <4>3 DEF Spent
      <4>. QED BY <4>4, <2>3
    <3>. QED BY <3>4, <3>5
  <2>. QED BY <2>4, <2>5
<1>10. LayerCount \in 0 .. LayerCount
  BY <1>1
<1>11. Spent(c, m[LayerCount], r)
  BY <1>3, <1>9, <1>10
<1>. QED BY <1>11 DEF Spent

-----------------------------------------------------------------------------
(* Sorting the free list *)

\* The element that rank i - 1 falls to.
Placed(s, i) == CHOOSE j \in 1 .. Len(s) : Rank(s, j) = i - 1

LEMMA RankOrders ==
  ASSUME NEW s \in Seq(Int), NEW j \in 1 .. Len(s), NEW k \in 1 .. Len(s), s[j] > s[k]
  PROVE  Rank(s, j) < Rank(s, k)
<1> DEFINE J == {m \in 1 .. Len(s) : Before(s, m, j)}
           K == {m \in 1 .. Len(s) : Before(s, m, k)}
<1>1. IsFiniteSet(K)
  <2>1. Len(s) \in Nat /\ K \subseteq 1 .. Len(s)
    OBVIOUS
  <2>2. IsFiniteSet(1 .. Len(s))
    BY <2>1, FS_Interval
  <2>. QED BY <2>1, <2>2, FS_Subset, Zenon
<1>2. \A m \in 1 .. Len(s) : s[m] \in Int
  OBVIOUS
<1>3. J \subseteq K
  BY <1>2 DEF Before
<1>4. j \in K /\ j \notin J
  BY <1>2 DEF Before
<1>. HIDE DEF J, K
<1>5. IsFiniteSet(J) /\ Cardinality(J) <= Cardinality(K) /\ (Cardinality(K) = Cardinality(J) => K = J)
  BY <1>1, <1>3, FS_Subset
<1>6. Cardinality(J) < Cardinality(K)
  <2>1. Cardinality(J) \in Nat /\ Cardinality(K) \in Nat
    BY <1>1, <1>5, FS_CardinalityType
  <2>2. Cardinality(K) # Cardinality(J)
    BY <1>4, <1>5
  <2>. QED BY <2>1, <2>2, <1>5
<1>. QED BY <1>6 DEF Rank, J, K

LEMMA RankBounded ==
  ASSUME NEW s \in Seq(Int), NEW j \in 1 .. Len(s)
  PROVE  Rank(s, j) \in 0 .. Len(s) - 1
<1> DEFINE J == {m \in 1 .. Len(s) : Before(s, m, j)}
<1>1. Len(s) \in Nat /\ \A m \in 1 .. Len(s) : s[m] \in Int
  OBVIOUS
<1>2. J \subseteq (1 .. Len(s)) \ {j}
  BY <1>1 DEF Before
<1>3. IsFiniteSet(1 .. Len(s)) /\ Cardinality(1 .. Len(s)) = Len(s)
  BY <1>1, FS_Interval, SMTT(30)
<1>4. IsFiniteSet((1 .. Len(s)) \ {j}) /\ Cardinality((1 .. Len(s)) \ {j}) = Len(s) - 1
  BY <1>3, FS_RemoveElement
<1>. HIDE DEF J
<1>5. IsFiniteSet(J) /\ Cardinality(J) <= Len(s) - 1
  <2>1. PICK K : K = (1 .. Len(s)) \ {j}
    OBVIOUS
  <2>2. J \in SUBSET K /\ IsFiniteSet(K) /\ Cardinality(K) = Len(s) - 1
    BY <2>1, <1>2, <1>4
  <2>3. IsFiniteSet(J) /\ Cardinality(J) <= Cardinality(K)
    BY ONLY <2>2, FS_Subset
  <2>. QED BY <2>2, <2>3
<1>6. Cardinality(J) \in Nat
  BY <1>5, FS_CardinalityType
<1>. QED BY <1>1, <1>5, <1>6 DEF Rank, J

\* Every rank falls to exactly one element, when no two are equal.
LEMMA RankPlaces ==
  ASSUME NEW s \in Seq(Int), \A j, k \in 1 .. Len(s) : s[j] = s[k] => j = k
  PROVE  /\ \A i \in 1 .. Len(s) : Placed(s, i) \in 1 .. Len(s) /\ Rank(s, Placed(s, i)) = i - 1
         /\ \A j \in 1 .. Len(s) : Placed(s, Rank(s, j) + 1) = j
<1> DEFINE n == Len(s)
           f == [j \in 1 .. n |-> Rank(s, j)]
<1>1. n \in Nat /\ \A m \in 1 .. n : s[m] \in Int
  OBVIOUS
<1>2. \A j, k \in 1 .. n : Rank(s, j) = Rank(s, k) => j = k
  <2>1. ASSUME NEW j \in 1 .. n, NEW k \in 1 .. n, Rank(s, j) = Rank(s, k)
        PROVE  j = k
    <3>1. ~(s[j] > s[k])
      <4>1. SUFFICES ASSUME s[j] > s[k]  PROVE FALSE
        OBVIOUS
      <4>2. Rank(s, j) < Rank(s, k)
        BY <4>1, RankOrders
      <4>. QED BY <4>2, <2>1, RankBounded
    <3>2. ~(s[k] > s[j])
      <4>1. SUFFICES ASSUME s[k] > s[j]  PROVE FALSE
        OBVIOUS
      <4>2. Rank(s, k) < Rank(s, j)
        BY <4>1, RankOrders
      <4>. QED BY <4>2, <2>1, RankBounded
    <3>. QED BY <3>1, <3>2, <1>1
  <2>. QED BY <2>1
<1>3. f \in [1 .. n -> 0 .. n - 1]
  BY RankBounded
<1>4. f \in Injection(1 .. n, 0 .. n - 1)
  BY <1>2, <1>3 DEF Injection, IsInjective
<1>5. /\ IsFiniteSet(0 .. n - 1) /\ Cardinality(0 .. n - 1) = n
      /\ Cardinality(1 .. n) = n
  <2>. HIDE DEF n
  <2>1. 0 \in Int /\ n - 1 \in Int /\ 1 \in Int /\ n \in Int
    BY <1>1
  <2>2. /\ IsFiniteSet(0 .. n - 1)
        /\ Cardinality(0 .. n - 1) = IF 0 > n - 1 THEN 0 ELSE (n - 1) - 0 + 1
        /\ Cardinality(1 .. n) = IF 1 > n THEN 0 ELSE n - 1 + 1
    BY <2>1, FS_Interval
  <2>. QED BY <2>2, <1>1
<1>6. f \in Surjection(1 .. n, 0 .. n - 1)
  <2>. HIDE DEF f, n
  <2>. QED BY <1>4, <1>5, FS_Injection
<1>7. \A i \in 1 .. n : \E j \in 1 .. n : Rank(s, j) = i - 1
  <2>1. ASSUME NEW i \in 1 .. n  PROVE \E j \in 1 .. n : Rank(s, j) = i - 1
    <3>1. i - 1 \in 0 .. n - 1
      BY <1>1
    <3>2. \E j \in 1 .. n : f[j] = i - 1
      <4>. HIDE DEF f
      <4>. QED BY <3>1, <1>6 DEF Surjection
    <3>. QED BY <3>2
  <2>. QED BY <2>1
<1>8. \A i \in 1 .. n : Placed(s, i) \in 1 .. n /\ Rank(s, Placed(s, i)) = i - 1
  BY <1>7 DEF Placed
<1>9. ASSUME NEW j \in 1 .. n  PROVE Placed(s, Rank(s, j) + 1) = j
  <2>1. Rank(s, j) \in 0 .. n - 1 /\ Rank(s, j) + 1 \in 1 .. n /\ Rank(s, j) + 1 - 1 = Rank(s, j)
    BY <1>1, RankBounded
  <2>2. /\ Placed(s, Rank(s, j) + 1) \in 1 .. n
        /\ Rank(s, Placed(s, Rank(s, j) + 1)) = Rank(s, j)
    BY <2>1, <1>8
  <2>. QED BY <2>2, <1>2
<1>. QED BY <1>8, <1>9

\* std::sort of a list without repetition: the same elements, in decreasing order.
LEMMA SortedDownSorts ==
  ASSUME NEW S \in SUBSET Int, NEW s \in Seq(S), \A j, k \in 1 .. Len(s) : s[j] = s[k] => j = k
  PROVE  /\ SortedDown(s) \in Seq(S)
         /\ Range(SortedDown(s)) = Range(s)
         /\ \A i, j \in DOMAIN SortedDown(s) : i < j => SortedDown(s)[i] > SortedDown(s)[j]
<1> DEFINE n == Len(s)
           t == [i \in 1 .. n |-> s[Placed(s, i)]]
<1>1. n \in Nat /\ s \in Seq(Int) /\ \A m \in 1 .. n : s[m] \in S /\ s[m] \in Int
  <2>1. n \in Nat /\ s \in [1 .. n -> S] /\ \A m \in 1 .. n : s[m] \in S
    OBVIOUS
  <2>2. s \in [1 .. n -> Int]
    BY <2>1
  <2>3. s \in Seq(Int)
    BY <2>1, <2>2
  <2>. QED BY <2>1, <2>2, <2>3
<1>2. SortedDown(s) = t
  BY Zenon DEF SortedDown, Placed
<1>3. /\ \A i \in 1 .. n : Placed(s, i) \in 1 .. n /\ Rank(s, Placed(s, i)) = i - 1
      /\ \A j \in 1 .. n : Placed(s, Rank(s, j) + 1) = j
  BY <1>1, RankPlaces
<1>4. t \in [1 .. n -> S]
  BY <1>1, <1>3
<1>5. t \in Seq(S) /\ DOMAIN t = 1 .. n
  BY <1>1, <1>4
<1>6. \A i \in 1 .. n : t[i] = s[Placed(s, i)]
  OBVIOUS
<1>. HIDE DEF t
<1>7. Range(t) = Range(s)
  <2>1. \A j \in 1 .. n : Rank(s, j) + 1 \in 1 .. n /\ t[Rank(s, j) + 1] = s[j]
    <3>1. ASSUME NEW j \in 1 .. n  PROVE Rank(s, j) + 1 \in 1 .. n /\ t[Rank(s, j) + 1] = s[j]
      <4>1. Rank(s, j) + 1 \in 1 .. n
        BY <1>1, RankBounded
      <4>. QED BY <4>1, <1>3, <1>6
    <3>. QED BY <3>1
  <2>2. DOMAIN s = 1 .. n
    OBVIOUS
  <2>. HIDE DEF n
  <2>. QED BY <2>1, <2>2, <1>3, <1>5, <1>6 DEF Range
<1>8. ASSUME NEW i \in 1 .. n, NEW j \in 1 .. n, i < j  PROVE t[i] > t[j]
  <2>1. PICK a \in 1 .. n : a = Placed(s, i) /\ t[i] = s[a] /\ Rank(s, a) = i - 1
    BY <1>3, <1>6
  <2>2. PICK b \in 1 .. n : b = Placed(s, j) /\ t[j] = s[b] /\ Rank(s, b) = j - 1
    BY <1>3, <1>6
  <2>3. ~(s[b] > s[a])
    <3>1. SUFFICES ASSUME s[b] > s[a]  PROVE FALSE
      OBVIOUS
    <3>2. Rank(s, b) < Rank(s, a)
      BY <3>1, <1>1, RankOrders
    <3>. QED BY <3>2, <2>1, <2>2, <1>8
  <2>4. s[a] # s[b]
    BY <2>1, <2>2, <1>8
  <2>. QED BY <2>1, <2>2, <2>3, <2>4, <1>1
<1>. QED BY <1>2, <1>5, <1>7, <1>8

-----------------------------------------------------------------------------
(* The pages of every layer, listed *)

\* u holds the pages of the first none, one, ... k layers.
IsListed(u, c, k) ==
  u = [n \in 0 .. k |-> IF n = 0 THEN << >> ELSE u[n - 1] \o c.pages[n - 1]]

LEMMA ListedExists ==
  ASSUME NEW c
  PROVE  \A k \in Nat : \E u : IsListed(u, c, k)
<1> DEFINE T == {k \in Nat : ~ \E u : IsListed(u, c, k)}
<1>1. SUFFICES ASSUME T # {}  PROVE FALSE
  OBVIOUS
<1>2. PICK k \in T : \A y \in T : k <= y
  BY <1>1, LeastNatural
<1>3. CASE k = 0
  <2> DEFINE u == [n \in 0 .. 0 |-> << >>]
  <2>1. u = [n \in 0 .. 0 |-> IF n = 0 THEN << >> ELSE u[n - 1] \o c.pages[n - 1]]
    OBVIOUS
  <2>2. IsListed(u, c, k)
    BY <2>1, <1>3 DEF IsListed
  <2>. QED BY <2>2, <1>2
<1>4. CASE k # 0
  <2>1. k \in Nat /\ k - 1 \in Nat /\ k - 1 \notin T
    BY <1>2, <1>4
  <2>2. PICK u : IsListed(u, c, k - 1)
    BY <2>1
  <2> DEFINE next == u[k - 1] \o c.pages[k - 1]
             v == [n \in 0 .. k |-> IF n = k THEN next ELSE u[n]]
             F(n) == IF n = 0 THEN << >> ELSE v[n - 1] \o c.pages[n - 1]
             G(n) == IF n = 0 THEN << >> ELSE u[n - 1] \o c.pages[n - 1]
  <2>3. \A n \in 0 .. k - 1 : v[n] = u[n]
    BY <2>1
  <2>4. \A n \in 0 .. k - 1 : u[n] = G(n)
    <3>1. u = [n \in 0 .. k - 1 |-> G(n)]
      BY <2>2, Zenon DEF IsListed
    <3>. HIDE DEF G
    <3>. QED BY <3>1, Zenon
  <2>5. ASSUME NEW n \in 0 .. k  PROVE v[n] = F(n)
    <3>1. CASE n = k
      <4>1. v[n] = next /\ k - 1 \in 0 .. k - 1 /\ n # 0
        <5>. HIDE DEF next
        <5>. QED BY <3>1, <2>1
      <4>2. v[n - 1] = u[k - 1]
        BY <4>1, <3>1, <2>3
      <4>. HIDE DEF v
      <4>. QED BY <4>1, <4>2, <3>1, Zenon
    <3>2. CASE n # k
      <4>1. n \in 0 .. k - 1 /\ (n # 0 => n - 1 \in 0 .. k - 1)
        BY <3>2, <2>1
      <4>2. v[n] = u[n] /\ (n # 0 => v[n - 1] = u[n - 1]) /\ u[n] = G(n)
        BY <4>1, <2>3, <2>4
      <4>. HIDE DEF v
      <4>. QED BY <4>2, Zenon
    <3>. QED BY <3>1, <3>2
  <2>6. v = [n \in 0 .. k |-> v[n]]
    OBVIOUS
  <2>7. [n \in 0 .. k |-> v[n]] = [n \in 0 .. k |-> F(n)]
    <3>. HIDE DEF v, F
    <3>. QED BY <2>5, Zenon
  <2>8. v = [n \in 0 .. k |-> F(n)]
    BY <2>6, <2>7, Zenon
  <2>9. IsListed(v, c, k)
    <3>. HIDE DEF v
    <3>. QED BY <2>8, Zenon DEF IsListed
  <2>. QED BY <2>9, <1>2
<1>. QED BY <1>3, <1>4

ListedWell(c, n, s) ==
  /\ s \in Seq(PageIds)
  /\ \A p : p \in Range(s) <=> \E l \in Layers : l < n /\ p \in Range(c.pages[l])
  /\ PagesOwned(c) => Once(s)

LEMMA ListedStaysWell ==
  ASSUME NEW c, ContextType(c), NEW n \in 1 .. LayerCount,
         NEW s, ListedWell(c, n - 1, s)
  PROVE  ListedWell(c, n, s \o c.pages[n - 1])
<1>1. /\ n - 1 \in Layers /\ n \in Nat /\ LayerCount \in Nat /\ s \in Seq(PageIds)
      /\ \A l \in Layers : l \in Nat
  BY PoolAssumption DEF Layers, ListedWell
<1>2. PICK layer \in Layers : layer = n - 1
  BY <1>1
<1>3. PICK t \in Seq(PageIds) : t = c.pages[layer]
  BY DEF ContextType
<1>4. Range(s \o t) = Range(s) \cup Range(t)
  BY <1>1, ConcatenatedRange
<1>5. \A l \in Layers : l < n <=> (l < n - 1 \/ l = layer)
  BY <1>1, <1>2
<1>6. \A p : p \in Range(s \o t) <=> \E l \in Layers : l < n /\ p \in Range(c.pages[l])
  BY <1>3, <1>4, <1>5 DEF ListedWell
<1>7. ASSUME PagesOwned(c)
      PROVE  Once(s \o t)
  <2>1. Once(s)
    BY <1>7 DEF ListedWell
  <2>2. DOMAIN t = 1 .. Len(t) /\ DOMAIN s = 1 .. Len(s)
    BY <1>1
  <2>3. /\ \A i \in 1 .. Len(t) : c.pool.owner[t[i]] = layer
        /\ \A i, j \in 1 .. Len(t) : t[i] = t[j] => i = j
    BY <1>7, <1>3, <2>2 DEF PagesOwned
  <2>4. ASSUME NEW i \in 1 .. Len(s)  PROVE c.pool.owner[s[i]] # layer
    <3>1. s[i] \in Range(s)
      BY <2>2 DEF Range
    <3>2. PICK l \in Layers : l < n - 1 /\ s[i] \in Range(c.pages[l])
      BY <3>1 DEF ListedWell
    <3>3. c.pool.owner[s[i]] = l
      BY <3>2, <1>7 DEF PagesOwned, Range
    <3>. QED BY <3>2, <3>3, <1>1, <1>2
  <2>5. \A i \in 1 .. Len(s) : \A j \in 1 .. Len(t) : s[i] # t[j]
    BY <2>3, <2>4
  <2>6. Once(t) /\ Apart(s, t)
    BY <2>3, <2>5 DEF Once, Apart
  <2>. QED BY ONLY <1>1, <1>3, <2>1, <2>6, ConcatenatedOnce
<1>8. s \o t \in Seq(PageIds)
  BY <1>1
<1>9. c.pages[n - 1] = t
  BY <1>2, <1>3
<1>. QED BY <1>6, <1>7, <1>8, <1>9 DEF ListedWell

\* The list names the pages the layers list and no other, and each once.
LEMMA ListedPagesWell ==
  ASSUME NEW c, ContextType(c)
  PROVE  ListedWell(c, LayerCount, ListedPages(c))
<1>1. LayerCount \in Nat
  BY PoolAssumption
<1> DEFINE u == CHOOSE x : IsListed(x, c, LayerCount)
<1>2. IsListed(u, c, LayerCount)
  BY <1>1, ListedExists
<1>3. ListedPages(c) = u[LayerCount]
  BY Zenon DEF ListedPages, IsListed
<1>. HIDE DEF u
<1> DEFINE G(n) == IF n = 0 THEN << >> ELSE u[n - 1] \o c.pages[n - 1]
<1>4. \A n \in 0 .. LayerCount : u[n] = G(n)
  <2>1. u = [n \in 0 .. LayerCount |-> G(n)]
    BY <1>2, Zenon DEF IsListed
  <2>. HIDE DEF G
  <2>. QED BY <2>1, Zenon
<1> DEFINE T == {n \in 0 .. LayerCount : ~ListedWell(c, n, u[n])}
<1>5. T = {}
  <2>1. SUFFICES ASSUME T # {}  PROVE FALSE
    OBVIOUS
  <2>2. T \in SUBSET Nat
    BY <1>1
  <2>3. PICK n \in T : \A y \in T : n <= y
    BY <2>1, <2>2, LeastNatural
  <2>4. CASE n = 0
    <3>1. u[0] = << >>
      BY <1>4, <1>1
    <3>2. Range(u[0]) = {} /\ u[0] \in Seq(PageIds) /\ Len(u[0]) = 0
      BY <3>1 DEF Range
    <3>3. \A l \in Layers : ~(l < 0)
      BY PoolAssumption DEF Layers
    <3>4. ListedWell(c, 0, u[0])
      BY <3>2, <3>3 DEF ListedWell, Once
    <3>. QED BY <3>4, <2>3, <2>4
  <2>5. CASE n # 0
    <3>1. n \in 1 .. LayerCount /\ n - 1 \in 0 .. LayerCount /\ n - 1 \notin T /\ n \in 0 .. LayerCount
      BY <2>3, <2>5, <1>1
    <3>2. ListedWell(c, n - 1, u[n - 1])
      BY <3>1
    <3>3. u[n] = u[n - 1] \o c.pages[n - 1]
      BY <3>1, <1>4, <2>5
    <3>4. ListedWell(c, n, u[n])
      BY <3>1, <3>2, <3>3, ListedStaysWell
    <3>. QED BY <3>4, <2>3
  <2>. QED BY <2>4, <2>5
<1>6. LayerCount \in 0 .. LayerCount
  BY <1>1
<1>. QED BY <1>3, <1>5, <1>6

-----------------------------------------------------------------------------
(* The reset *)

Released(pool, ids, r) ==
  /\ PoolType(r[1]) /\ FreeListExact(r[1]) /\ r[2] \in BOOLEAN
  /\ r[2] => \A p \in PageIds :
               r[1].owner[p] = IF p \in Range(ids) THEN Unowned ELSE pool.owner[p]
  /\ ~r[2] => /\ r[1] = pool
              /\ ids = << >> \/ ~Once(ids) \/ \E p \in Range(ids) : pool.owner[p] = Unowned

LEMMA PoolFields ==
  ASSUME NEW owner, NEW free
  PROVE  Pool(owner, free).owner = owner /\ Pool(owner, free).free = free
BY DEF Pool

\* ReleasePages refuses and changes nothing, or frees the pages it is given and no other,
\* and the free list is again in order.
LEMMA ReleasePagesGives ==
  ASSUME NEW pool, PoolType(pool), FreeListExact(pool), NEW ids \in Seq(PageIds),
         NEW r, r = ReleasePages(pool, ids)
  PROVE  Released(pool, ids, r)
<1>1. /\ DOMAIN ids = 1 .. Len(ids) /\ \A i \in 1 .. Len(ids) : ids[i] \in PageIds
      /\ Range(ids) \subseteq PageIds
  BY DEF Range
<1>2. IsInjective(ids) <=> Once(ids)
  BY <1>1 DEF IsInjective, Once
<1> DEFINE refused == \/ ids = << >> \/ ~IsInjective(ids)
                      \/ \E p \in Range(ids) : p \notin PageIds \/ pool.owner[p] = Unowned
<1>3. CASE refused
  <2>1. r = <<pool, FALSE>>
    BY <1>3, Zenon DEF ReleasePages
  <2>2. r[1] = pool /\ r[2] \in BOOLEAN /\ ~r[2]
    BY <2>1
  <2>. QED BY <1>1, <1>2, <1>3, <2>2 DEF Released
<1>4. CASE ~refused
  <2>1. PICK owners : owners = [p \in PageIds |-> IF p \in Range(ids) THEN Unowned ELSE pool.owner[p]]
    OBVIOUS
  <2>2. PICK s : s = pool.free \o ids
    OBVIOUS
  <2>3. r = <<Pool(owners, SortedDown(s)), TRUE>>
    BY <1>4, <2>1, <2>2, Zenon DEF ReleasePages
  <2>4. r[1].owner = owners /\ r[1].free = SortedDown(s) /\ r[2] = TRUE
    BY <2>3, PoolFields
  <2>5. /\ pool.free \in Seq(PageIds) /\ pool.owner \in [PageIds -> Layers \cup {Unowned}]
        /\ DOMAIN pool.free = 1 .. Len(pool.free)
    BY DEF PoolType
  <2>6. Once(pool.free)
    <3>1. \A i \in 1 .. Len(pool.free) : pool.free[i] \in PageIds
      BY <2>5
    <3>2. PageIds \subseteq Int
      BY PoolAssumption DEF PageIds
    <3>3. \A i, j \in 1 .. Len(pool.free) : i < j => pool.free[i] > pool.free[j]
      BY <2>5 DEF FreeListExact
    <3>4. \A i, j \in 1 .. Len(pool.free) : i < j => pool.free[i] # pool.free[j]
      <4>1. ASSUME NEW i \in 1 .. Len(pool.free), NEW j \in 1 .. Len(pool.free), i < j
            PROVE  pool.free[i] # pool.free[j]
        <5>1. pool.free[i] > pool.free[j] /\ pool.free[i] \in Int
          BY <4>1, <3>1, <3>2, <3>3
        <5>. QED BY <5>1
      <4>. QED BY <4>1
    <3>. QED BY <3>4 DEF Once
  <2>7. Once(ids)
    BY <1>2, <1>4
  <2>8. Apart(pool.free, ids)
    <3>1. \A i \in 1 .. Len(pool.free) : pool.owner[pool.free[i]] = Unowned
      BY <2>5 DEF FreeListExact, Range
    <3>2. \A j \in 1 .. Len(ids) : pool.owner[ids[j]] # Unowned
      BY <1>1, <1>4 DEF Range
    <3>. QED BY <3>1, <3>2 DEF Apart
  <2>9. s \in Seq(PageIds) /\ Range(s) = Range(pool.free) \cup Range(ids)
    BY <2>2, <2>5, ConcatenatedRange
  <2>10. Once(s)
    BY ONLY <2>2, <2>5, <2>6, <2>7, <2>8, ids \in Seq(PageIds), ConcatenatedOnce
  <2>11. PageIds \in SUBSET Int
    BY PoolAssumption DEF PageIds
  <2>12. /\ SortedDown(s) \in Seq(PageIds)
         /\ Range(SortedDown(s)) = Range(s)
         /\ \A i, j \in DOMAIN SortedDown(s) : i < j => SortedDown(s)[i] > SortedDown(s)[j]
    BY <2>9, <2>10, <2>11, SortedDownSorts DEF Once
  <2>13. owners \in [PageIds -> Layers \cup {Unowned}]
    BY <2>1, <2>5
  <2>14. \A p \in PageIds : owners[p] = Unowned <=> p \in Range(pool.free) \/ p \in Range(ids)
    BY <2>1 DEF FreeListExact
  <2>15. Range(s) \subseteq PageIds
    BY <2>9, <1>1 DEF FreeListExact
  <2>16. FreeListExact(r[1])
    BY <2>4, <2>9, <2>12, <2>14, <2>15 DEF FreeListExact
  <2>17. PoolType(r[1])
    BY <2>4, <2>12, <2>13 DEF PoolType
  <2>. QED BY <2>1, <2>4, <2>16, <2>17 DEF Released
<1>. QED BY <1>3, <1>4

\* The pool of a context that a reset was or was not allowed to release.
ResetPool(c, filled) ==
  IF filled = Len(FillOrder) /\ ListedPages(c) # << >>
  THEN ReleasePages(c.pool, ListedPages(c)) ELSE <<c.pool, filled = Len(FillOrder)>>

WasReset(c, filled, r) ==
  /\ ContextType(r[1]) /\ PagesExact(r[1])
  /\ r[2] <=> filled = Len(FillOrder)
  /\ \A l \in Layers : r[1].pages[l] = << >>
  /\ r[1].sequenceLength = 0 /\ r[1].decodePosition = 0
  /\ r[2] => /\ \A b \in Buffers : r[1].data[b] = {}
             /\ Lost(r[1]) = Lost(c)

LEMMA FillsEveryBuffer ==
  /\ Len(FillOrder) \in Nat
  /\ Buffers = {FillOrder[i] : i \in 1 .. Len(FillOrder)}
<1> DEFINE S == {"hidden", "residual", "scratch", "mamba_conv_state", "mamba_state",
                 "key_cache", "value_cache"}
<1>1. FillOrder \in Seq(S)
  <2>1. <<"hidden", "residual", "scratch">> \in Seq(S)
    OBVIOUS
  <2>2. <<"mamba_conv_state", "mamba_state">> \in Seq(S) /\ << >> \in Seq(S)
    OBVIOUS
  <2>3. <<"key_cache", "value_cache">> \in Seq(S)
    OBVIOUS
  <2>4. (IF HasMamba THEN <<"mamba_conv_state", "mamba_state">> ELSE << >>) \in Seq(S)
    BY <2>2
  <2>5. (IF HasAttention THEN <<"key_cache", "value_cache">> ELSE << >>) \in Seq(S)
    BY <2>2, <2>3
  <2>. HIDE DEF S
  <2>. QED BY <2>1, <2>4, <2>5 DEF FillOrder
<1>2. DOMAIN FillOrder = 1 .. Len(FillOrder) /\ Len(FillOrder) \in Nat
  BY <1>1
<1>. QED BY <1>2 DEF Buffers, Range

LEMMA UnlistedIsLost ==
  ASSUME NEW c, ContextType(c)
  PROVE  Lost(c) = Unlisted(c)
<1>1. \A p : p \in Range(ListedPages(c)) <=> \E l \in Layers : l < LayerCount /\ p \in Range(c.pages[l])
  BY ListedPagesWell DEF ListedWell
<1>2. \A l \in Layers : l < LayerCount
  BY PoolAssumption DEF Layers
<1>. QED BY <1>1, <1>2 DEF Lost, Unlisted

\* Listed pages are owned, each by its layer, so the pool takes them all back.
LEMMA ListedPagesOwned ==
  ASSUME NEW c, ContextType(c), PagesOwned(c)
  PROVE  /\ ListedPages(c) \in Seq(PageIds) /\ Once(ListedPages(c))
         /\ \A p \in Range(ListedPages(c)) : p \in PageIds /\ c.pool.owner[p] # Unowned
<1>1. ListedWell(c, LayerCount, ListedPages(c))
  BY ListedPagesWell
<1>2. ASSUME NEW p \in Range(ListedPages(c))  PROVE p \in PageIds /\ c.pool.owner[p] # Unowned
  <2>1. PICK l \in Layers : p \in Range(c.pages[l])
    BY <1>1 DEF ListedWell
  <2>2. c.pages[l] \in Seq(PageIds)
    BY DEF ContextType
  <2>3. PICK i \in DOMAIN c.pages[l] : p = c.pages[l][i]
    BY <2>1 DEF Range
  <2>4. p \in PageIds
    BY <2>2, <2>3
  <2>5. c.pool.owner[p] = l
    BY <2>3 DEF PagesOwned
  <2>6. l # Unowned
    BY PoolAssumption DEF Layers, Unowned
  <2>. QED BY <2>4, <2>5, <2>6
<1>. QED BY <1>1, <1>2 DEF ListedWell

LEMMA ResetGives ==
  ASSUME NEW c, ContextType(c), PagesExact(c), NEW filled \in Fills,
         NEW r, r = ResetForNewRequest(c, filled)
  PROVE  WasReset(c, filled, r)
<1>1. PICK p : p = ResetPool(c, filled)
  OBVIOUS
<1>2. PICK ids : ids = ListedPages(c)
  OBVIOUS
<1>3. PICK data : data = [b \in Buffers |->
                           IF b \in {FillOrder[i] : i \in 1 .. filled} THEN {} ELSE c.data[b]]
  OBVIOUS
<1>4. PICK none : none = [l \in Layers |-> << >>]
  OBVIOUS
<1>5. r = <<Context(p[1], none, 0, 0, data), p[2]>>
  BY <1>1, <1>3, <1>4, Zenon DEF ResetForNewRequest, ResetPool
<1>6. /\ r[1].pool = p[1] /\ r[1].pages = none /\ r[1].data = data /\ r[2] = p[2]
      /\ r[1].sequenceLength = 0 /\ r[1].decodePosition = 0
  BY <1>5 DEF Context
<1>7. PoolType(c.pool) /\ FreeListExact(c.pool) /\ PagesOwned(c)
  BY DEF ContextType, PagesExact
<1>8. /\ ids \in Seq(PageIds) /\ Once(ids)
      /\ \A q \in Range(ids) : q \in PageIds /\ c.pool.owner[q] # Unowned
  BY <1>2, <1>7, ListedPagesOwned
<1> DEFINE freed == /\ PoolType(p[1]) /\ FreeListExact(p[1])
                    /\ p[2] <=> filled = Len(FillOrder)
                    /\ p[2] => \A q \in PageIds : p[1].owner[q] # Unowned <=>
                                  (c.pool.owner[q] # Unowned /\ q \notin Range(ids))
<1>9. ASSUME filled = Len(FillOrder), ids # << >>  PROVE freed
  <2>1. p = ReleasePages(c.pool, ids)
    BY <1>1, <1>2, <1>9, Zenon DEF ResetPool
  <2>2. Released(c.pool, ids, p)
    BY <2>1, <1>7, <1>8, ReleasePagesGives
  <2>3. p[2]
    BY <2>2, <1>8, <1>9 DEF Released
  <2>. QED BY <2>2, <2>3, <1>9 DEF Released
<1>10. ASSUME filled = Len(FillOrder), ids = << >>  PROVE freed
  <2>1. p = <<c.pool, TRUE>>
    BY <1>1, <1>2, <1>10, Zenon DEF ResetPool
  <2>2. Range(ids) = {}
    BY <1>10 DEF Range
  <2>. QED BY <2>1, <2>2, <1>7, <1>10
<1>11. ASSUME filled # Len(FillOrder)  PROVE freed
  <2>1. p = <<c.pool, FALSE>>
    BY <1>1, <1>2, <1>11, Zenon DEF ResetPool
  <2>. QED BY <2>1, <1>7, <1>11
<1>12. freed
  BY <1>9, <1>10, <1>11
<1>. HIDE DEF freed
<1>13. none \in [Layers -> Seq(PageIds)] /\ \A l \in Layers : none[l] = << >>
  BY <1>4
<1>14. DOMAIN data = Buffers
  BY <1>3
<1>15. ContextType(r[1])
  BY <1>6, <1>12, <1>13, <1>14, ContextAssumption DEF ContextType, freed
<1>16. PagesExact(r[1])
  <2>1. PagesOwned(r[1])
    BY <1>6, <1>13 DEF PagesOwned
  <2>. QED BY <2>1, <1>6, <1>12 DEF PagesExact, freed
<1>17. ASSUME r[2]  PROVE \A b \in Buffers : r[1].data[b] = {}
  <2>1. filled = Len(FillOrder)
    BY <1>17, <1>6, <1>12 DEF freed
  <2>2. \A b \in Buffers : b \in {FillOrder[i] : i \in 1 .. filled}
    BY <2>1, FillsEveryBuffer
  <2>. QED BY <2>2, <1>3, <1>6
<1>18. ASSUME r[2]  PROVE Lost(r[1]) = Lost(c)
  <2>1. \A q \in PageIds : r[1].pool.owner[q] # Unowned <=>
           (c.pool.owner[q] # Unowned /\ q \notin Range(ids))
    BY <1>18, <1>6, <1>12 DEF freed
  <2>2. Range(ListedPages(r[1])) = {}
    <3>1. ListedWell(r[1], LayerCount, ListedPages(r[1]))
      BY <1>15, ListedPagesWell
    <3>2. \A l \in Layers : Range(r[1].pages[l]) = {}
      BY <1>6, <1>13 DEF Range
    <3>. QED BY <3>1, <3>2 DEF ListedWell
  <2>. QED BY <2>1, <2>2, <1>2 DEF Lost
<1>19. r[2] <=> filled = Len(FillOrder)
  BY <1>6, <1>12 DEF freed
<1>. QED BY <1>6, <1>13, <1>15, <1>16, <1>17, <1>18, <1>19 DEF WasReset

-----------------------------------------------------------------------------
(* The context as it is created *)

LEMMA FreshContextWell ==
  /\ ContextType(FreshContext) /\ PagesExact(FreshContext) /\ Lost(FreshContext) = {}
<1> DEFINE owners == [p \in PageIds |-> Unowned]
           free == [i \in 1 .. TotalPages |-> TotalPages - i]
           none == [l \in Layers |-> << >>]
           data == [b \in Buffers |-> {}]
<1>1. FreshContext = Context(Pool(owners, free), none, 0, 0, data)
  BY Zenon DEF FreshContext, FreshPool
<1>2. owners \in [PageIds -> Layers \cup {Unowned}] /\ \A p \in PageIds : owners[p] = Unowned
  OBVIOUS
<1>3. TotalPages \in Nat /\ 0 \in 0 .. MaxTokens
  BY PoolAssumption, ContextAssumption
<1>4. free \in Seq(PageIds) /\ DOMAIN free = 1 .. TotalPages
  <2>1. \A i \in 1 .. TotalPages : TotalPages - i \in PageIds
    BY <1>3 DEF PageIds
  <2>2. free \in [1 .. TotalPages -> PageIds]
    BY <2>1
  <2>. HIDE DEF free
  <2>. QED BY <2>2, <1>3
<1>5. Range(free) = PageIds
  <2>1. \A p \in PageIds : TotalPages - p \in 1 .. TotalPages /\ free[TotalPages - p] = p
    BY <1>3 DEF PageIds
  <2>2. \A i \in 1 .. TotalPages : free[i] \in PageIds
    BY <1>3 DEF PageIds
  <2>. HIDE DEF free
  <2>. QED BY <2>1, <2>2, <1>4 DEF Range
<1>6. \A i, j \in 1 .. TotalPages : i < j => free[i] > free[j]
  BY <1>3
<1>7. none \in [Layers -> Seq(PageIds)] /\ \A l \in Layers : none[l] = << >>
  OBVIOUS
<1>8. DOMAIN data = Buffers
  OBVIOUS
<1>. HIDE DEF owners, free, none, data
<1>9. /\ FreshContext.pool.owner = owners /\ FreshContext.pool.free = free
      /\ FreshContext.pages = none /\ FreshContext.data = data
      /\ FreshContext.sequenceLength = 0 /\ FreshContext.decodePosition = 0
  BY <1>1 DEF Context, Pool
<1>10. ContextType(FreshContext)
  BY <1>2, <1>3, <1>4, <1>7, <1>8, <1>9 DEF ContextType, PoolType
<1>11. PagesExact(FreshContext)
  BY <1>2, <1>4, <1>5, <1>6, <1>7, <1>9 DEF PagesExact, FreeListExact, PagesOwned
<1>12. Lost(FreshContext) = {}
  BY <1>2, <1>9 DEF Lost
<1>. QED BY <1>10, <1>11, <1>12

LEMMA IntervalSize ==
  ASSUME NEW n \in Nat
  PROVE  /\ IsFiniteSet(1 .. n) /\ Cardinality(1 .. n) = n
         /\ IsFiniteSet(0 .. n - 1) /\ Cardinality(0 .. n - 1) = n
<1>1. 0 \in Int /\ n - 1 \in Int /\ 1 \in Int /\ n \in Int
  OBVIOUS
<1>2. /\ IsFiniteSet(1 .. n) /\ Cardinality(1 .. n) = IF 1 > n THEN 0 ELSE n - 1 + 1
      /\ IsFiniteSet(0 .. n - 1)
      /\ Cardinality(0 .. n - 1) = IF 0 > n - 1 THEN 0 ELSE (n - 1) - 0 + 1
  BY <1>1, FS_Interval
<1>. QED BY <1>2

\* As many free pages are listed as there are pages that are not owned.
LEMMA FreePagesCounted ==
  ASSUME NEW c, ContextType(c), PagesExact(c), \A l \in Layers : c.pages[l] = << >>
  PROVE  Len(c.pool.free) = TotalPages - Cardinality(Lost(c))
<1> DEFINE free == c.pool.free
           U == {p \in PageIds : c.pool.owner[p] = Unowned}
           O == {p \in PageIds : c.pool.owner[p] # Unowned}
<1>1. free \in Seq(PageIds) /\ DOMAIN free = 1 .. Len(free) /\ Len(free) \in Nat
  BY DEF ContextType, PoolType
<1>2. Range(free) = U /\ \A i, j \in 1 .. Len(free) : i < j => free[i] > free[j]
  BY <1>1 DEF PagesExact, FreeListExact
<1>3. TotalPages \in Nat /\ PageIds \subseteq Int /\ PageIds = 0 .. TotalPages - 1
  BY PoolAssumption DEF PageIds
<1>4. IsFiniteSet(PageIds) /\ Cardinality(PageIds) = TotalPages
  BY <1>3, IntervalSize
<1>5. Lost(c) = O
  <2>1. ListedWell(c, LayerCount, ListedPages(c))
    BY ListedPagesWell
  <2>2. \A l \in Layers : Range(c.pages[l]) = {}
    BY DEF Range
  <2>3. Range(ListedPages(c)) = {}
    BY <2>1, <2>2 DEF ListedWell
  <2>. QED BY <2>3 DEF Lost
<1>6. free \in Bijection(1 .. Len(free), U)
  <2>1. \A i, j \in 1 .. Len(free) : free[i] = free[j] => i = j
    <3>1. \A i \in 1 .. Len(free) : free[i] \in Int
      BY <1>1, <1>3
    <3>2. \A i, j \in 1 .. Len(free) : i < j => free[i] # free[j]
      BY <3>1, <1>2
    <3>. QED BY <3>2
  <2>2. free \in [1 .. Len(free) -> U]
    BY <1>1, <1>2 DEF Range
  <2>3. \A p \in U : \E i \in 1 .. Len(free) : free[i] = p
    BY <1>1, <1>2 DEF Range
  <2>. HIDE DEF free, U
  <2>. QED BY <2>1, <2>2, <2>3, <1>1 DEF Bijection, Injection, Surjection, IsInjective
<1>. HIDE DEF free, U, O
<1>7. Cardinality(U) = Len(free)
  <2>1. IsFiniteSet(1 .. Len(free)) /\ Cardinality(1 .. Len(free)) = Len(free)
    BY <1>1, IntervalSize
  <2>2. ExistsBijection(1 .. Len(free), U)
    BY <1>6 DEF ExistsBijection
  <2>. QED BY <2>1, <2>2, FS_Bijection
<1>8. Cardinality(O) = TotalPages - Cardinality(U)
  <2>1. O = PageIds \ U /\ PageIds \cap U = U
    BY DEF O, U
  <2>. QED BY <2>1, <1>4, FS_Difference
<1>9. Len(free) = TotalPages - Cardinality(O)
  BY <1>1, <1>3, <1>7, <1>8
<1>. QED BY <1>5, <1>9 DEF free
=============================================================================
