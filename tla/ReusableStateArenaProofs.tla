---------------------- MODULE ReusableStateArenaProofs ----------------------
(***************************************************************************)
(* Proofs about the arena, for every budget, word size, request size and   *)
(* set of foreign handles: reference counts are exactly the references     *)
(* callers own, a dead handle stays dead, and, where no sum of the sizes   *)
(* exceeds the word, the byte count is the sum of the live allocations.    *)
(***************************************************************************)
EXTENDS ReusableStateArena, TLAPS, FiniteSetTheorems, WellFoundedInduction

Tracked(a, h, count) ==
  /\ h.id \in DOMAIN a.allocations
  /\ a.allocations[h.id] = [kind |-> h.kind, bytes |-> h.bytes, refs |-> count]

\* The inductive invariant, of an arena and the references owned on it.  The
\* last two conjuncts are the strengthening: the handles issued are valid,
\* below the next id, and told apart by their ids, so a count belongs to one
\* handle and an allocation to the handle it was made for.
Owned(a, owned) ==
  /\ a.nextId \in Nat \ {0}
  /\ owned \in [DOMAIN owned -> Nat]
  /\ DOMAIN owned \subseteq Handle
  /\ \A h \in DOMAIN owned : owned[h] > 0 => Tracked(a, h, owned[h])
  /\ \A i \in DOMAIN a.allocations : \E h \in DOMAIN owned : h.id = i /\ owned[h] > 0
  /\ \A h \in DOMAIN owned : HandleValid(h) /\ h.id < a.nextId
  /\ \A g, h \in DOMAIN owned : g.id = h.id => g = h

IInv == Owned(arena, holds)

-----------------------------------------------------------------------------
(* The history variable *)

\* Counts that agree everywhere are the same counts.
LEMMA SameCounts ==
  ASSUME NEW S, NEW f \in [S -> Nat], NEW g \in [S -> Nat], \A h \in S : f[h] = g[h]
  PROVE  f = g
OBVIOUS

\* Granting two handles one after the other is granting both.
LEMMA GrantTwice ==
  ASSUME NEW owned, owned \in [DOMAIN owned -> Nat], NEW g, NEW h, g # h
  PROVE  Grant(Grant(owned, {g}), {h}) = Grant(owned, {g, h})
<1> DEFINE one == Grant(owned, {g})
           two == Grant(one, {h})
           both == Grant(owned, {g, h})
<1> HIDE DEF one, two, both
<1>1. /\ DOMAIN one = DOMAIN owned \cup {g}
      /\ one \in [DOMAIN one -> Nat]
      /\ \A x \in DOMAIN owned \ {g} : one[x] = owned[x]
      /\ \A x \in {g} \ DOMAIN owned : one[x] = 1
      /\ \A x \in {g} \cap DOMAIN owned : one[x] = owned[x] + 1
  BY DEF one, Grant
<1>2. /\ DOMAIN two = DOMAIN one \cup {h}
      /\ two \in [DOMAIN two -> Nat]
      /\ \A x \in DOMAIN one \ {h} : two[x] = one[x]
      /\ \A x \in {h} \ DOMAIN one : two[x] = 1
      /\ \A x \in {h} \cap DOMAIN one : two[x] = one[x] + 1
  BY <1>1 DEF two, Grant
<1>3. /\ DOMAIN both = DOMAIN owned \cup {g, h}
      /\ both \in [DOMAIN both -> Nat]
      /\ \A x \in DOMAIN owned \ {g, h} : both[x] = owned[x]
      /\ \A x \in {g, h} \ DOMAIN owned : both[x] = 1
      /\ \A x \in {g, h} \cap DOMAIN owned : both[x] = owned[x] + 1
  BY DEF both, Grant
<1>4. DOMAIN two = DOMAIN both
  BY <1>1, <1>2, <1>3
<1>5. ASSUME NEW x \in DOMAIN both PROVE two[x] = both[x]
  <2>1. CASE x = g  BY <1>1, <1>2, <1>3, <2>1
  <2>2. CASE x = h  BY <1>1, <1>2, <1>3, <2>2
  <2>3. CASE x \notin {g, h}  BY <1>1, <1>2, <1>3, <2>3
  <2> QED BY <2>1, <2>2, <2>3
<1>6. two = both
  BY <1>2, <1>3, <1>4, <1>5, SameCounts
<1> QED BY <1>6 DEF one, two, both

\* The same, for every pair at once.
LEMMA GrantBoth ==
  \A owned : owned \in [DOMAIN owned -> Nat] =>
    \A g, h : g # h => Grant(Grant(owned, {g}), {h}) = Grant(owned, {g, h})
BY GrantTwice

-----------------------------------------------------------------------------
(* The operations on one handle *)

\* A handle names an allocation exactly when it was issued here and is owned.
LEMMA NamesOwned ==
  ASSUME NEW a, NEW owned, Owned(a, owned), NEW h \in Handle
  PROVE  Names(a, h) <=> h \in DOMAIN owned /\ owned[h] > 0
<1>1. ASSUME h \in DOMAIN owned, owned[h] > 0 PROVE Names(a, h)
  <2>1. Tracked(a, h, owned[h]) /\ HandleValid(h)
    BY <1>1 DEF Owned
  <2> QED BY <2>1 DEF Names, Tracked
<1>2. ASSUME Names(a, h) PROVE h \in DOMAIN owned /\ owned[h] > 0
  <2>1. h.id \in DOMAIN a.allocations
    BY <1>2 DEF Names
  <2>2. PICK g \in DOMAIN owned : g.id = h.id /\ owned[g] > 0
    BY <2>1 DEF Owned
  <2>3. Tracked(a, g, owned[g]) /\ g \in Handle
    BY <2>2 DEF Owned
  <2>4. g.kind = h.kind /\ g.bytes = h.bytes
    BY <1>2, <2>2, <2>3 DEF Tracked, Names
  <2>5. g = h
    BY <2>2, <2>3, <2>4 DEF Handle
  <2> QED BY <2>2, <2>5
<1> QED BY <1>1, <1>2

\* An admitted allocation is owned once, by whoever receives its handle; a
\* refused one changes nothing.
LEMMA AllocateOwned ==
  ASSUME NEW a, NEW owned, Owned(a, owned), NEW kind \in StateKinds, NEW bytes \in Nat
  PROVE  LET r == Allocate(a, kind, bytes) IN
         /\ ~HandleValid(r[2]) => r = <<a, NoHandle>>
         /\ HandleValid(r[2]) =>
              /\ r[2] \in Handle
              /\ r[2] \notin DOMAIN owned
              /\ r[1].nextId = a.nextId + 1
              /\ Owned(r[1], Grant(owned, {r[2]}))
<1> DEFINE r == Allocate(a, kind, bytes)
           h == [id |-> a.nextId, kind |-> kind, bytes |-> bytes]
           live == [i \in DOMAIN a.allocations \cup {a.nextId} |->
                      IF i = a.nextId THEN [kind |-> kind, bytes |-> bytes, refs |-> 1]
                                      ELSE a.allocations[i]]
           grown == Grant(owned, {h})
<1>1. CASE ~Admits(a, bytes)
  BY <1>1 DEF Allocate, NoHandle, HandleValid
<1>2. CASE Admits(a, bytes)
  <2>1. r[2] = h /\ r[1].nextId = a.nextId + 1 /\ r[1].allocations = live
    BY <1>2 DEF Allocate, Arena
  <2>2. h \in Handle /\ HandleValid(h) /\ h.id = a.nextId
    BY <1>2 DEF Handle, HandleValid, Admits, Owned
  <2>3. h \notin DOMAIN owned /\ owned \in [DOMAIN owned -> Nat]
    BY <2>2 DEF Owned
  <2>4. /\ DOMAIN live = DOMAIN a.allocations \cup {h.id}
        /\ live[h.id] = [kind |-> h.kind, bytes |-> h.bytes, refs |-> 1]
        /\ \A i \in DOMAIN a.allocations : i # h.id => live[i] = a.allocations[i]
    OBVIOUS
  <2> HIDE DEF h, live, r
  <2>5. /\ DOMAIN grown = DOMAIN owned \cup {h}
        /\ grown[h] = 1
        /\ \A g \in DOMAIN owned : grown[g] = owned[g]
        /\ grown \in [DOMAIN grown -> Nat]
    BY <2>3 DEF Grant
  <2> HIDE DEF grown
  <2>6. ASSUME NEW i \in DOMAIN live PROVE \E g \in DOMAIN grown : g.id = i /\ grown[g] > 0
    <3>1. CASE i = h.id  BY <3>1, <2>5
    <3>2. CASE i # h.id
      <4>1. PICK g \in DOMAIN owned : g.id = i /\ owned[g] > 0
        BY <3>2, <2>4 DEF Owned
      <4> QED BY <4>1, <2>5
    <3> QED BY <3>1, <3>2
  <2>7. ASSUME NEW g \in DOMAIN grown, grown[g] > 0
        PROVE  g.id \in DOMAIN live
               /\ live[g.id] = [kind |-> g.kind, bytes |-> g.bytes, refs |-> grown[g]]
    <3>1. CASE g = h
      BY <3>1, <2>4, <2>5
    <3>2. CASE g # h
      <4>1. g \in DOMAIN owned /\ Tracked(a, g, owned[g]) /\ grown[g] = owned[g]
        BY <3>2, <2>5, <2>7 DEF Owned
      <4>2. g.id # h.id
        BY <4>1, <2>2 DEF Owned, Handle
      <4> QED BY <4>1, <4>2, <2>4 DEF Tracked
    <3> QED BY <3>1, <3>2
  <2>8. Owned(r[1], grown)
    <3>1. \A g \in DOMAIN grown : HandleValid(g) /\ g.id < r[1].nextId
      BY <2>1, <2>2, <2>5 DEF Owned, Handle
    <3>2. \A f, g \in DOMAIN grown : f.id = g.id => f = g
      BY <2>2, <2>5 DEF Owned, Handle
    <3>3. r[1].nextId \in Nat \ {0}
      BY <2>1 DEF Owned
    <3>4. DOMAIN grown \subseteq Handle
      BY <2>2, <2>5 DEF Owned
    <3> QED BY <2>1, <2>5, <2>6, <2>7, <3>1, <3>2, <3>3, <3>4 DEF Owned, Tracked
  <2> QED BY <2>1, <2>2, <2>3, <2>8 DEF r, grown
<1> QED BY <1>1, <1>2

\* Changing the count of one owned handle, in the arena and in owned alike.
LEMMA RecountOwned ==
  ASSUME NEW a, NEW owned, Owned(a, owned), NEW h \in DOMAIN owned, owned[h] > 0,
         NEW count \in Nat \ {0}, NEW new, new \in [DOMAIN owned -> Nat],
         new[h] = count, \A g \in DOMAIN owned : g # h => new[g] = owned[g]
  PROVE  Owned(WithRefs(a, h, count), new)
<1> DEFINE b == WithRefs(a, h, count)
<1>1. /\ b.nextId = a.nextId
      /\ DOMAIN b.allocations = DOMAIN a.allocations
      /\ \A i \in DOMAIN a.allocations : b.allocations[i] =
           IF i = h.id THEN [kind |-> h.kind, bytes |-> h.bytes, refs |-> count]
                       ELSE a.allocations[i]
  BY DEF WithRefs, Arena
<1>2. DOMAIN new = DOMAIN owned
  OBVIOUS
<1> HIDE DEF b
<1>3. ASSUME NEW g \in DOMAIN new, new[g] > 0 PROVE Tracked(b, g, new[g])
  <2>1. CASE g = h
    BY <2>1, <1>1 DEF Owned, Tracked
  <2>2. CASE g # h
    <3>1. Tracked(a, g, owned[g]) /\ new[g] = owned[g] /\ g.id # h.id
      BY <2>2, <1>2, <1>3 DEF Owned
    <3> QED BY <3>1, <1>1 DEF Tracked
  <2> QED BY <2>1, <2>2
<1>4. ASSUME NEW i \in DOMAIN b.allocations PROVE \E g \in DOMAIN new : g.id = i /\ new[g] > 0
  <2>1. PICK g \in DOMAIN owned : g.id = i /\ owned[g] > 0
    BY <1>1 DEF Owned
  <2>2. new[g] > 0
    BY <2>1
  <2> QED BY <1>2, <2>1, <2>2
<1> QED BY <1>1, <1>2, <1>3, <1>4 DEF Owned, b

\* The arena's count for an owned handle is the number of references owned.
LEMMA RefsOwned ==
  ASSUME NEW a, NEW owned, Owned(a, owned), NEW h \in DOMAIN owned, owned[h] > 0
  PROVE  a.allocations[h.id].refs = owned[h] /\ owned[h] \in Nat
<1>1. Tracked(a, h, owned[h])
  BY DEF Owned
<1>2. owned \in [DOMAIN owned -> Nat]
  BY DEF Owned
<1>3. owned[h] \in Nat
  BY <1>2
<1> QED BY <1>1, <1>3 DEF Tracked

\* A successful Retain gives the caller one more reference on a live handle.
LEMMA RetainOwned ==
  ASSUME NEW a, NEW owned, Owned(a, owned), NEW h \in Handle
  PROVE  LET r == Retain(a, h) IN
         /\ r[2] \in BOOLEAN
         /\ ~r[2] => r[1] = a
         /\ r[2] => Names(a, h) /\ Owned(r[1], Grant(owned, {h}))
<1> DEFINE r == Retain(a, h)
           grown == Grant(owned, {h})
<1>1. CASE ~Names(a, h)
  BY <1>1 DEF Retain
<1>2. CASE Names(a, h)
  <2>1. h \in DOMAIN owned /\ owned[h] > 0
    BY <1>2, NamesOwned
  <2>2. a.allocations[h.id].refs = owned[h] /\ owned[h] \in Nat
    BY <2>1, RefsOwned
  <2>3. r = <<WithRefs(a, h, owned[h] + 1), TRUE>>
    BY <1>2, <2>2 DEF Retain
  <2>8. owned \in [DOMAIN owned -> Nat] /\ DOMAIN owned \cup {h} = DOMAIN owned
    BY <2>1, ZenonT(60) DEF Owned
  <2>4. /\ grown \in [DOMAIN owned -> Nat]
        /\ grown[h] = owned[h] + 1
        /\ \A g \in DOMAIN owned : g # h => grown[g] = owned[g]
    BY <2>1, <2>8 DEF Grant
  <2>5. Owned(WithRefs(a, h, owned[h] + 1), grown)
    <3> HIDE DEF grown
    <3>1. owned[h] + 1 \in Nat \ {0}
      BY <2>2
    <3> QED BY <2>1, <2>4, <3>1, RecountOwned
  <2> QED BY <1>2, <2>3, <2>5
<1> QED BY <1>1, <1>2

\* Release takes one reference of the caller's away, and frees the allocation
\* with the last one; it ignores handles nobody owns.
LEMMA ReleaseOwned ==
  ASSUME NEW a, NEW owned, Owned(a, owned), NEW h \in Handle
  PROVE  Owned(Release(a, h), Yield(owned, {h}))
<1> DEFINE rest == Yield(owned, {h})
<1>1. owned \in [DOMAIN owned -> Nat]
  BY DEF Owned
<1>2. /\ rest \in [DOMAIN owned -> Nat]
      /\ \A g \in DOMAIN owned : g # h => rest[g] = owned[g]
      /\ h \in DOMAIN owned /\ owned[h] > 0 => rest[h] = owned[h] - 1
      /\ h \in DOMAIN owned /\ ~(owned[h] > 0) => rest[h] = owned[h]
  BY <1>1 DEF Yield
<1> HIDE DEF rest
<1>3. CASE ~Names(a, h)
  <2>1. ~(h \in DOMAIN owned /\ owned[h] > 0)
    BY <1>3, NamesOwned
  <2>2. \A g \in DOMAIN owned : rest[g] = owned[g]
    BY <1>2, <2>1
  <2>3. rest = owned
    BY <1>1, <1>2, <2>2, SameCounts
  <2>4. Release(a, h) = a
    BY <1>3 DEF Release
  <2> QED BY <2>3, <2>4 DEF rest
<1>4. CASE Names(a, h)
  <2>1. h \in DOMAIN owned /\ owned[h] > 0
    BY <1>4, NamesOwned
  <2>2. a.allocations[h.id].refs = owned[h] /\ owned[h] \in Nat
    BY <2>1, RefsOwned
  <2>3. CASE owned[h] > 1
    <3> DEFINE left == owned[h] - 1
    <3>1. Release(a, h) = WithRefs(a, h, left)
      BY <1>4, <2>2, <2>3 DEF Release
    <3>2. left \in Nat \ {0} /\ rest[h] = left
      BY <1>2, <2>1, <2>2, <2>3
    <3> HIDE DEF left
    <3>3. \A g \in DOMAIN owned : g # h => rest[g] = owned[g]
      BY <1>2
    <3>4. rest \in [DOMAIN owned -> Nat]
      BY <1>2
    <3>5. Owned(WithRefs(a, h, left), rest)
      BY <2>1, <3>2, <3>3, <3>4, RecountOwned
    <3> QED BY <3>1, <3>5 DEF rest
  <2>4. CASE owned[h] = 1
    <3> DEFINE b == Release(a, h)
    <3>1. /\ b.nextId = a.nextId
          /\ DOMAIN b.allocations = DOMAIN a.allocations \ {h.id}
          /\ \A i \in DOMAIN a.allocations \ {h.id} : b.allocations[i] = a.allocations[i]
      BY <1>4, <2>2, <2>4 DEF Release, Arena
    <3> HIDE DEF b
    <3>2. rest[h] = 0 /\ DOMAIN rest = DOMAIN owned
      BY <1>2, <2>1, <2>4
    <3>3. ASSUME NEW g \in DOMAIN rest, rest[g] > 0 PROVE Tracked(b, g, rest[g])
      <4>1. g # h /\ g \in DOMAIN owned /\ rest[g] = owned[g]
        BY <1>2, <3>2, <3>3
      <4>2. Tracked(a, g, owned[g]) /\ g.id # h.id
        BY <2>1, <3>3, <4>1 DEF Owned
      <4> QED BY <3>1, <4>1, <4>2 DEF Tracked
    <3>4. ASSUME NEW i \in DOMAIN b.allocations
          PROVE  \E g \in DOMAIN rest : g.id = i /\ rest[g] > 0
      <4>1. PICK g \in DOMAIN owned : g.id = i /\ owned[g] > 0
        BY <3>1 DEF Owned
      <4>2. g # h
        BY <3>1, <4>1
      <4> QED BY <1>2, <3>2, <4>1, <4>2
    <3>5. Owned(b, rest)
      BY <1>2, <3>1, <3>2, <3>3, <3>4 DEF Owned
    <3> QED BY <3>5 DEF b, rest
  <2> QED BY <2>1, <2>2, <2>3, <2>4
<1> QED BY <1>3, <1>4

\* Giving back what was just granted restores the counts; a handle that was
\* not owned before is left with none.
LEMMA YieldGranted ==
  ASSUME NEW owned, owned \in [DOMAIN owned -> Nat], NEW h
  PROVE  LET back == Yield(Grant(owned, {h}), {h}) IN
         /\ back \in [DOMAIN owned \cup {h} -> Nat]
         /\ \A g \in DOMAIN owned : back[g] = owned[g]
         /\ h \notin DOMAIN owned => back[h] = 0
<1> DEFINE grown == Grant(owned, {h})
           back == Yield(grown, {h})
<1>1. /\ grown \in [DOMAIN owned \cup {h} -> Nat]
      /\ \A g \in DOMAIN owned : g # h => grown[g] = owned[g]
      /\ h \in DOMAIN owned => grown[h] = owned[h] + 1
      /\ h \notin DOMAIN owned => grown[h] = 1
  BY DEF Grant
<1> HIDE DEF grown
<1>2. DOMAIN grown = DOMAIN owned \cup {h}
  BY <1>1
<1>3. back = [g \in DOMAIN grown |->
                IF g \in {h} /\ grown[g] > 0 THEN grown[g] - 1 ELSE grown[g]]
  BY DEF Yield
<1> HIDE DEF back
<1>4. back \in [DOMAIN owned \cup {h} -> Nat]
  BY <1>1, <1>2, <1>3
<1>5. ASSUME NEW g \in DOMAIN owned PROVE back[g] = owned[g]
  <2>1. CASE g = h  BY <1>1, <1>2, <1>3, <2>1
  <2>2. CASE g # h  BY <1>1, <1>2, <1>3, <2>2
  <2> QED BY <2>1, <2>2
<1>6. h \notin DOMAIN owned => back[h] = 0
  BY <1>1, <1>2, <1>3
<1> QED BY <1>4, <1>5, <1>6 DEF back, grown

\* A handle without references can be forgotten.
LEMMA ForgetOwned ==
  ASSUME NEW a, NEW more, Owned(a, more), NEW owned, owned \in [DOMAIN owned -> Nat],
         DOMAIN owned \subseteq DOMAIN more,
         \A h \in DOMAIN owned : more[h] = owned[h],
         \A h \in DOMAIN more \ DOMAIN owned : more[h] = 0
  PROVE  Owned(a, owned)
<1>1. ASSUME NEW i \in DOMAIN a.allocations
      PROVE  \E h \in DOMAIN owned : h.id = i /\ owned[h] > 0
  <2>1. PICK h \in DOMAIN more : h.id = i /\ more[h] > 0
    BY DEF Owned
  <2>2. h \in DOMAIN owned
    BY <2>1
  <2> QED BY <2>1, <2>2
<1>2. \A h \in DOMAIN owned : owned[h] > 0 => Tracked(a, h, owned[h])
  BY DEF Owned
<1> QED BY <1>1, <1>2 DEF Owned

-----------------------------------------------------------------------------
(* The operations on descriptors *)

\* A descriptor is owned in both halves or not at all: when the Mamba half is
\* refused, nothing is left of the KV half but its id.
LEMMA AllocateDescriptorOwned ==
  ASSUME NEW a, NEW owned, Owned(a, owned), NEW kvBytes \in Nat, NEW mambaBytes \in Nat
  PROVE  LET r == AllocateDescriptor(a, kvBytes, mambaBytes) IN
         /\ DescriptorValid(r[2]) =>
              /\ Owned(r[1], Grant(owned, {r[2].kv, r[2].mamba}))
              /\ r[2].kv \notin DOMAIN owned /\ r[2].mamba \notin DOMAIN owned
         /\ ~DescriptorValid(r[2]) => Owned(r[1], owned)
<1> DEFINE r == AllocateDescriptor(a, kvBytes, mambaBytes)
           kv == Allocate(a, "kv", kvBytes)
           mamba == Allocate(kv[1], "mamba", mambaBytes)
           one == Grant(owned, {kv[2]})
<1>1. "kv" \in StateKinds /\ "mamba" \in StateKinds
  BY DEF StateKinds
<1>2. /\ ~HandleValid(kv[2]) => kv = <<a, NoHandle>>
      /\ HandleValid(kv[2]) => /\ kv[2] \in Handle
                               /\ kv[2] \notin DOMAIN owned
                               /\ Owned(kv[1], one)
  BY <1>1, AllocateOwned
<1>3. ~DescriptorValid(NoDescriptor)
  BY DEF DescriptorValid, NoDescriptor, NoHandle, HandleValid
<1>4. CASE ~HandleValid(kv[2])
  <2>1. r = <<kv[1], NoDescriptor>>
    BY <1>4 DEF AllocateDescriptor
  <2>2. kv[1] = a
    BY <1>2, <1>4
  <2> QED BY <1>3, <2>1, <2>2
<1>5. CASE HandleValid(kv[2])
  <2>1. /\ ~HandleValid(mamba[2]) => mamba = <<kv[1], NoHandle>>
        /\ HandleValid(mamba[2]) =>
             /\ mamba[2] \in Handle
             /\ mamba[2] \notin DOMAIN one
             /\ Owned(mamba[1], Grant(one, {mamba[2]}))
    <3>1. Owned(kv[1], one)
      BY <1>2, <1>5
    <3> HIDE DEF kv, one
    <3> QED BY <1>1, <3>1, AllocateOwned
  <2>2. owned \in [DOMAIN owned -> Nat]
    BY DEF Owned
  <2>3. CASE HandleValid(mamba[2])
    <3>1. r = <<mamba[1], [kv |-> kv[2], mamba |-> mamba[2]]>>
      BY <1>5, <2>3 DEF AllocateDescriptor
    <3>2. DOMAIN one = DOMAIN owned \cup {kv[2]}
      BY DEF Grant
    <3>3. kv[2] # mamba[2]
      BY <2>1, <2>3, <3>2
    <3>4. Grant(one, {mamba[2]}) = Grant(owned, {kv[2], mamba[2]})
      <4> HIDE DEF mamba, kv
      <4>1. \A g, h : g # h => Grant(Grant(owned, {g}), {h}) = Grant(owned, {g, h})
        BY <2>2, GrantBoth
      <4>2. Grant(Grant(owned, {kv[2]}), {mamba[2]}) = Grant(owned, {kv[2], mamba[2]})
        BY <3>3, <4>1
      <4> QED BY <4>2 DEF one
    <3>5. DescriptorValid(r[2])
      BY <1>5, <2>3, <3>1 DEF DescriptorValid
    <3>6. kv[2] \notin DOMAIN owned /\ mamba[2] \notin DOMAIN owned
      BY <1>2, <1>5, <2>1, <2>3, <3>2
    <3> QED BY <2>1, <2>3, <3>1, <3>4, <3>5, <3>6
  <2>4. CASE ~HandleValid(mamba[2])
    <3> DEFINE back == Yield(one, {kv[2]})
               b == Release(kv[1], kv[2])
    <3>1. r = <<b, NoDescriptor>>
      BY <1>5, <2>1, <2>4 DEF AllocateDescriptor
    <3>2. Owned(b, back)
      BY <1>2, <1>5, ReleaseOwned
    <3>3. /\ back \in [DOMAIN owned \cup {kv[2]} -> Nat]
          /\ \A g \in DOMAIN owned : back[g] = owned[g]
          /\ back[kv[2]] = 0
      <4> DEFINE h == kv[2]
      <4>1. h \notin DOMAIN owned
        BY <1>2, <1>5
      <4> HIDE DEF h
      <4>2. LET last == Yield(Grant(owned, {h}), {h}) IN
            /\ last \in [DOMAIN owned \cup {h} -> Nat]
            /\ \A g \in DOMAIN owned : last[g] = owned[g]
            /\ h \notin DOMAIN owned => last[h] = 0
        BY <2>2, YieldGranted
      <4> QED BY <4>1, <4>2 DEF h
    <3> HIDE DEF back, b, one, kv, mamba, r
    <3>4. /\ DOMAIN owned \subseteq DOMAIN back
          /\ \A g \in DOMAIN back \ DOMAIN owned : back[g] = 0
      BY <3>3
    <3>5. Owned(b, owned)
      BY <2>2, <3>2, <3>3, <3>4, ForgetOwned
    <3> QED BY <1>3, <3>1, <3>5 DEF r
  <2> QED BY <2>3, <2>4
<1> QED BY <1>4, <1>5

\* A descriptor is retained in both halves or not at all.
LEMMA RetainDescriptorOwned ==
  ASSUME NEW a, NEW owned, Owned(a, owned),
         NEW d, d.kv \in Handle, d.mamba \in Handle, d.kv # d.mamba
  PROVE  LET r == RetainDescriptor(a, d) IN
         /\ r[2] \in BOOLEAN
         /\ r[2] => /\ Owned(r[1], Grant(owned, {d.kv, d.mamba}))
                    /\ \A h \in {d.kv, d.mamba} : h \in DOMAIN owned /\ owned[h] > 0
         /\ ~r[2] => Owned(r[1], owned)
<1> DEFINE r == RetainDescriptor(a, d)
           kv == Retain(a, d.kv)
           mamba == Retain(kv[1], d.mamba)
           one == Grant(owned, {d.kv})
<1>1. kv[2] \in BOOLEAN /\ (kv[2] => Names(a, d.kv) /\ Owned(kv[1], one))
  BY RetainOwned
<1>2. CASE ~DescriptorValid(d) \/ ~kv[2]
  <2>1. r = <<a, FALSE>>
    BY <1>2 DEF RetainDescriptor
  <2> QED BY <2>1
<1>3. CASE DescriptorValid(d) /\ kv[2]
  <2>1. /\ mamba[2] \in BOOLEAN
        /\ ~mamba[2] => mamba[1] = kv[1]
        /\ mamba[2] => Names(kv[1], d.mamba) /\ Owned(mamba[1], Grant(one, {d.mamba}))
    BY <1>1, <1>3, RetainOwned
  <2>2. owned \in [DOMAIN owned -> Nat]
    BY DEF Owned
  <2>3. CASE mamba[2]
    <3>1. r = mamba
      BY <1>3, <2>3 DEF RetainDescriptor
    <3>2. Grant(one, {d.mamba}) = Grant(owned, {d.kv, d.mamba})
      <4> DEFINE g == d.kv
                 h == d.mamba
      <4> HIDE DEF g, h
      <4>1. g # h
        BY DEF g, h
      <4>2. Grant(Grant(owned, {g}), {h}) = Grant(owned, {g, h})
        BY <2>2, <4>1, GrantTwice
      <4> QED BY <4>2 DEF g, h
    <3>3. d.kv \in DOMAIN owned /\ owned[d.kv] > 0
      BY <1>1, <1>3, NamesOwned
    <3>4. d.mamba \in DOMAIN one /\ one[d.mamba] > 0
      BY <1>1, <1>3, <2>1, <2>3, NamesOwned
    <3>5. d.mamba \in DOMAIN owned /\ owned[d.mamba] > 0
      BY <2>2, <3>3, <3>4 DEF Grant
    <3> QED BY <2>1, <2>3, <3>1, <3>2, <3>3, <3>5
  <2>4. CASE ~mamba[2]
    <3> DEFINE back == Yield(one, {d.kv})
               b == Release(mamba[1], d.kv)
    <3>1. r = <<b, FALSE>>
      BY <1>3, <2>4 DEF RetainDescriptor
    <3>2. Owned(b, back)
      BY <1>1, <1>3, <2>1, <2>4, ReleaseOwned
    <3>3. /\ back \in [DOMAIN owned \cup {d.kv} -> Nat]
          /\ \A g \in DOMAIN owned : back[g] = owned[g]
          /\ d.kv \notin DOMAIN owned => back[d.kv] = 0
      BY <2>2, YieldGranted
    <3> HIDE DEF back, b, one, kv, mamba, r
    <3>4. /\ DOMAIN owned \subseteq DOMAIN back
          /\ \A g \in DOMAIN back \ DOMAIN owned : back[g] = 0
      BY <3>3
    <3>5. Owned(b, owned)
      BY <2>2, <3>2, <3>3, <3>4, ForgetOwned
    <3> QED BY <3>1, <3>5 DEF r
  <2> QED BY <2>1, <2>3, <2>4
<1> QED BY <1>1, <1>2, <1>3

\* Yielding two handles one after the other is yielding both.
LEMMA YieldTwice ==
  ASSUME NEW owned, owned \in [DOMAIN owned -> Nat], NEW g, NEW h, g # h
  PROVE  Yield(Yield(owned, {g}), {h}) = Yield(owned, {g, h})
<1> DEFINE one == Yield(owned, {g})
           two == Yield(one, {h})
           both == Yield(owned, {g, h})
<1> HIDE DEF one, two, both
<1>1. one \in [DOMAIN owned -> Nat]
      /\ \A x \in DOMAIN owned :
           one[x] = IF x = g /\ owned[x] > 0 THEN owned[x] - 1 ELSE owned[x]
  BY DEF one, Yield
<1>2. two \in [DOMAIN owned -> Nat]
      /\ \A x \in DOMAIN owned :
           two[x] = IF x = h /\ one[x] > 0 THEN one[x] - 1 ELSE one[x]
  BY <1>1 DEF two, Yield
<1>3. both \in [DOMAIN owned -> Nat]
      /\ \A x \in DOMAIN owned : both[x] =
           IF x \in {g, h} /\ owned[x] > 0 THEN owned[x] - 1 ELSE owned[x]
  BY DEF both, Yield
<1>4. ASSUME NEW x \in DOMAIN owned PROVE two[x] = both[x]
  <2>1. CASE x = g  BY <1>1, <1>2, <1>3, <2>1
  <2>2. CASE x = h  BY <1>1, <1>2, <1>3, <2>2
  <2>3. CASE x \notin {g, h}  BY <1>1, <1>2, <1>3, <2>3
  <2> QED BY <2>1, <2>2, <2>3
<1>5. two = both
  BY <1>2, <1>3, <1>4, SameCounts
<1> QED BY <1>5 DEF one, two, both

-----------------------------------------------------------------------------
(* The specification *)

LEMMA InitIInv == Init => IInv
BY DEF Init, IInv, Owned, EmptyArena, Arena, Tracked

LEMMA PossessedHandles == ASSUME IInv PROVE Possessed \subseteq Handle
<1>1. NoHandle \in Handle
  BY DEF NoHandle, Handle, StateKinds
<1>2. Issued \subseteq Handle
  BY DEF IInv, Owned, Issued
<1> QED BY <1>1, <1>2, CallerAssumption DEF Possessed

\* Every call keeps the invariant.
LEMMA NextIInv == IInv /\ [Next]_vars => IInv'
<1> SUFFICES ASSUME IInv, [Next]_vars PROVE IInv'
  OBVIOUS
<1> USE DEF IInv
<1>1. ASSUME NEW kind \in StateKinds, NEW bytes \in RequestSizes, CallAllocate(kind, bytes)
      PROVE  IInv'
  <2> DEFINE r == Allocate(arena, kind, bytes)
  <2>1. bytes \in Nat
    BY CallerAssumption
  <2>2. arena' = r[1]
        /\ holds' = IF HandleValid(r[2]) THEN Grant(holds, {r[2]}) ELSE holds
    BY <1>1 DEF CallAllocate
  <2>3. /\ ~HandleValid(r[2]) => r = <<arena, NoHandle>>
        /\ HandleValid(r[2]) => Owned(r[1], Grant(holds, {r[2]}))
    BY <2>1, AllocateOwned
  <2> HIDE DEF r
  <2>4. CASE HandleValid(r[2])  BY <2>2, <2>3, <2>4
  <2>5. CASE ~HandleValid(r[2])  BY <2>2, <2>3, <2>5
  <2> QED BY <2>4, <2>5
<1>2. ASSUME NEW kvBytes \in RequestSizes, NEW mambaBytes \in RequestSizes,
             CallAllocateDescriptor(kvBytes, mambaBytes)
      PROVE  IInv'
  <2> DEFINE r == AllocateDescriptor(arena, kvBytes, mambaBytes)
  <2>1. kvBytes \in Nat /\ mambaBytes \in Nat
    BY CallerAssumption
  <2>2. arena' = r[1]
        /\ holds' = IF DescriptorValid(r[2]) THEN Grant(holds, {r[2].kv, r[2].mamba})
                                             ELSE holds
    BY <1>2 DEF CallAllocateDescriptor
  <2>3. /\ DescriptorValid(r[2]) => Owned(r[1], Grant(holds, {r[2].kv, r[2].mamba}))
        /\ ~DescriptorValid(r[2]) => Owned(r[1], holds)
    BY <2>1, AllocateDescriptorOwned
  <2> HIDE DEF r
  <2>4. CASE DescriptorValid(r[2])  BY <2>2, <2>3, <2>4
  <2>5. CASE ~DescriptorValid(r[2])  BY <2>2, <2>3, <2>5
  <2> QED BY <2>4, <2>5
<1>3. ASSUME NEW h \in Possessed, CallRetain(h) PROVE IInv'
  <2> DEFINE r == Retain(arena, h)
  <2>1. h \in Handle
    BY PossessedHandles
  <2>2. arena' = r[1] /\ holds' = IF r[2] THEN Grant(holds, {h}) ELSE holds
    BY <1>3 DEF CallRetain
  <2>3. /\ r[2] \in BOOLEAN
        /\ ~r[2] => r[1] = arena
        /\ r[2] => Owned(r[1], Grant(holds, {h}))
    BY <2>1, RetainOwned
  <2> HIDE DEF r
  <2>4. CASE r[2]  BY <2>2, <2>3, <2>4
  <2>5. CASE ~r[2]  BY <2>2, <2>3, <2>5
  <2> QED BY <2>4, <2>5
<1>4. ASSUME NEW d \in Descriptors, CallRetainDescriptor(d) PROVE IInv'
  <2> DEFINE r == RetainDescriptor(arena, d)
  <2>1. d.kv \in Handle /\ d.mamba \in Handle
    BY PossessedHandles DEF Descriptors
  <2>2. /\ d.kv # d.mamba
        /\ arena' = r[1]
        /\ holds' = IF r[2] THEN Grant(holds, {d.kv, d.mamba}) ELSE holds
    BY <1>4 DEF CallRetainDescriptor
  <2>3. /\ r[2] \in BOOLEAN
        /\ r[2] => Owned(r[1], Grant(holds, {d.kv, d.mamba}))
        /\ ~r[2] => Owned(r[1], holds)
    BY <2>1, <2>2, RetainDescriptorOwned
  <2> HIDE DEF r
  <2>4. CASE r[2]  BY <2>2, <2>3, <2>4
  <2>5. CASE ~r[2]  BY <2>2, <2>3, <2>5
  <2> QED BY <2>3, <2>4, <2>5
<1>5. ASSUME NEW h \in Possessed, CallRelease(h) PROVE IInv'
  <2>1. h \in Handle
    BY PossessedHandles
  <2>2. Owned(Release(arena, h), Yield(holds, {h}))
    BY <2>1, ReleaseOwned
  <2> QED BY <1>5, <2>2 DEF CallRelease
<1>6. ASSUME NEW d \in Descriptors, CallReleaseDescriptor(d) PROVE IInv'
  <2> DEFINE one == Release(arena, d.kv)
             rest == Yield(holds, {d.kv})
  <2>1. d.kv \in Handle /\ d.mamba \in Handle
    BY PossessedHandles DEF Descriptors
  <2>2. d.kv # d.mamba
        /\ arena' = Release(one, d.mamba) /\ holds' = Yield(holds, {d.kv, d.mamba})
    BY <1>6 DEF CallReleaseDescriptor, ReleaseDescriptor
  <2>3. Owned(one, rest)
    BY <2>1, ReleaseOwned
  <2>4. Owned(Release(one, d.mamba), Yield(rest, {d.mamba}))
    BY <2>1, <2>3, ReleaseOwned
  <2>5. holds \in [DOMAIN holds -> Nat]
    BY DEF Owned
  <2>6. Yield(rest, {d.mamba}) = Yield(holds, {d.kv, d.mamba})
    <3> DEFINE g == d.kv
               h == d.mamba
    <3> HIDE DEF g, h
    <3>1. g # h
      BY <2>2 DEF g, h
    <3>2. Yield(Yield(holds, {g}), {h}) = Yield(holds, {g, h})
      BY <2>5, <3>1, YieldTwice, SMTT(30)
    <3> QED BY <3>2 DEF g, h
  <2> QED BY <2>2, <2>4, <2>6
<1>7. CASE UNCHANGED vars
  BY <1>7 DEF vars
<1> QED BY <1>1, <1>2, <1>3, <1>4, <1>5, <1>6, <1>7 DEF Next

\* The invariant holds throughout.
THEOREM Invariance == Spec => []IInv
BY InitIInv, NextIInv, PTL DEF Spec

\* Type correctness, for every constant.
THEOREM TypeCorrect == Spec => []TypeOK
<1>1. IInv => TypeOK
  <2> SUFFICES ASSUME IInv PROVE TypeOK
    OBVIOUS
  <2> USE DEF IInv, Owned
  <2>1. ASSUME NEW i \in DOMAIN arena.allocations
        PROVE  i \in Nat \ {0} /\ arena.allocations[i] \in Allocation
    <3>1. PICK h \in DOMAIN holds : h.id = i /\ holds[h] > 0
      BY <2>1
    <3>2. Tracked(arena, h, holds[h]) /\ HandleValid(h) /\ h \in Handle /\ holds[h] \in Nat
      BY <3>1
    <3> QED BY <3>1, <3>2 DEF Tracked, HandleValid, Handle, Allocation
  <2> QED BY <2>1 DEF TypeOK, Issued
<1> QED BY <1>1, Invariance, PTL

\* The arena's reference counts are the references its callers own, through
\* every sequence of calls, refused and half-refused ones included.
THEOREM ReferencesExact == Spec => []RefsMatchHolds
<1>1. IInv => RefsMatchHolds
  BY DEF IInv, Owned, Tracked, RefsMatchHolds, Issued
<1> QED BY <1>1, Invariance, PTL

\* No call gives a reference back to a handle that lost its last one.
LEMMA DeadStayDead ==
  ASSUME IInv, [Next]_vars, NEW g \in Issued, holds[g] = 0
  PROVE  g \in Issued' /\ holds'[g] = 0
<1> USE DEF IInv, Issued
<1>1. holds \in [DOMAIN holds -> Nat]
  BY DEF Owned
<1>2. ASSUME NEW hs, g \notin hs
      PROVE  g \in DOMAIN Grant(holds, hs) /\ Grant(holds, hs)[g] = 0
  BY <1>1, <1>2 DEF Grant
<1>3. ASSUME NEW hs
      PROVE  g \in DOMAIN Yield(holds, hs) /\ Yield(holds, hs)[g] = 0
  BY <1>1 DEF Yield
<1>4. ASSUME NEW kind \in StateKinds, NEW bytes \in RequestSizes, CallAllocate(kind, bytes)
      PROVE  g \in DOMAIN holds' /\ holds'[g] = 0
  <2> DEFINE r == Allocate(arena, kind, bytes)
  <2>1. HandleValid(r[2]) => r[2] \notin DOMAIN holds
    BY CallerAssumption, AllocateOwned
  <2>2. holds' = IF HandleValid(r[2]) THEN Grant(holds, {r[2]}) ELSE holds
    BY <1>4 DEF CallAllocate
  <2> HIDE DEF r
  <2> QED BY <1>2, <2>1, <2>2
<1>5. ASSUME NEW kvBytes \in RequestSizes, NEW mambaBytes \in RequestSizes,
             CallAllocateDescriptor(kvBytes, mambaBytes)
      PROVE  g \in DOMAIN holds' /\ holds'[g] = 0
  <2> DEFINE r == AllocateDescriptor(arena, kvBytes, mambaBytes)
  <2>1. DescriptorValid(r[2]) => r[2].kv \notin DOMAIN holds /\ r[2].mamba \notin DOMAIN holds
    BY CallerAssumption, AllocateDescriptorOwned
  <2>2. holds' = IF DescriptorValid(r[2]) THEN Grant(holds, {r[2].kv, r[2].mamba}) ELSE holds
    BY <1>5 DEF CallAllocateDescriptor
  <2> HIDE DEF r
  <2> QED BY <1>2, <2>1, <2>2
<1>6. ASSUME NEW h \in Possessed, CallRetain(h)
      PROVE  g \in DOMAIN holds' /\ holds'[g] = 0
  <2> DEFINE r == Retain(arena, h)
  <2>1. r[2] => Names(arena, h)
    BY PossessedHandles, RetainOwned
  <2>2. Names(arena, h) => holds[h] > 0
    BY PossessedHandles, NamesOwned
  <2>3. holds' = IF r[2] THEN Grant(holds, {h}) ELSE holds
    BY <1>6 DEF CallRetain
  <2> HIDE DEF r
  <2>4. r[2] => g # h
    BY <2>1, <2>2
  <2> QED BY <1>2, <2>3, <2>4
<1>7. ASSUME NEW d \in Descriptors, CallRetainDescriptor(d)
      PROVE  g \in DOMAIN holds' /\ holds'[g] = 0
  <2> DEFINE r == RetainDescriptor(arena, d)
  <2>1. d.kv \in Handle /\ d.mamba \in Handle
    BY PossessedHandles DEF Descriptors
  <2>2. /\ d.kv # d.mamba
        /\ holds' = IF r[2] THEN Grant(holds, {d.kv, d.mamba}) ELSE holds
    BY <1>7 DEF CallRetainDescriptor
  <2>3. r[2] => \A h \in {d.kv, d.mamba} : h \in DOMAIN holds /\ holds[h] > 0
    BY <2>1, <2>2, RetainDescriptorOwned
  <2> HIDE DEF r
  <2>4. r[2] => g \notin {d.kv, d.mamba}
    BY <2>3
  <2> QED BY <1>2, <2>2, <2>4
<1>8. ASSUME NEW h \in Possessed, CallRelease(h)
      PROVE  g \in DOMAIN holds' /\ holds'[g] = 0
  BY <1>3, <1>8 DEF CallRelease
<1>9. ASSUME NEW d \in Descriptors, CallReleaseDescriptor(d)
      PROVE  g \in DOMAIN holds' /\ holds'[g] = 0
  BY <1>3, <1>9 DEF CallReleaseDescriptor
<1>10. CASE UNCHANGED vars
  BY <1>10 DEF vars
<1> QED BY <1>4, <1>5, <1>6, <1>7, <1>8, <1>9, <1>10 DEF Next

\* A stale handle never names a live allocation again.
THEOREM StaleHandlesRefused == Spec => DeadHandlesStayDead
<1>1. ASSUME IInv, IInv', [Next]_vars, NEW h \in Issued, ~Names(arena, h)
      PROVE  ~Names(arena, h)'
  <2>1. h \in Handle /\ holds[h] \in Nat
    BY <1>1 DEF IInv, Owned, Issued
  <2>2. holds[h] = 0
    BY <1>1, <2>1, NamesOwned DEF IInv, Issued
  <2>3. h \in Issued' /\ holds'[h] = 0
    BY <1>1, <2>2, DeadStayDead
  <2>4. Owned(arena', holds')
    BY <1>1 DEF IInv
  <2>5. ~Names(arena', h)
    BY <2>1, <2>3, <2>4, NamesOwned
  <2> QED BY <2>5 DEF Names
<1>2. IInv /\ IInv' /\ [Next]_vars
        => [\A h \in Issued : ~Names(arena, h) => ~Names(arena, h)']_vars
  BY <1>1
<1> QED BY <1>2, Invariance, PTL DEF Spec, DeadHandlesStayDead

-----------------------------------------------------------------------------
(* Sums of bytes *)

\* A set of finite sets has a member no other member is a proper subset of.
LEMMA SmallestSet ==
  ASSUME NEW S, IsFiniteSet(S), NEW X \in SUBSET SUBSET S, X # {}
  PROVE  \E T \in X : \A U \in X : U \subseteq T => U = T
<1>1. IsWellFoundedOn(StrictSubsetOrdering(S), FiniteSubsetsOf(S))
  BY FS_StrictSubsetOrderingWellFounded
<1>2. X \subseteq FiniteSubsetsOf(S)
  BY FS_Subset DEF FiniteSubsetsOf
<1>3. PICK T \in X : \A U \in X : ~(<<U, T>> \in StrictSubsetOrdering(S))
  BY <1>1, <1>2, WFMin
<1> QED BY <1>3 DEF StrictSubsetOrdering

\* sum adds the bytes of entries up over every subset of S, in whatever order.
Sums(sum, entries, S) ==
  /\ sum \in [SUBSET S -> Nat]
  /\ sum[{}] = 0
  /\ \A T \in SUBSET S : \A i \in T : sum[T] = entries[i].bytes + sum[T \ {i}]

Counted(entries, S) == IsFiniteSet(S) /\ \A i \in S : entries[i].bytes \in Nat

\* Such sums exist: one more entry x adds to the sums of the sets x is in.
LEMMA SumsExist ==
  ASSUME NEW entries, NEW S, Counted(entries, S)
  PROVE  \E sum : Sums(sum, entries, S)
<1> DEFINE X == {T \in SUBSET S : ~\E sum : Sums(sum, entries, T)}
<1>1. SUFFICES ASSUME X # {} PROVE FALSE
  OBVIOUS
<1>2. PICK T \in X : \A U \in X : U \subseteq T => U = T
  <2>1. X \in SUBSET SUBSET S
    OBVIOUS
  <2> HIDE DEF X
  <2> QED BY <1>1, <2>1, SmallestSet DEF Counted
<1>3. CASE T = {}
  <2> DEFINE sum == [U \in SUBSET T |-> 0]
  <2>1. Sums(sum, entries, T)
    BY <1>3 DEF Sums
  <2> QED BY <1>2, <2>1
<1>4. ASSUME NEW x \in T PROVE FALSE
  <2> DEFINE R == T \ {x}
  <2>1. PICK sum : Sums(sum, entries, R)
    BY <1>2
  <2> DEFINE with(U) == IF x \in U THEN entries[x].bytes + sum[U \ {x}] ELSE sum[U]
             more == [U \in SUBSET T |-> with(U)]
  <2>2. entries[x].bytes \in Nat /\ \A i \in T : entries[i].bytes \in Nat
    BY DEF Counted
  <2>3. \A U \in SUBSET T : U \ {x} \in SUBSET R /\ (x \notin U => U \in SUBSET R)
    OBVIOUS
  <2>4. /\ sum \in [SUBSET R -> Nat] /\ sum[{}] = 0
        /\ \A U \in SUBSET R : \A i \in U : sum[U] = entries[i].bytes + sum[U \ {i}]
    BY <2>1 DEF Sums
  <2>5. \A U \in SUBSET T : with(U) \in Nat
    BY <2>2, <2>3, <2>4
  <2>6. ASSUME NEW U \in SUBSET T, NEW i \in U
        PROVE  with(U) = entries[i].bytes + with(U \ {i})
    <3>1. CASE i = x
      BY <3>1
    <3>2. CASE i # x /\ x \notin U
      BY <2>3, <2>4, <3>2
    <3>3. CASE i # x /\ x \in U
      <4>1. i \in U \ {x} /\ U \ {x} \in SUBSET R /\ (U \ {x}) \ {i} \in SUBSET R
        BY <3>3
      <4>2. sum[U \ {x}] = entries[i].bytes + sum[(U \ {x}) \ {i}]
        BY <2>4, <4>1
      <4>3. (U \ {i}) \ {x} = (U \ {x}) \ {i} /\ x \in U \ {i}
        BY <3>3
      <4>4. sum[(U \ {x}) \ {i}] \in Nat
        BY <2>4, <4>1
      <4> QED BY <2>2, <3>3, <4>2, <4>3, <4>4
    <3> QED BY <3>1, <3>2, <3>3
  <2>7. with({}) = 0
    BY <2>4
  <2> HIDE DEF with
  <2>8. Sums(more, entries, T)
    <3>1. \A U \in SUBSET T : \A i \in U : U \ {i} \in SUBSET T
      OBVIOUS
    <3> QED BY <2>5, <2>6, <2>7, <3>1 DEF Sums
  <2> QED BY <1>2, <2>8
<1> QED BY <1>3, <1>4

\* What the recursion of MapThenSumSet defines.
Iterates(sum, entries, S) ==
  sum = [T \in SUBSET S |-> IF T = {} THEN 0
                            ELSE entries[CHOOSE i \in T : TRUE].bytes + sum[T \ {CHOOSE i \in T : TRUE}]]

LEMMA BytesOfIs ==
  ASSUME NEW entries, NEW S
  PROVE  BytesOf(entries, S) = (CHOOSE sum : Iterates(sum, entries, S))[S]
BY DEF BytesOf, MapThenSumSet, MapThenFoldSet, Iterates

\* BytesOf is the sum over every subset at once.
LEMMA BytesOfSums ==
  ASSUME NEW entries, NEW S, Counted(entries, S), NEW sum, Sums(sum, entries, S),
         NEW T \in SUBSET S
  PROVE  BytesOf(entries, T) = sum[T]
<1> DEFINE part == [U \in SUBSET T |-> sum[U]]
           iter == CHOOSE f : Iterates(f, entries, T)
<1>1. \A U \in SUBSET T : U \in SUBSET S
  OBVIOUS
<1>2. ASSUME NEW U \in SUBSET T, U # {}
      PROVE  LET i == CHOOSE i \in U : TRUE IN
             i \in U /\ U \ {i} \in SUBSET T /\ part[U] = entries[i].bytes + part[U \ {i}]
  <2>1. (CHOOSE i \in U : TRUE) \in U
    BY <1>2
  <2> DEFINE i == CHOOSE i \in U : TRUE
  <2> HIDE DEF i
  <2>2. i \in U /\ U \ {i} \in SUBSET T
    BY <2>1 DEF i
  <2>3. part[U] = entries[i].bytes + part[U \ {i}]
    BY <1>1, <2>2 DEF Sums
  <2> HIDE DEF part
  <2> QED BY <2>2, <2>3 DEF i
<1>3. Iterates(part, entries, T)
  <2>1. part[{}] = 0
    BY DEF Sums
  <2> QED BY <1>2, <2>1 DEF Iterates
<1>4. Iterates(iter, entries, T)
  BY <1>3
<1> HIDE DEF iter
<1> DEFINE X == {U \in SUBSET T : iter[U] # part[U]}
<1>5. X = {}
  <2>1. SUFFICES ASSUME X # {} PROVE FALSE
    OBVIOUS
  <2>2. IsFiniteSet(T)
    BY FS_Subset DEF Counted
  <2>3. PICK U \in X : \A V \in X : V \subseteq U => V = U
    <3>1. X \in SUBSET SUBSET T
      OBVIOUS
    <3> HIDE DEF X
    <3> QED BY <2>1, <2>2, <3>1, SmallestSet
  <2>4. CASE U = {}
    BY <1>4, <2>3, <2>4 DEF Iterates, Sums
  <2>5. CASE U # {}
    <3> DEFINE i == CHOOSE i \in U : TRUE
    <3>1. i \in U /\ U \ {i} \in SUBSET T /\ part[U] = entries[i].bytes + part[U \ {i}]
      BY <1>2, <2>5
    <3>2. iter[U] = entries[i].bytes + iter[U \ {i}]
      BY <1>4, <2>5 DEF Iterates
    <3> HIDE DEF i, part
    <3>3. U \ {i} \notin X
      BY <2>3, <3>1
    <3> QED BY <2>3, <3>1, <3>2, <3>3
  <2> QED BY <2>4, <2>5
<1>6. BytesOf(entries, T) = iter[T]
  BY BytesOfIs DEF iter
<1> QED BY <1>5, <1>6

\* Bytes of a finite table: nothing over nothing, and one entry more or less
\* counts once.
LEMMA BytesOfOneMore ==
  ASSUME NEW entries, NEW S, Counted(entries, S)
  PROVE  /\ BytesOf(entries, S) \in Nat
         /\ BytesOf(entries, {}) = 0
         /\ \A i \in S : BytesOf(entries, S) = entries[i].bytes + BytesOf(entries, S \ {i})
<1>1. PICK sum : Sums(sum, entries, S)
  BY SumsExist
<1>2. \A T \in SUBSET S : BytesOf(entries, T) = sum[T]
  BY <1>1, BytesOfSums
<1>3. \A i \in S : S \ {i} \in SUBSET S
  OBVIOUS
<1> QED BY <1>1, <1>2, <1>3 DEF Sums

\* The bytes depend on the entries summed only.
LEMMA BytesOfSame ==
  ASSUME NEW entries, NEW others, NEW S, Counted(entries, S),
         \A i \in S : others[i].bytes = entries[i].bytes
  PROVE  BytesOf(others, S) = BytesOf(entries, S)
<1>1. PICK sum : Sums(sum, entries, S)
  BY SumsExist
<1>2. Sums(sum, others, S) /\ Counted(others, S)
  BY <1>1 DEF Sums, Counted
<1> QED BY <1>1, <1>2, BytesOfSums

\* A part and the rest.
LEMMA BytesOfParts ==
  ASSUME NEW entries, NEW S, Counted(entries, S), NEW T \in SUBSET S
  PROVE  /\ BytesOf(entries, T) \in Nat
         /\ BytesOf(entries, S) = BytesOf(entries, T) + BytesOf(entries, S \ T)
<1> DEFINE X == {U \in SUBSET S : BytesOf(entries, S) # BytesOf(entries, U) + BytesOf(entries, S \ U)}
<1>1. PICK sum : Sums(sum, entries, S)
  BY SumsExist
<1>2. \A U \in SUBSET S : BytesOf(entries, U) = sum[U]
  BY <1>1, BytesOfSums
<1>3. X = {}
  <2>1. SUFFICES ASSUME X # {} PROVE FALSE
    OBVIOUS
  <2>2. PICK U \in X : \A V \in X : V \subseteq U => V = U
    <3>1. X \in SUBSET SUBSET S
      OBVIOUS
    <3> HIDE DEF X
    <3> QED BY <2>1, <3>1, SmallestSet DEF Counted
  <2>3. CASE U = {}
    <3>1. S \ U = S
      BY <2>3
    <3> QED BY <1>1, <1>2, <2>2, <2>3, <3>1 DEF Sums
  <2>4. ASSUME NEW i \in U PROVE FALSE
    <3>1. U \ {i} \in SUBSET S /\ U \ {i} \notin X
      BY <2>2
    <3>2. /\ S \ U \in SUBSET S /\ S \ (U \ {i}) \in SUBSET S /\ i \in S \ (U \ {i})
          /\ (S \ (U \ {i})) \ {i} = S \ U
      BY <2>2
    <3>3. sum[U] = entries[i].bytes + sum[U \ {i}]
      BY <1>1 DEF Sums
    <3>4. sum[S \ (U \ {i})] = entries[i].bytes + sum[S \ U]
      BY <1>1, <3>2 DEF Sums
    <3>5. sum[S] = sum[U \ {i}] + sum[S \ (U \ {i})]
      BY <1>2, <3>1, <3>2
    <3>6. sum[U] \in Nat /\ sum[U \ {i}] \in Nat /\ sum[S \ U] \in Nat
          /\ entries[i].bytes \in Nat
      BY <1>1, <3>1, <3>2 DEF Sums, Counted
    <3>7. sum[S] # sum[U] + sum[S \ U]
      BY <1>2, <2>2, <3>2
    <3> QED BY <3>3, <3>4, <3>5, <3>6, <3>7
  <2> QED BY <2>3, <2>4
<1>4. BytesOf(entries, T) \in Nat
  BY <1>1, <1>2 DEF Sums
<1> QED BY <1>3, <1>4

-----------------------------------------------------------------------------
(* The byte count *)

\* The invariant of the byte count, of an arena alone: its table is finite,
\* its ids are below the next one, and the count is the table's sum and fits.
Accounted(a) ==
  /\ a.nextId \in Nat
  /\ \A i \in DOMAIN a.allocations : i \in Nat /\ i < a.nextId
  /\ Counted(a.allocations, DOMAIN a.allocations)
  /\ a.currentBytes = LiveBytes(a)
  /\ LiveBytes(a) <= ArenaBytes

\* The sizes for which the capacity test's sum stays within std::size_t.
Representable(bytes) == bytes \in Nat /\ ArenaBytes + bytes < SizeModulus

\* An admitted allocation adds its bytes to the sum.
LEMMA AllocateAccounted ==
  ASSUME NEW a, Accounted(a), NEW kind, NEW bytes, Representable(bytes)
  PROVE  Accounted(Allocate(a, kind, bytes)[1])
<1> DEFINE old == DOMAIN a.allocations
           id == a.nextId
           b == Allocate(a, kind, bytes)[1]
           live == [i \in old \cup {id} |->
                      IF i = id THEN [kind |-> kind, bytes |-> bytes, refs |-> 1]
                                ELSE a.allocations[i]]
<1>1. CASE ~Admits(a, bytes)
  BY <1>1 DEF Allocate
<1>2. CASE Admits(a, bytes)
  <2>1. /\ b.nextId = id + 1 /\ b.allocations = live
        /\ b.currentBytes = (a.currentBytes + bytes) % SizeModulus
    BY <1>2 DEF Allocate, Arena
  <2>2. /\ DOMAIN live = old \cup {id} /\ live[id].bytes = bytes
        /\ id \notin old
        /\ \A i \in old : live[i] = a.allocations[i]
    BY DEF Accounted
  <2>3. BytesOf(a.allocations, old) \in Nat
    BY BytesOfOneMore DEF Accounted
  <2>4. a.currentBytes \in Nat /\ a.currentBytes <= ArenaBytes
        /\ a.currentBytes = BytesOf(a.allocations, old)
    BY <2>3 DEF Accounted, LiveBytes
  <2>5. (a.currentBytes + bytes) % SizeModulus = a.currentBytes + bytes
    BY <2>4, ArenaAssumption DEF Representable
  <2> HIDE DEF live, old, id
  <2>6. Counted(live, old \cup {id})
    <3>1. IsFiniteSet(old \cup {id})
      BY FS_AddElement DEF Accounted, Counted, old
    <3>2. \A i \in old : a.allocations[i].bytes \in Nat
      BY DEF Accounted, Counted, old
    <3> QED BY <2>2, <3>1, <3>2 DEF Counted, Representable
  <2>7. BytesOf(live, old \cup {id}) = bytes + BytesOf(live, old)
    <3>1. (old \cup {id}) \ {id} = old
      BY <2>2
    <3> QED BY <2>2, <2>6, <3>1, BytesOfOneMore
  <2>8. BytesOf(live, old) = BytesOf(a.allocations, old)
    <3>1. Counted(a.allocations, old)
      BY DEF Accounted, old
    <3> QED BY <2>2, <3>1, BytesOfSame
  <2>9. LiveBytes(b) = a.currentBytes + bytes
    BY <2>1, <2>2, <2>4, <2>7, <2>8 DEF LiveBytes, Representable
  <2>10. a.currentBytes + bytes <= ArenaBytes
    BY <1>2, <2>5 DEF Admits
  <2>11. b.nextId \in Nat /\ \A i \in DOMAIN b.allocations : i \in Nat /\ i < b.nextId
    BY <2>1, <2>2 DEF Accounted, old, id
  <2> HIDE DEF b
  <2>12. Counted(b.allocations, DOMAIN b.allocations)
    BY <2>1, <2>2, <2>6
  <2>13. Accounted(b)
    BY <2>1, <2>5, <2>9, <2>10, <2>11, <2>12 DEF Accounted
  <2> QED BY <2>13 DEF b
<1> QED BY <1>1, <1>2

\* A count of references does not touch the sum.
LEMMA RecountAccounted ==
  ASSUME NEW a, Accounted(a), NEW h, Names(a, h), NEW refs
  PROVE  Accounted(WithRefs(a, h, refs))
<1> DEFINE old == DOMAIN a.allocations
           b == WithRefs(a, h, refs)
<1>1. /\ b.nextId = a.nextId /\ b.currentBytes = a.currentBytes
      /\ DOMAIN b.allocations = old
      /\ \A i \in old : b.allocations[i].bytes = a.allocations[i].bytes
  BY DEF WithRefs, Arena, Names
<1> HIDE DEF b, old
<1>2. Counted(a.allocations, old)
  BY DEF Accounted, old
<1>3. BytesOf(b.allocations, old) = BytesOf(a.allocations, old)
  BY <1>1, <1>2, BytesOfSame
<1>4. Counted(b.allocations, old)
  BY <1>1, <1>2 DEF Counted
<1>5. LiveBytes(b) = LiveBytes(a)
  BY <1>1, <1>3 DEF LiveBytes, old
<1> QED BY <1>1, <1>4, <1>5 DEF Accounted, b, old

\* Retaining one handle.
LEMMA RetainAccounted ==
  ASSUME NEW a, Accounted(a), NEW h
  PROVE  Accounted(Retain(a, h)[1])
BY RecountAccounted DEF Retain

\* The last reference takes the allocation's bytes out of the sum.
LEMMA ReleaseAccounted ==
  ASSUME NEW a, Accounted(a), NEW h, ArenaBytes < SizeModulus
  PROVE  Accounted(Release(a, h))
<1> DEFINE old == DOMAIN a.allocations
           rest == old \ {h.id}
           b == Release(a, h)
           freed == Names(a, h) /\ a.allocations[h.id].refs = 1
<1>1. CASE ~Names(a, h) \/ a.allocations[h.id].refs = 0
  BY <1>1 DEF Release
<1>2. CASE Names(a, h) /\ a.allocations[h.id].refs # 0 /\ a.allocations[h.id].refs # 1
  BY <1>2, RecountAccounted DEF Release
<1>3. CASE Names(a, h) /\ a.allocations[h.id].refs = 1
  <2>1. /\ b.nextId = a.nextId
        /\ b.currentBytes = (a.currentBytes - h.bytes) % SizeModulus
        /\ DOMAIN b.allocations = rest
        /\ \A i \in rest : b.allocations[i] = a.allocations[i]
    BY <1>3 DEF Release, Arena
  <2>2. h.id \in old /\ a.allocations[h.id].bytes = h.bytes
    BY <1>3 DEF Names
  <2>3. Counted(a.allocations, old)
    BY DEF Accounted
  <2> HIDE DEF b, old
  <2>4. BytesOf(a.allocations, old) = h.bytes + BytesOf(a.allocations, rest)
    BY <2>2, <2>3, BytesOfOneMore
  <2>5. Counted(a.allocations, rest)
    BY <2>3, FS_RemoveElement DEF Counted
  <2>6. BytesOf(a.allocations, rest) \in Nat /\ h.bytes \in Nat
    BY <2>2, <2>3, <2>5, BytesOfOneMore DEF Counted
  <2>7. BytesOf(b.allocations, rest) = BytesOf(a.allocations, rest)
    BY <2>1, <2>5, BytesOfSame
  <2>8. Counted(b.allocations, rest)
    BY <2>1, <2>5 DEF Counted
  <2>9. /\ a.currentBytes = BytesOf(a.allocations, old)
        /\ BytesOf(a.allocations, old) <= ArenaBytes
    BY DEF Accounted, LiveBytes, old
  <2>10. b.currentBytes = BytesOf(a.allocations, rest)
    <3>1. a.currentBytes - h.bytes = BytesOf(a.allocations, rest)
      BY <2>4, <2>6, <2>9
    <3>2. BytesOf(a.allocations, rest) < SizeModulus
      BY <2>4, <2>6, <2>9, ArenaAssumption
    <3>3. \A x \in Nat : x < SizeModulus => x % SizeModulus = x
      BY ArenaAssumption
    <3> QED BY <2>1, <2>6, <3>1, <3>2, <3>3
  <2>11. LiveBytes(b) = BytesOf(a.allocations, rest)
    BY <2>1, <2>7 DEF LiveBytes
  <2>12. LiveBytes(b) <= ArenaBytes
    BY <2>4, <2>6, <2>9, <2>11, ArenaAssumption
  <2>13. b.nextId \in Nat /\ \A i \in DOMAIN b.allocations : i \in Nat /\ i < b.nextId
    BY <2>1 DEF Accounted, old
  <2> QED BY <2>1, <2>8, <2>10, <2>11, <2>12, <2>13 DEF Accounted, b
<1> QED BY <1>1, <1>2, <1>3

\* The calls on descriptors are made of those on handles.
LEMMA DescriptorAccounted ==
  ASSUME NEW a, Accounted(a), NEW d, NEW kvBytes, NEW mambaBytes, ArenaBytes < SizeModulus
  PROVE  /\ Accounted(RetainDescriptor(a, d)[1])
         /\ Accounted(ReleaseDescriptor(a, d))
         /\ Representable(kvBytes) /\ Representable(mambaBytes)
              => Accounted(AllocateDescriptor(a, kvBytes, mambaBytes)[1])
<1>1. Accounted(RetainDescriptor(a, d)[1])
  <2> DEFINE kv == Retain(a, d.kv)
             mamba == Retain(kv[1], d.mamba)
             b == RetainDescriptor(a, d)[1]
  <2>1. b \in {a, mamba[1], Release(mamba[1], d.kv)}
    BY DEF RetainDescriptor
  <2>2. Accounted(mamba[1])
    BY RetainAccounted
  <2> HIDE DEF mamba, b
  <2>3. Accounted(Release(mamba[1], d.kv))
    BY <2>2, ReleaseAccounted
  <2> QED BY <2>1, <2>2, <2>3 DEF b
<1>2. Accounted(ReleaseDescriptor(a, d))
  BY ReleaseAccounted DEF ReleaseDescriptor
<1>3. ASSUME Representable(kvBytes), Representable(mambaBytes)
      PROVE  Accounted(AllocateDescriptor(a, kvBytes, mambaBytes)[1])
  <2> DEFINE kv == Allocate(a, "kv", kvBytes)
             mamba == Allocate(kv[1], "mamba", mambaBytes)
             b == AllocateDescriptor(a, kvBytes, mambaBytes)[1]
  <2>1. b \in {kv[1], mamba[1], Release(mamba[1], kv[2])}
    BY DEF AllocateDescriptor
  <2>2. Accounted(kv[1])
    BY <1>3, AllocateAccounted
  <2> HIDE DEF kv, b
  <2>3. Accounted(mamba[1])
    BY <1>3, <2>2, AllocateAccounted
  <2> HIDE DEF mamba
  <2>4. Accounted(Release(mamba[1], kv[2]))
    BY <2>3, ReleaseAccounted
  <2> QED BY <2>1, <2>2, <2>3, <2>4 DEF b
<1> QED BY <1>1, <1>2, <1>3

\* What callers must not exceed for the capacity test to mean what it says: a
\* request that does not take the sum past std::size_t.
NoWrap ==
  /\ ArenaBytes < SizeModulus
  /\ \A bytes \in RequestSizes : ArenaBytes + bytes < SizeModulus

\* The arena's byte count is the bytes alive and they fit the arena, through
\* every sequence of calls whose sizes the capacity test can add up.  Without
\* that hypothesis the claim is false: the sum of the test wraps.
THEOREM BytesExact == ASSUME NoWrap PROVE Spec => []BytesAccounted
<1>1. Init => Accounted(arena)
  <2>1. Counted([i \in {} |-> 0], {})
    BY FS_EmptySet DEF Counted
  <2>2. BytesOf([i \in {} |-> 0], {}) = 0
    BY <2>1, BytesOfOneMore
  <2> QED BY <2>1, <2>2, ArenaAssumption DEF Init, EmptyArena, Arena, Accounted, LiveBytes
<1>2. Accounted(arena) /\ [Next]_vars => Accounted(arena)'
  <2> SUFFICES ASSUME Accounted(arena), [Next]_vars PROVE Accounted(arena')
    BY DEF Accounted, LiveBytes
  <2>1. ArenaBytes < SizeModulus /\ \A bytes \in RequestSizes : Representable(bytes)
    BY CallerAssumption DEF NoWrap, Representable
  <2>2. ASSUME NEW kind \in StateKinds, NEW bytes \in RequestSizes, CallAllocate(kind, bytes)
        PROVE  Accounted(arena')
    BY <2>1, <2>2, AllocateAccounted DEF CallAllocate
  <2>3. ASSUME NEW kvBytes \in RequestSizes, NEW mambaBytes \in RequestSizes,
               CallAllocateDescriptor(kvBytes, mambaBytes)
        PROVE  Accounted(arena')
    BY <2>1, <2>3, DescriptorAccounted DEF CallAllocateDescriptor
  <2>4. ASSUME NEW h, CallRetain(h) PROVE Accounted(arena')
    BY <2>4, RetainAccounted DEF CallRetain
  <2>5. ASSUME NEW d, CallRetainDescriptor(d) PROVE Accounted(arena')
    BY <2>1, <2>5, DescriptorAccounted DEF CallRetainDescriptor
  <2>6. ASSUME NEW h, CallRelease(h) PROVE Accounted(arena')
    BY <2>1, <2>6, ReleaseAccounted DEF CallRelease
  <2>7. ASSUME NEW d, CallReleaseDescriptor(d) PROVE Accounted(arena')
    BY <2>1, <2>7, DescriptorAccounted DEF CallReleaseDescriptor
  <2>8. CASE UNCHANGED vars
    BY <2>8 DEF vars
  <2> QED BY <2>2, <2>3, <2>4, <2>5, <2>6, <2>7, <2>8 DEF Next
<1>3. Accounted(arena) => BytesAccounted
  BY DEF Accounted, BytesAccounted
<1> QED BY <1>1, <1>2, <1>3, PTL DEF Spec
=============================================================================
