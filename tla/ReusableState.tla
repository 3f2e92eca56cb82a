---------------------------- MODULE ReusableState ----------------------------
(***************************************************************************)
(* The reusable-state arena (runtime/src/cache/reusable_state.cpp) as a    *)
(* value: a counter of ids, a byte count and a map of reference-counted    *)
(* allocations.  Every operator takes an arena and returns the arena the   *)
(* C++ call leaves behind, with the call's result where it has one.  The   *)
(* modules ReusableStateArena and PrefixCache compose these operators.     *)
(*                                                                         *)
(* Allocation labels are left out: nothing reads them back.                *)
(***************************************************************************)
EXTENDS Integers, FiniteSets, FiniteSetsExt, Folds

CONSTANTS
  ArenaBytes,   \* max_bytes_ of the arena
  SizeModulus   \* 2^w for the width w of std::size_t

ASSUME ArenaAssumption ==
  /\ ArenaBytes \in Nat
  /\ SizeModulus \in Nat \ {0}

StateKinds == {"kv", "mamba"}

Handle == [id : Nat, kind : StateKinds, bytes : Nat]
Allocation == [kind : StateKinds, bytes : Nat, refs : Nat]

NoHandle == [id |-> 0, kind |-> "kv", bytes |-> 0]
NoDescriptor == [kv |-> NoHandle, mamba |-> NoHandle]

HandleValid(h) == h.id # 0 /\ h.bytes # 0
DescriptorValid(d) == HandleValid(d.kv) /\ HandleValid(d.mamba)
TotalBytes(d) == d.kv.bytes + d.mamba.bytes

Arena(next, bytes, live) ==
  [nextId |-> next, currentBytes |-> bytes, allocations |-> live]

\* The bytes of the entries S of a table, together.
BytesOf(entries, S) == MapThenSumSet(LAMBDA i : entries[i].bytes, S)

EmptyArena == Arena(1, 0, [i \in {} |-> 0])

\* The allocation h names exists in arena a and has h's kind and size: what
\* Retain and Release look up before they touch a reference count.
Names(a, h) ==
  /\ HandleValid(h)
  /\ h.id \in DOMAIN a.allocations
  /\ a.allocations[h.id].kind = h.kind
  /\ a.allocations[h.id].bytes = h.bytes

NamesBoth(a, d) == Names(a, d.kv) /\ Names(a, d.mamba)

\* a with refs references on the allocation h names.
WithRefs(a, h, refs) ==
  Arena(a.nextId, a.currentBytes,
        [i \in DOMAIN a.allocations |->
           IF i = h.id THEN [kind |-> h.kind, bytes |-> h.bytes, refs |-> refs]
                       ELSE a.allocations[i]])

-----------------------------------------------------------------------------
\* The capacity test is done in size_t, so the sum wraps at SizeModulus.
Admits(a, bytes) ==
  /\ bytes # 0
  /\ (a.currentBytes + bytes) % SizeModulus <= ArenaBytes

\* Plausible bug: the lowest id not in use is handed out again.
AllocateReusingIds(a, kind, bytes) ==
  LET unused == (1 .. a.nextId) \ DOMAIN a.allocations
      id == CHOOSE i \in unused : \A j \in unused : i <= j
  IN  IF ~Admits(a, bytes) THEN <<a, NoHandle>>
      ELSE << Arena(a.nextId + 1, (a.currentBytes + bytes) % SizeModulus,
                    [i \in DOMAIN a.allocations \cup {id} |->
                       IF i = id THEN [kind |-> kind, bytes |-> bytes, refs |-> 1]
                                 ELSE a.allocations[i]]),
              [id |-> id, kind |-> kind, bytes |-> bytes] >>

\* Allocate: <<arena afterwards, handle>>, the default handle on refusal.
Allocate(a, kind, bytes) ==
  IF ~Admits(a, bytes) THEN <<a, NoHandle>>
  ELSE LET id == a.nextId IN
       << Arena(id + 1,
                (a.currentBytes + bytes) % SizeModulus,
                [i \in DOMAIN a.allocations \cup {id} |->
                   IF i = id THEN [kind |-> kind, bytes |-> bytes, refs |-> 1]
                             ELSE a.allocations[i]]),
          [id |-> id, kind |-> kind, bytes |-> bytes] >>

\* Plausible bug: the bytes of an erased entry stay counted.
ReleaseKeepsBytes(a, h) ==
  IF ~Names(a, h) \/ a.allocations[h.id].refs = 0 THEN a
  ELSE IF a.allocations[h.id].refs = 1
  THEN Arena(a.nextId, a.currentBytes,
             [i \in DOMAIN a.allocations \ {h.id} |-> a.allocations[i]])
  ELSE WithRefs(a, h, a.allocations[h.id].refs - 1)

\* Release of one handle: ignored unless the handle names an allocation; the
\* last reference frees the bytes.
Release(a, h) ==
  IF ~Names(a, h) \/ a.allocations[h.id].refs = 0 THEN a
  ELSE IF a.allocations[h.id].refs = 1
  THEN Arena(a.nextId, (a.currentBytes - h.bytes) % SizeModulus,
             [i \in DOMAIN a.allocations \ {h.id} |-> a.allocations[i]])
  ELSE WithRefs(a, h, a.allocations[h.id].refs - 1)

ReleaseDescriptor(a, d) == Release(Release(a, d.kv), d.mamba)

\* Plausible bug: the KV half is not released when the Mamba half is refused.
AllocateDescriptorWithoutRollback(a, kvBytes, mambaBytes) ==
  LET kv == Allocate(a, "kv", kvBytes)
      mamba == Allocate(kv[1], "mamba", mambaBytes)
  IN  IF ~HandleValid(kv[2]) \/ ~HandleValid(mamba[2]) THEN <<mamba[1], NoDescriptor>>
      ELSE <<mamba[1], [kv |-> kv[2], mamba |-> mamba[2]]>>

\* AllocateDescriptor: the KV half first; it is released again when the Mamba
\* half is refused, and its id stays consumed.
AllocateDescriptor(a, kvBytes, mambaBytes) ==
  LET kv == Allocate(a, "kv", kvBytes)
      mamba == Allocate(kv[1], "mamba", mambaBytes)
  IN  IF ~HandleValid(kv[2]) THEN <<kv[1], NoDescriptor>>
      ELSE IF ~HandleValid(mamba[2])
      THEN <<Release(mamba[1], kv[2]), NoDescriptor>>
      ELSE <<mamba[1], [kv |-> kv[2], mamba |-> mamba[2]]>>

\* Retain of one handle: <<arena afterwards, succeeded>>.
Retain(a, h) ==
  IF Names(a, h) THEN <<WithRefs(a, h, a.allocations[h.id].refs + 1), TRUE>>
                 ELSE <<a, FALSE>>

\* Retain of a descriptor: the KV reference is given back when the Mamba half
\* cannot be retained.
RetainDescriptor(a, d) ==
  LET kv == Retain(a, d.kv)
      mamba == Retain(kv[1], d.mamba)
  IN  IF ~DescriptorValid(d) \/ ~kv[2] THEN <<a, FALSE>>
      ELSE IF ~mamba[2] THEN <<Release(mamba[1], d.kv), FALSE>>
      ELSE mamba

-----------------------------------------------------------------------------
\* The net effect of releasing states[i] once for every i in its domain, in
\* any order: the loops of the prefix cache that drop several nodes at once.
ReleaseEach(a, states) ==
  LET drops(id) ==
        Cardinality({i \in DOMAIN states : states[i].kv.id = id
                                           /\ Names(a, states[i].kv)})
        + Cardinality({i \in DOMAIN states : states[i].mamba.id = id
                                             /\ Names(a, states[i].mamba)})
      kept == {id \in DOMAIN a.allocations : a.allocations[id].refs > drops(id)}
      freed == DOMAIN a.allocations \ kept
  IN  Arena(a.nextId, (a.currentBytes - BytesOf(a.allocations, freed)) % SizeModulus,
            [id \in kept |-> [kind  |-> a.allocations[id].kind,
                              bytes |-> a.allocations[id].bytes,
                              refs  |-> a.allocations[id].refs - drops(id)]])

\* The bytes of every live allocation.
LiveBytes(a) == BytesOf(a.allocations, DOMAIN a.allocations)
=============================================================================
