---------------------------- MODULE PagedKvCache ----------------------------
(***************************************************************************)
(* The pool of attention KV pages (runtime/src/attention/                  *)
(* paged_kv_cache.cpp) as a value: the layer each page belongs to, and the *)
(* list of free pages, from which pages are taken at the back.  Byte       *)
(* offsets are left out: page p starts at p pages.                         *)
(***************************************************************************)
EXTENDS Integers, Sequences, FiniteSets, SequencesExt

CONSTANTS
  TotalPages,
  LayerCount,     \* layers that own pages; 0: the model has no attention
  TokensPerPage

ASSUME PoolAssumption ==
  /\ TotalPages \in Nat
  /\ LayerCount \in Nat
  /\ TokensPerPage \in Nat \ {0}

PageIds == 0 .. TotalPages - 1
Layers == 0 .. LayerCount - 1
Unowned == -1

Pool(owner, free) == [owner |-> owner, free |-> free]

\* PagedKvCacheArena::Create: the lowest page is at the back.
FreshPool ==
  Pool([p \in PageIds |-> Unowned], [i \in 1 .. TotalPages |-> TotalPages - i])

RequiredPages(tokens) == (tokens + TokensPerPage - 1) \div TokensPerPage

\* AllocatePages: <<pool afterwards, pages>>, no pages on refusal.
AllocatePages(pool, layer, count) ==
  LET left == Len(pool.free) - count
      taken == [i \in 1 .. count |-> pool.free[Len(pool.free) + 1 - i]]
  IN  IF count = 0 \/ layer \notin Layers \/ left < 0 THEN <<pool, << >>>>
      ELSE << Pool([p \in PageIds |-> IF p \in Range(taken) THEN layer ELSE pool.owner[p]],
                   SubSeq(pool.free, 1, left)),
              taken >>

\* std::sort with std::greater: element j goes behind those that are greater, and behind
\* equal ones that came before it.
Before(s, k, j) == s[k] > s[j] \/ (s[k] = s[j] /\ k < j)
Rank(s, j) == Cardinality({k \in 1 .. Len(s) : Before(s, k, j)})
SortedDown(s) == [i \in 1 .. Len(s) |-> s[CHOOSE j \in 1 .. Len(s) : Rank(s, j) = i - 1]]

\* Plausible bug: the released pages are appended and never sorted in.
ReleasePagesUnsorted(pool, ids) ==
  IF ids = << >> \/ \E p \in Range(ids) : p \notin PageIds \/ pool.owner[p] = Unowned
  THEN <<pool, FALSE>>
  ELSE << Pool([p \in PageIds |-> IF p \in Range(ids) THEN Unowned ELSE pool.owner[p]],
               pool.free \o ids),
          TRUE >>

\* ReleasePages: <<pool afterwards, succeeded>>.  Every page is checked before
\* the first is given back; the free list is sorted again.
ReleasePages(pool, ids) ==
  IF \/ ids = << >>
     \/ ~IsInjective(ids)
     \/ \E p \in Range(ids) : p \notin PageIds \/ pool.owner[p] = Unowned
  THEN <<pool, FALSE>>
  ELSE << Pool([p \in PageIds |-> IF p \in Range(ids) THEN Unowned ELSE pool.owner[p]],
               SortedDown(pool.free \o ids)),
          TRUE >>
=============================================================================
