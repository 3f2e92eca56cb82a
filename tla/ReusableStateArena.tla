------------------------- MODULE ReusableStateArena -------------------------
(***************************************************************************)
(* The arena driven by its callers.  Each action is one public call of     *)
(* ReusableStateArena with any handle a caller can possess: one the arena  *)
(* issued and that is still alive, one it issued and that is dead, the     *)
(* default handle of a refused allocation, or one issued by another arena. *)
(*                                                                         *)
(* holds is a history variable: for every handle ever issued, how many     *)
(* references the callers believe they own, counted from the results they  *)
(* were given and never from the arena's own state.                        *)
(***************************************************************************)
EXTENDS ReusableState

CONSTANTS
  RequestSizes,     \* byte counts callers ask for (0 included: it is refused)
  ForeignHandles,   \* handles issued by another arena
  MaxIds,           \* bound: ids the arena issues in a behaviour
  MaxHolds          \* bound: references callers hold on one handle

ASSUME CallerAssumption ==
  /\ RequestSizes \subseteq Nat
  /\ ForeignHandles \subseteq Handle
  /\ MaxIds \in Nat
  /\ MaxHolds \in Nat

VARIABLES arena, holds

vars == <<arena, holds>>

Issued == DOMAIN holds
Possessed == Issued \cup ForeignHandles \cup {NoHandle}
Descriptors == [kv : Possessed, mamba : Possessed]

\* The counts in owned with one reference more, or one less, on each of hs.
Grant(owned, hs) ==
  [h \in DOMAIN owned \cup hs |-> (IF h \in DOMAIN owned THEN owned[h] ELSE 0)
                                  + (IF h \in hs THEN 1 ELSE 0)]
Yield(owned, hs) ==
  [h \in DOMAIN owned |-> IF h \in hs /\ owned[h] > 0 THEN owned[h] - 1 ELSE owned[h]]

Init ==
  /\ arena = EmptyArena
  /\ holds = [h \in {} |-> 0]

-----------------------------------------------------------------------------
CallAllocate(kind, bytes) ==
  LET r == Allocate(arena, kind, bytes) IN
  /\ arena.nextId <= MaxIds
  /\ arena' = r[1]
  /\ holds' = IF HandleValid(r[2]) THEN Grant(holds, {r[2]}) ELSE holds

CallAllocateDescriptor(kvBytes, mambaBytes) ==
  LET r == AllocateDescriptor(arena, kvBytes, mambaBytes) IN
  /\ arena.nextId < MaxIds
  /\ arena' = r[1]
  /\ holds' = IF DescriptorValid(r[2]) THEN Grant(holds, {r[2].kv, r[2].mamba}) ELSE holds

CallRetain(h) ==
  LET r == Retain(arena, h) IN
  /\ h \in Issued => holds[h] < MaxHolds
  /\ arena' = r[1]
  /\ holds' = IF r[2] THEN Grant(holds, {h}) ELSE holds

\* The two halves are different handles: no allocation returns one handle twice.
CallRetainDescriptor(d) ==
  LET r == RetainDescriptor(arena, d) IN
  /\ d.kv # d.mamba
  /\ \A h \in {d.kv, d.mamba} \cap Issued : holds[h] < MaxHolds
  /\ arena' = r[1]
  /\ holds' = IF r[2] THEN Grant(holds, {d.kv, d.mamba}) ELSE holds

CallRelease(h) ==
  /\ arena' = Release(arena, h)
  /\ holds' = Yield(holds, {h})

CallReleaseDescriptor(d) ==
  /\ d.kv # d.mamba
  /\ arena' = ReleaseDescriptor(arena, d)
  /\ holds' = Yield(holds, {d.kv, d.mamba})

Next ==
  \/ \E kind \in StateKinds, bytes \in RequestSizes : CallAllocate(kind, bytes)
  \/ \E kvBytes, mambaBytes \in RequestSizes : CallAllocateDescriptor(kvBytes, mambaBytes)
  \/ \E h \in Possessed : CallRetain(h)
  \/ \E d \in Descriptors : CallRetainDescriptor(d)
  \/ \E h \in Possessed : CallRelease(h)
  \/ \E d \in Descriptors : CallReleaseDescriptor(d)

Spec == Init /\ [][Next]_vars

-----------------------------------------------------------------------------
(* Properties *)

TypeOK ==
  /\ arena.nextId \in Nat \ {0}
  /\ \A i \in DOMAIN arena.allocations : arena.allocations[i] \in Allocation
  /\ DOMAIN arena.allocations \subseteq Nat \ {0}
  /\ holds \in [Issued -> Nat]
  /\ Issued \subseteq Handle

\* What callers own is what the arena counts: an allocation is alive exactly
\* while some caller still owns a reference on it, with that many references,
\* and no failed or half-failed call (the Mamba half of a descriptor refused,
\* a dead handle retained) leaves a reference nobody owns.
RefsMatchHolds ==
  /\ \A h \in Issued : holds[h] > 0 =>
       /\ h.id \in DOMAIN arena.allocations
       /\ arena.allocations[h.id] = [kind |-> h.kind, bytes |-> h.bytes, refs |-> holds[h]]
  /\ \A i \in DOMAIN arena.allocations : \E h \in Issued : h.id = i /\ holds[h] > 0

\* The byte count the capacity test relies on is exactly the bytes alive, and
\* they fit the arena.
BytesAccounted ==
  /\ arena.currentBytes = LiveBytes(arena)
  /\ LiveBytes(arena) <= ArenaBytes

\* Capacity, over every size a caller can pass: the test of the repository says
\* "descriptor allocation should fail when arena capacity is exceeded".
CapacityRespected == LiveBytes(arena) <= ArenaBytes

\* A handle that died never names a live allocation again, whatever is
\* allocated later: a caller with a stale handle is refused, never given some
\* other prefix's state (ids are never handed out twice).
DeadHandlesStayDead ==
  [][\A h \in Issued : ~Names(arena, h) => ~Names(arena, h)']_vars
=============================================================================
