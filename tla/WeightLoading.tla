--------------------------- MODULE WeightLoading ---------------------------
(***************************************************************************)
(* How packed weights reach memory: RuntimeEnvironment::                   *)
(* BuildFromManifestFile verifies the manifest's files, maps or reads each *)
(* of them once (ArtifactLoader), checks the scale buffers (TensorCatalog),*)
(* plans an aligned place for every buffer (WeightArenaPlan), allocates    *)
(* one arena and copies every buffer into it (WeightArena).                *)
(*                                                                         *)
(* All of them visit the buffers of a manifest in one order: a tensor's    *)
(* packed bytes, its auxiliary buffers, the next tensor.  A manifest is    *)
(* that sequence of buffers.  Any system call may fail, and the call that  *)
(* was building then returns nullptr: its destructors give everything back.*)
(***************************************************************************)
EXTENDS Integers, Sequences, FiniteSets, FiniteSetsExt

CONSTANTS
  Paths,       \* file names a manifest may use
  KeyOf,       \* path -> its absolute, lexically normal form
  Manifests,   \* the manifests considered
  FileSizes,   \* sizes of files; 0 is a file that is absent or empty
  Bases,       \* addresses posix_memalign may choose from
  MaxAlignmentExponent   \* bound: no alignment is above 2 to this power

Keys == {KeyOf[p] : p \in Paths}
Roles == {"packed", "block_scales", "tensor_scale", "unspecified"}
Buffer == [tensor : STRING, role : Roles, path : Paths, offset_bytes : Nat, nbytes : Nat,
           alignment_bytes : Nat, scaled : BOOLEAN, checksum_ok : BOOLEAN]

kDefaultAuxiliaryAlignmentBytes == 16
MaxAlign == 16          \* alignof(std::max_align_t)
PointerBytes == 8

ASSUME LoadingAssumption ==
  /\ KeyOf \in [Paths -> STRING]
  /\ \A m \in Manifests : m \in Seq(Buffer) /\ m # <<>> /\ m[1].role = "packed"
  /\ FileSizes \subseteq Nat
  /\ Bases \subseteq Nat \ {0}
  /\ MaxAlignmentExponent \in Nat

VARIABLES
  manifest, disk, options,   \* the caller's: the files do not change while they are loaded
  phase,        \* which part of BuildFromManifestFile runs
  next,         \* the buffer it is at
  opened,       \* ArtifactLoader: mapped_files, in order
  indices,      \* ArtifactLoader: mapped_file_indices
  placements,   \* WeightArenaPlan: where each buffer goes
  cursor,       \* WeightArenaPlan: total_arena_bytes so far
  arena,        \* WeightArena: base address, its alignment, memory
  fds, mappings \* the operating system's: files open, files mapped

inputs == <<manifest, disk, options>>
loader == <<opened, indices, fds, mappings>>
plan == <<placements, cursor>>
vars == <<inputs, phase, next, loader, plan, arena>>

-----------------------------------------------------------------------------
(* Pure parts.                                                             *)

\* The auxiliary buffers of the tensor whose packed bytes are buffer i.
AuxiliariesOf(m, i) == {j \in DOMAIN m : m[j].tensor = m[i].tensor /\ m[j].role # "packed"}
Tensors(m) == {i \in DOMAIN m : m[i].role = "packed"}

ManifestValid(m) ==
  /\ \A i \in DOMAIN m : m[i].nbytes # 0 /\ (m[i].role = "packed" => m[i].alignment_bytes # 0)
  /\ \A i, j \in Tensors(m) : m[i].tensor = m[j].tensor => i = j
  /\ \A i \in Tensors(m) : \A j, k \in AuxiliariesOf(m, i) : m[j].role = m[k].role => j = k \/ m[j].role = "unspecified"
  /\ \A i \in Tensors(m) : m[i].scaled => AuxiliariesOf(m, i) # {}

FilesVerified(m, sizes) ==
  \A i \in DOMAIN m :
     /\ sizes[KeyOf[m[i].path]] >= m[i].offset_bytes + m[i].nbytes
     /\ m[i].role = "packed" => m[i].checksum_ok

CatalogValid(m) ==
  \A i \in Tensors(m) : m[i].scaled =>
     \A role \in {"block_scales", "tensor_scale"} : \E j \in AuxiliariesOf(m, i) : m[j].role = role

\* Plausible bug: a range that ends with its file is taken to be too long.
RangeFitsStrictly(size, offset, nbytes) == offset <= size /\ nbytes < size - offset

RangeFits(size, offset, nbytes) == offset <= size /\ nbytes <= size - offset

\* Plausible bug: the cursor is rounded down.
AlignDown(value, alignment) == value - (value % alignment)

AlignUp(value, alignment) ==
  IF value % alignment = 0 THEN value ELSE value + (alignment - (value % alignment))

PowerOfTwo[k \in 0..MaxAlignmentExponent] == IF k = 0 THEN 1 ELSE 2 * PowerOfTwo[k - 1]
PowersOfTwo == {PowerOfTwo[k] : k \in 0..MaxAlignmentExponent}

\* The bound leaves room for what the arena needs and for the alignments in the manifests.
ASSUME AlignmentAssumption ==
  /\ {MaxAlign, PointerBytes} \subseteq PowersOfTwo
  /\ \A m \in Manifests : \A i \in DOMAIN m : m[i].alignment_bytes <= PowerOfTwo[MaxAlignmentExponent]

\* The smallest power of two that is no smaller than the alignment and a pointer.
NormalizeAlignment(alignment) == Min({p \in PowersOfTwo : p >= alignment /\ p >= PointerBytes})

PlannedAlignment(b) ==
  IF b.role = "packed" THEN b.alignment_bytes ELSE kDefaultAuxiliaryAlignmentBytes

\* Plausible bug: the base address is only aligned for ordinary objects.
BaseAlignmentDefault(ps) == MaxAlign

BaseAlignment(ps) ==
  Max({MaxAlign} \cup {NormalizeAlignment(ps[i].alignment_bytes) : i \in DOMAIN ps})

\* One byte of a file, and a byte of zeroed memory.
Byte(key, at) == [file |-> key, at |-> at]
Zero == Byte("", 0)
NoArena == [base |-> 0, alignment |-> 0, memory |-> <<>>]

Current == manifest[next]
CurrentKey == KeyOf[Current.path]

\* ArtifactLoader::Impl::ViewRange: a range of a mapped file, by the index of its key.
Mapped(key) == opened[indices[key]]
InView(b) == RangeFits(Mapped(KeyOf[b.path]).size, b.offset_bytes, b.nbytes)

-----------------------------------------------------------------------------
Init ==
  /\ manifest \in Manifests
  /\ disk \in [Keys -> FileSizes]
  /\ options \in [verify : BOOLEAN, mode : {"mmap", "read_all"}, materialize : BOOLEAN]
  /\ phase = "verify"
  /\ next = 1
  /\ opened = <<>> /\ indices = <<>>
  /\ placements = <<>> /\ cursor = 0
  /\ arena = NoArena
  /\ fds = {} /\ mappings = {}

\* Returning nullptr destroys what was built: every file in opened is unmapped and closed.
\* open: the descriptors that were open when the destructors started.
Discard(open) ==
  LET registered == {opened[i].key : i \in DOMAIN opened} IN
  /\ phase' = "refused"
  /\ fds' = open \ registered
  /\ mappings' = mappings \ registered
  /\ opened' = <<>> /\ indices' = <<>>
  /\ placements' = <<>> /\ cursor' = 0
  /\ arena' = NoArena
  /\ UNCHANGED <<inputs, next>>

Refuse == Discard(fds)

Enter(p) == phase' = p /\ next' = 1

Advance(after) == IF next = Len(manifest) THEN Enter(after) ELSE phase' = phase /\ next' = next + 1

Verify ==
  /\ phase = "verify"
  /\ IF ManifestValid(manifest) /\ (options.verify => FilesVerified(manifest, disk))
     THEN Enter("open") /\ UNCHANGED <<inputs, loader, plan, arena>>
     ELSE Refuse

\* MapFile finds the key, ViewRange checks the range.
ViewOpened ==
  /\ phase = "open"
  /\ CurrentKey \in DOMAIN indices
  /\ IF InView(Current)
     THEN Advance("catalog") /\ UNCHANGED <<inputs, loader, plan, arena>>
     ELSE Refuse

\* MapFile up to open(): file_size or open may fail, or the file is empty.
OpenFile ==
  /\ phase = "open"
  /\ CurrentKey \notin DOMAIN indices
  /\ disk[CurrentKey] # 0
  /\ phase' = "map"
  /\ fds' = fds \cup {CurrentKey}
  /\ UNCHANGED <<inputs, next, opened, indices, mappings, plan, arena>>

OpenFileFails == phase = "open" /\ CurrentKey \notin DOMAIN indices /\ Refuse

\* The rest of MapFile: mmap or read everything, then register the file under its key.
IndexOf(key) ==
  [k \in DOMAIN indices \cup {key} |-> IF k = key THEN Len(opened) + 1 ELSE indices[k]]

MapFile ==
  /\ phase = "map"
  /\ indices' = IndexOf(CurrentKey)
  /\ opened' = Append(opened, [key |-> CurrentKey, size |-> disk[CurrentKey]])
  /\ mappings' = IF options.mode = "mmap" THEN mappings \cup {CurrentKey} ELSE mappings
  /\ phase' = "open"
  /\ UNCHANGED <<inputs, next, fds, plan, arena>>

\* Plausible bug: the descriptor is left to a destructor that does not know it.
MapFileFailsLeaking == phase = "map" /\ Discard(fds)

\* mmap or read fails: the file was never registered, its descriptor is closed here.
MapFileFails == phase = "map" /\ Discard(fds \ {CurrentKey})

BuildTensorCatalog ==
  /\ phase = "catalog"
  /\ IF CatalogValid(manifest)
     THEN /\ Enter(IF options.materialize THEN "plan" ELSE "ready")
          /\ UNCHANGED <<inputs, loader, plan, arena>>
     ELSE Refuse

\* One buffer of BuildWeightArenaPlan.
Placement == [at : Nat, nbytes : Nat, alignment_bytes : Nat]

Place(b, at) == [at |-> AlignUp(at, PlannedAlignment(b)), nbytes |-> b.nbytes,
                 alignment_bytes |-> PlannedAlignment(b)]

PlanBuffer ==
  LET p == Place(Current, cursor) IN
  /\ phase = "plan"
  /\ placements' = Append(placements, p)
  /\ cursor' = p.at + p.nbytes
  /\ Advance("allocate")
  /\ UNCHANGED <<inputs, loader, arena>>

\* posix_memalign, then memset.
AllocateArena ==
  LET alignment == BaseAlignment(placements) IN
  /\ phase = "allocate"
  /\ \E base \in Bases :
       /\ base % alignment = 0
       /\ arena' = [base |-> base, alignment |-> alignment, memory |-> [c \in 0..cursor - 1 |-> Zero]]
  /\ Enter("copy")
  /\ UNCHANGED <<inputs, loader, plan>>

AllocateArenaFails == phase = "allocate" /\ Refuse

\* Plausible bug: every buffer is copied from the start of its file.
CopiedFromStart(memory, p, b) ==
  [c \in DOMAIN memory |->
     IF c \in p.at..p.at + p.nbytes - 1 THEN Byte(Mapped(KeyOf[b.path]).key, c - p.at) ELSE memory[c]]

\* One buffer of CreateFromPlan's copy loop.
Copied(memory, p, b) ==
  [c \in DOMAIN memory |->
     IF c \in p.at..p.at + p.nbytes - 1
     THEN Byte(Mapped(KeyOf[b.path]).key, b.offset_bytes + (c - p.at))
     ELSE memory[c]]

CopyBuffer ==
  LET p == placements[next] IN
  /\ phase = "copy"
  /\ IF InView(Current) /\ p.nbytes = Current.nbytes /\ RangeFits(cursor, p.at, p.nbytes)
     THEN /\ arena' = [base |-> arena.base, alignment |-> arena.alignment,
                      memory |-> Copied(arena.memory, p, Current)]
          /\ Advance("ready")
          /\ UNCHANGED <<inputs, loader, plan>>
     ELSE Refuse

Done == phase \in {"ready", "refused"} /\ UNCHANGED vars

Next ==
  \/ Verify
  \/ ViewOpened \/ OpenFile \/ OpenFileFails \/ MapFile \/ MapFileFails
  \/ BuildTensorCatalog
  \/ PlanBuffer
  \/ AllocateArena \/ AllocateArenaFails \/ CopyBuffer
  \/ Done

Spec == Init /\ [][Next]_vars

-----------------------------------------------------------------------------
(* Properties.                                                             *)

\* The loader, the plan and the arena keep their types; a position is inside the manifest, and
\* what the plan has placed is what it has visited.
TypeOK ==
  /\ manifest \in Manifests
  /\ disk \in [Keys -> FileSizes]
  /\ phase \in {"verify", "open", "map", "catalog", "plan", "allocate", "copy", "ready", "refused"}
  /\ next \in DOMAIN manifest
  /\ opened \in Seq([key : Keys, size : Nat])
  /\ DOMAIN indices \subseteq Keys
  /\ \A k \in DOMAIN indices : indices[k] \in DOMAIN opened
  /\ placements \in Seq(Placement)
  /\ cursor \in Nat
  /\ fds \subseteq Keys /\ mappings \subseteq Keys

\* No two buffers of the plan share a byte, whatever their sizes and alignments, and none
\* reaches beyond the arena (BuildWeightArenaPlan's cursor).
PlacementsDisjoint ==
  \A i \in DOMAIN placements :
     /\ placements[i].at + placements[i].nbytes <= cursor
     /\ \A j \in 1..i - 1 : placements[j].at + placements[j].nbytes <= placements[i].at

\* Every file open or mapped is one the loader's destructor will release, or the one MapFile is
\* working on; each is registered once.  So a refused load leaves nothing open (MapFile).
FilesAccounted ==
  LET registered == {opened[i].key : i \in DOMAIN opened} IN
  /\ \A i, j \in DOMAIN opened : opened[i].key = opened[j].key => i = j
  /\ fds = registered \cup (IF phase = "map" THEN {CurrentKey} ELSE {})
  /\ mappings = IF options.mode = "mmap" THEN registered ELSE {}

\* When loading has finished, each buffer of the arena holds exactly the bytes the manifest
\* names for it, although files are shared between buffers, found by normalised name and
\* copied one after the other (CreateFromPlan, FindTensor).
ArenaHoldsManifest ==
  phase = "ready" /\ options.materialize =>
     \A i \in DOMAIN manifest : \A c \in 0..manifest[i].nbytes - 1 :
        arena.memory[placements[i].at + c] = Byte(KeyOf[manifest[i].path], manifest[i].offset_bytes + c)

\* Wherever the allocator puts the arena, each buffer's address, not only its offset, has the
\* alignment planned for it, if that is a power of two (base_alignment_bytes).
AddressesAligned ==
  arena # NoArena =>
     \A i \in DOMAIN placements : placements[i].alignment_bytes \in PowersOfTwo =>
        (arena.base + placements[i].at) % placements[i].alignment_bytes = 0

\* Once memory is allocated, copying never gives up: the loader's range checks, the plan's
\* sizes and the arena's own checks agree (the early returns of CreateFromPlan's loop).
CopyNeverRefused == [][phase = "copy" => phase' # "refused"]_vars
=============================================================================
