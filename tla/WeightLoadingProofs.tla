------------------------ MODULE WeightLoadingProofs ------------------------
(***************************************************************************)
(* Theorems about WeightLoading, for all manifests, file sizes, alignments *)
(* and addresses: planned buffers never overlap, the loader accounts for   *)
(* every open file, copying never gives up, the arena ends up with the     *)
(* bytes the manifest names, at addresses aligned as planned.  And about   *)
(* RuntimeEnvironment: it keeps all that, and the shared cache gets        *)
(* exactly the bytes the service leaves.                                   *)
(***************************************************************************)
EXTENDS RuntimeEnvironment, TLAPS, WellFoundedInduction

Registered == {opened[i].key : i \in DOMAIN opened}

\* The loader has seen that the range of buffer i lies in its mapped file.
Seen(i) == KeyOf[manifest[i].path] \in Registered /\ InView(manifest[i])

\* Buffer i has been copied.
Holds(i) ==
  \A c \in 0..manifest[i].nbytes - 1 :
     arena.memory[placements[i].at + c] = Byte(KeyOf[manifest[i].path], manifest[i].offset_bytes + c)

Typed ==
  /\ manifest \in Manifests
  /\ disk \in [Keys -> FileSizes]
  /\ phase \in {"verify", "open", "map", "catalog", "plan", "allocate", "copy", "ready", "refused"}
  /\ next \in 1..Len(manifest)
  /\ phase \notin {"verify", "refused"} => ManifestValid(manifest)
  /\ phase \in {"plan", "allocate", "copy"} => options.materialize

LoaderOK ==
  /\ opened \in Seq([key : Keys, size : Nat])
  /\ DOMAIN indices = Registered
  /\ \A k \in Registered : indices[k] \in DOMAIN opened /\ opened[indices[k]].key = k
  /\ FilesAccounted
  /\ phase = "map" => CurrentKey \notin Registered

Viewed ==
  /\ phase \in {"open", "map"} => \A i \in 1..next - 1 : Seen(i)
  /\ phase \in {"catalog", "plan", "allocate", "copy", "ready"} => \A i \in 1..Len(manifest) : Seen(i)

PlanOK ==
  /\ placements \in Seq(Placement)
  /\ cursor \in Nat
  /\ PlacementsDisjoint
  /\ \A i \in DOMAIN placements : placements[i].nbytes = manifest[i].nbytes
  /\ phase = "plan" => Len(placements) = next - 1
  /\ phase \in {"allocate", "copy"} => Len(placements) = Len(manifest)
  /\ phase = "ready" /\ options.materialize => Len(placements) = Len(manifest)
  /\ phase \in {"verify", "open", "map", "catalog"} => placements = <<>>

MemoryOK ==
  /\ phase = "copy" => /\ DOMAIN arena.memory = 0..cursor - 1
                       /\ \A i \in 1..next - 1 : Holds(i)
  /\ phase = "ready" /\ options.materialize => \A i \in 1..Len(manifest) : Holds(i)

IInv == Typed /\ LoaderOK /\ Viewed /\ PlanOK /\ MemoryOK

-----------------------------------------------------------------------------
\* Rounding up never goes down.
LEMMA AlignUpGrows ==
  ASSUME NEW value \in Nat, NEW alignment \in Nat, alignment # 0
  PROVE  AlignUp(value, alignment) \in Nat /\ AlignUp(value, alignment) >= value
<1>1. value % alignment \in 0..alignment - 1
  OBVIOUS
<1>2. QED
  BY <1>1 DEF AlignUp

\* The buffer at a position of a manifest.
LEMMA BufferTyped ==
  ASSUME NEW m \in Manifests, NEW i \in 1..Len(m)
  PROVE  /\ m \in Seq(Buffer)
         /\ m[i] \in Buffer
         /\ KeyOf[m[i].path] \in Keys
         /\ m[i].nbytes \in Nat /\ m[i].offset_bytes \in Nat
<1>1. m \in Seq(Buffer)
  BY LoadingAssumption
<1>2. m[i] \in Buffer
  BY <1>1
<1>3. QED
  BY <1>1, <1>2 DEF Buffer, Keys

\* A planned alignment is never 0 in a valid manifest.
LEMMA PlannedAlignmentPositive ==
  ASSUME NEW m \in Manifests, ManifestValid(m), NEW i \in 1..Len(m)
  PROVE  PlannedAlignment(m[i]) \in Nat /\ PlannedAlignment(m[i]) # 0
<1>1. m[i] \in Buffer /\ i \in DOMAIN m
  BY BufferTyped
<1>2. QED
  BY <1>1 DEF Buffer, PlannedAlignment, ManifestValid, kDefaultAuxiliaryAlignmentBytes

LEMMA InitIInv == Init => IInv
<1> SUFFICES ASSUME Init PROVE IInv
  OBVIOUS
<1>1. manifest \in Seq(Buffer) /\ Len(manifest) \in Nat /\ Len(manifest) >= 1
  BY LoadingAssumption DEF Init
<1>2. Typed
  BY <1>1 DEF Init, Typed
<1>3. Registered = {}
  BY DEF Init, Registered
<1>4. LoaderOK
  BY <1>3 DEF Init, LoaderOK, FilesAccounted, Registered
<1>5. Viewed /\ PlanOK /\ MemoryOK
  BY DEF Init, Viewed, PlanOK, MemoryOK, PlacementsDisjoint
<1>6. QED
  BY <1>2, <1>4, <1>5 DEF IInv

\* Destructors release everything, provided no other file is open.
LEMMA DiscardIInv ==
  ASSUME IInv, NEW open, open \subseteq Registered, Discard(open)
  PROVE  IInv'
<1> USE DEF IInv
<1>1. Typed'
  BY DEF Typed, Discard, inputs
<1>2. fds' = {} /\ mappings' = {} /\ opened' = <<>> /\ indices' = <<>> /\ phase' = "refused"
  BY DEF Discard, Registered, LoaderOK, FilesAccounted
<1>3. LoaderOK'
  BY <1>2 DEF LoaderOK, FilesAccounted, Registered
<1>4. Viewed' /\ PlanOK' /\ MemoryOK'
  BY <1>2 DEF Discard, Viewed, PlanOK, MemoryOK, PlacementsDisjoint
<1>5. QED
  BY <1>1, <1>3, <1>4

LEMMA RefuseIInv ==
  ASSUME IInv, phase # "map", Refuse
  PROVE  IInv'
<1>1. fds \subseteq Registered
  BY DEF IInv, LoaderOK, FilesAccounted, Registered
<1>2. QED
  BY <1>1, DiscardIInv DEF Refuse

-----------------------------------------------------------------------------
(* What steps that leave a part alone keep.                                *)

LEMMA LoaderKept ==
  ASSUME LoaderOK, UNCHANGED <<inputs, loader>>, phase # "map", phase' # "map"
  PROVE  LoaderOK'
<1>1. Registered' = Registered /\ opened' = opened /\ indices' = indices
  BY DEF Registered, loader
<1>2. fds' = fds /\ mappings' = mappings /\ options' = options
  BY DEF loader, inputs
<1>3. FilesAccounted'
  BY <1>1, <1>2 DEF LoaderOK, FilesAccounted
<1>4. QED
  BY <1>1, <1>3 DEF LoaderOK

LEMMA SeenKept ==
  ASSUME UNCHANGED <<inputs, opened, indices>>
  PROVE  \A i : Seen(i)' = Seen(i)
BY DEF Seen, InView, Mapped, Registered, inputs

\* A step of the loader or the catalog: nothing is planned yet.
LEMMA PlanKept ==
  ASSUME PlanOK, MemoryOK, UNCHANGED <<inputs, plan, arena>>,
         phase \in {"verify", "open", "map", "catalog"},
         \/ phase' \in {"verify", "open", "map", "catalog"}
         \/ phase' = "plan" /\ next' = 1
         \/ phase' = "ready" /\ ~options.materialize
  PROVE  PlanOK' /\ MemoryOK'
<1>1. placements' = <<>> /\ placements = <<>> /\ cursor' = cursor /\ manifest' = manifest
      /\ options' = options
  BY DEF PlanOK, plan, inputs
<1>2. PlanOK'
  BY <1>1 DEF PlanOK, PlacementsDisjoint
<1>3. QED
  BY <1>1, <1>2 DEF MemoryOK

-----------------------------------------------------------------------------
(* One lemma per action.                                                   *)

LEMMA VerifyIInv == ASSUME IInv, Verify PROVE IInv'
<1>1. CASE Refuse
  BY <1>1, RefuseIInv DEF Verify
<1>2. CASE /\ ManifestValid(manifest) /\ Enter("open")
           /\ UNCHANGED <<inputs, loader, plan, arena>>
  <2>1. Typed'
    <3>1. Len(manifest) >= 1 /\ Len(manifest) \in Nat
      BY BufferTyped DEF IInv, Typed
    <3>2. QED
      BY <1>2, <3>1 DEF IInv, Typed, Enter, inputs
  <2>2. LoaderOK'
    BY <1>2, LoaderKept DEF IInv, Verify, Enter
  <2>3. Viewed'
    BY <1>2 DEF Viewed, Enter
  <2>4. PlanOK' /\ MemoryOK'
    BY <1>2, PlanKept DEF IInv, Verify, Enter
  <2>5. QED
    BY <2>1, <2>2, <2>3, <2>4 DEF IInv
<1>3. QED
  BY <1>1, <1>2 DEF Verify

LEMMA ViewOpenedIInv == ASSUME IInv, ViewOpened PROVE IInv'
<1>1. CASE Refuse
  BY <1>1, RefuseIInv DEF ViewOpened
<1>2. CASE /\ InView(Current) /\ Advance("catalog")
           /\ UNCHANGED <<inputs, loader, plan, arena>>
  <2>1. next \in 1..Len(manifest) /\ Len(manifest) \in Nat /\ manifest' = manifest
    BY <1>2, BufferTyped DEF IInv, Typed, inputs
  <2>2. \/ next = Len(manifest) /\ phase' = "catalog" /\ next' = 1
        \/ next < Len(manifest) /\ phase' = "open" /\ next' = next + 1
    BY <1>2, <2>1 DEF ViewOpened, Advance, Enter
  <2>3. Typed'
    BY <1>2, <2>1, <2>2 DEF IInv, Typed, ViewOpened, inputs
  <2>4. LoaderOK'
    BY <1>2, <2>2, LoaderKept DEF IInv, ViewOpened
  <2>5. Seen(next)
    BY <1>2 DEF Seen, ViewOpened, Current, CurrentKey, IInv, LoaderOK
  <2>6. \A i \in 1..next : Seen(i)
    BY <2>1, <2>5 DEF IInv, Viewed, ViewOpened
  <2>7. \A i : Seen(i)' = Seen(i)
    BY <1>2, SeenKept DEF loader
  <2>8. Viewed'
    BY <2>1, <2>2, <2>6, <2>7 DEF Viewed
  <2>9. PlanOK' /\ MemoryOK'
    BY <1>2, <2>2, PlanKept DEF IInv, ViewOpened
  <2>10. QED
    BY <2>3, <2>4, <2>8, <2>9 DEF IInv
<1>3. QED
  BY <1>1, <1>2 DEF ViewOpened

LEMMA OpenFileIInv == ASSUME IInv, OpenFile PROVE IInv'
<1>1. /\ phase = "open" /\ phase' = "map" /\ next' = next
      /\ UNCHANGED <<inputs, opened, indices, mappings, plan, arena>>
      /\ fds' = fds \cup {CurrentKey}
  BY DEF OpenFile
<1>2. Typed'
  BY <1>1 DEF IInv, Typed, inputs
<1>3. CurrentKey' = CurrentKey /\ Registered' = Registered /\ options' = options
  BY <1>1 DEF CurrentKey, Current, Registered, inputs
<1>4. LoaderOK'
  BY <1>1, <1>3 DEF IInv, LoaderOK, FilesAccounted, Registered, OpenFile
<1>5. Viewed'
  BY <1>1, SeenKept DEF IInv, Viewed
<1>6. PlanOK' /\ MemoryOK'
  BY <1>1, PlanKept DEF IInv
<1>7. QED
  BY <1>2, <1>4, <1>5, <1>6 DEF IInv

LEMMA MapFileIInv == ASSUME IInv, FileSizes \subseteq Nat, MapFile PROVE IInv'
<1>1. /\ phase = "map" /\ phase' = "open" /\ next' = next /\ fds' = fds
      /\ UNCHANGED <<inputs, plan, arena>>
  BY DEF MapFile
<1> DEFINE file == [key |-> CurrentKey, size |-> disk[CurrentKey]]
<1>2. opened' = Append(opened, file) /\ indices' = IndexOf(CurrentKey)
  BY DEF MapFile
<1>3. CurrentKey \in Keys /\ file \in [key : Keys, size : Nat]
  <2>1. CurrentKey \in Keys
    BY BufferTyped DEF IInv, Typed, CurrentKey, Current
  <2>2. disk[CurrentKey] \in Nat
    BY <2>1 DEF IInv, Typed
  <2>3. QED
    BY <2>1, <2>2
<1> HIDE DEF file
<1>4. /\ opened' \in Seq([key : Keys, size : Nat])
      /\ DOMAIN opened' = DOMAIN opened \cup {Len(opened) + 1}
      /\ \A i \in DOMAIN opened : opened'[i] = opened[i]
      /\ opened'[Len(opened) + 1] = file
      /\ Len(opened) + 1 \notin DOMAIN opened
  BY <1>2, <1>3 DEF IInv, LoaderOK
<1>5. file.key = CurrentKey
  BY DEF file
<1>6. Registered' = Registered \cup {CurrentKey}
  BY <1>4, <1>5 DEF Registered
<1>7. CurrentKey \notin Registered /\ CurrentKey \notin DOMAIN indices
  BY <1>1 DEF IInv, LoaderOK
<1>8. /\ DOMAIN indices' = Registered'
      /\ indices'[CurrentKey] = Len(opened) + 1
      /\ \A k \in Registered : indices'[k] = indices[k]
  BY <1>2, <1>6, <1>7 DEF IndexOf, IInv, LoaderOK
<1>9. Typed'
  BY <1>1 DEF IInv, Typed, inputs
<1>10. \A k \in Registered' : indices'[k] \in DOMAIN opened' /\ opened'[indices'[k]].key = k
  BY <1>4, <1>5, <1>6, <1>8 DEF IInv, LoaderOK
<1>11. FilesAccounted'
  <2>1. \A i, j \in DOMAIN opened' : opened'[i].key = opened'[j].key => i = j
    <3>1. \A i \in DOMAIN opened : opened[i].key # CurrentKey
      BY <1>7 DEF Registered
    <3>2. \A i, j \in DOMAIN opened : opened[i].key = opened[j].key => i = j
      BY DEF IInv, LoaderOK, FilesAccounted
    <3>3. QED
      BY <1>4, <1>5, <3>1, <3>2
  <2>2. fds' = Registered'
    BY <1>1, <1>6 DEF IInv, LoaderOK, FilesAccounted, Registered
  <2>3. mappings' = IF options'.mode = "mmap" THEN Registered' ELSE {}
    BY <1>1, <1>6 DEF MapFile, IInv, LoaderOK, FilesAccounted, Registered, inputs
  <2>4. QED
    BY <1>1, <2>1, <2>2, <2>3 DEF FilesAccounted, Registered
<1>12. LoaderOK'
  BY <1>1, <1>4, <1>8, <1>10, <1>11 DEF LoaderOK
<1>13. Viewed'
  <2>1. \A i \in 1..next - 1 : Seen(i)
    BY <1>1 DEF IInv, Viewed
  <2>2. \A k \in Registered : opened'[indices'[k]] = opened[indices[k]]
    BY <1>4, <1>8 DEF IInv, LoaderOK
  <2>3. ASSUME NEW i \in 1..next - 1 PROVE Seen(i)'
    BY <1>1, <1>6, <2>1, <2>2 DEF Seen, InView, Mapped, inputs
  <2>4. QED
    BY <1>1, <2>3 DEF Viewed
<1>14. PlanOK' /\ MemoryOK'
  BY <1>1, PlanKept DEF IInv
<1>15. QED
  BY <1>9, <1>12, <1>13, <1>14 DEF IInv

LEMMA MapFileFailsIInv == ASSUME IInv, MapFileFails PROVE IInv'
<1>1. fds \ {CurrentKey} \subseteq Registered
  BY DEF IInv, LoaderOK, FilesAccounted, Registered, MapFileFails
<1>2. QED
  BY <1>1, DiscardIInv DEF MapFileFails

LEMMA BuildTensorCatalogIInv == ASSUME IInv, BuildTensorCatalog PROVE IInv'
<1>1. CASE Refuse
  BY <1>1, RefuseIInv DEF BuildTensorCatalog
<1>2. CASE /\ Enter(IF options.materialize THEN "plan" ELSE "ready")
           /\ UNCHANGED <<inputs, loader, plan, arena>>
  <2>1. /\ next' = 1 /\ phase = "catalog"
        /\ \/ phase' = "plan" /\ options.materialize
           \/ phase' = "ready" /\ ~options.materialize
    BY <1>2 DEF Enter, BuildTensorCatalog
  <2>2. Typed'
    <3>1. Len(manifest) >= 1 /\ Len(manifest) \in Nat
      BY BufferTyped DEF IInv, Typed
    <3>2. QED
      BY <1>2, <2>1, <3>1 DEF IInv, Typed, inputs
  <2>3. LoaderOK'
    BY <1>2, <2>1, LoaderKept DEF IInv
  <2>4. \A i : Seen(i)' = Seen(i)
    BY <1>2, SeenKept DEF loader
  <2>5. Viewed'
    BY <1>2, <2>1, <2>4 DEF IInv, Viewed, inputs
  <2>6. PlanOK' /\ MemoryOK'
    BY <1>2, <2>1, PlanKept DEF IInv
  <2>7. QED
    BY <2>2, <2>3, <2>5, <2>6 DEF IInv
<1>3. QED
  BY <1>1, <1>2 DEF BuildTensorCatalog

\* The places planned so far, as facts about numbers.
LEMMA PlacementsTyped ==
  ASSUME PlanOK
  PROVE  /\ Len(placements) \in Nat /\ DOMAIN placements = 1..Len(placements)
         /\ \A i \in 1..Len(placements) :
              /\ placements[i].at \in Nat /\ placements[i].nbytes \in Nat
              /\ placements[i].nbytes = manifest[i].nbytes
              /\ placements[i].at + placements[i].nbytes <= cursor
              /\ \A j \in 1..i - 1 :
                   placements[j].at + placements[j].nbytes <= placements[i].at
<1>1. Len(placements) \in Nat /\ DOMAIN placements = 1..Len(placements)
  BY DEF PlanOK
<1>2. \A i \in 1..Len(placements) : placements[i] \in Placement
  BY <1>1 DEF PlanOK
<1>3. \A i \in 1..Len(placements) : placements[i].at \in Nat /\ placements[i].nbytes \in Nat
  BY <1>2 DEF Placement
<1>4. QED
  BY <1>1, <1>3 DEF PlanOK, PlacementsDisjoint

LEMMA PlanBufferIInv == ASSUME IInv, PlanBuffer PROVE IInv'
<1> DEFINE p == Place(Current, cursor)
<1>1. /\ phase = "plan" /\ placements' = Append(placements, p) /\ cursor' = p.at + p.nbytes
      /\ Advance("allocate") /\ UNCHANGED <<inputs, loader, arena>>
  BY DEF PlanBuffer
<1>2. next \in 1..Len(manifest) /\ Len(manifest) \in Nat /\ manifest' = manifest
      /\ options' = options /\ Len(placements) = next - 1 /\ options.materialize
  BY <1>1, BufferTyped DEF IInv, Typed, PlanOK, inputs
<1>3. \/ next = Len(manifest) /\ phase' = "allocate" /\ next' = 1
      \/ next < Len(manifest) /\ phase' = "plan" /\ next' = next + 1
  BY <1>1, <1>2 DEF Advance, Enter
<1>4. Typed'
  BY <1>1, <1>2, <1>3 DEF IInv, Typed, inputs
<1>5. LoaderOK'
  BY <1>1, <1>3, LoaderKept DEF IInv
<1>6. Viewed'
  <2>1. \A i : Seen(i)' = Seen(i)
    BY <1>1, SeenKept DEF loader
  <2>2. QED
    BY <1>1, <1>2, <1>3, <2>1 DEF IInv, Viewed
<1>7. p \in Placement /\ p.at \in Nat /\ p.nbytes \in Nat /\ p.at >= cursor
      /\ p.nbytes = manifest[next].nbytes
  <2>1. PlannedAlignment(Current) \in Nat /\ PlannedAlignment(Current) # 0
    BY <1>1, <1>2, PlannedAlignmentPositive DEF IInv, Typed, Current
  <2>2. AlignUp(cursor, PlannedAlignment(Current)) \in Nat
        /\ AlignUp(cursor, PlannedAlignment(Current)) >= cursor
    BY <2>1, AlignUpGrows DEF IInv, PlanOK
  <2>3. Current = manifest[next] /\ Current.nbytes \in Nat
    BY <1>2, BufferTyped DEF IInv, Typed, Current
  <2>4. QED
    BY <2>1, <2>2, <2>3 DEF Place, Placement
<1> HIDE DEF p
<1>8. /\ placements' \in Seq(Placement)
      /\ Len(placements') = next
      /\ DOMAIN placements' = 1..next /\ DOMAIN placements = 1..next - 1
      /\ \A i \in 1..next - 1 : placements'[i] = placements[i]
      /\ placements'[next] = p
  BY <1>1, <1>2, <1>7 DEF IInv, PlanOK
<1>9. cursor' \in Nat /\ cursor \in Nat /\ cursor' >= cursor
  BY <1>1, <1>7 DEF IInv, PlanOK
<1>10. PlacementsDisjoint'
  <2>1. ASSUME NEW i \in 1..next - 1
        PROVE  /\ placements'[i].at + placements'[i].nbytes <= cursor'
               /\ \A j \in 1..i - 1 :
                    placements'[j].at + placements'[j].nbytes <= placements'[i].at
    <3>1. /\ placements[i].at + placements[i].nbytes <= cursor
          /\ \A j \in 1..i - 1 : placements[j].at + placements[j].nbytes <= placements[i].at
      BY <1>8 DEF IInv, PlanOK, PlacementsDisjoint
    <3>2. placements[i].at \in Nat /\ placements[i].nbytes \in Nat
      BY <1>2, PlacementsTyped DEF IInv
    <3>3. \A j \in 1..i - 1 : placements'[j] = placements[j]
      BY <1>2, <1>8
    <3>4. \A j \in 1..i - 1 : placements[j].at \in Nat /\ placements[j].nbytes \in Nat
      BY <1>2, PlacementsTyped DEF IInv
    <3>5. placements'[i] = placements[i]
      BY <1>8
    <3>6. placements[i].at + placements[i].nbytes <= cursor'
      BY <1>9, <3>1, <3>2
    <3>7. QED
      BY <3>1, <3>3, <3>5, <3>6
  <2>2. placements'[next].at + placements'[next].nbytes <= cursor'
    BY <1>1, <1>7, <1>8
  <2>3. \A j \in 1..next - 1 : placements'[j].at + placements'[j].nbytes <= placements'[next].at
    <3>1. ASSUME NEW j \in 1..next - 1
          PROVE  placements'[j].at + placements'[j].nbytes <= placements'[next].at
      <4>1. placements[j].at + placements[j].nbytes <= cursor
        BY <1>8 DEF IInv, PlanOK, PlacementsDisjoint
      <4>2. placements[j].at \in Nat /\ placements[j].nbytes \in Nat
        BY <1>2, PlacementsTyped DEF IInv
      <4>3. placements[j].at + placements[j].nbytes <= p.at
        BY <1>7, <1>9, <4>1, <4>2
      <4>4. QED
        BY <1>8, <4>3
    <3>2. QED
      BY <3>1
  <2>4. \A i \in 1..next : i \in 1..next - 1 \/ i = next
    BY <1>2
  <2>5. QED
    BY <1>8, <2>1, <2>2, <2>3, <2>4 DEF PlacementsDisjoint
<1>11. PlanOK'
  <2>1. ASSUME NEW i \in 1..next PROVE placements'[i].nbytes = manifest'[i].nbytes
    <3>1. CASE i = next
      BY <1>2, <1>7, <1>8, <3>1
    <3>2. CASE i \in 1..next - 1
      BY <1>2, <1>8, <3>2, PlacementsTyped DEF IInv
    <3>3. QED
      BY <1>2, <3>1, <3>2
  <2>2. QED
    BY <1>2, <1>3, <1>8, <1>9, <1>10, <2>1 DEF PlanOK
<1>12. MemoryOK'
  BY <1>3 DEF MemoryOK
<1>13. QED
  BY <1>4, <1>5, <1>6, <1>11, <1>12 DEF IInv

LEMMA AllocateArenaIInv == ASSUME IInv, AllocateArena PROVE IInv'
<1>1. /\ phase = "allocate" /\ phase' = "copy" /\ next' = 1
      /\ UNCHANGED <<inputs, loader, plan>>
  BY DEF AllocateArena, Enter
<1>2. DOMAIN arena'.memory = 0..cursor - 1
  BY DEF AllocateArena
<1>3. Typed'
  <2>1. Len(manifest) >= 1 /\ Len(manifest) \in Nat
    BY BufferTyped DEF IInv, Typed
  <2>2. QED
    BY <1>1, <2>1 DEF IInv, Typed, inputs
<1>4. LoaderOK'
  BY <1>1, LoaderKept DEF IInv
<1>5. Viewed'
  <2>1. \A i : Seen(i)' = Seen(i)
    BY <1>1, SeenKept DEF loader
  <2>2. QED
    BY <1>1, <2>1 DEF IInv, Viewed, inputs
<1>6. PlanOK'
  BY <1>1 DEF IInv, PlanOK, PlacementsDisjoint, plan, inputs
<1>7. MemoryOK'
  BY <1>1, <1>2 DEF MemoryOK, plan
<1>8. QED
  BY <1>3, <1>4, <1>5, <1>6, <1>7 DEF IInv

\* The checks in the copy loop succeed: the loader viewed the range, the plan kept the size and
\* counted the bytes.
LEMMA CopyChecksPass ==
  ASSUME IInv, phase = "copy"
  PROVE  /\ InView(Current)
         /\ placements[next].nbytes = Current.nbytes
         /\ RangeFits(cursor, placements[next].at, placements[next].nbytes)
<1>1. next \in 1..Len(manifest) /\ Len(placements) = Len(manifest) /\ Len(manifest) \in Nat
  BY BufferTyped DEF IInv, Typed, PlanOK
<1>2. next \in DOMAIN placements /\ placements[next].at \in Nat /\ placements[next].nbytes \in Nat
  BY <1>1, PlacementsTyped DEF IInv
<1>3. Seen(next)
  BY <1>1 DEF IInv, Viewed
<1>4. placements[next].at + placements[next].nbytes <= cursor /\ cursor \in Nat
  BY <1>2 DEF IInv, PlanOK, PlacementsDisjoint
<1>5. RangeFits(cursor, placements[next].at, placements[next].nbytes)
  BY <1>2, <1>4 DEF RangeFits
<1>6. QED
  BY <1>2, <1>3, <1>5 DEF Seen, Current, IInv, PlanOK

LEMMA CopyBufferIInv == ASSUME IInv, CopyBuffer PROVE IInv'
<1> DEFINE p == placements[next]
<1>1. /\ phase = "copy"
      /\ arena' = [base |-> arena.base, alignment |-> arena.alignment,
                   memory |-> Copied(arena.memory, p, Current)]
      /\ Advance("ready") /\ UNCHANGED <<inputs, loader, plan>>
  BY CopyChecksPass DEF CopyBuffer
<1>2. /\ next \in 1..Len(manifest) /\ Len(manifest) \in Nat /\ Len(placements) = Len(manifest)
      /\ options.materialize
      /\ manifest' = manifest /\ options' = options /\ placements' = placements /\ cursor' = cursor
  BY <1>1, BufferTyped DEF IInv, Typed, PlanOK, inputs, plan
<1>3. \/ next = Len(manifest) /\ phase' = "ready" /\ next' = 1
      \/ next < Len(manifest) /\ phase' = "copy" /\ next' = next + 1
  BY <1>1, <1>2 DEF Advance, Enter
<1>4. Typed'
  BY <1>1, <1>2, <1>3 DEF IInv, Typed, inputs
<1>5. LoaderOK'
  BY <1>1, <1>3, LoaderKept DEF IInv
<1>6. Viewed'
  <2>1. \A i : Seen(i)' = Seen(i)
    BY <1>1, SeenKept DEF loader
  <2>2. QED
    BY <1>1, <1>2, <1>3, <2>1 DEF IInv, Viewed
<1>7. PlanOK'
  BY <1>1, <1>2, <1>3 DEF IInv, PlanOK, PlacementsDisjoint
<1>8. /\ arena'.memory = Copied(arena.memory, p, Current)
      /\ DOMAIN arena.memory = 0..cursor - 1
      /\ DOMAIN arena'.memory = 0..cursor - 1
  BY <1>1 DEF IInv, MemoryOK, Copied
<1>9. \A i \in 1..Len(manifest) :
        /\ placements[i].at \in Nat /\ placements[i].nbytes \in Nat
        /\ placements[i].nbytes = manifest[i].nbytes
        /\ placements[i].at + placements[i].nbytes <= cursor
        /\ \A j \in 1..i - 1 : placements[j].at + placements[j].nbytes <= placements[i].at
  BY <1>2, PlacementsTyped DEF IInv
<1>10. cursor \in Nat
  BY DEF IInv, PlanOK
\* What was copied before stays: the places are disjoint.
<1>11. ASSUME NEW i \in 1..next - 1, NEW c \in 0..manifest[i].nbytes - 1
       PROVE  arena'.memory[placements[i].at + c]
              = Byte(KeyOf[manifest[i].path], manifest[i].offset_bytes + c)
  <2>1. i \in 1..Len(manifest) /\ manifest[i].nbytes \in Nat /\ c \in Nat
    <3>1. i \in 1..Len(manifest)
      BY <1>2
    <3>2. manifest[i].nbytes \in Nat
      BY <3>1, BufferTyped DEF IInv, Typed
    <3>3. QED
      BY <3>1, <3>2
  <2>2. placements[i].at + c < p.at
    BY <1>2, <1>9, <2>1
  <2>3. placements[i].at + c \in 0..cursor - 1
    BY <1>9, <1>10, <2>1, SMTT(30)
  <2>4. p.at \in Nat
    BY <1>2, <1>9
  <2>5. placements[i].at + c \notin p.at..p.at + p.nbytes - 1
    BY <1>2, <1>9, <2>1, <2>2, <2>4
  <2>6. arena'.memory[placements[i].at + c] = arena.memory[placements[i].at + c]
    BY <1>8, <2>3, <2>5 DEF Copied
  <2>7. Holds(i)
    BY <1>1 DEF IInv, MemoryOK
  <2>8. QED
    BY <2>6, <2>7 DEF Holds
\* The buffer at next is there now: the index of its key leads to its own file.
<1>12. ASSUME NEW c \in 0..manifest[next].nbytes - 1
       PROVE  arena'.memory[placements[next].at + c]
              = Byte(KeyOf[manifest[next].path], manifest[next].offset_bytes + c)
  <2>1. Seen(next)
    BY <1>1, <1>2 DEF IInv, Viewed
  <2>2. Mapped(KeyOf[manifest[next].path]).key = KeyOf[manifest[next].path]
    BY <2>1 DEF Seen, IInv, LoaderOK, Mapped
  <2>3. manifest[next].nbytes \in Nat /\ p.at \in Nat /\ p.nbytes = manifest[next].nbytes
        /\ p.at + p.nbytes <= cursor
    BY <1>2, <1>9
  <2>4. p.at + c \in 0..cursor - 1 /\ p.at + c \in p.at..p.at + p.nbytes - 1
        /\ (p.at + c) - p.at = c
    BY <1>10, <2>3
  <2>5. QED
    BY <1>8, <2>2, <2>4 DEF Copied, Current
<1>13. ASSUME NEW i \in 1..next PROVE Holds(i)'
  <2>1. i = next \/ i \in 1..next - 1
    BY <1>2
  <2>2. QED
    BY <1>2, <1>11, <1>12, <2>1 DEF Holds
<1>14. MemoryOK'
  BY <1>2, <1>3, <1>8, <1>13 DEF MemoryOK
<1>15. QED
  BY <1>4, <1>5, <1>6, <1>7, <1>14 DEF IInv

LEMMA NextIInv == IInv /\ [Next]_vars => IInv'
<1> SUFFICES ASSUME IInv, [Next]_vars PROVE IInv'
  OBVIOUS
<1>1. CASE Verify
  BY <1>1, VerifyIInv
<1>2. CASE ViewOpened
  BY <1>2, ViewOpenedIInv
<1>3. CASE OpenFile
  BY <1>3, OpenFileIInv
<1>4. CASE OpenFileFails
  BY <1>4, RefuseIInv DEF OpenFileFails
<1>5. CASE MapFile
  BY <1>5, MapFileIInv, LoadingAssumption
<1>6. CASE MapFileFails
  BY <1>6, MapFileFailsIInv
<1>7. CASE BuildTensorCatalog
  BY <1>7, BuildTensorCatalogIInv
<1>8. CASE PlanBuffer
  BY <1>8, PlanBufferIInv
<1>9. CASE AllocateArena
  BY <1>9, AllocateArenaIInv
<1>10. CASE AllocateArenaFails
  BY <1>10, RefuseIInv DEF AllocateArenaFails
<1>11. CASE CopyBuffer
  BY <1>11, CopyBufferIInv
<1>12. CASE UNCHANGED vars
  <2>1. UNCHANGED <<inputs, phase, next, opened, indices, fds, mappings, plan, arena>>
    BY <1>12 DEF vars, loader
  <2>2. \A i : Seen(i)' = Seen(i)
    BY <2>1, SeenKept
  <2>3. \A i : Holds(i)' = Holds(i)
    BY <2>1 DEF Holds, plan, inputs
  <2>4. Typed'
    BY <2>1 DEF IInv, Typed, inputs
  <2>5. LoaderOK'
    BY <2>1 DEF IInv, LoaderOK, FilesAccounted, Registered, CurrentKey, Current, inputs
  <2>6. Viewed'
    BY <2>1, <2>2 DEF IInv, Viewed, inputs
  <2>7. PlanOK'
    BY <2>1 DEF IInv, PlanOK, PlacementsDisjoint, plan, inputs
  <2>8. MemoryOK'
    BY <2>1, <2>3 DEF IInv, MemoryOK, plan, inputs
  <2>9. QED
    BY <2>4, <2>5, <2>6, <2>7, <2>8 DEF IInv
<1>13. QED
  BY <1>1, <1>2, <1>3, <1>4, <1>5, <1>6, <1>7, <1>8, <1>9, <1>10, <1>11, <1>12 DEF Next, Done

-----------------------------------------------------------------------------
(* Powers of two *)

LEMMA LeastNatural ==
  ASSUME NEW T \in SUBSET Nat, T # {}
  PROVE  \E x \in T : \A y \in T : x <= y
<1>1. PICK x \in T : \A y \in T : ~(<<y, x>> \in OpToRel(<, Nat))
  BY NatLessThanWellFounded, WFMin
<1>2. \A y \in T : ~(y < x)
  BY <1>1 DEF OpToRel
<1>. QED BY <1>2

\* f doubles up to n.
Doubles(f, n) == f = [k \in 0..n |-> IF k = 0 THEN 1 ELSE 2 * f[k - 1]]

LEMMA DoublingExists ==
  ASSUME NEW n \in Nat
  PROVE  \E f : Doubles(f, n)
<1>. DEFINE T == {k \in Nat : ~\E f : Doubles(f, k)}
<1>1. SUFFICES ASSUME T # {} PROVE FALSE
  OBVIOUS
<1>2. PICK k \in T : \A l \in T : k <= l
  <2>1. T \in SUBSET Nat
    OBVIOUS
  <2>. HIDE DEF T
  <2>. QED BY <1>1, <2>1, LeastNatural
<1>3. CASE k = 0
  <2>. DEFINE f == [l \in 0..0 |-> 1]
  <2>1. f = [l \in 0..0 |-> IF l = 0 THEN 1 ELSE 2 * f[l - 1]]
    OBVIOUS
  <2>2. Doubles(f, 0)
    BY <2>1 DEF Doubles
  <2>. QED BY <1>2, <1>3, <2>2
<1>4. CASE k # 0
  <2>1. k - 1 \in Nat /\ k - 1 \notin T
    BY <1>2, <1>4
  <2>2. PICK g : Doubles(g, k - 1)
    BY <2>1
  <2>. DEFINE f == [l \in 0..k |-> IF l = k THEN 2 * g[k - 1] ELSE g[l]]
  <2>3. \A l \in 0..k - 1 : g[l] = IF l = 0 THEN 1 ELSE 2 * g[l - 1]
    BY <2>2 DEF Doubles
  <2>4. ASSUME NEW l \in 0..k PROVE f[l] = IF l = 0 THEN 1 ELSE 2 * f[l - 1]
    <3>1. CASE l = k
      BY <1>4, <2>1, <3>1
    <3>2. CASE l \in 0..k - 1
      BY <2>1, <2>3, <3>2
    <3>. QED BY <2>1, <3>1, <3>2
  <2>5. f = [l \in 0..k |-> IF l = 0 THEN 1 ELSE 2 * f[l - 1]]
    BY <2>4
  <2>6. Doubles(f, k)
    BY <2>5 DEF Doubles
  <2>. QED BY <1>2, <2>6
<1>. QED BY <1>3, <1>4

LEMMA PowerOfTwoIs ==
  /\ DOMAIN PowerOfTwo = 0..MaxAlignmentExponent
  /\ \A k \in 0..MaxAlignmentExponent : PowerOfTwo[k] = IF k = 0 THEN 1 ELSE 2 * PowerOfTwo[k - 1]
<1>1. \E f : Doubles(f, MaxAlignmentExponent)
  BY DoublingExists, LoadingAssumption
<1>2. Doubles(PowerOfTwo, MaxAlignmentExponent)
  BY <1>1, Zenon DEF PowerOfTwo, Doubles
<1>. QED BY <1>2 DEF Doubles

\* What divides a number, with the quotient.
Divides(a, b) == \E q \in Nat \ {0} : b = a * q

LEMMA PowersTyped ==
  ASSUME NEW k \in 0..MaxAlignmentExponent
  PROVE  PowerOfTwo[k] \in Nat \ {0}
<1>. DEFINE T == {l \in 0..MaxAlignmentExponent : PowerOfTwo[l] \notin Nat \ {0}}
<1>1. SUFFICES ASSUME T # {} PROVE FALSE
  OBVIOUS
<1>2. PICK l \in T : \A i \in T : l <= i
  <2>1. T \in SUBSET Nat
    BY LoadingAssumption
  <2>. HIDE DEF T
  <2>. QED BY <1>1, <2>1, LeastNatural
<1>3. l # 0 => l - 1 \in 0..MaxAlignmentExponent /\ l - 1 \notin T
  BY <1>2, LoadingAssumption
<1>. QED BY <1>2, <1>3, PowerOfTwoIs

LEMMA PowerDivides ==
  ASSUME NEW i \in 0..MaxAlignmentExponent, NEW j \in 0..MaxAlignmentExponent, i <= j
  PROVE  Divides(PowerOfTwo[i], PowerOfTwo[j])
<1>. DEFINE T == {l \in 0..MaxAlignmentExponent : i <= l /\ ~Divides(PowerOfTwo[i], PowerOfTwo[l])}
<1>1. SUFFICES ASSUME T # {} PROVE FALSE
  OBVIOUS
<1>2. PICK l \in T : \A k \in T : l <= k
  <2>1. T \in SUBSET Nat
    BY LoadingAssumption
  <2>. HIDE DEF T
  <2>. QED BY <1>1, <2>1, LeastNatural
<1>. DEFINE a == PowerOfTwo[i]
<1>3. a \in Nat \ {0}
  BY PowersTyped
<1>. HIDE DEF a
<1>4. l # i
  <2>1. a = a * 1
    BY <1>3
  <2>2. Divides(a, a)
    BY <2>1 DEF Divides
  <2>. QED BY <1>2, <2>2 DEF a
<1>5. /\ l - 1 \in 0..MaxAlignmentExponent /\ l - 1 \notin T /\ i <= l - 1
      /\ l \in 0..MaxAlignmentExponent /\ l # 0
  BY <1>2, <1>4, LoadingAssumption
<1>6. PICK q \in Nat \ {0} : PowerOfTwo[l - 1] = a * q
  BY <1>5 DEF Divides, a
<1>7. PowerOfTwo[l] = 2 * (a * q)
  BY <1>5, <1>6, PowerOfTwoIs
<1>8. 2 * (a * q) = a * (2 * q) /\ 2 * q \in Nat \ {0}
  BY <1>3, <1>6
<1>9. Divides(a, PowerOfTwo[l])
  BY <1>7, <1>8 DEF Divides
<1>. QED BY <1>2, <1>9 DEF a

LEMMA DivisorIsSmaller ==
  ASSUME NEW a \in Nat, NEW b \in Nat, Divides(a, b)
  PROVE  a <= b
<1>1. PICK q \in Nat \ {0} : b = a * q
  BY DEF Divides
<1>2. a * 1 <= a * q
  BY <1>1
<1>. QED BY <1>1, <1>2

\* Of two powers of two the smaller divides the larger.
LEMMA PowersDivide ==
  ASSUME NEW a \in PowersOfTwo, NEW b \in PowersOfTwo, a <= b
  PROVE  Divides(a, b)
<1>1. PICK i \in 0..MaxAlignmentExponent, j \in 0..MaxAlignmentExponent :
        a = PowerOfTwo[i] /\ b = PowerOfTwo[j]
  BY DEF PowersOfTwo
<1>2. a \in Nat \ {0} /\ b \in Nat \ {0}
  BY <1>1, PowersTyped
<1>3. CASE i <= j
  BY <1>1, <1>3, PowerDivides
<1>4. CASE ~(i <= j)
  <2>1. Divides(b, a)
    BY <1>1, <1>4, PowerDivides
  <2>2. a = b
    BY <1>2, <2>1, DivisorIsSmaller
  <2>. QED BY <2>1, <2>2
<1>. QED BY <1>3, <1>4

LEMMA PowersAreNaturals == PowersOfTwo \subseteq Nat \ {0}
BY PowersTyped DEF PowersOfTwo

\* The largest and the smallest of some powers.
LEMMA LargestPower ==
  ASSUME NEW S \in SUBSET PowersOfTwo, S # {}
  PROVE  Max(S) \in S /\ \A x \in S : x <= Max(S)
<1>. DEFINE T == {k \in 0..MaxAlignmentExponent : \E x \in S : x = PowerOfTwo[MaxAlignmentExponent - k]}
<1>1. T \in SUBSET Nat
  BY LoadingAssumption
<1>2. T # {}
  <2>1. PICK x \in S : TRUE
    OBVIOUS
  <2>2. PICK k \in 0..MaxAlignmentExponent : x = PowerOfTwo[k]
    BY <2>1 DEF PowersOfTwo
  <2>3. MaxAlignmentExponent - k \in T
    BY <2>1, <2>2, LoadingAssumption
  <2>. QED BY <2>3
<1>3. PICK k \in T : \A l \in T : k <= l
  <2>. HIDE DEF T
  <2>. QED BY <1>1, <1>2, LeastNatural
<1>. DEFINE top == PowerOfTwo[MaxAlignmentExponent - k]
<1>4. top \in S
  BY <1>3
<1>5. ASSUME NEW x \in S PROVE x <= top
  <2>1. PICK l \in 0..MaxAlignmentExponent : x = PowerOfTwo[l]
    BY DEF PowersOfTwo
  <2>2. MaxAlignmentExponent - l \in T
    BY <2>1, LoadingAssumption
  <2>3. k <= MaxAlignmentExponent - l /\ k \in 0..MaxAlignmentExponent /\ MaxAlignmentExponent \in Nat
    BY <1>3, <2>2, LoadingAssumption
  <2>4. l <= MaxAlignmentExponent - k /\ MaxAlignmentExponent - k \in 0..MaxAlignmentExponent
    BY ONLY <2>1, <2>3
  <2>5. Divides(x, top)
    BY <2>1, <2>4, PowerDivides
  <2>6. x \in Nat /\ top \in Nat
    BY <1>4, PowersAreNaturals
  <2>. QED BY <2>5, <2>6, DivisorIsSmaller
<1>. HIDE DEF top
<1>6. \E x \in S : \A y \in S : x >= y
  <2>1. top \in Nat /\ \A x \in S : x \in Nat
    BY <1>4, PowersAreNaturals
  <2>. QED BY <1>4, <1>5, <2>1
<1>7. Max(S) \in S /\ \A y \in S : Max(S) >= y
  BY <1>6, Zenon DEF Max
<1>. QED BY <1>7, PowersAreNaturals

LEMMA SmallestPower ==
  ASSUME NEW S \in SUBSET PowersOfTwo, S # {}
  PROVE  Min(S) \in S
<1>1. S \in SUBSET Nat
  BY PowersAreNaturals
<1>2. \E x \in S : \A y \in S : x =< y
  BY <1>1, LeastNatural
<1>. QED BY <1>2, Zenon DEF Min

-----------------------------------------------------------------------------
(* Alignments *)

LEMMA Normalized ==
  ASSUME NEW a \in Nat, a <= PowerOfTwo[MaxAlignmentExponent]
  PROVE  NormalizeAlignment(a) \in PowersOfTwo /\ NormalizeAlignment(a) >= a
<1>. DEFINE S == {p \in PowersOfTwo : p >= a /\ p >= PointerBytes}
            top == PowerOfTwo[MaxAlignmentExponent]
<1>1. top \in PowersOfTwo
  BY LoadingAssumption DEF PowersOfTwo
<1>2. PointerBytes <= top
  <2>1. PICK k \in 0..MaxAlignmentExponent : PointerBytes = PowerOfTwo[k]
    BY AlignmentAssumption DEF PowersOfTwo
  <2>2. MaxAlignmentExponent \in 0..MaxAlignmentExponent /\ k <= MaxAlignmentExponent
    BY LoadingAssumption
  <2>. QED BY <2>1, <2>2, PowerDivides, PowersTyped, DivisorIsSmaller
<1>3. top \in S
  BY <1>1, <1>2, PowersAreNaturals DEF PointerBytes
<1>. HIDE DEF top
<1>4. Min(S) \in S
  BY <1>3, SmallestPower
<1>. QED BY <1>4 DEF NormalizeAlignment

\* The arena's alignment is a multiple of every alignment in it that is a power of two.
LEMMA BaseAlignmentSuffices ==
  ASSUME NEW ps, NEW i \in DOMAIN ps,
         \A j \in DOMAIN ps : ps[j].alignment_bytes \in Nat
                              /\ ps[j].alignment_bytes <= PowerOfTwo[MaxAlignmentExponent],
         ps[i].alignment_bytes \in PowersOfTwo
  PROVE  Divides(ps[i].alignment_bytes, BaseAlignment(ps))
<1>. DEFINE S == {MaxAlign} \cup {NormalizeAlignment(ps[j].alignment_bytes) : j \in DOMAIN ps}
            a == ps[i].alignment_bytes
<1>1. \A j \in DOMAIN ps : NormalizeAlignment(ps[j].alignment_bytes) \in PowersOfTwo
  BY Normalized
<1>2. S \in SUBSET PowersOfTwo
  BY <1>1, AlignmentAssumption
<1>3. NormalizeAlignment(a) \in S /\ NormalizeAlignment(a) >= a
  BY Normalized
<1>. HIDE DEF S
<1>4. Max(S) \in S /\ NormalizeAlignment(a) <= Max(S)
  BY <1>2, <1>3, LargestPower
<1>5. a <= Max(S) /\ Max(S) \in PowersOfTwo
  <2>1. a \in Nat /\ NormalizeAlignment(a) \in Nat /\ Max(S) \in Nat /\ Max(S) \in PowersOfTwo
    BY <1>2, <1>3, <1>4, PowersAreNaturals
  <2>. QED BY ONLY <1>3, <1>4, <2>1
<1>. QED BY <1>5, PowersDivide DEF BaseAlignment, S

\* What is rounded up is aligned.
LEMMA AlignUpAligns ==
  ASSUME NEW value \in Nat, NEW a \in Nat \ {0}
  PROVE  \E q \in Nat : AlignUp(value, a) = a * q
<1>. DEFINE q == value \div a
            r == value % a
<1>1. q \in Nat /\ r \in 0..a - 1 /\ value = a * q + r
  OBVIOUS
<1>. HIDE DEF q, r
<1>2. CASE r = 0
  <2>1. AlignUp(value, a) = value
    BY <1>2 DEF AlignUp, r
  <2>2. value = a * q
    BY <1>1, <1>2
  <2>. QED BY <1>1, <2>1, <2>2
<1>3. CASE r # 0
  <2>1. AlignUp(value, a) = value + (a - r)
    BY <1>3 DEF AlignUp, r
  <2>2. value + (a - r) = a * q + a
    BY <1>1
  <2>3. a * q + a = a * (q + 1)
    BY <1>1
  <2>4. q + 1 \in Nat
    BY <1>1
  <2>. QED BY <2>1, <2>2, <2>3, <2>4
<1>. QED BY <1>2, <1>3

LEMMA MultipleIsAligned ==
  ASSUME NEW a \in Nat \ {0}, NEW q \in Nat
  PROVE  (a * q) % a = 0
<1>. DEFINE n == a * q
            d == n \div a
            r == n % a
<1>1. n \in Nat
  OBVIOUS
<1>. HIDE DEF n
<1>2. n = a * d + r /\ r \in 0..a - 1 /\ d \in Nat
  BY <1>1
<1>. HIDE DEF d, r
<1>3. a * q = a * d + r
  BY <1>2 DEF n
<1>4. r = a * (q - d)
  BY <1>2, <1>3
<1>5. CASE q - d >= 1
  <2>1. a * (q - d) >= a * 1
    BY <1>2, <1>5
  <2>. QED BY <1>2, <1>4, <2>1
<1>6. CASE q - d <= 0
  <2>1. a * (q - d) <= 0
    BY <1>2, <1>6
  <2>. QED BY <1>2, <1>4, <2>1 DEF n, r
<1>. QED BY <1>2, <1>5, <1>6

-----------------------------------------------------------------------------
(* Where the arena and its buffers are *)

\* A placement is rounded up to its alignment; the arena's base is aligned for all of them.
PlaceOK(p) ==
  LET a == p.alignment_bytes IN
  a \in Nat \ {0} /\ a <= PowerOfTwo[MaxAlignmentExponent] /\ \E q \in Nat : p.at = a * q

AlignOK ==
  /\ phase \notin {"copy", "ready"} => arena = NoArena
  /\ \A i \in DOMAIN placements : PlaceOK(placements[i])
  /\ phase = "copy" \/ arena # NoArena =>
       arena.base \in Nat /\ arena.base % BaseAlignment(placements) = 0

LEMMA AlignInit == Init => AlignOK
BY DEF Init, AlignOK

LEMMA AlignKept ==
  ASSUME AlignOK, UNCHANGED <<plan, arena>>, phase' # "copy" \/ phase = "copy",
         phase' \notin {"copy", "ready"} => phase \notin {"copy", "ready"}
  PROVE  AlignOK'
BY DEF AlignOK, plan, PlaceOK, BaseAlignment

LEMMA DiscardAligned == ASSUME NEW open, Discard(open) PROVE AlignOK'
BY DEF Discard, AlignOK

LEMMA PlanBufferAligned == IInv /\ AlignOK /\ PlanBuffer => AlignOK'
<1>. SUFFICES ASSUME IInv, AlignOK, PlanBuffer PROVE AlignOK'
  OBVIOUS
<1>. DEFINE p == Place(Current, cursor)
            a == PlannedAlignment(Current)
<1>1. /\ phase = "plan" /\ placements' = Append(placements, p) /\ arena' = arena
      /\ phase' \in {"plan", "allocate"} /\ arena = NoArena
  BY DEF PlanBuffer, Advance, Enter, AlignOK
<1>2. next \in 1..Len(manifest) /\ manifest \in Manifests /\ ManifestValid(manifest) /\ cursor \in Nat
      /\ placements \in Seq(Placement)
  BY <1>1 DEF IInv, Typed, PlanOK
<1>3. a \in Nat \ {0}
  BY <1>2, PlannedAlignmentPositive DEF Current
<1>4. a <= PowerOfTwo[MaxAlignmentExponent]
  <2>1. Current.alignment_bytes <= PowerOfTwo[MaxAlignmentExponent]
    BY <1>2, BufferTyped, AlignmentAssumption DEF Current
  <2>2. kDefaultAuxiliaryAlignmentBytes <= PowerOfTwo[MaxAlignmentExponent]
    <3>1. PICK k \in 0..MaxAlignmentExponent : MaxAlign = PowerOfTwo[k]
      BY AlignmentAssumption DEF PowersOfTwo
    <3>2. MaxAlignmentExponent \in 0..MaxAlignmentExponent /\ k <= MaxAlignmentExponent
      BY LoadingAssumption
    <3>3. MaxAlign <= PowerOfTwo[MaxAlignmentExponent]
      BY <3>1, <3>2, PowerDivides, PowersTyped, DivisorIsSmaller
    <3>. QED BY <3>3 DEF MaxAlign, kDefaultAuxiliaryAlignmentBytes
  <2>. QED BY <2>1, <2>2 DEF PlannedAlignment
<1>5. \E q \in Nat : AlignUp(cursor, a) = a * q
  BY <1>2, <1>3, AlignUpAligns
<1>6. p.at = AlignUp(cursor, a) /\ p.alignment_bytes = a
  BY DEF Place
<1>. HIDE DEF p, a
<1>7. PlaceOK(p)
  BY <1>3, <1>4, <1>5, <1>6 DEF PlaceOK
<1>8. ASSUME NEW i \in DOMAIN placements' PROVE PlaceOK(placements'[i])
  <2>1. placements'[i] = p \/ (i \in DOMAIN placements /\ placements'[i] = placements[i])
    BY <1>1, <1>2
  <2>. QED BY <1>7, <2>1 DEF AlignOK
<1>. QED BY <1>1, <1>8 DEF AlignOK, PlaceOK

LEMMA AllocateAligned == AlignOK /\ AllocateArena => AlignOK'
<1>. SUFFICES ASSUME AlignOK, AllocateArena PROVE AlignOK'
  OBVIOUS
<1>1. PICK base \in Bases : /\ base % BaseAlignment(placements) = 0
                            /\ arena' = [base |-> base, alignment |-> BaseAlignment(placements),
                                         memory |-> [c \in 0..cursor - 1 |-> Zero]]
  BY DEF AllocateArena
<1>2. placements' = placements /\ phase' = "copy"
  BY DEF AllocateArena, plan, Enter
<1>3. BaseAlignment(placements)' = BaseAlignment(placements)
  BY <1>2 DEF BaseAlignment
<1>4. arena'.base = base /\ base \in Nat
  BY <1>1, LoadingAssumption
<1>. QED BY <1>1, <1>2, <1>3, <1>4 DEF AlignOK, PlaceOK

LEMMA CopyAligned == AlignOK /\ CopyBuffer => AlignOK'
<1>. SUFFICES ASSUME AlignOK, CopyBuffer PROVE AlignOK'
  OBVIOUS
<1>1. CASE Refuse
  BY <1>1, DiscardAligned DEF Refuse
<1>2. CASE ~Refuse
  <2>1. /\ arena'.base = arena.base /\ placements' = placements /\ phase = "copy"
        /\ phase' \in {"copy", "ready"}
    BY <1>2 DEF CopyBuffer, plan, Advance, Enter
  <2>2. BaseAlignment(placements)' = BaseAlignment(placements)
    BY <2>1 DEF BaseAlignment
  <2>. QED BY <2>1, <2>2 DEF AlignOK, PlaceOK
<1>. QED BY <1>1, <1>2

LEMMA AlignNext == IInv /\ AlignOK /\ [Next]_vars => AlignOK'
<1>. SUFFICES ASSUME IInv, AlignOK, [Next]_vars PROVE AlignOK'
  OBVIOUS
<1>1. CASE \E open : Discard(open)
  BY <1>1, DiscardAligned
<1>2. CASE UNCHANGED vars
  BY <1>2, AlignKept DEF vars
<1>3. CASE Verify \/ ViewOpened \/ OpenFile \/ MapFile \/ BuildTensorCatalog
  <2>1. CASE UNCHANGED <<plan, arena>>
    <3>1. phase' # "copy" /\ phase \notin {"copy", "ready"}
      BY <1>3, <2>1 DEF Verify, ViewOpened, OpenFile, MapFile, BuildTensorCatalog, Enter, Advance, Refuse, Discard
    <3>. QED BY <2>1, <3>1, AlignKept
  <2>. QED BY <1>1, <1>3, <2>1 DEF Verify, ViewOpened, OpenFile, MapFile, BuildTensorCatalog, Refuse
<1>. QED BY <1>1, <1>2, <1>3, PlanBufferAligned, AllocateAligned, CopyAligned
     DEF Next, OpenFileFails, MapFileFails, AllocateArenaFails, Refuse, Done

LEMMA AlignmentsHold == AlignOK => AddressesAligned
<1>. SUFFICES ASSUME AlignOK, arena # NoArena, NEW i \in DOMAIN placements,
                     placements[i].alignment_bytes \in PowersOfTwo
              PROVE  (arena.base + placements[i].at) % placements[i].alignment_bytes = 0
  BY DEF AddressesAligned
<1>. DEFINE a == placements[i].alignment_bytes
            b == BaseAlignment(placements)
            x == arena.base
            y == placements[i].at
<1>1. a \in Nat \ {0} /\ x \in Nat /\ x % b = 0
  BY DEF AlignOK, PlaceOK
<1>2. PICK q \in Nat : y = a * q
  BY DEF AlignOK, PlaceOK
<1>3. Divides(a, b)
  BY BaseAlignmentSuffices DEF AlignOK, PlaceOK
<1>. HIDE DEF a, b, x, y
<1>4. PICK r \in Nat \ {0} : b = a * r
  BY <1>3 DEF Divides
<1>5. b \in Nat \ {0}
  BY <1>1, <1>4
<1>6. x = b * (x \div b) /\ x \div b \in Nat
  BY <1>1, <1>5
<1>. DEFINE d == x \div b
<1>. HIDE DEF d
<1>7. x = b * d /\ d \in Nat
  BY <1>6 DEF d
<1>8. x + y = a * (r * d + q) /\ r * d + q \in Nat
  BY <1>1, <1>2, <1>4, <1>7
<1>9. (x + y) % a = 0
  BY <1>1, <1>8, MultipleIsAligned
<1>. QED BY <1>9 DEF x, y, a

-----------------------------------------------------------------------------
(* The theorems *)

\* What the invariant says of a finished arena, and of a step of the copy.
LEMMA ArenaHolds == IInv => ArenaHoldsManifest
<1>. SUFFICES ASSUME IInv, phase = "ready", options.materialize,
                     NEW i \in DOMAIN manifest, NEW c \in 0..manifest[i].nbytes - 1
              PROVE  arena.memory[placements[i].at + c]
                     = Byte(KeyOf[manifest[i].path], manifest[i].offset_bytes + c)
  BY DEF ArenaHoldsManifest
<1>1. i \in 1..Len(manifest)
  BY BufferTyped, LoadingAssumption DEF IInv, Typed
<1>2. Holds(i)
  BY <1>1 DEF IInv, MemoryOK
<1>3. QED
  BY <1>2 DEF Holds

LEMMA CopySucceeds == IInv /\ [Next]_vars => [phase = "copy" => phase' # "refused"]_vars
<1>. SUFFICES ASSUME IInv, Next, phase = "copy" PROVE phase' # "refused"
  OBVIOUS
<1>1. CopyBuffer
  BY DEF Next, Verify, ViewOpened, OpenFile, OpenFileFails, MapFile, MapFileFails,
         BuildTensorCatalog, PlanBuffer, AllocateArena, AllocateArenaFails, Done
<1>2. Advance("ready")
  BY <1>1, CopyChecksPass DEF CopyBuffer
<1>3. QED
  BY <1>2 DEF Advance, Enter

THEOREM Invariance == Spec => []IInv
BY InitIInv, NextIInv, PTL DEF Spec

-----------------------------------------------------------------------------
\* The loader, the plan and the arena keep their types: a key is mapped to an open file, and
\* what is open or mapped is named by the manifest (ArtifactLoader::Impl).
THEOREM TypeCorrect == Spec => []TypeOK
<1>1. IInv => TypeOK
  <2> SUFFICES ASSUME IInv PROVE TypeOK
    OBVIOUS
  <2>1. DOMAIN manifest = 1..Len(manifest) /\ CurrentKey \in Keys
    BY BufferTyped, LoadingAssumption DEF IInv, Typed, CurrentKey, Current
  <2>2. Registered \subseteq Keys
    <3> DEFINE File == [key : Keys, size : Nat]
    <3>1. opened \in Seq(File) /\ \A f \in File : f.key \in Keys
      BY DEF IInv, LoaderOK
    <3> HIDE DEF File
    <3>2. \A i \in DOMAIN opened : opened[i] \in File
      BY <3>1
    <3>3. QED
      BY <3>1, <3>2 DEF Registered
  <2>3. fds \subseteq Keys /\ mappings \subseteq Keys
    BY <2>1, <2>2 DEF IInv, LoaderOK, FilesAccounted, Registered
  <2>4. QED
    BY <2>1, <2>2, <2>3 DEF TypeOK, IInv, Typed, LoaderOK, PlanOK
<1>2. QED
  BY <1>1, Invariance, PTL

\* For every manifest, whatever its sizes and alignments, planned buffers share no byte and lie
\* inside the arena (BuildWeightArenaPlan).
THEOREM PlacementsNeverOverlap == Spec => []PlacementsDisjoint
<1>1. IInv => PlacementsDisjoint
  BY DEF IInv, PlanOK
<1>2. QED
  BY <1>1, Invariance, PTL

\* Whichever system call fails, the loader knows every file that is open or mapped, so its
\* destructor leaves none behind (ArtifactLoader::Impl::MapFile, Reset).
THEOREM FilesAlwaysAccounted == Spec => []FilesAccounted
<1>1. IInv => FilesAccounted
  BY DEF IInv, LoaderOK
<1>2. QED
  BY <1>1, Invariance, PTL

\* A finished load has put into the arena exactly the bytes the manifest names, buffer by
\* buffer (CreateFromPlan).
THEOREM ArenaIsTheManifest == Spec => []ArenaHoldsManifest
BY ArenaHolds, Invariance, PTL

\* The copy loop's own checks never fail (CreateFromPlan's early returns).
THEOREM CopyAlwaysSucceeds == Spec => CopyNeverRefused
BY CopySucceeds, Invariance, PTL DEF Spec, CopyNeverRefused

\* Whatever address the allocator returns, each buffer whose alignment is a power of two is
\* at an address of that alignment: the offsets are rounded up, the base is aligned for the
\* strictest of them (BuildWeightArenaPlan, NormalizeAlignment, CreateFromPlan).
THEOREM BuffersAreAligned == Spec => []AddressesAligned
<1>1. Init => AlignOK
  BY AlignInit
<1>2. IInv /\ AlignOK /\ [Next]_vars => AlignOK'
  BY AlignNext
<1>3. AlignOK => AddressesAligned
  BY AlignmentsHold
<1>. QED BY <1>1, <1>2, <1>3, Invariance, PTL DEF Spec

-----------------------------------------------------------------------------
(* The environment as a whole *)

\* A step of EnvSpec leaves the loading alone, is one of its steps, or gives everything back.
LEMMA EnvStep ==
  ASSUME [EnvNext]_<<vars, environment>>
  PROVE  [Next]_vars \/ (phase = "ready" /\ Refuse)
BY DEF EnvNext, Load, CatalogRefused, FinishFromManifestFile, Build

LEMMA LoadingInEnvironment ==
  EnvSpec => [](IInv /\ AlignOK)
<1>1. EnvInit => IInv /\ AlignOK
  BY InitIInv, AlignInit DEF EnvInit
<1>2. IInv /\ AlignOK /\ [EnvNext]_<<vars, environment>> => IInv' /\ AlignOK'
  BY EnvStep, NextIInv, AlignNext, RefuseIInv, DiscardAligned DEF Refuse
<1>. QED BY <1>1, <1>2, PTL DEF EnvSpec

\* What was built, by what it was built from.
Budget(bootstrap, runtime, meminfo) ==
  SharedCacheBudget(bootstrap, runtime, ResolveServiceMemoryTarget(bootstrap, meminfo))

BuiltFrom(bootstrap, runtime, meminfo, env) ==
  LET bytes == IF PrefixCacheEnabled(env) THEN Budget(bootstrap, runtime, meminfo) ELSE 0 IN
  [built |-> TRUE, bootstrap |-> bootstrap, runtime |-> runtime, meminfo |-> meminfo, env |-> env,
   reusable_state_arena |-> [max_bytes |-> bytes],
   prefix_cache |-> [max_bytes |-> bytes, enabled |-> PrefixCacheEnabled(env)]]

EnvironmentOK ==
  \/ environment = NoEnvironment
  \/ \E bootstrap \in Bootstraps, runtime \in Runtimes, meminfo \in Meminfos, env \in EnvValues :
       environment = BuiltFrom(bootstrap, runtime, meminfo, env)

LEMMA EnvironmentNext == EnvironmentOK /\ [EnvNext]_<<vars, environment>> => EnvironmentOK'
<1>. SUFFICES ASSUME EnvironmentOK, [EnvNext]_<<vars, environment>> PROVE EnvironmentOK'
  OBVIOUS
<1>1. CASE environment' = environment
  BY <1>1 DEF EnvironmentOK
<1>2. CASE Assemble
  BY <1>2, Zenon DEF Assemble, EnvironmentOK, BuiltFrom, Budget
<1>. QED BY <1>1, <1>2 DEF EnvNext, Load, CatalogRefused, FinishFromManifestFile, Build

-----------------------------------------------------------------------------
(* The budget *)

LEMMA Extremes ==
  ASSUME NEW a \in Int, NEW b \in Int
  PROVE  /\ Min({a, b}) = (IF a <= b THEN a ELSE b)
         /\ Max({a, b}) = (IF a <= b THEN b ELSE a)
         /\ Min({a}) = a
<1>1. \A x : x \in {a, b} /\ (\A y \in {a, b} : x =< y) => x = IF a <= b THEN a ELSE b
  OBVIOUS
<1>2. \A x : x \in {a, b} /\ (\A y \in {a, b} : x >= y) => x = IF a <= b THEN b ELSE a
  OBVIOUS
<1>3. (\E x \in {a, b} : \A y \in {a, b} : x =< y) /\ (\E x \in {a, b} : \A y \in {a, b} : x >= y)
  OBVIOUS
<1>4. Min({a, b}) \in {a, b} /\ (\A y \in {a, b} : Min({a, b}) =< y)
  BY <1>3, Zenon DEF Min
<1>5. Max({a, b}) \in {a, b} /\ (\A y \in {a, b} : Max({a, b}) >= y)
  BY <1>3, Zenon DEF Max
<1>6. Min({a}) = a
  BY DEF Min
<1>. QED BY <1>1, <1>2, <1>4, <1>5, <1>6

\* The host's memory and swap together, as far as they are to be used; 0 if they are not.
Read(bootstrap, meminfo) ==
  bootstrap.prefer_host_memory_snapshot /\ KiB * (meminfo.available + meminfo.swap) # 0

CallersHost(bootstrap) ==
  LET snapshot == bootstrap.service_target.host_memory_snapshot IN
  IF bootstrap.service_target.prefer_host_memory_snapshot /\ snapshot.valid
  THEN snapshot.mem_available_bytes + snapshot.swap_free_bytes ELSE 0

HostBytes(bootstrap, meminfo) ==
  IF Read(bootstrap, meminfo) THEN KiB * (meminfo.available + meminfo.swap) ELSE CallersHost(bootstrap)

Capped(n) == IF n <= SizeMax THEN n ELSE SizeMax

\* The total to plan with, of what is configured and what the host has.
Planned(total, host) ==
  IF host = 0 THEN total ELSE IF total = 0 THEN Capped(host)
  ELSE IF total <= Capped(host) THEN total ELSE Capped(host)

LEMMA HostIsCapped ==
  ASSUME NEW target, target.host_memory_snapshot.mem_available_bytes \in Size,
         target.host_memory_snapshot.swap_free_bytes \in Size
  PROVE  LET host == target.host_memory_snapshot.mem_available_bytes + target.host_memory_snapshot.swap_free_bytes
         IN  host \in Nat /\ HostBudget(target) = Capped(host) /\ Capped(host) \in Size
             /\ (Capped(host) = 0 <=> host = 0)
BY EnvironmentAssumption DEF HostBudget, SaturatingAdd, Capped, SizeMax, Size

LEMMA PlannedTotal ==
  ASSUME NEW target, target.total_memory_bytes \in Size, NEW host \in Nat,
         HostBudget(target) = Capped(host), Capped(host) \in Size, Capped(host) = 0 <=> host = 0
  PROVE  PlanningTotal(target)
         = Planned(target.total_memory_bytes,
                   IF target.prefer_host_memory_snapshot /\ target.host_memory_snapshot.valid THEN host ELSE 0)
<1>. DEFINE used == target.prefer_host_memory_snapshot /\ target.host_memory_snapshot.valid
            total == target.total_memory_bytes
<1>1. Min({total, Capped(host)}) = IF total <= Capped(host) THEN total ELSE Capped(host)
  <2>1. total \in Int /\ Capped(host) \in Int
    BY EnvironmentAssumption DEF Size
  <2>. HIDE DEF total
  <2>. QED BY <2>1, Extremes
<1>2. CASE used
  <2>1. UsesSnapshot(target) <=> host # 0
    BY <1>2, Zenon DEF UsesSnapshot
  <2>. HIDE DEF used
  <2>2. PlanningTotal(target) = Planned(total, host)
    BY <1>1, <2>1 DEF PlanningTotal, Planned
  <2>3. (IF used THEN host ELSE 0) = host
    BY <1>2
  <2>. QED BY <2>2, <2>3 DEF used
<1>3. CASE ~used
  <2>1. ~UsesSnapshot(target)
    BY <1>3, Zenon DEF UsesSnapshot
  <2>. HIDE DEF used
  <2>2. PlanningTotal(target) = Planned(total, 0)
    BY <2>1 DEF PlanningTotal, Planned
  <2>3. (IF used THEN host ELSE 0) = 0
    BY <1>3
  <2>. QED BY <2>2, <2>3 DEF used
<1>. QED BY <1>2, <1>3

LEMMA FitsInSize ==
  ASSUME NEW n \in Size
  PROVE  Wrap(n) = n
BY EnvironmentAssumption DEF Wrap, Size

LEMMA TotalIs ==
  ASSUME NEW bootstrap \in Bootstraps, NEW meminfo \in Meminfos,
         KiB * meminfo.available < SizeModulus, KiB * meminfo.swap < SizeModulus
  PROVE  /\ HostBytes(bootstrap, meminfo) \in Nat
         /\ bootstrap.service_target.total_memory_bytes \in Size
         /\ PlanningTotal(ResolveServiceMemoryTarget(bootstrap, meminfo))
            = Planned(bootstrap.service_target.total_memory_bytes, HostBytes(bootstrap, meminfo))
<1>. DEFINE target == bootstrap.service_target
            snapshot == ReadSnapshot(meminfo)
            resolved == [target EXCEPT !.host_memory_snapshot = snapshot, !.prefer_host_memory_snapshot = TRUE]
            fromHost == KiB * (meminfo.available + meminfo.swap)
<1>1. /\ meminfo.available \in Nat /\ meminfo.swap \in Nat /\ KiB \in Nat \ {0} /\ SizeModulus \in Nat \ {0}
      /\ target \in ServiceTarget
  BY EnvironmentAssumption
<1>2. /\ KiB * meminfo.available \in Size /\ KiB * meminfo.swap \in Size
      /\ fromHost = KiB * meminfo.available + KiB * meminfo.swap
  BY <1>1 DEF Size
<1>3. Wrap(KiB * meminfo.available) = KiB * meminfo.available /\ Wrap(KiB * meminfo.swap) = KiB * meminfo.swap
  BY <1>2, FitsInSize
<1>4. /\ snapshot.mem_available_bytes = KiB * meminfo.available
      /\ snapshot.swap_free_bytes = KiB * meminfo.swap
      /\ snapshot.valid <=> fromHost # 0
  <2>1. /\ snapshot.mem_available_bytes = KiB * meminfo.available
        /\ snapshot.swap_free_bytes = KiB * meminfo.swap
        /\ snapshot.valid = (KiB * meminfo.available # 0 \/ KiB * meminfo.swap # 0)
    BY <1>3, Zenon DEF ReadSnapshot
  <2>2. fromHost # 0 <=> (KiB * meminfo.available # 0 \/ KiB * meminfo.swap # 0)
    BY <1>1, <1>2 DEF Size
  <2>. QED BY <2>1, <2>2, Zenon
<1>5. /\ target.total_memory_bytes \in Size
      /\ target.host_memory_snapshot.mem_available_bytes \in Size
      /\ target.host_memory_snapshot.swap_free_bytes \in Size
  BY <1>1 DEF ServiceTarget, Snapshot
<1>6. /\ resolved.total_memory_bytes = target.total_memory_bytes
      /\ resolved.host_memory_snapshot = snapshot
      /\ resolved.prefer_host_memory_snapshot
  <2>1. DOMAIN target = {"total_memory_bytes", "weights_bytes", "workspace_bytes", "graph_bytes",
                         "safety_headroom_bytes", "target_active_requests", "target_context_tokens",
                         "host_memory_snapshot", "prefer_host_memory_snapshot"}
    BY <1>1 DEF ServiceTarget
  <2>. HIDE DEF target, snapshot
  <2>. QED BY <2>1, Zenon
<1>7. ResolveServiceMemoryTarget(bootstrap, meminfo) = IF Read(bootstrap, meminfo) THEN resolved ELSE target
  BY <1>4, Zenon DEF ResolveServiceMemoryTarget, Read
<1>8. CASE Read(bootstrap, meminfo)
  <2>1. fromHost # 0
    BY <1>8, Zenon DEF Read
  <2>. HIDE DEF target, snapshot, resolved, fromHost
  <2>2. /\ resolved.host_memory_snapshot.mem_available_bytes \in Size
        /\ resolved.host_memory_snapshot.swap_free_bytes \in Size
        /\ fromHost = resolved.host_memory_snapshot.mem_available_bytes + resolved.host_memory_snapshot.swap_free_bytes
    BY <1>2, <1>4, <1>6
  <2>3. fromHost \in Nat /\ HostBudget(resolved) = Capped(fromHost) /\ Capped(fromHost) \in Size
        /\ (Capped(fromHost) = 0 <=> fromHost = 0)
    BY <2>2, HostIsCapped
  <2>4. resolved.prefer_host_memory_snapshot /\ resolved.host_memory_snapshot.valid
    BY <1>4, <1>6, <2>1, Zenon
  <2>5. PlanningTotal(resolved) = Planned(resolved.total_memory_bytes, fromHost)
    BY <1>5, <1>6, <2>3, <2>4, PlannedTotal
  <2>6. HostBytes(bootstrap, meminfo) = fromHost
    BY <1>8 DEF HostBytes, fromHost
  <2>7. ResolveServiceMemoryTarget(bootstrap, meminfo) = resolved
    BY <1>7, <1>8
  <2>. QED BY <1>5, <1>6, <2>3, <2>5, <2>6, <2>7 DEF target
<1>9. CASE ~Read(bootstrap, meminfo)
  <2>. DEFINE host == target.host_memory_snapshot.mem_available_bytes + target.host_memory_snapshot.swap_free_bytes
  <2>. HIDE DEF target, snapshot, resolved, fromHost
  <2>1. host \in Nat /\ HostBudget(target) = Capped(host) /\ Capped(host) \in Size /\ (Capped(host) = 0 <=> host = 0)
    BY <1>5, HostIsCapped
  <2>2. HostBytes(bootstrap, meminfo)
        = IF target.prefer_host_memory_snapshot /\ target.host_memory_snapshot.valid THEN host ELSE 0
    BY <1>9, Zenon DEF HostBytes, CallersHost, target
  <2>3. ResolveServiceMemoryTarget(bootstrap, meminfo) = target
    BY <1>7, <1>9
  <2>. HIDE DEF host
  <2>4. PlanningTotal(target) = Planned(target.total_memory_bytes, HostBytes(bootstrap, meminfo))
    BY <1>5, <2>1, <2>2, PlannedTotal
  <2>5. HostBytes(bootstrap, meminfo) \in Nat
    BY <2>1, <2>2
  <2>. QED BY <1>5, <2>3, <2>4, <2>5 DEF target
<1>. QED BY <1>8, <1>9

LEMMA ReservedTyped ==
  ASSUME NEW bootstrap \in Bootstraps, NEW runtime \in Runtimes
  PROVE  Reserved(bootstrap, runtime) \in Nat
<1>. DEFINE t == bootstrap.service_target
<1>1. bootstrap.service_target \in ServiceTarget
  BY EnvironmentAssumption
<1>2. /\ t.weights_bytes \in Nat /\ t.workspace_bytes \in Nat /\ t.graph_bytes \in Nat
      /\ t.safety_headroom_bytes \in Nat /\ t.target_active_requests \in Nat /\ t.target_context_tokens \in Nat
  BY <1>1, EnvironmentAssumption DEF ServiceTarget, Size
<1>3. runtime.kv_bytes_per_token \in Nat /\ MambaBytes(bootstrap, runtime) \in Nat
  BY EnvironmentAssumption DEF MambaBytes, Size
<1>. DEFINE kv == runtime.kv_bytes_per_token * t.target_context_tokens * t.target_active_requests
            mamba == MambaBytes(bootstrap, runtime) * t.target_active_requests
<1>. HIDE DEF t
<1>4. kv \in Nat /\ mamba \in Nat
  BY <1>2, <1>3
<1>. HIDE DEF kv, mamba
<1>5. t.weights_bytes + t.workspace_bytes + t.graph_bytes + t.safety_headroom_bytes + kv + mamba \in Nat
  BY <1>2, <1>4
<1>. QED BY <1>5 DEF Reserved, kv, mamba, t

LEMMA BudgetIs ==
  ASSUME NEW bootstrap \in Bootstraps, NEW runtime \in Runtimes, NEW meminfo \in Meminfos,
         Reserved(bootstrap, runtime) < SizeModulus,
         KiB * meminfo.available < SizeModulus, KiB * meminfo.swap < SizeModulus
  PROVE  LET total == Planned(bootstrap.service_target.total_memory_bytes, HostBytes(bootstrap, meminfo)) IN
         /\ total \in Nat
         /\ Budget(bootstrap, runtime, meminfo) = Max({0, total - Reserved(bootstrap, runtime)})
<1>. DEFINE total == Planned(bootstrap.service_target.total_memory_bytes, HostBytes(bootstrap, meminfo))
            reserved == Reserved(bootstrap, runtime)
<1>1. reserved \in Nat /\ Wrap(reserved) = reserved
  BY ReservedTyped, EnvironmentAssumption DEF Wrap
<1>2. PlanningTotal(ResolveServiceMemoryTarget(bootstrap, meminfo)) = total /\ total \in Nat
  BY TotalIs, EnvironmentAssumption DEF Planned, Capped, Size, SizeMax
<1>. HIDE DEF total, reserved
<1>3. Budget(bootstrap, runtime, meminfo) = IF reserved <= total THEN total - reserved ELSE 0
  BY <1>1, <1>2 DEF Budget, SharedCacheBudget, reserved
<1>4. Max({0, total - reserved}) = IF 0 <= total - reserved THEN total - reserved ELSE 0
  <2>1. 0 \in Int /\ total - reserved \in Int
    BY <1>1, <1>2
  <2>. QED BY ONLY <2>1, Extremes
<1>5. Budget(bootstrap, runtime, meminfo) = Max({0, total - reserved})
  BY <1>1, <1>2, <1>3, <1>4
<1>. QED BY <1>2, <1>5 DEF total, reserved

LEMMA KnownTotal ==
  ASSUME NEW total \in Size, NEW host \in Nat, NEW known, known = {n \in {total, host} : n # 0}
  PROVE  Planned(total, host) = Min({IF known = {} THEN 0 ELSE Min(known), SizeMax})
<1>1. SizeMax \in Nat /\ total \in Nat /\ total <= SizeMax
  BY EnvironmentAssumption DEF SizeMax, Size
<1>. DEFINE least == IF known = {} THEN 0 ELSE Min(known)
<1>2. least \in Nat /\ least = IF host = 0 THEN total ELSE IF total = 0 THEN host ELSE IF total <= host THEN total ELSE host
  <2>1. CASE host = 0 /\ total = 0
    <3>1. known = {}
      BY <2>1
    <3>. QED BY <2>1, <3>1
  <2>2. CASE host = 0 /\ total # 0
    <3>1. known = {total}
      BY <2>2
    <3>2. Min({total}) = total
      BY <1>1, Extremes
    <3>. QED BY <1>1, <2>2, <3>1, <3>2
  <2>3. CASE host # 0 /\ total = 0
    <3>1. known = {host}
      BY <2>3
    <3>2. Min({host}) = host
      BY Extremes
    <3>. QED BY <1>1, <2>3, <3>1, <3>2
  <2>4. CASE host # 0 /\ total # 0
    <3>1. known = {total, host}
      BY <2>4
    <3>2. Min({total, host}) = IF total <= host THEN total ELSE host
      <4>1. total \in Int /\ host \in Int
        BY <1>1
      <4>. QED BY ONLY <4>1, Extremes
    <3>. QED BY <1>1, <2>4, <3>1, <3>2
  <2>. QED BY <2>1, <2>2, <2>3, <2>4
<1>. HIDE DEF least
<1>3. Min({least, SizeMax}) = IF least <= SizeMax THEN least ELSE SizeMax
  <2>1. least \in Int /\ SizeMax \in Int
    BY <1>1, <1>2
  <2>. QED BY ONLY <2>1, Extremes
<1>4. Planned(total, host) = IF least <= SizeMax THEN least ELSE SizeMax
  BY <1>1, <1>2 DEF Planned, Capped
<1>. QED BY <1>3, <1>4 DEF least

LEMMA BudgetHolds == EnvironmentOK => BudgetIsExact
<1>. SUFFICES ASSUME EnvironmentOK, environment.built,
                     Reserved(environment.bootstrap, environment.runtime) < SizeModulus,
                     KiB * environment.meminfo.available < SizeModulus,
                     KiB * environment.meminfo.swap < SizeModulus
              PROVE  BudgetIsExact
  BY Zenon DEF BudgetIsExact
<1>1. environment # NoEnvironment
  <2>1. NoEnvironment.built = FALSE
    BY DEF NoEnvironment
  <2>. QED BY <2>1, Zenon
<1>2. PICK bootstrap \in Bootstraps, runtime \in Runtimes, meminfo \in Meminfos, env \in EnvValues :
        environment = BuiltFrom(bootstrap, runtime, meminfo, env)
  BY <1>1, Zenon DEF EnvironmentOK
<1>. DEFINE bytes == IF PrefixCacheEnabled(env) THEN Budget(bootstrap, runtime, meminfo) ELSE 0
<1>3. /\ environment.bootstrap = bootstrap /\ environment.runtime = runtime /\ environment.meminfo = meminfo
      /\ environment.env = env /\ environment.reusable_state_arena.max_bytes = bytes
      /\ environment.prefix_cache.max_bytes = bytes
  <2>. HIDE DEF bytes
  <2>. QED BY <1>2 DEF BuiltFrom, bytes
<1>. DEFINE target == bootstrap.service_target
            fromHost == KiB * (meminfo.available + meminfo.swap)
            fromCaller == target.host_memory_snapshot.mem_available_bytes + target.host_memory_snapshot.swap_free_bytes
            read == bootstrap.prefer_host_memory_snapshot /\ fromHost # 0
            known == {n \in {target.total_memory_bytes} : n # 0}
                     \cup (IF read THEN {fromHost}
                           ELSE {n \in {fromCaller} : target.prefer_host_memory_snapshot
                                                      /\ target.host_memory_snapshot.valid /\ n # 0})
            total == IF known = {} THEN 0 ELSE Min(known)
            host == HostBytes(bootstrap, meminfo)
<1>4. known = {n \in {target.total_memory_bytes, host} : n # 0}
  <2>1. CASE read
    <3>1. host = fromHost /\ fromHost # 0
      BY <2>1, Zenon DEF HostBytes, Read
    <3>. HIDE DEF host, fromHost
    <3>2. known = {n \in {target.total_memory_bytes} : n # 0} \cup {fromHost}
      BY <2>1
    <3>. HIDE DEF known
    <3>. QED BY <3>1, <3>2
  <2>2. CASE ~read
    <3>. DEFINE used == target.prefer_host_memory_snapshot /\ target.host_memory_snapshot.valid
    <3>1. host = IF used THEN fromCaller ELSE 0
      BY <2>2, Zenon DEF HostBytes, Read, CallersHost
    <3>2. known = {n \in {target.total_memory_bytes} : n # 0} \cup {n \in {fromCaller} : used /\ n # 0}
      BY <2>2, Zenon
    <3>. HIDE DEF host, known, used, fromCaller
    <3>. QED BY <3>1, <3>2
  <2>. QED BY <2>1, <2>2
<1>5. host \in Nat /\ target.total_memory_bytes \in Size
  BY <1>3, TotalIs
<1>6. Planned(target.total_memory_bytes, host) = Min({total, SizeMax})
  <2>. HIDE DEF known, host, target
  <2>. QED BY <1>4, <1>5, KnownTotal
<1>7. Budget(bootstrap, runtime, meminfo) = Max({0, Min({total, SizeMax}) - Reserved(bootstrap, runtime)})
  <2>1. Budget(bootstrap, runtime, meminfo)
        = Max({0, Planned(target.total_memory_bytes, host) - Reserved(bootstrap, runtime)})
    BY <1>3, BudgetIs
  <2>. HIDE DEF total, host, target
  <2>. QED BY <1>6, <2>1
<1>8. PrefixCacheEnabled(env) <=> env # "off"
  BY DEF PrefixCacheEnabled
<1>. HIDE DEF bytes
<1>9. bytes = IF env # "off" THEN Max({0, Min({total, SizeMax}) - Reserved(bootstrap, runtime)}) ELSE 0
  <2>. HIDE DEF total
  <2>. QED BY <1>7, <1>8 DEF bytes
<1>10. /\ environment.prefix_cache.max_bytes = environment.reusable_state_arena.max_bytes
       /\ environment.env # "off" =>
            environment.prefix_cache.max_bytes = Max({0, Min({total, SizeMax}) - Reserved(bootstrap, runtime)})
       /\ environment.env = "off" => environment.prefix_cache.max_bytes = 0
  <2>. HIDE DEF total
  <2>. QED BY <1>3, <1>9
<1>. QED BY <1>3, <1>10, Zenon DEF BudgetIsExact

\* What is proved of the loading stays true of the whole environment, which may give up after
\* the weights are in place (BuildFromManifestFile).
THEOREM EnvironmentKeepsLoading ==
  EnvSpec => /\ [](PlacementsDisjoint /\ FilesAccounted /\ ArenaHoldsManifest /\ AddressesAligned)
             /\ CopyNeverRefused
<1>1. IInv /\ AlignOK => PlacementsDisjoint /\ FilesAccounted /\ ArenaHoldsManifest /\ AddressesAligned
  BY ArenaHolds, AlignmentsHold DEF IInv, PlanOK, LoaderOK
<1>2. IInv /\ [EnvNext]_<<vars, environment>> => [phase = "copy" => phase' # "refused"]_vars
  BY EnvStep, CopySucceeds
<1>. QED BY <1>1, <1>2, LoadingInEnvironment, PTL DEF EnvSpec, CopyNeverRefused

\* For all sizes that size_t can hold, every host and every setting: if what the service takes
\* itself can be counted, the cache and the arena get exactly what it leaves of the smaller
\* total, never more (ResolveServiceMemoryTarget, BuildMemoryBudgetSummary, ApplyRuntimeConfig).
THEOREM BudgetAlwaysExact == EnvSpec => []BudgetIsExact
<1>1. EnvInit => EnvironmentOK
  BY DEF EnvInit, EnvironmentOK
<1>. QED BY <1>1, EnvironmentNext, BudgetHolds, PTL DEF EnvSpec
=============================================================================
