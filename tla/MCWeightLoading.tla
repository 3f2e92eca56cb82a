-------------------------- MODULE MCWeightLoading --------------------------
(* TLC instance of WeightLoading: two files, one of them under two names, and *)
(* manifests of one or two tensors, some of them invalid.                     *)
EXTENDS WeightLoading

MCKeyOf == [p \in Paths |-> IF p = "./w" THEN "w" ELSE p]

Packed(name, path, offset, nbytes, alignment, scaled, ok) ==
  [tensor |-> name, role |-> "packed", path |-> path, offset_bytes |-> offset, nbytes |-> nbytes,
   alignment_bytes |-> alignment, scaled |-> scaled, checksum_ok |-> ok]
Auxiliary(name, role, path, offset, nbytes) ==
  [tensor |-> name, role |-> role, path |-> path, offset_bytes |-> offset, nbytes |-> nbytes,
   alignment_bytes |-> 0, scaled |-> FALSE, checksum_ok |-> TRUE]

\* A plain tensor, one whose bytes changed, one without size, one of odd alignment, and
\* scaled ones: complete, without tensor scale, with two block scales, without auxiliaries.
TensorsNamed(name) ==
  { <<Packed(name, path, offset, 3, alignment, FALSE, TRUE)>> :
       path \in {"w", "./w"}, offset \in {0, 2}, alignment \in {1, 32} }
  \cup
  { <<Packed(name, "w", 0, 3, 1, FALSE, FALSE)>>,
    <<Packed(name, "w", 0, 0, 1, FALSE, TRUE)>>,
    <<Packed(name, "s", 1, 5, 24, FALSE, TRUE)>>,
    <<Packed(name, "w", 1, 4, 64, TRUE, TRUE),
      Auxiliary(name, "block_scales", "s", 0, 2), Auxiliary(name, "tensor_scale", "s", 2, 1)>>,
    <<Packed(name, "w", 1, 4, 64, TRUE, TRUE), Auxiliary(name, "block_scales", "s", 0, 2)>>,
    <<Packed(name, "w", 1, 4, 64, TRUE, TRUE),
      Auxiliary(name, "block_scales", "s", 0, 2), Auxiliary(name, "block_scales", "s", 2, 1)>>,
    <<Packed(name, "w", 1, 4, 64, TRUE, TRUE)>> }

MCManifests ==
  TensorsNamed("t") \cup {s \o t : s \in TensorsNamed("t"), t \in TensorsNamed("t") \cup TensorsNamed("u")}
=============================================================================
