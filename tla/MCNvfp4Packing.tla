--------------------------- MODULE MCNvfp4Packing ---------------------------
(* TLC instance of Nvfp4Packing: tiles of 4 rows by 2 blocks, blocks of four values, and *)
(* matrices that need a second tile of rows or of blocks, or cannot be packed.          *)
EXTENDS Nvfp4Packing

\* The largest magnitude of block b is first + b, of a negative value.
Job(r, c, first) ==
  LET largest(i) == first + (i \div kBlockWidth)
  IN  [rows |-> r, cols |-> c,
       source |-> [i \in 0..r * c - 1 |-> IF i % 4 = 1 THEN -largest(i) ELSE largest(i) \div 2],
       has_fixed |-> FALSE, fixed_tensor_scale |-> 0]
Fixed(j, scale) == [j EXCEPT !.has_fixed = TRUE, !.fixed_tensor_scale = scale]

\* Magnitudes above 5 raise the tensor scale; 9 is infinite.
MCJobs ==
  {Job(3, 4, 0), Job(1, 12, 4), Job(1, 4, 9), Job(2, 6, 0), Job(0, 4, 0)}
  \cup {Fixed(Job(5, 4, 1), s) : s \in {1, 3}}
  \cup {Fixed(Job(2, 12, 0), 3)}
  \cup {Fixed(Job(2, 4, 4), s) : s \in {-1, 0, 9}}
=============================================================================
