------------------------ MODULE MCReusableStateArena ------------------------
(* TLC instance of ReusableStateArena. *)
EXTENDS ReusableStateArena

\* A handle of another arena whose id collides with the first id of this one
\* but whose size does not match any request, and one of the wrong kind.
MCForeignHandles == { [id |-> 1, kind |-> "kv", bytes |-> 7] }
=============================================================================
