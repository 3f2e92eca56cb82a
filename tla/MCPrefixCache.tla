---------------------------- MODULE MCPrefixCache ----------------------------
(* TLC instance of PrefixCache: two contexts, two nested prompts in the first, *)
(* one in the second that has them both as token prefixes and whose fingerprint *)
(* collides with the shorter of them, and one whose entry alone is larger than  *)
(* the budget. Two of the other three fill the budget exactly.                 *)
EXTENDS PrefixCache, TLC

MCIdentities ==
  { [context |-> "c1", tokens |-> <<1>>],
    [context |-> "c1", tokens |-> <<1, 2>>],
    [context |-> "c2", tokens |-> <<1, 2, 3>>],
    [context |-> "c2", tokens |-> <<1, 2, 3, 4>>] }

\* The prompts of one and of three tokens collide, and those of two and four.
MCFingerprint(p) == Len(p.tokens) % 2

MCContextBytes == [c \in {"c1", "c2"} |-> 1]

Symmetric == Permutations(Conversations)
=============================================================================
