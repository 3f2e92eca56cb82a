------------------------- MODULE RequestContextCalls -------------------------
(***************************************************************************)
(* A request context driven through its public calls, in any order, by     *)
(* layers that also write to its buffers.  Any cudaMemset of a reset may   *)
(* fail.                                                                   *)
(***************************************************************************)
EXTENDS RequestContext

VARIABLES
  context,
  result   \* the last call and what it returned

vars == <<context, result>>

Outcome(call, tokens, ok) == [call |-> call, tokens |-> tokens, ok |-> ok]

Init ==
  /\ context = FreshContext
  /\ result = Outcome("create", 0, TRUE)

Returns(call, tokens, r) ==
  /\ context' = r[1]
  /\ result' = Outcome(call, tokens, r[2])

CallEnsure(tokens) == Returns("ensure", tokens, EnsureAttentionTokens(context, tokens))
CallSetLength(tokens) == Returns("set", tokens, SetSequenceLength(context, tokens))
CallAdvance(tokens) == Returns("advance", tokens, AdvanceDecodePosition(context, tokens))
CallReset(filled) == Returns("reset", 0, ResetForNewRequest(context, filled))

\* A layer leaves something in a buffer.
Write(buffer) ==
  /\ context' = Added(context, buffer, {"written"})
  /\ result' = Outcome("write", 0, TRUE)

TokenCounts == 0 .. MaxTokens + 1

Next ==
  \/ \E tokens \in TokenCounts : CallEnsure(tokens)
  \/ \E tokens \in TokenCounts : CallSetLength(tokens)
  \/ \E tokens \in TokenCounts : CallAdvance(tokens)
  \/ \E filled \in Fills : CallReset(filled)
  \/ \E buffer \in Buffers : Write(buffer)

Spec == Init /\ [][Next]_vars

-----------------------------------------------------------------------------
(* Properties *)

TypeOK ==
  /\ context.pool.owner \in [PageIds -> Layers \cup {Unowned}]
  /\ context.pool.free \in Seq(PageIds)
  /\ context.pages \in [Layers -> Seq(PageIds)]
  /\ context.sequenceLength \in 0 .. MaxTokens
  /\ context.decodePosition \in 0 .. MaxTokens
  /\ DOMAIN context.data = Buffers

\* A page is free, or belongs to the one layer that lists it, or was lost: no
\* two tokens of two layers ever share a page.  The free list names every free
\* page once, lowest page last, so the same calls always yield the same pages.
PagesAccounted ==
  LET free == context.pool.free
      listed == ListedPages(context)
  IN
  /\ Range(free) = {p \in PageIds : context.pool.owner[p] = Unowned}
  /\ \A i, j \in DOMAIN free : i < j => free[i] > free[j]
  /\ IsInjective(listed)
  /\ \A l \in Layers : \A p \in Range(context.pages[l]) : context.pool.owner[p] = l

\* A call that set or advanced the length and said so left pages for every
\* token of every layer, and the decode position within the sequence.
SuccessIsBacked ==
  /\ context.decodePosition <= context.sequenceLength
  /\ result.ok /\ result.call \in {"set", "advance"} /\ result.tokens > 0 =>
       /\ HasAttention
       /\ \A l \in Layers : Len(context.pages[l]) >= RequiredPages(context.sequenceLength)

\* A reset that reports success leaves the context as it was created, but for
\* the pages lost before: nothing of the last request is left in any buffer.
ResetLeavesNothing ==
  result.call = "reset" /\ result.ok =>
    /\ \A b \in Buffers : context.data[b] = {}
    /\ Len(context.pool.free) = TotalPages - Cardinality(Lost(context))
    /\ \A l \in Layers : context.pages[l] = << >>
    /\ context.sequenceLength = 0

\* testing/backend/request_context_test.cpp: "reset should release all
\* request-local kv pages".
ResetReleasesPages ==
  result.call = "reset" => Len(context.pool.free) = TotalPages

\* While a request lives, a token's page never changes: growth only appends.
TokensStayInPlace ==
  [][result'.call # "reset" =>
       \A l \in Layers : IsPrefix(context.pages[l], context.pages'[l])]_vars

\* Pages are lost by a reset that reports failure, and by nothing else; a growth
\* refused half way loses none.
LostOnlyByFailedReset ==
  [][Lost(context') # Lost(context) => result'.call = "reset" /\ ~result'.ok]_vars

\* Growth within max_tokens is refused only if the pages really do not suffice:
\* what earlier layers of the same call, or earlier refused calls, were given
\* is not missing.
Missing(c, tokens) ==
  LET ofLayer(l) == IF RequiredPages(tokens) > Len(c.pages[l])
                    THEN RequiredPages(tokens) - Len(c.pages[l]) ELSE 0
      upTo[n \in 0 .. LayerCount] == IF n = 0 THEN 0 ELSE upTo[n - 1] + ofLayer(n - 1)
  IN  upTo[LayerCount]

RefusedOnlyWhenFull ==
  [][result'.call = "ensure" /\ ~result'.ok /\ result'.tokens <= MaxTokens /\ HasAttention
       => Missing(context, result'.tokens) > Len(context.pool.free)]_vars
=============================================================================
