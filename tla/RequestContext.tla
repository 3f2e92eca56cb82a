--------------------------- MODULE RequestContext ---------------------------
(***************************************************************************)
(* The execution context of a request (runtime/src/backend/                *)
(* request_context.cpp) as a value: the KV page pool it owns, the pages    *)
(* each layer's sequence is mapped to, the two lengths, and what its       *)
(* device buffers hold.  A buffer holds the set of entries written to it   *)
(* since it was last zeroed, so a zeroed buffer holds {}.                  *)
(***************************************************************************)
EXTENDS PagedKvCache

CONSTANTS
  MaxTokens,   \* config_.max_tokens
  HasMamba     \* the configuration has Mamba state

ASSUME ContextAssumption ==
  /\ MaxTokens \in Nat \ {0}
  /\ HasMamba \in BOOLEAN

HasAttention == LayerCount # 0

\* The buffers in the order ResetForNewRequest zeroes them.
FillOrder ==
  <<"hidden", "residual", "scratch">>
  \o (IF HasMamba THEN <<"mamba_conv_state", "mamba_state">> ELSE << >>)
  \o (IF HasAttention THEN <<"key_cache", "value_cache">> ELSE << >>)

Buffers == Range(FillOrder)

Context(pool, pages, length, position, data) ==
  [pool |-> pool, pages |-> pages, sequenceLength |-> length,
   decodePosition |-> position, data |-> data]

FreshContext ==
  Context(FreshPool, [l \in Layers |-> << >>], 0, 0, [b \in Buffers |-> {}])

-----------------------------------------------------------------------------
\* Plausible bugs: new pages go to the front; a page too many is asked for; a
\* refusal is not reported.
GrowLayerAtFront(c, layer, required) ==
  LET missing == required - Len(c.pages[layer])
      r == AllocatePages(c.pool, layer, missing)
  IN  IF missing <= 0 THEN <<c, TRUE>>
      ELSE IF r[2] = << >> THEN <<c, FALSE>>
      ELSE <<Context(r[1], [c.pages EXCEPT ![layer] = r[2] \o @],
                     c.sequenceLength, c.decodePosition, c.data), TRUE>>

GrowLayerOneTooMany(c, layer, required) ==
  LET missing == required - Len(c.pages[layer])
      r == AllocatePages(c.pool, layer, missing + 1)
  IN  IF missing <= 0 THEN <<c, TRUE>>
      ELSE IF r[2] = << >> THEN <<c, FALSE>>
      ELSE <<Context(r[1], [c.pages EXCEPT ![layer] = @ \o r[2]],
                     c.sequenceLength, c.decodePosition, c.data), TRUE>>

GrowLayerUnreported(c, layer, required) ==
  LET missing == required - Len(c.pages[layer])
      r == AllocatePages(c.pool, layer, missing)
  IN  IF missing <= 0 THEN <<c, TRUE>>
      ELSE <<Context(r[1], [c.pages EXCEPT ![layer] = @ \o r[2]],
                     c.sequenceLength, c.decodePosition, c.data), TRUE>>

\* EnsureAttentionTokens: <<context afterwards, succeeded>>.  The layers grow
\* one after the other; what the earlier ones got stays with them when a later
\* one is refused.
GrowLayer(c, layer, required) ==
  LET missing == required - Len(c.pages[layer])
      r == AllocatePages(c.pool, layer, missing)
  IN  IF missing <= 0 THEN <<c, TRUE>>
      ELSE IF r[2] = << >> THEN <<c, FALSE>>
      ELSE << Context(r[1],
                      [l \in Layers |-> IF l = layer THEN c.pages[l] \o r[2] ELSE c.pages[l]],
                      c.sequenceLength, c.decodePosition, c.data),
              TRUE >>

EnsureAttentionTokens(c, tokens) ==
  LET required == RequiredPages(tokens)
      grown[n \in 0 .. LayerCount] ==      \* after the first n layers
        IF n = 0 THEN <<c, TRUE>>
        ELSE IF ~grown[n - 1][2] THEN grown[n - 1]
        ELSE GrowLayer(grown[n - 1][1], n - 1, required)
  IN  IF ~HasAttention THEN <<c, tokens = 0>>
      ELSE IF tokens > MaxTokens THEN <<c, FALSE>>
      ELSE grown[LayerCount]

WithLengths(c, length, position) ==
  Context(c.pool, c.pages, length, position, c.data)

\* Both lengths are set before the pages are there.
SetSequenceLength(c, length) ==
  IF length > MaxTokens THEN <<c, FALSE>>
  ELSE EnsureAttentionTokens(WithLengths(c, length, length), length)

AdvanceDecodePosition(c, tokens) ==
  LET position == c.decodePosition + tokens
      length == IF position > c.sequenceLength THEN position ELSE c.sequenceLength
  IN  IF tokens = 0 THEN <<c, TRUE>>
      ELSE IF position > MaxTokens THEN <<c, FALSE>>
      ELSE EnsureAttentionTokens(WithLengths(c, length, position), length)

\* The pages of every layer, in layer order.
ListedPages(c) ==
  LET upTo[n \in 0 .. LayerCount] ==
        IF n = 0 THEN << >> ELSE upTo[n - 1] \o c.pages[n - 1]
  IN  upTo[LayerCount]

\* Plausible bug: the scan state is not zeroed.
ResetKeepingMambaState(c, filled) ==
  LET zeroed == {FillOrder[i] : i \in 1 .. filled} \ {"mamba_state"}
      allZeroed == filled = Len(FillOrder)
      ids == ListedPages(c)
      released == IF allZeroed /\ ids # << >> THEN ReleasePages(c.pool, ids)
                                              ELSE <<c.pool, allZeroed>>
  IN  << Context(released[1], [l \in Layers |-> << >>], 0, 0,
                 [b \in Buffers |-> IF b \in zeroed THEN {} ELSE c.data[b]]),
         released[2] >>

\* ResetForNewRequest, when the device zeroes the first "filled" buffers and,
\* if that is not all of them, fails the next one: the remaining buffers are
\* not zeroed, and the pages are forgotten without being released.
ResetForNewRequest(c, filled) ==
  LET zeroed == {FillOrder[i] : i \in 1 .. filled}
      allZeroed == filled = Len(FillOrder)
      ids == ListedPages(c)
      released == IF allZeroed /\ ids # << >> THEN ReleasePages(c.pool, ids)
                                              ELSE <<c.pool, allZeroed>>
  IN  << Context(released[1], [l \in Layers |-> << >>], 0, 0,
                 [b \in Buffers |-> IF b \in zeroed THEN {} ELSE c.data[b]]),
         released[2] >>

Fills == 0 .. Len(FillOrder)

\* Entries added to a buffer, and a buffer overwritten from end to end.
Added(c, buffer, entries) ==
  Context(c.pool, c.pages, c.sequenceLength, c.decodePosition,
          [b \in Buffers |-> IF b = buffer THEN c.data[b] \cup entries ELSE c.data[b]])

Overwritten(c, buffer, entries) ==
  Context(c.pool, c.pages, c.sequenceLength, c.decodePosition,
          [b \in Buffers |-> IF b = buffer THEN entries ELSE c.data[b]])

-----------------------------------------------------------------------------
\* The pages the pool counts as used although no layer lists them.
Lost(c) == {p \in PageIds : c.pool.owner[p] # Unowned} \ Range(ListedPages(c))
=============================================================================
