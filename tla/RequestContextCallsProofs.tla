---------------------- MODULE RequestContextCallsProofs ----------------------
(***************************************************************************)
(* What RequestContextCalls checks on a small instance, for pools, layer   *)
(* counts and page sizes of every value.  The inductive invariant is       *)
(* Inv: the context has its type, the pages are exact (RequestContextProofs *)
(* says what that means), the decode position is within the sequence, and  *)
(* what the last call returned is true of the context.                     *)
(***************************************************************************)
EXTENDS RequestContextCalls, RequestContextProofs

LEMMA ReturnsMeans ==
  ASSUME NEW call, NEW count, NEW r, Returns(call, count, r)
  PROVE  /\ context' = r[1]
         /\ result'.call = call /\ result'.tokens = count /\ result'.ok = r[2]
BY DEF Returns, Outcome

Inv ==
  /\ ContextType(context)
  /\ PagesExact(context)
  /\ SuccessIsBacked
  /\ ResetLeavesNothing

\* What a call reports, and what is kept of the context whatever it reports.
LEMMA EnsureStep ==
  ASSUME ContextType(context), NEW count \in TokenCounts, CallEnsure(count)
  PROVE  /\ Ensured(context, count, <<context', result'.ok>>)
         /\ result'.call = "ensure" /\ result'.tokens = count
<1>1. PICK r : r = EnsureAttentionTokens(context, count)
  OBVIOUS
<1>2. count \in Nat
  BY ContextAssumption DEF TokenCounts
<1>3. Ensured(context, count, r)
  BY <1>1, <1>2, EnsureGives
<1>4. Returns("ensure", count, r)
  BY <1>1 DEF CallEnsure
<1>5. context' = r[1] /\ result'.call = "ensure" /\ result'.tokens = count /\ result'.ok = r[2]
  BY <1>4, ReturnsMeans
<1>6. Ensured(context, count, <<context', result'.ok>>)
  BY <1>3, <1>5 DEF Ensured
<1>. QED BY <1>5, <1>6

LEMMA LengthenStep ==
  ASSUME ContextType(context), NEW count \in TokenCounts,
         CallSetLength(count) \/ CallAdvance(count)
  PROVE  /\ Lengthened(context, count, <<context', result'.ok>>)
         /\ result'.call \in {"set", "advance"} /\ result'.tokens = count
<1>1. count \in Nat
  BY ContextAssumption DEF TokenCounts
<1>2. CASE CallSetLength(count)
  <2>1. PICK r : r = SetSequenceLength(context, count)
    OBVIOUS
  <2>2. Lengthened(context, count, r)
    BY <1>1, <2>1, SetLengthens
  <2>3. Returns("set", count, r)
    BY <1>2, <2>1 DEF CallSetLength
  <2>4. context' = r[1] /\ result'.call = "set" /\ result'.tokens = count /\ result'.ok = r[2]
    BY <2>3, ReturnsMeans
  <2>5. Lengthened(context, count, <<context', result'.ok>>)
    BY <2>2, <2>4 DEF Lengthened
  <2>. QED BY <2>4, <2>5
<1>3. CASE CallAdvance(count)
  <2>1. PICK r : r = AdvanceDecodePosition(context, count)
    OBVIOUS
  <2>2. Lengthened(context, count, r)
    BY <1>1, <2>1, AdvanceLengthens
  <2>3. Returns("advance", count, r)
    BY <1>3, <2>1 DEF CallAdvance
  <2>4. context' = r[1] /\ result'.call = "advance" /\ result'.tokens = count /\ result'.ok = r[2]
    BY <2>3, ReturnsMeans
  <2>5. Lengthened(context, count, <<context', result'.ok>>)
    BY <2>2, <2>4 DEF Lengthened
  <2>. QED BY <2>4, <2>5
<1>. QED BY <1>2, <1>3

LEMMA ResetStep ==
  ASSUME ContextType(context), PagesExact(context), NEW filled \in Fills, CallReset(filled)
  PROVE  WasReset(context, filled, <<context', result'.ok>>) /\ result'.call = "reset"
<1>1. PICK r : r = ResetForNewRequest(context, filled)
  OBVIOUS
<1>2. WasReset(context, filled, r)
  BY <1>1, ResetGives
<1>3. Returns("reset", 0, r)
  BY <1>1 DEF CallReset
<1>4. context' = r[1] /\ result'.call = "reset" /\ result'.ok = r[2]
  BY <1>3, ReturnsMeans
<1>5. WasReset(context, filled, <<context', result'.ok>>)
  BY <1>2, <1>4 DEF WasReset
<1>. QED BY <1>4, <1>5

LEMMA WriteStep ==
  ASSUME ContextType(context), NEW buffer, Write(buffer)
  PROVE  /\ ContextType(context')
         /\ PagesKept(context, context')
         /\ context'.pool = context.pool /\ context'.pages = context.pages
         /\ context'.sequenceLength = context.sequenceLength
         /\ context'.decodePosition = context.decodePosition
         /\ result'.call = "write"
<1> DEFINE data == [b \in Buffers |-> IF b = buffer THEN context.data[b] \cup {"written"}
                                                    ELSE context.data[b]]
<1>1. context' = Context(context.pool, context.pages, context.sequenceLength,
                         context.decodePosition, data)
  BY Zenon DEF Write, Added
<1>2. DOMAIN data = Buffers
  OBVIOUS
<1>. HIDE DEF data
<1>3. /\ context'.pool = context.pool /\ context'.pages = context.pages
      /\ context'.sequenceLength = context.sequenceLength
      /\ context'.decodePosition = context.decodePosition /\ context'.data = data
  BY <1>1 DEF Context
<1>4. ContextType(context')
  BY <1>2, <1>3 DEF ContextType
<1>5. PagesKept(context, context')
  BY <1>3 DEF PagesKept, PagesExact, PagesOwned, Unlisted
<1>6. result'.call = "write"
  BY DEF Write, Outcome
<1>. QED BY <1>3, <1>4, <1>5, <1>6

-----------------------------------------------------------------------------
LEMMA InvInit ==
  Init => Inv
<1>. SUFFICES ASSUME Init  PROVE Inv
  OBVIOUS
<1>1. context = FreshContext /\ result.call = "create"
  BY DEF Init, Outcome
<1>2. context.sequenceLength = 0 /\ context.decodePosition = 0
  BY <1>1 DEF FreshContext, Context
<1>. QED BY <1>1, <1>2, FreshContextWell DEF Inv, SuccessIsBacked, ResetLeavesNothing

LEMMA InvNext ==
  Inv /\ [Next]_vars => Inv'
<1>. SUFFICES ASSUME Inv, [Next]_vars  PROVE Inv'
  OBVIOUS
<1>1. /\ ContextType(context) /\ PagesExact(context)
      /\ context.decodePosition <= context.sequenceLength
      /\ ContextType(context) => /\ context.sequenceLength \in Nat
                                 /\ context.decodePosition \in Nat
  BY ContextAssumption DEF Inv, SuccessIsBacked, ContextType
<1>2. ASSUME NEW count \in TokenCounts, CallEnsure(count)  PROVE Inv'
  <2>1. /\ Ensured(context, count, <<context', result'.ok>>)
        /\ result'.call = "ensure"
    BY <1>1, <1>2, EnsureStep
  <2>2. /\ ContextType(context') /\ PagesExact(context')
        /\ context'.decodePosition = context.decodePosition
        /\ context'.sequenceLength = context.sequenceLength
    BY <2>1, <1>1 DEF Ensured, Grows, PagesKept
  <2>. QED BY <1>1, <2>1, <2>2 DEF Inv, SuccessIsBacked, ResetLeavesNothing
<1>3. ASSUME NEW count \in TokenCounts, CallSetLength(count) \/ CallAdvance(count)  PROVE Inv'
  <2>1. /\ Lengthened(context, count, <<context', result'.ok>>)
        /\ result'.call \in {"set", "advance"} /\ result'.tokens = count
    BY <1>1, <1>3, LengthenStep
  <2>2. /\ ContextType(context') /\ PagesExact(context')
        /\ context'.decodePosition <= context'.sequenceLength
        /\ result'.ok /\ count > 0 =>
             /\ HasAttention
             /\ \A l \in Layers : Len(context'.pages[l]) >= RequiredPages(context'.sequenceLength)
    BY <2>1, <1>1 DEF Lengthened, PagesKept
  <2>3. SuccessIsBacked'
    BY <2>1, <2>2 DEF SuccessIsBacked
  <2>4. ResetLeavesNothing'
    BY <2>1 DEF ResetLeavesNothing
  <2>. QED BY <2>2, <2>3, <2>4 DEF Inv
<1>4. ASSUME NEW filled \in Fills, CallReset(filled)  PROVE Inv'
  <2>1. WasReset(context, filled, <<context', result'.ok>>) /\ result'.call = "reset"
    BY <1>1, <1>4, ResetStep
  <2>2. /\ ContextType(context') /\ PagesExact(context')
        /\ \A l \in Layers : context'.pages[l] = << >>
        /\ context'.sequenceLength = 0 /\ context'.decodePosition = 0
        /\ result'.ok => \A b \in Buffers : context'.data[b] = {}
    BY <2>1 DEF WasReset
  <2>3. Len(context'.pool.free) = TotalPages - Cardinality(Lost(context'))
    BY <2>2, FreePagesCounted
  <2>4. SuccessIsBacked'
    BY <2>1, <2>2 DEF SuccessIsBacked
  <2>5. ResetLeavesNothing'
    BY <2>2, <2>3 DEF ResetLeavesNothing
  <2>. QED BY <2>2, <2>4, <2>5 DEF Inv
<1>5. ASSUME NEW buffer \in Buffers, Write(buffer)  PROVE Inv'
  <2>1. /\ ContextType(context') /\ PagesExact(context')
        /\ context'.sequenceLength = context.sequenceLength
        /\ context'.decodePosition = context.decodePosition
        /\ result'.call = "write"
    BY <1>1, <1>5, WriteStep DEF PagesKept
  <2>. QED BY <1>1, <2>1 DEF Inv, SuccessIsBacked, ResetLeavesNothing
<1>6. CASE UNCHANGED vars
  BY <1>6 DEF vars, Inv, SuccessIsBacked, ResetLeavesNothing
<1>. QED BY <1>2, <1>3, <1>4, <1>5, <1>6 DEF Next

LEMMA InvAlways ==
  Spec => []Inv
BY InvInit, InvNext, PTL DEF Spec

-----------------------------------------------------------------------------
\* The pool, the mapped pages and the lengths keep their types in every sequence of calls.
THEOREM TypeCorrect ==
  Spec => []TypeOK
<1>1. Inv => TypeOK
  BY DEF Inv, TypeOK, ContextType, PoolType
<1>. QED BY <1>1, InvAlways, PTL

\* A page is free, or belongs to the one layer that lists it, or was lost, and the free
\* list is in order, after every sequence of growths, refusals and failed resets.
THEOREM PagesAreAccounted ==
  Spec => []PagesAccounted
<1>1. Inv => PagesAccounted
  <2>. SUFFICES ASSUME Inv  PROVE PagesAccounted
    OBVIOUS
  <2>1. ContextType(context) /\ FreeListExact(context.pool) /\ PagesOwned(context)
    BY DEF Inv, PagesExact
  <2>2. IsInjective(ListedPages(context))
    BY <2>1, ListedPagesOwned DEF IsInjective, Once
  <2>3. \A l \in Layers : \A p \in Range(context.pages[l]) : context.pool.owner[p] = l
    BY <2>1 DEF PagesOwned, Range
  <2>. QED BY <2>1, <2>2, <2>3 DEF PagesAccounted, FreeListExact
<1>. QED BY <1>1, InvAlways, PTL

\* A successful SetSequenceLength or AdvanceDecodePosition leaves pages for every token.
THEOREM SuccessIsAlwaysBacked ==
  Spec => []SuccessIsBacked
<1>1. Inv => SuccessIsBacked
  BY DEF Inv
<1>. QED BY <1>1, InvAlways, PTL

\* A successful ResetForNewRequest leaves nothing of the request but pages lost before.
THEOREM ResetAlwaysLeavesNothing ==
  Spec => []ResetLeavesNothing
<1>1. Inv => ResetLeavesNothing
  BY DEF Inv
<1>. QED BY <1>1, InvAlways, PTL

\* Between two resets the pages of every layer only grow, at the end.
THEOREM TokensAlwaysStay ==
  Spec => TokensStayInPlace
<1>1. ASSUME Inv, Next, result'.call # "reset"
      PROVE  \A l \in Layers : IsPrefix(context.pages[l], context.pages'[l])
  <2>1. ContextType(context) /\ PagesExact(context)
    BY <1>1 DEF Inv
  <2>2. ASSUME NEW count \in TokenCounts, CallEnsure(count)
        PROVE  PagesStay(context, context')
    BY <2>1, <2>2, EnsureStep DEF Ensured, Grows, PagesStay
  <2>3. ASSUME NEW count \in TokenCounts, CallSetLength(count) \/ CallAdvance(count)
        PROVE  PagesStay(context, context')
    BY <2>1, <2>3, LengthenStep DEF Lengthened
  <2>4. ASSUME NEW buffer \in Buffers, Write(buffer)  PROVE PagesStay(context, context')
    <3>1. context'.pages = context.pages
      BY <2>1, <2>4, WriteStep
    <3>. QED BY <3>1, <2>1, GrowsReflexive DEF Grows, PagesStay
  <2>5. ASSUME NEW filled \in Fills, CallReset(filled)  PROVE FALSE
    BY <1>1, <2>1, <2>5, ResetStep
  <2>6. PagesStay(context, context')
    BY <1>1, <2>2, <2>3, <2>4, <2>5 DEF Next
  <2>. QED BY <2>6 DEF PagesStay
<1>. QED BY <1>1, InvAlways, PTL DEF Spec, TokensStayInPlace

-----------------------------------------------------------------------------
(* Refusals *)

LEMMA MissingIsSum ==
  ASSUME NEW c, NEW count
  PROVE  \E m : /\ IsSum(m, c, RequiredPages(count), LayerCount)
                /\ Missing(c, count) = m[LayerCount]
<1> DEFINE m == CHOOSE x : IsSum(x, c, RequiredPages(count), LayerCount)
<1>1. \E x : IsSum(x, c, RequiredPages(count), LayerCount)
  BY SumExists, PoolAssumption
<1>2. IsSum(m, c, RequiredPages(count), LayerCount)
  BY <1>1, Zenon
<1>3. Missing(c, count) = m[LayerCount]
  BY Zenon DEF Missing, IsSum, Shortfall
<1>. QED BY <1>2, <1>3

\* A growth within max_tokens is refused only when the free pages do not suffice.
THEOREM OnlyRefusedWhenFull ==
  Spec => RefusedOnlyWhenFull
<1>1. ASSUME Inv, Next, result'.call = "ensure", ~result'.ok, result'.tokens <= MaxTokens, HasAttention
      PROVE  Missing(context, result'.tokens) > Len(context.pool.free)
  <2>1. ContextType(context) /\ PagesExact(context)
    BY <1>1 DEF Inv
  <2>2. ASSUME NEW count \in TokenCounts, CallEnsure(count)
        PROVE  Missing(context, result'.tokens) > Len(context.pool.free)
    <3>1. PICK r : r = EnsureAttentionTokens(context, count)
      OBVIOUS
    <3>2. Returns("ensure", count, r)
      BY <2>2, <3>1 DEF CallEnsure
    <3>3. result'.tokens = count /\ result'.ok = r[2]
      BY <3>2, ReturnsMeans
    <3>4. count \in Nat
      BY ContextAssumption DEF TokenCounts
    <3>5. PICK m : /\ IsSum(m, context, RequiredPages(count), LayerCount)
                   /\ Missing(context, count) = m[LayerCount]
      BY MissingIsSum
    <3>6. m[LayerCount] > Len(context.pool.free)
      BY <2>1, <3>1, <3>3, <3>4, <3>5, <1>1, RefusalMeansFull
    <3>. QED BY <3>3, <3>5, <3>6
  <2>3. ASSUME NEW count \in TokenCounts, CallSetLength(count) \/ CallAdvance(count)  PROVE FALSE
    BY <1>1, <2>1, <2>3, LengthenStep
  <2>4. ASSUME NEW buffer \in Buffers, Write(buffer)  PROVE FALSE
    BY <1>1, <2>1, <2>4, WriteStep
  <2>5. ASSUME NEW filled \in Fills, CallReset(filled)  PROVE FALSE
    BY <1>1, <2>1, <2>5, ResetStep
  <2>. QED BY <1>1, <2>2, <2>3, <2>4, <2>5 DEF Next
<1>2. Inv /\ [Next]_vars =>
        [result'.call = "ensure" /\ ~result'.ok /\ result'.tokens <= MaxTokens /\ HasAttention
           => Missing(context, result'.tokens) > Len(context.pool.free)]_vars
  BY <1>1
<1>. QED BY <1>2, InvAlways, PTL DEF Spec, RefusedOnlyWhenFull

\* Pages are lost only by a reset that fails: the release after a complete zeroing never
\* fails, and a growth refused half way loses nothing.
THEOREM OnlyFailedResetsLose ==
  Spec => LostOnlyByFailedReset
<1>1. ASSUME Inv, Next, Lost(context') # Lost(context)
      PROVE  result'.call = "reset" /\ ~result'.ok
  <2>1. ContextType(context) /\ PagesExact(context)
    BY <1>1 DEF Inv
  <2>2. PagesKept(context, context') /\ ContextType(context') => Lost(context') = Lost(context)
    BY <2>1, UnlistedIsLost DEF PagesKept
  <2>3. ASSUME NEW count \in TokenCounts, CallEnsure(count)  PROVE FALSE
    BY <1>1, <2>1, <2>2, <2>3, EnsureStep DEF Ensured
  <2>4. ASSUME NEW count \in TokenCounts, CallSetLength(count) \/ CallAdvance(count)  PROVE FALSE
    BY <1>1, <2>1, <2>2, <2>4, LengthenStep DEF Lengthened
  <2>5. ASSUME NEW filled \in Fills, CallReset(filled)
        PROVE  result'.call = "reset" /\ ~result'.ok
    BY <1>1, <2>1, <2>5, ResetStep DEF WasReset
  <2>6. ASSUME NEW buffer \in Buffers, Write(buffer)  PROVE FALSE
    BY <1>1, <2>1, <2>2, <2>6, WriteStep
  <2>. QED BY <1>1, <2>3, <2>4, <2>5, <2>6 DEF Next
<1>. QED BY <1>1, InvAlways, PTL DEF Spec, LostOnlyByFailedReset
=============================================================================
