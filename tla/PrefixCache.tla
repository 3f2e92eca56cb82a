---------------------------- MODULE PrefixCache ----------------------------
(***************************************************************************)
(* The exact-prefix cache (runtime/src/cache/prefix_cache.cpp) on top of   *)
(* the reusable-state arena.  A node keeps the descriptor of the attention *)
(* KV and Mamba state computed for one exact prompt prefix; it stays while *)
(* it has a role: global root, or committed / prompt head of some          *)
(* conversation.                                                           *)
(*                                                                         *)
(* The C++ calls run to completion one after the other, so each public     *)
(* call is one action.  Inside a call the code updates PrefixCache::Impl   *)
(* several times; those updates are operators from one Impl value to the   *)
(* next, and the action commits the last one.                              *)
(*                                                                         *)
(* Callers are modelled as the tests and docs/v1_cache_architecture.md use *)
(* the API: a caller computes the state of a prompt into a descriptor it   *)
(* owns, publishes it, drops its own reference whenever it likes, looks    *)
(* prompts up and adopts (retains) the state of its last match, possibly   *)
(* after other calls have gone by.                                         *)
(***************************************************************************)
EXTENDS ReusableState, SequencesExt

CONSTANTS
  Identities,        \* prompts: [context : ..., tokens : Seq(...)]
  Fingerprint(_),    \* fingerprint_identity: any function, collisions included
  ContextBytes,      \* bytes of the four strings of an identity's context
  TokenBytes,        \* sizeof(TokenId)
  KvBytesPerToken,   \* KV bytes a caller needs per token of a prompt
  MambaBytes,        \* Mamba state bytes of a prompt, whatever its length
  Conversations,
  NoConversation,    \* a lookup without conversation_id
  MaxBytes,          \* max_bytes_ of the cache
  HasArena,          \* FALSE: the cache was built without an arena
  MaxStateIds,       \* bound: last id the arena hands out
  MaxStatesPerPrompt, \* bound: descriptors computed for one prompt
  MaxHeld,           \* bound: references callers own on one descriptor
  MaxTick            \* bound: last value of the access clock

ASSUME CacheAssumption ==
  /\ MaxBytes \in Nat /\ MaxTick \in Nat /\ MaxHeld \in Nat /\ MaxStateIds \in Nat /\ MaxStatesPerPrompt \in Nat
  /\ TokenBytes \in Nat /\ KvBytesPerToken \in Nat /\ MambaBytes \in Nat
  /\ \A p \in Identities : p.tokens \in Seq(Int) /\ ContextBytes[p.context] \in Nat
  /\ HasArena \in BOOLEAN
  /\ NoConversation \notin Conversations

VARIABLES
  nodes,         \* Impl::nodes, by node id
  index,         \* Impl::nodes_by_fingerprint: a set of <<fingerprint, node id>>
  heads,         \* Impl::committed_heads and prompt_heads, by slot; 0: no entry
  currentBytes,  \* Impl::current_bytes
  tick,          \* Impl::tick
  nextNodeId,    \* Impl::next_node_id
  enabled,       \* Impl::enabled
  arena,         \* the arena Impl::state_arena points at
  match,         \* the last CacheMatch a caller received, with its request
  computed,      \* history: the prompt each descriptor was computed for
  held           \* history: references callers own on each descriptor

impl == <<nodes, index, heads, currentBytes, tick, nextNodeId>>
callers == <<computed, held>>
vars == <<impl, enabled, arena, match, callers>>

-----------------------------------------------------------------------------
(* Identities *)

Checkpoints == {"committed", "prompt"}
Slots == Checkpoints \X Conversations

\* PrefixMatches: every token of the cached prompt, in the same context.
PrefixMatches(cached, request) ==
  /\ cached.context = request.context
  /\ IsPrefix(cached.tokens, request.tokens)

NodeBytes(p, d) == TokenBytes * Len(p.tokens) + ContextBytes[p.context] + TotalBytes(d)

-----------------------------------------------------------------------------
(* Impl values *)

Impl(ns, ix, hs, bytes, clock, next, ar) ==
  [nodes |-> ns, index |-> ix, heads |-> hs, bytes |-> bytes, tick |-> clock,
   next |-> next, arena |-> ar]

Now == Impl(nodes, index, heads, currentBytes, tick, nextNodeId, arena)

Become(c) ==
  /\ nodes' = c.nodes
  /\ index' = c.index
  /\ heads' = c.heads
  /\ currentBytes' = c.bytes
  /\ tick' = c.tick
  /\ nextNodeId' = c.next
  /\ arena' = c.arena

PrefixNode(p, d, root, slots, clock, bytes) ==
  [identity |-> p, state |-> d, root |-> root, slots |-> slots, tick |-> clock,
   bytes |-> bytes]

WithRoles(node, root, slots) ==
  PrefixNode(node.identity, node.state, root, slots, node.tick, node.bytes)

NoRoles(node) == ~node.root /\ node.slots = {}

\* nodes[n] replaced by node, or added.
Put(ns, n, node) == [m \in DOMAIN ns \cup {n} |-> IF m = n THEN node ELSE ns[m]]

\* Touch: the node takes the next clock value.
Touch(c, n) ==
  LET old == c.nodes[n]
      touched == PrefixNode(old.identity, old.state, old.root, old.slots, c.tick, old.bytes)
  IN  Impl(Put(c.nodes, n, touched), c.index, c.heads, c.bytes, c.tick + 1,
           c.next, c.arena)

\* RetainState: <<arena, succeeded>>; a cache without arena owns nothing.
RetainState(ar, d) == IF HasArena THEN RetainDescriptor(ar, d) ELSE <<ar, TRUE>>

ReleaseStates(ar, states) == IF HasArena THEN ReleaseEach(ar, states) ELSE ar

\* Plausible bug: the heads of a removed node are left behind.
RemoveNodesLeavingHeads(c, S) ==
  Impl([n \in DOMAIN c.nodes \ S |-> c.nodes[n]],
       c.index \ {<<Fingerprint(c.nodes[n].identity), n>> : n \in S},
       c.heads, c.bytes - BytesOf(c.nodes, S), c.tick, c.next,
       ReleaseStates(c.arena, [n \in S |-> c.nodes[n].state]))

\* RemoveNode for every node of S: their head entries, references, index
\* entries and bytes go with them.
RemoveNodes(c, S) ==
  LET points(s) == c.heads[s] \in S /\ s \in c.nodes[c.heads[s]].slots
  IN  Impl([n \in DOMAIN c.nodes \ S |-> c.nodes[n]],
           c.index \ {<<Fingerprint(c.nodes[n].identity), n>> : n \in S},
           [s \in Slots |-> IF points(s) THEN 0 ELSE c.heads[s]],
           c.bytes - BytesOf(c.nodes, S), c.tick, c.next,
           ReleaseStates(c.arena, [n \in S |-> c.nodes[n].state]))

-----------------------------------------------------------------------------
(* FindOrCreateNode *)

\* Plausible bugs: a match of the fingerprint is taken for a match of the prompt;
\* the bucket is never searched.
TwinsByFingerprint(c, p) == {n \in DOMAIN c.nodes : <<Fingerprint(p), n>> \in c.index}
TwinsNever(c, p) == {}

\* The nodes of p's fingerprint bucket that are p's and not a collision's.
Twins(c, p) == {n \in DOMAIN c.nodes : /\ <<Fingerprint(p), n>> \in c.index
                                       /\ c.nodes[n].identity = p}

\* Plausible bug: the replaced state is not released.
RefreshWithoutRelease(c, n, d) ==
  LET old == c.nodes[n]
      retained == RetainState(c.arena, d)
      bytes == NodeBytes(old.identity, d)
      replaced ==
        Impl(Put(c.nodes, n, PrefixNode(old.identity, d, old.root, old.slots, old.tick, bytes)),
             c.index, c.heads, c.bytes - old.bytes + bytes, c.tick, c.next, retained[1])
  IN  IF old.state = d \/ ~retained[2] THEN <<Touch(c, n), n>> ELSE <<Touch(replaced, n), n>>

\* A twin exists: its state is replaced by d unless it already is d.
Refresh(c, n, d) ==
  LET old == c.nodes[n]
      retained == RetainState(c.arena, d)
      bytes == NodeBytes(old.identity, d)
      replaced ==
        Impl(Put(c.nodes, n, PrefixNode(old.identity, d, old.root, old.slots, old.tick, bytes)),
             c.index, c.heads, c.bytes - old.bytes + bytes, c.tick, c.next,
             ReleaseStates(retained[1], [i \in {n} |-> old.state]))
  IN  IF old.state = d THEN <<Touch(c, n), n>>
      ELSE IF retained[2] THEN <<Touch(replaced, n), n>>
      ELSE <<c, 0>>

Create(c, p, d) ==
  LET retained == RetainState(c.arena, d)
      node == PrefixNode(p, d, FALSE, {}, c.tick, NodeBytes(p, d))
  IN  IF ~retained[2] THEN <<c, 0>>
      ELSE << Impl(Put(c.nodes, c.next, node),
                   c.index \cup {<<Fingerprint(p), c.next>>}, c.heads,
                   c.bytes + node.bytes, c.tick + 1, c.next + 1, retained[1]),
              c.next >>

\* <<Impl afterwards, node id>>, id 0 when the arena refuses the state.
FindOrCreateNode(c, p, d) ==
  IF Twins(c, p) = {} THEN Create(c, p, d)
  ELSE Refresh(c, CHOOSE n \in Twins(c, p) : TRUE, d)

-----------------------------------------------------------------------------
(* Roles and eviction *)

\* RemoveConversationRole: a node that loses its last role is removed.
RemoveConversationRole(c, n, slot) ==
  LET node == WithRoles(c.nodes[n], c.nodes[n].root, c.nodes[n].slots \ {slot})
      stripped == Impl(Put(c.nodes, n, node), c.index, c.heads, c.bytes,
                       c.tick, c.next, c.arena)
  IN  IF n \notin DOMAIN c.nodes THEN c
      ELSE IF NoRoles(node) THEN RemoveNodes(stripped, {n})
      ELSE stripped

\* AssignConversationHead: the previous head of the slot loses the role.
AssignConversationHead(c, n, slot) ==
  LET freed == IF c.heads[slot] \in {0, n} THEN c
               ELSE RemoveConversationRole(c, c.heads[slot], slot)
      old == freed.nodes[n]
      node == WithRoles(old, old.root, old.slots \cup {slot})
  IN  Touch(Impl(Put(freed.nodes, n, node), freed.index,
                 [freed.heads EXCEPT ![slot] = n],
                 freed.bytes, freed.tick, freed.next, freed.arena), n)

AssignGlobalRoot(c, n) ==
  Touch(Impl(Put(c.nodes, n, WithRoles(c.nodes[n], TRUE, c.nodes[n].slots)),
             c.index, c.heads, c.bytes, c.tick, c.next, c.arena), n)

\* EvictToBudget removes the least recently used node while the bytes exceed
\* the budget: n goes when the bytes still exceed it after every node used
\* less recently has gone.
\* Plausible bugs: the most recently used node goes first; a node goes although
\* the budget is met exactly.
VictimsNewestFirst(c) ==
  LET newer(n) == {m \in DOMAIN c.nodes : c.nodes[m].tick > c.nodes[n].tick}
  IN  {n \in DOMAIN c.nodes : c.bytes - BytesOf(c.nodes, newer(n)) > MaxBytes}

VictimsAtBudget(c) ==
  LET older(n) == {m \in DOMAIN c.nodes : c.nodes[m].tick < c.nodes[n].tick}
  IN  {n \in DOMAIN c.nodes : c.bytes - BytesOf(c.nodes, older(n)) >= MaxBytes}

Victims(c) ==
  LET older(n) == {m \in DOMAIN c.nodes : c.nodes[m].tick < c.nodes[n].tick}
  IN  {n \in DOMAIN c.nodes : c.bytes - BytesOf(c.nodes, older(n)) > MaxBytes}

\* Plausible bug: one node is evicted where several must go.
EvictOnce(c) ==
  RemoveNodes(c, {n \in Victims(c) : \A m \in Victims(c) : c.nodes[n].tick <= c.nodes[m].tick})

EvictToBudget(c) == RemoveNodes(c, Victims(c))

\* The two publications, from FindOrCreateNode to EvictToBudget.
PublishedHead(c, slot, p, d) ==
  LET found == FindOrCreateNode(c, p, d)
  IN  IF found[2] = 0 THEN c
      ELSE EvictToBudget(AssignConversationHead(found[1], found[2], slot))

PublishedRoot(c, p, d) ==
  LET found == FindOrCreateNode(c, p, d)
  IN  IF found[2] = 0 THEN c
      ELSE EvictToBudget(AssignGlobalRoot(found[1], found[2]))

\* Reset: every state released, every table emptied; the clock and the id
\* counter go on.
ResetImpl(c) ==
  Impl([n \in {} |-> 0], {}, [s \in Slots |-> 0], 0, c.tick, c.next,
       ReleaseStates(c.arena, [n \in DOMAIN c.nodes |-> c.nodes[n].state]))

-----------------------------------------------------------------------------
(* The public calls of the cache *)

NoMatch == [source |-> "none", node |-> 0, length |-> 0, state |-> NoDescriptor]

\* The clock bound leaves room for the three values one publication takes.
PublishConversationHead(slot, d) ==
  /\ tick + 2 <= MaxTick
  /\ Become(IF enabled THEN PublishedHead(Now, slot, computed[d], d) ELSE Now)
  /\ UNCHANGED <<enabled, match, callers>>

PublishGlobalRoot(d) ==
  /\ tick + 2 <= MaxTick
  /\ Become(IF enabled THEN PublishedRoot(Now, computed[d], d) ELSE Now)
  /\ UNCHANGED <<enabled, match, callers>>

HeadHit(kind, conversation, p) ==
  /\ conversation # NoConversation
  /\ heads[<<kind, conversation>>] # 0
  /\ PrefixMatches(nodes[heads[<<kind, conversation>>]].identity, p)

\* The search starts from length 0 with a strict comparison: a root without
\* tokens is never found.
RootHits(p) ==
  {n \in DOMAIN nodes : /\ nodes[n].root
                        /\ PrefixMatches(nodes[n].identity, p)
                        /\ Len(nodes[n].identity.tokens) > 0}

\* Plausible bug: any root that matches is as good as the longest.
AnyRootHits(p) == RootHits(p)

LongestRootHits(p) ==
  {n \in RootHits(p) : \A m \in RootHits(p) :
     Len(nodes[m].identity.tokens) <= Len(nodes[n].identity.tokens)}

\* build_match: the node is touched; its state is handed out, not retained.
Hit(source, n, p) ==
  /\ tick <= MaxTick
  /\ Become(Touch(Now, n))
  /\ match' = [source |-> source, node |-> n, request |-> p, state |-> nodes[n].state,
               length |-> Len(nodes[n].identity.tokens)]

Miss(p) ==
  /\ match' = NoMatch
  /\ UNCHANGED <<impl, arena>>

Lookup(conversation, allowPrompt, p) ==
  LET prompt == allowPrompt /\ HeadHit("prompt", conversation, p)
      committed == HeadHit("committed", conversation, p)
  IN
  /\ \/ ~enabled /\ Miss(p)
     \/ enabled /\ prompt /\ Hit("prompt", heads[<<"prompt", conversation>>], p)
     \/ enabled /\ ~prompt /\ committed
        /\ Hit("committed", heads[<<"committed", conversation>>], p)
     \/ enabled /\ ~prompt /\ ~committed
        /\ \E n \in LongestRootHits(p) : Hit("root", n, p)
     \/ enabled /\ ~prompt /\ ~committed /\ RootHits(p) = {} /\ Miss(p)
  /\ UNCHANGED <<enabled, callers>>

SetEnabled(on) ==
  /\ enabled # on
  /\ enabled' = on
  /\ Become(IF on THEN Now ELSE ResetImpl(Now))
  /\ UNCHANGED <<match, callers>>

Clear ==
  /\ Become(ResetImpl(Now))
  /\ UNCHANGED <<enabled, match, callers>>

-----------------------------------------------------------------------------
(* The callers *)

\* A request prefills prompt p into a descriptor of its own, if the arena
\* grants it one.
ComputeState(p) ==
  LET r == AllocateDescriptor(arena, KvBytesPerToken * Len(p.tokens), MambaBytes)
      granted == {r[2]} \ {NoDescriptor}
  IN
  /\ arena.nextId < MaxStateIds
  /\ Cardinality({d \in DOMAIN computed : computed[d] = p}) < MaxStatesPerPrompt
  /\ arena' = r[1]
  /\ computed' = [d \in DOMAIN computed \cup granted |->
                    IF d \in granted THEN p ELSE computed[d]]
  /\ held' = [d \in DOMAIN held \cup granted |-> IF d \in granted THEN 1 ELSE held[d]]
  /\ UNCHANGED <<impl, enabled, match>>

DropState(d) ==
  /\ held[d] > 0
  /\ arena' = ReleaseDescriptor(arena, d)
  /\ held' = [held EXCEPT ![d] = @ - 1]
  /\ UNCHANGED <<impl, enabled, match, computed>>

\* The caller of the last lookup retains the state it was handed.
AdoptMatch ==
  LET r == RetainDescriptor(arena, match.state) IN
  /\ match.source # "none"
  /\ held[match.state] < MaxHeld
  /\ arena' = r[1]
  /\ held' = IF r[2] THEN [held EXCEPT ![match.state] = @ + 1] ELSE held
  /\ UNCHANGED <<impl, enabled, match, computed>>

-----------------------------------------------------------------------------
Init ==
  /\ nodes = [n \in {} |-> 0]
  /\ index = {}
  /\ heads = [s \in Slots |-> 0]
  /\ currentBytes = 0
  /\ tick = 1
  /\ nextNodeId = 1
  /\ enabled = TRUE
  /\ arena = EmptyArena
  /\ match = NoMatch
  /\ computed = [d \in {} |-> 0]
  /\ held = [d \in {} |-> 0]

Next ==
  \/ \E slot \in Slots, d \in DOMAIN computed : PublishConversationHead(slot, d)
  \/ \E d \in DOMAIN computed : PublishGlobalRoot(d)
  \/ \E conversation \in Conversations \cup {NoConversation},
        allowPrompt \in BOOLEAN, p \in Identities :
       Lookup(conversation, allowPrompt, p)
  \/ \E on \in BOOLEAN : SetEnabled(on)
  \/ Clear
  \/ \E p \in Identities : ComputeState(p)
  \/ \E d \in DOMAIN computed : DropState(d)
  \/ AdoptMatch

Spec == Init /\ [][Next]_vars

-----------------------------------------------------------------------------
(* Properties *)

\* A node is for a prompt, keeps a state that a caller computed and has the roles of slots;
\* the index names nodes; a caller holds states that were computed.
TypeOK ==
  /\ \A n \in DOMAIN nodes :
       /\ n \in Nat \ {0}
       /\ nodes[n].identity \in Identities
       /\ nodes[n].state \in DOMAIN computed
       /\ nodes[n].slots \subseteq Slots
  /\ index \subseteq {Fingerprint(p) : p \in Identities} \X (Nat \ {0})
  /\ heads \in [Slots -> Nat]
  /\ nextNodeId \in Nat \ {0}
  /\ enabled \in BOOLEAN
  /\ computed \in [DOMAIN computed -> Identities]
  /\ held \in [DOMAIN computed -> Nat]

\* The head maps and the roles kept in the nodes mirror each other, and a node
\* without a role does not exist: Lookup's nodes.at() never meets a dangling
\* head, and no node is kept alive that no lookup could ever return.
HeadsMatchRoles ==
  /\ \A s \in Slots : heads[s] # 0 =>
       heads[s] \in DOMAIN nodes /\ s \in nodes[heads[s]].slots
  /\ \A n \in DOMAIN nodes : \A s \in nodes[n].slots : heads[s] = n
  /\ \A n \in DOMAIN nodes : ~NoRoles(nodes[n])

\* The fingerprint index holds each node once, under its own fingerprint, and
\* one prompt has at most one node, whatever collides.
IndexIsExact ==
  /\ index = {<<Fingerprint(nodes[n].identity), n>> : n \in DOMAIN nodes}
  /\ \A m, n \in DOMAIN nodes : nodes[m].identity = nodes[n].identity => m = n

\* Every reference on an allocation is owned: by a caller, or by exactly one
\* node for each node that keeps the state.  Nothing leaks and nothing is
\* released twice, through replacement, displacement, eviction and reset.
Owners(id) ==
  LET of(d) == id \in {d.kv.id, d.mamba.id} IN
  MapThenSumSet(LAMBDA d : held[d], {d \in DOMAIN held : of(d)})
  + (IF HasArena THEN Cardinality({n \in DOMAIN nodes : of(nodes[n].state)}) ELSE 0)

ReferencesOwned ==
  \A d \in DOMAIN computed : \A h \in {d.kv, d.mamba} :
    Owners(h.id) = IF Names(arena, h) THEN arena.allocations[h.id].refs ELSE 0

\* The byte count eviction works from is the sum over the nodes, and no call
\* returns with the cache over its budget.
BudgetKept ==
  /\ currentBytes = BytesOf(nodes, DOMAIN nodes)
  /\ \A n \in DOMAIN nodes : nodes[n].bytes = NodeBytes(nodes[n].identity, nodes[n].state)
  /\ currentBytes <= MaxBytes

\* A match, for as long as a caller keeps it, names a state computed for an
\* exact prefix of the prompt it asked about, in the same context, and no
\* other length: neither a fingerprint collision nor a replaced state nor
\* another context's node is ever handed out.
MatchIsForRequest ==
  match.source # "none" =>
    /\ match.state \in DOMAIN computed
    /\ PrefixMatches(computed[match.state], match.request)
    /\ match.length = Len(computed[match.state].tokens)

\* A disabled cache keeps nothing alive.
DisabledIsEmpty ==
  ~enabled => DOMAIN nodes = {} /\ index = {} /\ currentBytes = 0
              /\ \A s \in Slots : heads[s] = 0

\* A node that leaves the cache while it still has a role was evicted (or
\* reset, when nothing is left): it was used less recently than every node
\* that stays, and without it the cache would still be over budget had the
\* last victim stayed.
Displaced(n) == ~nodes[n].root /\ \A s \in nodes[n].slots : heads'[s] \notin {0, n}

Evicted == {n \in DOMAIN nodes \ DOMAIN nodes' : ~Displaced(n)}

EvictsOldestAndOnlyIfNeeded ==
  [][DOMAIN nodes' # {} =>
       \A n \in Evicted :
         /\ \A m \in DOMAIN nodes' : nodes[n].tick < nodes'[m].tick
         /\ (\A m \in Evicted : nodes[m].tick <= nodes[n].tick)
              => currentBytes' + nodes[n].bytes > MaxBytes]_vars

\* Whatever state the cache is in, a publication to it either takes effect
\* entirely, with the slot's head the node of the prompt holding the new state,
\* or is refused for one of two reasons: the arena no longer knows the state,
\* and then the cache is untouched, or the node alone exceeds the budget.
PublicationTakesEffect ==
  enabled => \A slot \in Slots, d \in DOMAIN computed :
    LET c == PublishedHead(Now, slot, computed[d], d)
        head == c.heads[slot]
    IN  \/ /\ head \in DOMAIN c.nodes
           /\ c.nodes[head].identity = computed[d]
           /\ c.nodes[head].state = d
        \/ ~NamesBoth(arena, d) /\ c = Now
        \/ NodeBytes(computed[d], d) > MaxBytes /\ c.nodes = << >>

\* docs/v1_cache_architecture.md, lookup flow: "probe that conversation's
\* committed head first" and, when its tokens are an exact prefix, "use it";
\* the prompt head comes last, "optionally".
CommittedHeadProbedFirst ==
  [][\A conversation \in Conversations, p \in Identities :
       enabled /\ HeadHit("committed", conversation, p)
       /\ Lookup(conversation, TRUE, p) => match'.source = "committed"]_vars

\* The cache implements the contract: hiding ids, index, clock, bytes and
\* references, every call changes what callers can observe in one of the ways
\* the contract allows (what a publication displaces, what eviction may drop,
\* which entry a lookup may return, that nothing else changes the entries).
Stored == {nodes[n].identity : n \in DOMAIN nodes}

NodeOf(p) == CHOOSE n \in DOMAIN nodes : nodes[n].identity = p

Store == [p \in Stored |-> [state |-> nodes[NodeOf(p)].state,
                            slots |-> nodes[NodeOf(p)].slots,
                            root  |-> nodes[NodeOf(p)].root]]

LastAnswer ==
  IF match.source = "none" THEN [source |-> "none"]
  ELSE [source |-> match.source, state |-> match.state,
        length |-> match.length, request |-> match.request]

Contract == INSTANCE PrefixCacheContract WITH store <- Store, match <- LastAnswer

ImplementsContract == Contract!Spec
=============================================================================
