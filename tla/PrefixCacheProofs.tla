-------------------------- MODULE PrefixCacheProofs --------------------------
(***************************************************************************)
(* Proofs about the prefix cache, for every set of prompts and             *)
(* conversations, every fingerprint function and every budget: the head    *)
(* maps and the roles kept in the nodes mirror each other, the fingerprint *)
(* index is exact, a disabled cache is empty, a match names a state        *)
(* computed for an exact prefix of the prompt it answers, the cache keeps  *)
(* the promise of PrefixCacheContract, it never holds more bytes than its  *)
(* budget, it evicts no more than it must and the oldest first, a          *)
(* publication that was accepted is in force, and every reference on the   *)
(* arena is owned by a caller or a node.                                   *)
(***************************************************************************)
EXTENDS PrefixCache, TLAPS, FiniteSetTheorems

\* The inductive invariant of an Impl value.  Between two of the code's
\* updates the node being published may not have a role yet (loose), and the
\* entry of the slot being reassigned may be out of date (open).
Linked(c, loose, open) ==
  /\ c.heads \in [Slots -> Nat]
  /\ \A s \in Slots \ open : c.heads[s] # 0 =>
       c.heads[s] \in DOMAIN c.nodes /\ s \in c.nodes[c.heads[s]].slots
  /\ \A n \in DOMAIN c.nodes : \A s \in c.nodes[n].slots :
       s \in Slots \ open /\ c.heads[s] = n
  /\ \A n \in DOMAIN c.nodes \ loose : ~NoRoles(c.nodes[n])
  /\ \A n \in DOMAIN c.nodes : c.nodes[n].root \in BOOLEAN

Indexed(c) ==
  /\ c.next \in Nat \ {0}
  /\ \A n \in DOMAIN c.nodes : n \in Nat \ {0} /\ n < c.next
  /\ c.index = {<<Fingerprint(c.nodes[n].identity), n>> : n \in DOMAIN c.nodes}
  /\ \A m, n \in DOMAIN c.nodes : c.nodes[m].identity = c.nodes[n].identity => m = n

\* Every node keeps a state some caller computed for the node's prompt.
Known(c) ==
  \A n \in DOMAIN c.nodes :
    /\ c.nodes[n].state \in DOMAIN computed
    /\ computed[c.nodes[n].state] = c.nodes[n].identity

Sound(c, loose, open) == Linked(c, loose, open) /\ Indexed(c) /\ Known(c)

\* Descriptors are told apart by the id of their KV half, and ids are issued once.
Issued ==
  /\ arena.nextId \in Nat
  /\ \A d \in DOMAIN computed : d.kv.id \in Nat /\ d.kv.id < arena.nextId

IInv ==
  /\ Sound(Now, {}, {})
  /\ Issued
  /\ DisabledIsEmpty
  /\ MatchIsForRequest

-----------------------------------------------------------------------------
(* The updates inside a publication *)

\* An update that keeps every node's identity and roles, and gives states
\* computed for the same prompts, keeps the cache sound.
LEMMA SameShape ==
  ASSUME NEW c, NEW b, NEW loose, NEW open, Sound(c, loose, open),
         DOMAIN b.nodes = DOMAIN c.nodes, b.index = c.index, b.heads = c.heads,
         b.next = c.next,
         \A n \in DOMAIN c.nodes :
           /\ b.nodes[n].identity = c.nodes[n].identity
           /\ b.nodes[n].root = c.nodes[n].root
           /\ b.nodes[n].slots = c.nodes[n].slots
           /\ b.nodes[n].state \in DOMAIN computed
           /\ computed[b.nodes[n].state] = c.nodes[n].identity
  PROVE  Sound(b, loose, open)
<1>1. Linked(b, loose, open)
  BY DEF Sound, Linked, NoRoles
<1>2. Indexed(b)
  <2>1. {<<Fingerprint(b.nodes[n].identity), n>> : n \in DOMAIN b.nodes}
        = {<<Fingerprint(c.nodes[n].identity), n>> : n \in DOMAIN c.nodes}
    OBVIOUS
  <2> QED BY <2>1 DEF Sound, Indexed
<1>3. Known(b)
  BY DEF Known
<1> QED BY <1>1, <1>2, <1>3 DEF Sound

LEMMA TouchSound ==
  ASSUME NEW c, NEW loose, NEW open, Sound(c, loose, open), NEW n \in DOMAIN c.nodes
  PROVE  Sound(Touch(c, n), loose, open) /\ DOMAIN Touch(c, n).nodes = DOMAIN c.nodes
<1> DEFINE b == Touch(c, n)
<1>1. /\ DOMAIN b.nodes = DOMAIN c.nodes
      /\ b.index = c.index /\ b.heads = c.heads /\ b.next = c.next
      /\ \A m \in DOMAIN c.nodes : /\ b.nodes[m].identity = c.nodes[m].identity
                                   /\ b.nodes[m].root = c.nodes[m].root
                                   /\ b.nodes[m].slots = c.nodes[m].slots
                                   /\ b.nodes[m].state = c.nodes[m].state
  BY DEF Touch, Impl, Put, PrefixNode
<1> HIDE DEF b
<1>2. Known(c)
  BY DEF Sound
<1>3. Sound(b, loose, open)
  BY <1>1, <1>2, SameShape DEF Known
<1> QED BY <1>1, <1>3 DEF b

\* Removing nodes takes their head entries and index entries along.
LEMMA RemoveNodesSound ==
  ASSUME NEW c, NEW loose, NEW open, Sound(c, loose, open), NEW S \in SUBSET DOMAIN c.nodes
  PROVE  /\ Sound(RemoveNodes(c, S), loose \ S, open)
         /\ DOMAIN RemoveNodes(c, S).nodes = DOMAIN c.nodes \ S
<1> DEFINE b == RemoveNodes(c, S)
<1>1. /\ b.nodes = [n \in DOMAIN c.nodes \ S |-> c.nodes[n]]
      /\ b.index = c.index \ {<<Fingerprint(c.nodes[n].identity), n>> : n \in S}
      /\ b.heads = [s \in Slots |-> IF c.heads[s] \in S /\ s \in c.nodes[c.heads[s]].slots
                                    THEN 0 ELSE c.heads[s]]
      /\ b.next = c.next
  BY DEF RemoveNodes, Impl
<1> HIDE DEF b
<1>2. Linked(b, loose \ S, open)
  <2>1. b.heads \in [Slots -> Nat]
    BY <1>1 DEF Sound, Linked
  <2>2. ASSUME NEW s \in Slots \ open, b.heads[s] # 0
        PROVE  b.heads[s] \in DOMAIN b.nodes /\ s \in b.nodes[b.heads[s]].slots
    BY <1>1, <2>2 DEF Sound, Linked
  <2>3. ASSUME NEW n \in DOMAIN b.nodes, NEW s \in b.nodes[n].slots
        PROVE  s \in Slots \ open /\ b.heads[s] = n
    BY <1>1, <2>3 DEF Sound, Linked
  <2>4. \A n \in DOMAIN b.nodes \ (loose \ S) : ~NoRoles(b.nodes[n])
    BY <1>1 DEF Sound, Linked
  <2>5. \A n \in DOMAIN b.nodes : b.nodes[n].root \in BOOLEAN
    BY <1>1 DEF Sound, Linked
  <2> QED BY <2>1, <2>2, <2>3, <2>4, <2>5 DEF Linked
<1>3. Indexed(b)
  <2>1. b.index = {<<Fingerprint(b.nodes[n].identity), n>> : n \in DOMAIN b.nodes}
    BY <1>1 DEF Sound, Indexed
  <2> QED BY <1>1, <2>1 DEF Sound, Indexed
<1>4. Known(b)
  BY <1>1 DEF Sound, Known
<1> QED BY <1>1, <1>2, <1>3, <1>4 DEF Sound, b

\* The node found or created is the prompt's; only it may lack a role.
LEMMA FindOrCreateSound ==
  ASSUME NEW c, Sound(c, {}, {}), NEW d \in DOMAIN computed
  PROVE  LET found == FindOrCreateNode(c, computed[d], d) IN
         \/ found = <<c, 0>>
         \/ /\ found[2] # 0
            /\ found[2] \in DOMAIN found[1].nodes
            /\ Sound(found[1], {found[2]}, {})
<1> DEFINE p == computed[d]
           found == FindOrCreateNode(c, p, d)
<1>1. CASE Twins(c, p) = {}
  <2> DEFINE retained == RetainState(c.arena, d)
             b == found[1]
             node == PrefixNode(p, d, FALSE, {}, c.tick, NodeBytes(p, d))
  <2>1. CASE ~retained[2]
    BY <1>1, <2>1 DEF FindOrCreateNode, Create
  <2>2. CASE retained[2]
    <3>1. /\ found[2] = c.next
          /\ b.nodes = Put(c.nodes, c.next, node)
          /\ b.index = c.index \cup {<<Fingerprint(p), c.next>>}
          /\ b.heads = c.heads
          /\ b.next = c.next + 1
      BY <1>1, <2>2 DEF FindOrCreateNode, Create, Impl
    <3>2. node.identity = p /\ node.state = d /\ node.slots = {} /\ node.root = FALSE
      BY DEF PrefixNode
    <3>3. c.next \in Nat \ {0} /\ c.next \notin DOMAIN c.nodes
      BY DEF Sound, Indexed
    <3>4. \A n \in DOMAIN c.nodes : c.nodes[n].identity # p
      BY <1>1 DEF Twins, Sound, Indexed
    <3> HIDE DEF found, b, node, p
    <3>5. /\ DOMAIN b.nodes = DOMAIN c.nodes \cup {c.next}
          /\ b.nodes[c.next] = node
          /\ \A n \in DOMAIN c.nodes : b.nodes[n] = c.nodes[n]
      BY <3>1, <3>3 DEF Put
    <3>6. Linked(b, {c.next}, {})
      <4>1. \A n \in DOMAIN b.nodes : b.nodes[n].root \in BOOLEAN
        <5>1. \A n \in DOMAIN c.nodes : c.nodes[n].root \in BOOLEAN
          BY DEF Sound, Linked
        <5> QED BY <3>2, <3>5, <5>1, Zenon
      <4>2. \A n \in DOMAIN b.nodes : \A s \in b.nodes[n].slots : s \in Slots /\ b.heads[s] = n
        BY <3>1, <3>2, <3>5 DEF Sound, Linked
      <4>3. \A n \in DOMAIN b.nodes \ {c.next} : ~NoRoles(b.nodes[n])
        BY <3>5 DEF Sound, Linked
      <4>4. \A s \in Slots : b.heads[s] # 0 =>
              b.heads[s] \in DOMAIN b.nodes /\ s \in b.nodes[b.heads[s]].slots
        BY <3>1, <3>5 DEF Sound, Linked
      <4> QED BY <3>1, <4>1, <4>2, <4>3, <4>4 DEF Sound, Linked
    <3>7. Indexed(b)
      <4>1. b.index = {<<Fingerprint(b.nodes[n].identity), n>> : n \in DOMAIN b.nodes}
        BY <3>1, <3>2, <3>5 DEF Sound, Indexed
      <4>2. b.next \in Nat \ {0} /\ \A n \in DOMAIN b.nodes : n \in Nat \ {0} /\ n < b.next
        BY <3>1, <3>3, <3>5 DEF Sound, Indexed
      <4>3. \A m, n \in DOMAIN b.nodes : b.nodes[m].identity = b.nodes[n].identity => m = n
        BY <3>2, <3>4, <3>5 DEF Sound, Indexed
      <4> QED BY <4>1, <4>2, <4>3 DEF Indexed
    <3>8. Known(b)
      BY <3>2, <3>5 DEF Sound, Known, p
    <3> QED BY <3>1, <3>3, <3>5, <3>6, <3>7, <3>8 DEF Sound, p, b, found
  <2> QED BY <2>1, <2>2
<1>2. CASE Twins(c, p) # {}
  <2> DEFINE n == CHOOSE n \in Twins(c, p) : TRUE
  <2>1. n \in Twins(c, p)
    BY <1>2
  <2>2. n \in DOMAIN c.nodes /\ c.nodes[n].identity = p /\ n # 0
    BY <2>1 DEF Twins, Sound, Indexed
  <2>3. found = Refresh(c, n, d)
    BY <1>2 DEF FindOrCreateNode
  <2> HIDE DEF n, found
  <2>4. Sound(c, {n}, {})
    BY DEF Sound, Linked
  <2>5. CASE c.nodes[n].state = d
    <3>1. found = <<Touch(c, n), n>>
      BY <2>3, <2>5 DEF Refresh
    <3> QED BY <2>2, <2>4, <3>1, TouchSound DEF found
  <2>6. CASE c.nodes[n].state # d
    <3> DEFINE old == c.nodes[n]
               retained == RetainState(c.arena, d)
               bytes == NodeBytes(old.identity, d)
               r == Impl(Put(c.nodes, n, PrefixNode(old.identity, d, old.root, old.slots, old.tick, bytes)),
                         c.index, c.heads, c.bytes - old.bytes + bytes, c.tick, c.next,
                         ReleaseStates(retained[1], [i \in {n} |-> old.state]))
    <3>1. found = IF retained[2] THEN <<Touch(r, n), n>> ELSE <<c, 0>>
      BY <2>3, <2>6 DEF Refresh
    <3>2. /\ DOMAIN r.nodes = DOMAIN c.nodes
          /\ r.index = c.index /\ r.heads = c.heads /\ r.next = c.next
          /\ r.nodes[n].state = d
          /\ \A m \in DOMAIN c.nodes : /\ r.nodes[m].identity = c.nodes[m].identity
                                       /\ r.nodes[m].root = c.nodes[m].root
                                       /\ r.nodes[m].slots = c.nodes[m].slots
                                       /\ m # n => r.nodes[m].state = c.nodes[m].state
      BY <2>2 DEF Impl, Put, PrefixNode
    <3> HIDE DEF r, retained
    <3>3. \A m \in DOMAIN c.nodes : /\ r.nodes[m].state \in DOMAIN computed
                                    /\ computed[r.nodes[m].state] = c.nodes[m].identity
      BY <2>2, <3>2 DEF Sound, Known
    <3>4. Sound(r, {n}, {})
      BY <2>4, <3>2, <3>3, SameShape
    <3>5. Sound(Touch(r, n), {n}, {}) /\ DOMAIN Touch(r, n).nodes = DOMAIN c.nodes
      BY <2>2, <3>2, <3>4, TouchSound
    <3>6. CASE retained[2]
      BY <2>2, <3>1, <3>5, <3>6 DEF found
    <3>7. CASE ~retained[2]
      BY <3>1, <3>7 DEF found
    <3> QED BY <3>6, <3>7
  <2> QED BY <2>5, <2>6
<1> QED BY <1>1, <1>2

\* Assigning a head takes the slot from the node that had it, removes that node
\* when it has no other role, and leaves every node with a role.
LEMMA AssignConversationHeadSound ==
  ASSUME NEW c, NEW n \in DOMAIN c.nodes, Sound(c, {n}, {}), NEW slot \in Slots
  PROVE  Sound(AssignConversationHead(c, n, slot), {}, {})
<1> DEFINE freed == IF c.heads[slot] \in {0, n} THEN c
                    ELSE RemoveConversationRole(c, c.heads[slot], slot)
           node == WithRoles(freed.nodes[n], freed.nodes[n].root,
                             freed.nodes[n].slots \cup {slot})
           b == Impl(Put(freed.nodes, n, node), freed.index,
                     [freed.heads EXCEPT ![slot] = n],
                     freed.bytes, freed.tick, freed.next, freed.arena)
<1>1. /\ Sound(freed, {n}, {slot}) \/ (c.heads[slot] \in {0, n} /\ freed = c)
      /\ n \in DOMAIN freed.nodes
  <2>1. CASE c.heads[slot] \in {0, n}
    BY <2>1
  <2>2. CASE c.heads[slot] \notin {0, n}
    <3> DEFINE old == c.heads[slot]
               bare == WithRoles(c.nodes[old], c.nodes[old].root,
                                 c.nodes[old].slots \ {slot})
               stripped == Impl(Put(c.nodes, old, bare), c.index, c.heads, c.bytes,
                                c.tick, c.next, c.arena)
    <3>1. old \in DOMAIN c.nodes /\ old # n
      BY <2>2 DEF Sound, Linked
    <3>2. freed = IF NoRoles(bare) THEN RemoveNodes(stripped, {old}) ELSE stripped
      BY <2>2, <3>1 DEF RemoveConversationRole
    <3>3. /\ DOMAIN stripped.nodes = DOMAIN c.nodes
          /\ stripped.index = c.index /\ stripped.heads = c.heads
          /\ stripped.next = c.next
          /\ \A m \in DOMAIN c.nodes : m # old => stripped.nodes[m] = c.nodes[m]
          /\ stripped.nodes[old] = bare
          /\ bare.identity = c.nodes[old].identity
          /\ bare.state = c.nodes[old].state
          /\ bare.slots = c.nodes[old].slots \ {slot}
          /\ bare.root = c.nodes[old].root
      BY <3>1 DEF Impl, Put, WithRoles, PrefixNode
    <3> HIDE DEF stripped, bare, freed
    <3>4. Linked(stripped, {n} \cup (IF NoRoles(bare) THEN {old} ELSE {}), {slot})
      <4>1. \A m \in DOMAIN c.nodes : m # old => slot \notin c.nodes[m].slots
        BY DEF Sound, Linked
      <4> QED BY <3>1, <3>3, <4>1 DEF Sound, Linked
    <3>5. Indexed(stripped)
      <4>1. \A m \in DOMAIN c.nodes : stripped.nodes[m].identity = c.nodes[m].identity
        BY <3>3
      <4>2. {<<Fingerprint(stripped.nodes[m].identity), m>> : m \in DOMAIN stripped.nodes}
            = {<<Fingerprint(c.nodes[m].identity), m>> : m \in DOMAIN c.nodes}
        BY <3>3, <4>1
      <4> QED BY <3>3, <4>1, <4>2 DEF Sound, Indexed
    <3>6. Known(stripped)
      BY <3>3 DEF Sound, Known
    <3>7. CASE NoRoles(bare)
      <4>1. Sound(stripped, {n, old}, {slot})
        BY <3>4, <3>5, <3>6, <3>7 DEF Sound, Linked
      <4>2. {old} \in SUBSET DOMAIN stripped.nodes /\ {n, old} \ {old} = {n}
        BY <3>1, <3>3
      <4> HIDE DEF old
      <4>3. /\ Sound(RemoveNodes(stripped, {old}), {n, old} \ {old}, {slot})
            /\ DOMAIN RemoveNodes(stripped, {old}).nodes = DOMAIN stripped.nodes \ {old}
        BY <4>1, <4>2, RemoveNodesSound
      <4> QED BY <3>1, <3>2, <3>3, <3>7, <4>2, <4>3
    <3>8. CASE ~NoRoles(bare)
      <4>1. Sound(stripped, {n}, {slot})
        BY <3>4, <3>5, <3>6, <3>8 DEF Sound, Linked
      <4> QED BY <3>2, <3>3, <3>8, <4>1
    <3> QED BY <3>7, <3>8
  <2> QED BY <2>1, <2>2
<1>2. Sound(freed, {n}, {slot}) \/ Sound(freed, {n}, {})
  BY <1>1
<1>3. (c.heads[slot] \in {0, n} /\ freed = c) \/ Sound(freed, {n}, {slot})
  BY <1>1
<1>4. AssignConversationHead(c, n, slot) = Touch(b, n)
  BY DEF AssignConversationHead
<1> HIDE DEF freed
<1>5. /\ DOMAIN b.nodes = DOMAIN freed.nodes
      /\ b.index = freed.index /\ b.next = freed.next
      /\ b.heads = [freed.heads EXCEPT ![slot] = n]
      /\ \A m \in DOMAIN freed.nodes : m # n => b.nodes[m] = freed.nodes[m]
      /\ b.nodes[n].identity = freed.nodes[n].identity
      /\ b.nodes[n].state = freed.nodes[n].state
      /\ b.nodes[n].slots = freed.nodes[n].slots \cup {slot}
      /\ b.nodes[n].root = freed.nodes[n].root
  BY <1>1 DEF Impl, Put, WithRoles, PrefixNode
<1> HIDE DEF b
<1>6. Linked(b, {}, {})
  <2>1. b.heads \in [Slots -> Nat]
    <3>1. freed.heads \in [Slots -> Nat]
      BY <1>2 DEF Sound, Linked
    <3>2. n \in Nat
      BY <1>1 DEF Sound, Indexed
    <3> QED BY <1>5, <3>1, <3>2
  <2>2. ASSUME NEW m \in DOMAIN freed.nodes, m # n PROVE slot \notin freed.nodes[m].slots
    <3>1. CASE Sound(freed, {n}, {slot})
      BY <3>1 DEF Sound, Linked
    <3>2. CASE c.heads[slot] \in {0, n} /\ freed = c
      <4>1. slot \in c.nodes[m].slots => c.heads[slot] = m /\ m # 0
        BY <3>2 DEF Sound, Linked, Indexed
      <4> QED BY <2>2, <3>2, <4>1
    <3> QED BY <1>3, <3>1, <3>2
  <2>7. /\ n \in DOMAIN freed.nodes
        /\ freed.heads \in [Slots -> Nat]
        /\ \A s \in Slots : s # slot /\ freed.heads[s] # 0 =>
             freed.heads[s] \in DOMAIN freed.nodes /\ s \in freed.nodes[freed.heads[s]].slots
        /\ \A m \in DOMAIN freed.nodes : \A s \in freed.nodes[m].slots :
             s \in Slots /\ freed.heads[s] = m
    BY <1>1, <1>2 DEF Sound, Linked
  <2>3. ASSUME NEW s \in Slots, b.heads[s] # 0
        PROVE  b.heads[s] \in DOMAIN b.nodes /\ s \in b.nodes[b.heads[s]].slots
    <3>1. CASE s = slot
      BY ONLY <1>5, <2>7, <3>1
    <3>2. CASE s # slot
      <4>1. b.heads[s] = freed.heads[s]
        BY ONLY <1>5, <2>7, <3>2
      <4> QED BY ONLY <1>5, <2>3, <2>7, <3>2, <4>1
    <3> QED BY <3>1, <3>2
  <2>4. ASSUME NEW m \in DOMAIN b.nodes, NEW s \in b.nodes[m].slots
        PROVE  s \in Slots /\ b.heads[s] = m
    <3>1. CASE s = slot
      BY ONLY <1>5, <2>2, <2>4, <2>7, <3>1, slot \in Slots
    <3>2. CASE s # slot
      <4>1. s \in freed.nodes[m].slots
        BY ONLY <1>5, <2>4, <3>2
      <4> QED BY ONLY <1>5, <2>4, <2>7, <3>2, <4>1
    <3> QED BY <3>1, <3>2
  <2>5. \A m \in DOMAIN b.nodes : ~NoRoles(b.nodes[m])
    BY <1>2, <1>5 DEF Sound, Linked, NoRoles
  <2>6. \A m \in DOMAIN b.nodes : b.nodes[m].root \in BOOLEAN
    BY <1>2, <1>5 DEF Sound, Linked
  <2> QED BY <2>1, <2>3, <2>4, <2>5, <2>6 DEF Linked
<1>7. Indexed(b)
  <2>1. \A m \in DOMAIN b.nodes : b.nodes[m].identity = freed.nodes[m].identity
    BY <1>5
  <2>2. {<<Fingerprint(b.nodes[m].identity), m>> : m \in DOMAIN b.nodes}
        = {<<Fingerprint(freed.nodes[m].identity), m>> : m \in DOMAIN freed.nodes}
    BY <1>5, <2>1
  <2> QED BY <1>2, <1>5, <2>1, <2>2 DEF Sound, Indexed
<1>8. Known(b)
  BY <1>2, <1>5 DEF Sound, Known
<1>9. Sound(b, {}, {}) /\ n \in DOMAIN b.nodes
  BY <1>1, <1>5, <1>6, <1>7, <1>8 DEF Sound
<1> QED BY <1>4, <1>9, TouchSound

LEMMA AssignGlobalRootSound ==
  ASSUME NEW c, NEW n \in DOMAIN c.nodes, Sound(c, {n}, {})
  PROVE  Sound(AssignGlobalRoot(c, n), {}, {})
<1> DEFINE node == WithRoles(c.nodes[n], TRUE, c.nodes[n].slots)
           b == Impl(Put(c.nodes, n, node), c.index, c.heads, c.bytes, c.tick,
                     c.next, c.arena)
<1>1. AssignGlobalRoot(c, n) = Touch(b, n)
  BY DEF AssignGlobalRoot
<1>2. /\ DOMAIN b.nodes = DOMAIN c.nodes
      /\ b.index = c.index /\ b.next = c.next /\ b.heads = c.heads
      /\ \A m \in DOMAIN c.nodes : /\ m # n => b.nodes[m].root = c.nodes[m].root
                                   /\ b.nodes[m].identity = c.nodes[m].identity
                                   /\ b.nodes[m].state = c.nodes[m].state
                                   /\ b.nodes[m].slots = c.nodes[m].slots
      /\ b.nodes[n].root = TRUE
  BY DEF Impl, Put, WithRoles, PrefixNode
<1> HIDE DEF b
<1>3. Linked(b, {}, {})
  <2>1. \A m \in DOMAIN b.nodes : b.nodes[m].root \in BOOLEAN
    <3>1. \A m \in DOMAIN c.nodes : c.nodes[m].root \in BOOLEAN
      BY DEF Sound, Linked
    <3> QED BY <1>2, <3>1, Zenon
  <2>2. \A m \in DOMAIN b.nodes : ~NoRoles(b.nodes[m])
    BY <1>2 DEF Sound, Linked, NoRoles
  <2> QED BY <1>2, <2>1, <2>2 DEF Sound, Linked
<1>4. Indexed(b)
  <2>1. {<<Fingerprint(b.nodes[m].identity), m>> : m \in DOMAIN b.nodes}
        = {<<Fingerprint(c.nodes[m].identity), m>> : m \in DOMAIN c.nodes}
    BY <1>2
  <2> QED BY <1>2, <2>1 DEF Sound, Indexed
<1>5. Known(b)
  BY <1>2 DEF Sound, Known
<1>6. Sound(b, {}, {})
  BY <1>3, <1>4, <1>5 DEF Sound
<1> QED BY <1>1, <1>2, <1>6, TouchSound

\* Eviction removes nodes, whichever they are.
LEMMA EvictToBudgetSound ==
  ASSUME NEW c, Sound(c, {}, {})
  PROVE  Sound(EvictToBudget(c), {}, {})
<1>1. Victims(c) \in SUBSET DOMAIN c.nodes
  BY DEF Victims
<1>2. {} \ Victims(c) = {}
  OBVIOUS
<1> HIDE DEF Victims
<1>3. Sound(RemoveNodes(c, Victims(c)), {} \ Victims(c), {})
  BY <1>1, RemoveNodesSound
<1> QED BY <1>2, <1>3 DEF EvictToBudget

\* A publication keeps the cache sound.
LEMMA PublishedSound ==
  ASSUME NEW c, Sound(c, {}, {}), NEW d \in DOMAIN computed
  PROVE  /\ \A slot \in Slots : Sound(PublishedHead(c, slot, computed[d], d), {}, {})
         /\ Sound(PublishedRoot(c, computed[d], d), {}, {})
<1> DEFINE found == FindOrCreateNode(c, computed[d], d)
<1>1. \/ found = <<c, 0>>
      \/ /\ found[2] # 0
         /\ found[2] \in DOMAIN found[1].nodes
         /\ Sound(found[1], {found[2]}, {})
  BY FindOrCreateSound
<1>2. ASSUME NEW slot \in Slots
      PROVE  Sound(PublishedHead(c, slot, computed[d], d), {}, {})
  <2>1. PublishedHead(c, slot, computed[d], d) =
          IF found[2] = 0 THEN c
          ELSE EvictToBudget(AssignConversationHead(found[1], found[2], slot))
    BY DEF PublishedHead
  <2> HIDE DEF found
  <2>2. found[2] # 0 => Sound(AssignConversationHead(found[1], found[2], slot), {}, {})
    BY <1>1, AssignConversationHeadSound
  <2> QED BY <2>1, <2>2, EvictToBudgetSound
<1>3. Sound(PublishedRoot(c, computed[d], d), {}, {})
  <2>1. PublishedRoot(c, computed[d], d) =
          IF found[2] = 0 THEN c
          ELSE EvictToBudget(AssignGlobalRoot(found[1], found[2]))
    BY DEF PublishedRoot
  <2> HIDE DEF found
  <2>2. found[2] # 0 => Sound(AssignGlobalRoot(found[1], found[2]), {}, {})
    BY <1>1, AssignGlobalRootSound
  <2> QED BY <2>1, <2>2, EvictToBudgetSound
<1> QED BY <1>2, <1>3

\* Nothing the cache does to the arena issues an id.
LEMMA CacheIssuesNoId ==
  ASSUME NEW c, NEW p, NEW d
  PROVE  /\ \A slot \in Slots : PublishedHead(c, slot, p, d).arena.nextId = c.arena.nextId
         /\ PublishedRoot(c, p, d).arena.nextId = c.arena.nextId
         /\ ResetImpl(c).arena.nextId = c.arena.nextId
<1>1. \A a, h : Release(a, h).nextId = a.nextId /\ Retain(a, h)[1].nextId = a.nextId
  BY DEF Release, Retain, WithRefs, Arena
<1>2. \A a, e : RetainState(a, e)[1].nextId = a.nextId
  <2>1. \A a, e : RetainDescriptor(a, e)[1].nextId = a.nextId
    BY <1>1 DEF RetainDescriptor
  <2> QED BY <2>1 DEF RetainState
<1>3. \A a, states : ReleaseStates(a, states).nextId = a.nextId
  BY DEF ReleaseStates, ReleaseEach, Arena
<1>4. \A b, S : RemoveNodes(b, S).arena.nextId = b.arena.nextId
  BY <1>3 DEF RemoveNodes, Impl
<1>5. \A b, n : Touch(b, n).arena = b.arena
  BY DEF Touch, Impl
<1>6. FindOrCreateNode(c, p, d)[1].arena.nextId = c.arena.nextId
  <2>1. Create(c, p, d)[1].arena.nextId = c.arena.nextId
    BY <1>2 DEF Create, Impl
  <2>2. \A n : Refresh(c, n, d)[1].arena.nextId = c.arena.nextId
    BY <1>2, <1>3, <1>5 DEF Refresh, Impl
  <2> QED BY <2>1, <2>2 DEF FindOrCreateNode
<1>7. \A b, n, slot : RemoveConversationRole(b, n, slot).arena.nextId = b.arena.nextId
  BY <1>4 DEF RemoveConversationRole, Impl
<1>8. \A b, n, slot : AssignConversationHead(b, n, slot).arena.nextId = b.arena.nextId
  BY <1>5, <1>7, SMTT(30) DEF AssignConversationHead, Impl
<1>9. \A b, n : AssignGlobalRoot(b, n).arena.nextId = b.arena.nextId
  BY <1>5 DEF AssignGlobalRoot, Impl
<1>10. \A b : EvictToBudget(b).arena.nextId = b.arena.nextId
  BY <1>4 DEF EvictToBudget
<1>11. ResetImpl(c).arena.nextId = c.arena.nextId
  BY <1>3 DEF ResetImpl, Impl
<1>12. \A slot \in Slots : PublishedHead(c, slot, p, d).arena.nextId = c.arena.nextId
  BY <1>6, <1>8, <1>10 DEF PublishedHead
<1>13. PublishedRoot(c, p, d).arena.nextId = c.arena.nextId
  BY <1>6, <1>9, <1>10 DEF PublishedRoot
<1> QED BY <1>11, <1>12, <1>13

LEMMA ResetSound ==
  ASSUME NEW c, Indexed(c)
  PROVE  /\ Sound(ResetImpl(c), {}, {})
         /\ DOMAIN ResetImpl(c).nodes = {}
         /\ ResetImpl(c).index = {}
         /\ ResetImpl(c).bytes = 0
         /\ \A s \in Slots : ResetImpl(c).heads[s] = 0
BY DEF ResetImpl, Impl, Sound, Linked, Indexed, Known

\* A descriptor the arena grants is one no caller was given before.
LEMMA AllocateDescriptorFresh ==
  ASSUME NEW a, a.nextId \in Nat, NEW kvBytes, NEW mambaBytes
  PROVE  LET r == AllocateDescriptor(a, kvBytes, mambaBytes) IN
         /\ r[1].nextId \in Nat /\ r[1].nextId >= a.nextId
         /\ r[2] # NoDescriptor => r[2].kv.id = a.nextId /\ r[1].nextId > a.nextId
<1> DEFINE kv == Allocate(a, "kv", kvBytes)
           mamba == Allocate(kv[1], "mamba", mambaBytes)
           r == AllocateDescriptor(a, kvBytes, mambaBytes)
<1>1. /\ kv[1].nextId \in Nat /\ kv[1].nextId >= a.nextId
      /\ HandleValid(kv[2]) => kv[2].id = a.nextId /\ kv[1].nextId > a.nextId
  BY DEF Allocate, Arena, NoHandle, HandleValid
<1>2. mamba[1].nextId \in Nat /\ mamba[1].nextId >= kv[1].nextId
  <2> HIDE DEF kv
  <2> QED BY <1>1 DEF Allocate, Arena
<1>3. Release(mamba[1], kv[2]).nextId = mamba[1].nextId
  BY DEF Release, WithRefs, Arena
<1>4. r = IF ~HandleValid(kv[2]) THEN <<kv[1], NoDescriptor>>
          ELSE IF ~HandleValid(mamba[2]) THEN <<Release(mamba[1], kv[2]), NoDescriptor>>
          ELSE <<mamba[1], [kv |-> kv[2], mamba |-> mamba[2]]>>
  BY DEF AllocateDescriptor
<1> HIDE DEF kv, mamba, r
<1> QED BY <1>1, <1>2, <1>3, <1>4 DEF r

-----------------------------------------------------------------------------
(* The specification *)

LEMMA InitIInv == Init => IInv
<1> SUFFICES ASSUME Init PROVE IInv
  OBVIOUS
<1>1. Sound(Now, {}, {})
  BY DEF Init, Now, Impl, Sound, Linked, Indexed, Known
<1>2. Issued
  BY DEF Init, Issued, EmptyArena, Arena
<1>3. MatchIsForRequest
  BY DEF Init, NoMatch, MatchIsForRequest
<1>4. DisabledIsEmpty
  BY DEF Init, DisabledIsEmpty
<1> QED BY <1>1, <1>2, <1>3, <1>4 DEF IInv

\* What the variables become is as sound as the value they take.
LEMMA BecomeSound ==
  ASSUME NEW c, Sound(c, {}, {}), Become(c), UNCHANGED computed
  PROVE  Sound(Now, {}, {})'
<1>1. nodes' = c.nodes /\ index' = c.index /\ heads' = c.heads /\ nextNodeId' = c.next
  BY DEF Become
<1>2. Linked(Now, {}, {})'
  BY <1>1 DEF Sound, Linked, Now, Impl
<1>3. Indexed(Now)'
  BY <1>1 DEF Sound, Indexed, Now, Impl
<1>4. Known(Now)'
  BY <1>1 DEF Sound, Known, Now, Impl
<1> QED BY <1>2, <1>3, <1>4 DEF Sound

\* A publication, or a reset, to c.
LEMMA CallIInv ==
  ASSUME IInv, NEW c, Sound(c, {}, {}), c.arena.nextId = arena.nextId, Become(c),
         UNCHANGED <<match, callers>>, DisabledIsEmpty'
  PROVE  IInv'
<1>1. UNCHANGED <<match, computed>>
  BY DEF callers
<1>2. Sound(Now, {}, {})'
  BY <1>1, BecomeSound
<1>3. Issued'
  BY <1>1 DEF IInv, Issued, Become
<1>4. MatchIsForRequest'
  BY <1>1 DEF IInv, MatchIsForRequest
<1> QED BY <1>2, <1>3, <1>4 DEF IInv

\* A hit on a node that matches the request.
LEMMA HitIInv ==
  ASSUME IInv, NEW source, NEW p, NEW n \in DOMAIN nodes, Hit(source, n, p),
         PrefixMatches(nodes[n].identity, p), UNCHANGED <<enabled, callers>>, enabled
  PROVE  IInv'
<1>1. Sound(Touch(Now, n), {}, {})
  BY TouchSound DEF IInv, Now, Impl
<1>2. UNCHANGED <<computed, enabled>> /\ Become(Touch(Now, n))
  BY DEF callers, Hit
<1>3. Sound(Now, {}, {})'
  BY <1>1, <1>2, BecomeSound
<1>4. Issued'
  BY <1>2 DEF IInv, Issued, Become, Touch, Now, Impl
<1>5. MatchIsForRequest'
  <2>1. nodes[n].state \in DOMAIN computed /\ computed[nodes[n].state] = nodes[n].identity
    BY DEF IInv, Sound, Known, Now, Impl
  <2>2. match' = [source |-> source, node |-> n, request |-> p, state |-> nodes[n].state,
                  length |-> Len(nodes[n].identity.tokens)]
    BY DEF Hit
  <2> QED BY <1>2, <2>1, <2>2 DEF MatchIsForRequest
<1>6. DisabledIsEmpty'
  BY <1>2 DEF DisabledIsEmpty
<1> QED BY <1>3, <1>4, <1>5, <1>6 DEF IInv

LEMMA NowSound == ASSUME IInv PROVE Sound(Now, {}, {}) /\ Now.arena = arena
BY DEF IInv, Now, Impl

\* Every call keeps the invariant.
LEMMA NextIInv == IInv /\ [Next]_vars => IInv'
<1> SUFFICES ASSUME IInv, [Next]_vars PROVE IInv'
  OBVIOUS
<1>1. ASSUME NEW slot \in Slots, NEW d \in DOMAIN computed, PublishConversationHead(slot, d)
      PROVE  IInv'
  <2> DEFINE c == IF enabled THEN PublishedHead(Now, slot, computed[d], d) ELSE Now
  <2>1. Sound(c, {}, {}) /\ c.arena.nextId = arena.nextId
    BY NowSound, PublishedSound, CacheIssuesNoId
  <2>2. Become(c) /\ UNCHANGED <<enabled, match, callers>>
    BY <1>1 DEF PublishConversationHead
  <2>3. DisabledIsEmpty'
    BY <2>2 DEF IInv, DisabledIsEmpty, Become, Now, Impl
  <2> HIDE DEF c
  <2> QED BY <2>1, <2>2, <2>3, CallIInv
<1>2. ASSUME NEW d \in DOMAIN computed, PublishGlobalRoot(d) PROVE IInv'
  <2> DEFINE c == IF enabled THEN PublishedRoot(Now, computed[d], d) ELSE Now
  <2>1. Sound(c, {}, {}) /\ c.arena.nextId = arena.nextId
    BY NowSound, PublishedSound, CacheIssuesNoId
  <2>2. Become(c) /\ UNCHANGED <<enabled, match, callers>>
    BY <1>2 DEF PublishGlobalRoot
  <2>3. DisabledIsEmpty'
    BY <2>2 DEF IInv, DisabledIsEmpty, Become, Now, Impl
  <2> HIDE DEF c
  <2> QED BY <2>1, <2>2, <2>3, CallIInv
<1>3. ASSUME NEW conversation \in Conversations \cup {NoConversation},
             NEW allowPrompt \in BOOLEAN, NEW p \in Identities,
             Lookup(conversation, allowPrompt, p)
      PROVE  IInv'
  <2> DEFINE head(kind) == heads[<<kind, conversation>>]
  <2>1. ASSUME NEW kind \in Checkpoints, HeadHit(kind, conversation, p)
        PROVE  head(kind) \in DOMAIN nodes /\ PrefixMatches(nodes[head(kind)].identity, p)
    <3>1. <<kind, conversation>> \in Slots /\ head(kind) # 0
      BY <2>1 DEF HeadHit, Slots
    <3> QED BY <2>1, <3>1 DEF HeadHit, IInv, Sound, Linked, Now, Impl
  <2>2. UNCHANGED <<enabled, callers>>
    BY <1>3 DEF Lookup
  <2>3. CASE Miss(p)
    <3>1. UNCHANGED <<nodes, index, heads, currentBytes, nextNodeId, arena, computed, enabled>>
          /\ match' = NoMatch
      BY <2>2, <2>3 DEF Miss, impl, callers
    <3> QED BY <3>1 DEF IInv, Sound, Linked, Indexed, Known, Now, Impl, Issued,
                        DisabledIsEmpty, MatchIsForRequest, NoMatch
  <2>4. CASE enabled /\ HeadHit("prompt", conversation, p)
             /\ Hit("prompt", head("prompt"), p)
    <3>1. "prompt" \in Checkpoints
      BY DEF Checkpoints
    <3> QED BY <2>1, <2>2, <2>4, <3>1, HitIInv
  <2>5. CASE enabled /\ HeadHit("committed", conversation, p)
             /\ Hit("committed", head("committed"), p)
    <3>1. "committed" \in Checkpoints
      BY DEF Checkpoints
    <3> QED BY <2>1, <2>2, <2>5, <3>1, HitIInv
  <2>6. CASE enabled /\ \E n \in LongestRootHits(p) : Hit("root", n, p)
    <3>1. PICK n \in LongestRootHits(p) : Hit("root", n, p)
      BY <2>6
    <3>2. n \in DOMAIN nodes /\ PrefixMatches(nodes[n].identity, p)
      BY DEF LongestRootHits, RootHits
    <3> QED BY <2>2, <2>6, <3>1, <3>2, HitIInv
  <2> QED BY <1>3, <2>3, <2>4, <2>5, <2>6 DEF Lookup
<1>4. ASSUME NEW on \in BOOLEAN, SetEnabled(on) PROVE IInv'
  <2> DEFINE c == IF on THEN Now ELSE ResetImpl(Now)
  <2>1. Sound(c, {}, {}) /\ c.arena.nextId = arena.nextId
    BY NowSound, ResetSound, CacheIssuesNoId DEF Sound
  <2>2. Become(c) /\ enabled' = on /\ UNCHANGED <<match, callers>>
    BY <1>4 DEF SetEnabled
  <2>3. DisabledIsEmpty'
    BY <2>2, NowSound, ResetSound DEF Sound, DisabledIsEmpty, Become
  <2> HIDE DEF c
  <2> QED BY <2>1, <2>2, <2>3, CallIInv
<1>5. CASE Clear
  <2> DEFINE c == ResetImpl(Now)
  <2>1. Sound(c, {}, {}) /\ c.arena.nextId = arena.nextId
    BY NowSound, ResetSound, CacheIssuesNoId DEF Sound
  <2>2. Become(c) /\ UNCHANGED <<enabled, match, callers>>
    BY <1>5 DEF Clear
  <2>3. DisabledIsEmpty'
    BY <2>2, NowSound, ResetSound DEF Sound, DisabledIsEmpty, Become
  <2> HIDE DEF c
  <2> QED BY <2>1, <2>2, <2>3, CallIInv
<1>6. ASSUME NEW p \in Identities, ComputeState(p) PROVE IInv'
  <2> DEFINE r == AllocateDescriptor(arena, KvBytesPerToken * Len(p.tokens), MambaBytes)
             granted == {r[2]} \ {NoDescriptor}
  <2>1. /\ r[1].nextId \in Nat /\ r[1].nextId >= arena.nextId
        /\ r[2] # NoDescriptor => r[2].kv.id = arena.nextId /\ r[1].nextId > arena.nextId
    BY AllocateDescriptorFresh DEF IInv, Issued
  <2>2. /\ arena' = r[1]
        /\ computed' = [d \in DOMAIN computed \cup granted |->
                          IF d \in granted THEN p ELSE computed[d]]
        /\ UNCHANGED <<nodes, index, heads, currentBytes, nextNodeId, enabled, match>>
    BY <1>6 DEF ComputeState, impl
  <2> HIDE DEF r
  <2>3. \A d \in DOMAIN computed : d \notin granted
    BY <2>1 DEF IInv, Issued
  <2>4. \A d \in DOMAIN computed : d \in DOMAIN computed' /\ computed'[d] = computed[d]
    BY <2>2, <2>3
  <2>5. Sound(Now, {}, {})'
    <3>1. Linked(Now, {}, {})'
      BY <2>2 DEF IInv, Sound, Linked, Now, Impl
    <3>2. Indexed(Now)'
      BY <2>2 DEF IInv, Sound, Indexed, Now, Impl
    <3>3. Known(Now)'
      BY <2>2, <2>4 DEF IInv, Sound, Known, Now, Impl
    <3> QED BY <3>1, <3>2, <3>3 DEF Sound
  <2>6. Issued'
    BY <2>1, <2>2 DEF IInv, Issued
  <2>7. DisabledIsEmpty'
    BY <2>2 DEF IInv, DisabledIsEmpty
  <2>8. MatchIsForRequest'
    BY <2>2, <2>4 DEF IInv, MatchIsForRequest
  <2> QED BY <2>5, <2>6, <2>7, <2>8 DEF IInv
<1>7. ASSUME UNCHANGED <<impl, enabled, match, computed>>, arena'.nextId = arena.nextId
      PROVE  IInv'
  <2>1. UNCHANGED <<nodes, index, heads, currentBytes, nextNodeId>>
    BY <1>7 DEF impl
  <2> QED BY <1>7, <2>1 DEF IInv, Sound, Linked, Indexed, Known, Now, Impl, Issued,
                            DisabledIsEmpty, MatchIsForRequest
<1>8. \A d : ReleaseDescriptor(arena, d).nextId = arena.nextId
  BY ZenonT(60) DEF ReleaseDescriptor, Release, WithRefs, Arena
<1>9. ASSUME NEW d \in DOMAIN computed, DropState(d) PROVE IInv'
  BY <1>7, <1>8, <1>9 DEF DropState
<1>10. CASE AdoptMatch
  <2>1. RetainDescriptor(arena, match.state)[1].nextId = arena.nextId
    BY DEF RetainDescriptor, Retain, Release, WithRefs, Arena
  <2> QED BY <1>7, <1>10, <2>1 DEF AdoptMatch
<1>11. CASE UNCHANGED vars
  BY <1>7, <1>11 DEF vars, callers
<1> QED BY <1>1, <1>2, <1>3, <1>4, <1>5, <1>6, <1>9, <1>10, <1>11 DEF Next

\* The invariant holds throughout.
THEOREM Invariance == Spec => []IInv
BY InitIInv, NextIInv, PTL DEF Spec

\* What callers computed and hold, whatever they call.
CallersOK ==
  /\ enabled \in BOOLEAN
  /\ computed \in [DOMAIN computed -> Identities]
  /\ held \in [DOMAIN computed -> Nat]

LEMMA CallersStep == CallersOK /\ [Next]_vars => CallersOK'
<1> SUFFICES ASSUME CallersOK, [Next]_vars PROVE CallersOK'
  OBVIOUS
<1>1. CASE UNCHANGED callers /\ enabled' \in BOOLEAN
  BY <1>1 DEF CallersOK, callers
<1>2. ASSUME NEW p \in Identities, ComputeState(p) PROVE CallersOK'
  <2> DEFINE granted == {AllocateDescriptor(arena, KvBytesPerToken * Len(p.tokens), MambaBytes)[2]}
                          \ {NoDescriptor}
  <2>1. /\ computed' = [d \in DOMAIN computed \cup granted |->
                          IF d \in granted THEN p ELSE computed[d]]
        /\ held' = [d \in DOMAIN held \cup granted |-> IF d \in granted THEN 1 ELSE held[d]]
        /\ enabled' = enabled
    BY <1>2 DEF ComputeState
  <2> HIDE DEF granted
  <2> QED BY <2>1 DEF CallersOK
<1>3. ASSUME NEW d \in DOMAIN computed, DropState(d) PROVE CallersOK'
  BY <1>3 DEF DropState, CallersOK
<1>4. CASE AdoptMatch
  <2>1. /\ held' = [held EXCEPT ![match.state] = @ + 1] \/ held' = held
        /\ UNCHANGED <<enabled, computed>>
    BY <1>4, Zenon DEF AdoptMatch
  <2> QED BY <2>1 DEF CallersOK
<1>5. Next => \/ UNCHANGED callers /\ enabled' \in BOOLEAN
              \/ \E p \in Identities : ComputeState(p)
              \/ \E d \in DOMAIN computed : DropState(d)
              \/ AdoptMatch
  BY DEF Next, CallersOK, PublishConversationHead, PublishGlobalRoot, Lookup, SetEnabled, Clear
<1>6. UNCHANGED vars => UNCHANGED callers /\ enabled' \in BOOLEAN
  BY DEF vars, CallersOK
<1> QED BY <1>1, <1>2, <1>3, <1>4, <1>5, <1>6

\* Every node is for a prompt a caller computed a state for, and what callers hold are
\* computed states.
THEOREM TypeCorrect == Spec => []TypeOK
<1>1. Init => CallersOK
  BY DEF Init, CallersOK
<1>2. IInv /\ CallersOK => TypeOK
  <2> SUFFICES ASSUME IInv, CallersOK PROVE TypeOK
    OBVIOUS
  <2>1. /\ heads \in [Slots -> Nat] /\ nextNodeId \in Nat \ {0}
        /\ \A n \in DOMAIN nodes : nodes[n].slots \subseteq Slots /\ n \in Nat \ {0}
        /\ index = {<<Fingerprint(nodes[n].identity), n>> : n \in DOMAIN nodes}
    BY DEF IInv, Sound, Linked, Indexed, Now, Impl
  <2>2. \A n \in DOMAIN nodes : /\ nodes[n].state \in DOMAIN computed
                                /\ nodes[n].identity \in Identities
    BY DEF IInv, Sound, Known, Now, Impl, CallersOK
  <2> QED BY <2>1, <2>2 DEF TypeOK, CallersOK
<1> QED BY <1>1, <1>2, CallersStep, Invariance, PTL DEF Spec

\* No lookup meets a head whose node is gone, no node outlives its roles.
THEOREM HeadsMirrorRoles == Spec => []HeadsMatchRoles
<1>1. IInv => HeadsMatchRoles
  BY DEF IInv, Sound, Linked, Now, Impl, HeadsMatchRoles
<1> QED BY <1>1, Invariance, PTL

\* One node per prompt, found under its fingerprint, whatever collides.
THEOREM IndexExact == Spec => []IndexIsExact
<1>1. IInv => IndexIsExact
  BY DEF IInv, Sound, Indexed, Now, Impl, IndexIsExact
<1> QED BY <1>1, Invariance, PTL

\* A match names a state computed for an exact prefix of its request.
THEOREM MatchesAreForRequests == Spec => []MatchIsForRequest
<1>1. IInv => MatchIsForRequest
  BY DEF IInv
<1> QED BY <1>1, Invariance, PTL

\* A cache switched off keeps no node, no head and no byte.
THEOREM DisabledKeepsNothing == Spec => []DisabledIsEmpty
<1>1. IInv => DisabledIsEmpty
  BY DEF IInv
<1> QED BY <1>1, Invariance, PTL

-----------------------------------------------------------------------------
(* The contract *)

\* The nodes of b are those a publication to prompt p may leave of the nodes of c:
\* p's node gains the roles, every other node loses the slots that moved.
Republished(b, c, p, slots, root) ==
  /\ \A n \in DOMAIN b.nodes : b.nodes[n].identity = p =>
       /\ n \in DOMAIN c.nodes =>
            /\ c.nodes[n].identity = p
            /\ b.nodes[n].slots = c.nodes[n].slots \cup slots
            /\ b.nodes[n].root = (root \/ c.nodes[n].root)
       /\ n \notin DOMAIN c.nodes =>
            /\ \A m \in DOMAIN c.nodes : c.nodes[m].identity # p
            /\ b.nodes[n].slots = slots
            /\ b.nodes[n].root = root
  /\ \A n \in DOMAIN b.nodes : b.nodes[n].identity # p =>
       /\ n \in DOMAIN c.nodes
       /\ b.nodes[n].identity = c.nodes[n].identity
       /\ b.nodes[n].state = c.nodes[n].state
       /\ b.nodes[n].root = c.nodes[n].root
       /\ b.nodes[n].slots = c.nodes[n].slots \ slots

\* Finding or creating the node gives it no role and takes none.
LEMMA FindOrCreateRepublishes ==
  ASSUME NEW c, Sound(c, {}, {}), NEW p, NEW d
  PROVE  FindOrCreateNode(c, p, d) # <<c, 0>> =>
           /\ FindOrCreateNode(c, p, d)[1].nodes[FindOrCreateNode(c, p, d)[2]].identity = p
           /\ Republished(FindOrCreateNode(c, p, d)[1], c, p, {}, FALSE)
<1> DEFINE found == FindOrCreateNode(c, p, d)
<1>1. CASE Twins(c, p) = {}
  <2> DEFINE b == found[1]
             node == PrefixNode(p, d, FALSE, {}, c.tick, NodeBytes(p, d))
  <2>1. CASE ~RetainState(c.arena, d)[2]
    BY <1>1, <2>1 DEF FindOrCreateNode, Create
  <2>2. CASE RetainState(c.arena, d)[2]
    <3>1. found[2] = c.next /\ b.nodes = Put(c.nodes, c.next, node) /\ b.heads = c.heads
      BY <1>1, <2>2 DEF FindOrCreateNode, Create, Impl
    <3>2. node.identity = p /\ node.slots = {} /\ node.root = FALSE
      BY DEF PrefixNode
    <3>3. c.next # 0 /\ c.next \notin DOMAIN c.nodes
      BY DEF Sound, Indexed
    <3>4. \A n \in DOMAIN c.nodes : c.nodes[n].identity # p
      BY <1>1 DEF Twins, Sound, Indexed
    <3> HIDE DEF found, node
    <3>5. /\ DOMAIN b.nodes = DOMAIN c.nodes \cup {c.next}
          /\ b.nodes[c.next] = node
          /\ \A n \in DOMAIN c.nodes : b.nodes[n] = c.nodes[n]
      BY <3>1, <3>3 DEF Put
    <3>6. Republished(b, c, p, {}, FALSE)
      BY <3>2, <3>3, <3>4, <3>5, Zenon DEF Republished
    <3> QED BY <3>1, <3>2, <3>3, <3>5, <3>6 DEF found
  <2> QED BY <2>1, <2>2
<1>2. CASE Twins(c, p) # {}
  <2> DEFINE n == CHOOSE n \in Twins(c, p) : TRUE
             old == c.nodes[n]
             bytes == NodeBytes(old.identity, d)
             retained == RetainState(c.arena, d)
             r == Impl(Put(c.nodes, n, PrefixNode(old.identity, d, old.root, old.slots, old.tick, bytes)),
                       c.index, c.heads, c.bytes - old.bytes + bytes, c.tick, c.next,
                       ReleaseStates(retained[1], [i \in {n} |-> old.state]))
  <2>1. n \in Twins(c, p)
    BY <1>2
  <2>2. n \in DOMAIN c.nodes /\ c.nodes[n].identity = p /\ n # 0
    BY <2>1 DEF Twins, Sound, Indexed
  <2>3. \A m \in DOMAIN c.nodes : c.nodes[m].identity = p => m = n
    BY <2>2 DEF Sound, Indexed
  <2>4. found = IF old.state = d THEN <<Touch(c, n), n>>
                ELSE IF retained[2] THEN <<Touch(r, n), n>> ELSE <<c, 0>>
    BY <1>2 DEF FindOrCreateNode, Refresh
  <2>5. \A m \in DOMAIN c.nodes : c.nodes[m].root \in BOOLEAN
    BY DEF Sound, Linked
  <2> HIDE DEF n, found
  <2>6. ASSUME NEW e, DOMAIN e.nodes = DOMAIN c.nodes, e.heads = c.heads,
               \A m \in DOMAIN c.nodes : /\ e.nodes[m].identity = c.nodes[m].identity
                                         /\ e.nodes[m].root = c.nodes[m].root
                                         /\ e.nodes[m].slots = c.nodes[m].slots
                                         /\ m # n => e.nodes[m].state = c.nodes[m].state
        PROVE  /\ Touch(e, n).heads = c.heads
               /\ n \in DOMAIN Touch(e, n).nodes
               /\ Touch(e, n).nodes[n].identity = p
               /\ Republished(Touch(e, n), c, p, {}, FALSE)
    <3> DEFINE b == Touch(e, n)
    <3>1. /\ DOMAIN b.nodes = DOMAIN c.nodes /\ b.heads = c.heads
          /\ \A m \in DOMAIN c.nodes : /\ b.nodes[m].identity = c.nodes[m].identity
                                       /\ b.nodes[m].root = c.nodes[m].root
                                       /\ b.nodes[m].slots = c.nodes[m].slots
                                       /\ m # n => b.nodes[m].state = c.nodes[m].state
      BY <2>2, <2>6 DEF Touch, Impl, Put, PrefixNode
    <3> HIDE DEF b
    <3>2. \A m \in DOMAIN c.nodes : b.nodes[m].root = (FALSE \/ c.nodes[m].root)
      BY <2>5, <3>1, Zenon
    <3>3. Republished(b, c, p, {}, FALSE)
      BY <2>2, <2>3, <3>1, <3>2 DEF Republished
    <3> QED BY <2>2, <3>1, <3>3 DEF b
  <2>7. /\ DOMAIN r.nodes = DOMAIN c.nodes /\ r.heads = c.heads
        /\ \A m \in DOMAIN c.nodes : /\ r.nodes[m].identity = c.nodes[m].identity
                                     /\ r.nodes[m].root = c.nodes[m].root
                                     /\ r.nodes[m].slots = c.nodes[m].slots
                                     /\ m # n => r.nodes[m].state = c.nodes[m].state
    BY <2>2 DEF Impl, Put, PrefixNode
  <2> HIDE DEF r, retained
  <2>8. CASE old.state = d
    <3>1. found[1] = Touch(c, n) /\ found[2] = n
      BY <2>4, <2>8
    <3>2. /\ Touch(c, n).heads = c.heads
          /\ n \in DOMAIN Touch(c, n).nodes
          /\ Touch(c, n).nodes[n].identity = p
          /\ Republished(Touch(c, n), c, p, {}, FALSE)
      BY <2>6
    <3> QED BY <2>2, <3>1, <3>2 DEF found
  <2>9. CASE old.state # d /\ retained[2]
    <3>1. found[1] = Touch(r, n) /\ found[2] = n
      BY <2>4, <2>9
    <3>2. /\ Touch(r, n).heads = c.heads
          /\ n \in DOMAIN Touch(r, n).nodes
          /\ Touch(r, n).nodes[n].identity = p
          /\ Republished(Touch(r, n), c, p, {}, FALSE)
      BY <2>6, <2>7
    <3> QED BY <2>2, <3>1, <3>2 DEF found
  <2>10. CASE old.state # d /\ ~retained[2]
    BY <2>4, <2>10 DEF found
  <2> QED BY <2>8, <2>9, <2>10
<1> QED BY <1>1, <1>2

\* Assigning the head moves the slot to the node, and takes it from its previous owner.
LEMMA AssignHeadRepublishes ==
  ASSUME NEW c, NEW n \in DOMAIN c.nodes, Sound(c, {n}, {}), NEW slot \in Slots,
         NEW p, c.nodes[n].identity = p
  PROVE  /\ Republished(AssignConversationHead(c, n, slot), c, p, {slot}, FALSE)
         /\ DOMAIN AssignConversationHead(c, n, slot).nodes \subseteq DOMAIN c.nodes
<1> DEFINE old == c.heads[slot]
           freed == IF old \in {0, n} THEN c ELSE RemoveConversationRole(c, old, slot)
           node == WithRoles(freed.nodes[n], freed.nodes[n].root,
                             freed.nodes[n].slots \cup {slot})
           e == Impl(Put(freed.nodes, n, node), freed.index,
                     [freed.heads EXCEPT ![slot] = n],
                     freed.bytes, freed.tick, freed.next, freed.arena)
           b == Touch(e, n)
<1>1. b = AssignConversationHead(c, n, slot)
  BY DEF AssignConversationHead
<1>2. /\ DOMAIN freed.nodes \subseteq DOMAIN c.nodes /\ n \in DOMAIN freed.nodes
      /\ freed.nodes[n] = c.nodes[n]
      /\ \A m \in DOMAIN freed.nodes \ {n} :
           /\ freed.nodes[m].identity = c.nodes[m].identity
           /\ freed.nodes[m].state = c.nodes[m].state
           /\ freed.nodes[m].root = c.nodes[m].root
           /\ freed.nodes[m].slots = c.nodes[m].slots \ {slot}
  <2>1. CASE old \in {0, n}
    <3>1. freed = c
      BY <2>1
    <3>2. \A m \in DOMAIN c.nodes \ {n} : slot \notin c.nodes[m].slots
      <4>1. \A m \in DOMAIN c.nodes : slot \in c.nodes[m].slots => old = m
        BY DEF Sound, Linked
      <4>2. 0 \notin DOMAIN c.nodes
        BY DEF Sound, Indexed
      <4> QED BY <2>1, <4>1, <4>2
    <3>3. \A m \in DOMAIN c.nodes \ {n} : c.nodes[m].slots = c.nodes[m].slots \ {slot}
      BY <3>2
    <3> HIDE DEF freed
    <3> QED BY <3>1, <3>3
  <2>2. CASE old \notin {0, n}
    <3> DEFINE bare == WithRoles(c.nodes[old], c.nodes[old].root,
                                 c.nodes[old].slots \ {slot})
               stripped == Impl(Put(c.nodes, old, bare), c.index, c.heads, c.bytes,
                                c.tick, c.next, c.arena)
    <3>1. old \in DOMAIN c.nodes /\ old # n
      BY <2>2 DEF Sound, Linked
    <3>2. freed = IF NoRoles(bare) THEN RemoveNodes(stripped, {old}) ELSE stripped
      BY <2>2, <3>1 DEF RemoveConversationRole
    <3>3. /\ DOMAIN stripped.nodes = DOMAIN c.nodes
          /\ \A m \in DOMAIN c.nodes : m # old => stripped.nodes[m] = c.nodes[m]
          /\ stripped.nodes[old] = bare
          /\ bare.identity = c.nodes[old].identity
          /\ bare.state = c.nodes[old].state
          /\ bare.slots = c.nodes[old].slots \ {slot}
          /\ bare.root = c.nodes[old].root
      BY <3>1 DEF Impl, Put, WithRoles, PrefixNode
    <3>4. RemoveNodes(stripped, {old}).nodes =
            [m \in DOMAIN stripped.nodes \ {old} |-> stripped.nodes[m]]
      BY DEF RemoveNodes, Impl
    <3>5. \A m \in DOMAIN c.nodes : slot \in c.nodes[m].slots => m = old
      BY DEF Sound, Linked
    <3> HIDE DEF stripped, bare, freed, old
    <3>6. \A m \in DOMAIN c.nodes \ {old} : c.nodes[m].slots = c.nodes[m].slots \ {slot}
      BY <3>5
    <3>7. CASE NoRoles(bare)
      <4>1. freed.nodes = [m \in DOMAIN stripped.nodes \ {old} |-> stripped.nodes[m]]
        BY <3>2, <3>4, <3>7
      <4>2. DOMAIN freed.nodes = DOMAIN c.nodes \ {old}
            /\ \A m \in DOMAIN freed.nodes : freed.nodes[m] = c.nodes[m]
        BY <3>3, <4>1
      <4> QED BY <3>1, <3>6, <4>2
    <3>8. CASE ~NoRoles(bare)
      <4>1. freed = stripped
        BY <3>2, <3>8
      <4> QED BY <3>1, <3>3, <3>6, <4>1
    <3> QED BY <3>7, <3>8
  <2> QED BY <2>1, <2>2
<1> HIDE DEF freed
<1>3. /\ DOMAIN b.nodes = DOMAIN freed.nodes
      /\ b.nodes[n].identity = p
      /\ b.nodes[n].root = c.nodes[n].root
      /\ b.nodes[n].slots = c.nodes[n].slots \cup {slot}
      /\ \A m \in DOMAIN freed.nodes \ {n} : b.nodes[m] = freed.nodes[m]
  BY <1>2 DEF Touch, Impl, Put, WithRoles, PrefixNode
<1> HIDE DEF b
<1>4. b.nodes[n].root = (FALSE \/ c.nodes[n].root)
  <2>1. c.nodes[n].root \in BOOLEAN
    BY DEF Sound, Linked
  <2> QED BY <1>3, <2>1, Zenon
<1>5. \A m \in DOMAIN c.nodes : c.nodes[m].identity = p => m = n
  BY DEF Sound, Indexed
<1>6. Republished(b, c, p, {slot}, FALSE)
  BY <1>2, <1>3, <1>4, <1>5 DEF Republished
<1> QED BY <1>1, <1>2, <1>3, <1>6

LEMMA AssignRootRepublishes ==
  ASSUME NEW c, NEW n \in DOMAIN c.nodes, Sound(c, {n}, {}), NEW p, c.nodes[n].identity = p
  PROVE  /\ Republished(AssignGlobalRoot(c, n), c, p, {}, TRUE)
         /\ DOMAIN AssignGlobalRoot(c, n).nodes = DOMAIN c.nodes
<1> DEFINE b == AssignGlobalRoot(c, n)
<1>1. /\ DOMAIN b.nodes = DOMAIN c.nodes
      /\ b.nodes[n].identity = p
      /\ b.nodes[n].root = TRUE
      /\ b.nodes[n].slots = c.nodes[n].slots
      /\ \A m \in DOMAIN c.nodes \ {n} : b.nodes[m] = c.nodes[m]
  BY DEF AssignGlobalRoot, Touch, Impl, Put, WithRoles, PrefixNode
<1> HIDE DEF b
<1>2. b.nodes[n].root = (TRUE \/ c.nodes[n].root)
  BY <1>1, Zenon
<1>3. \A m \in DOMAIN c.nodes : c.nodes[m].identity = p => m = n
  BY DEF Sound, Indexed
<1>4. Republished(b, c, p, {}, TRUE)
  BY <1>1, <1>2, <1>3 DEF Republished
<1> QED BY <1>1, <1>4 DEF b

\* Finding the node, giving it the roles and evicting, one after the other.
LEMMA RepublishedThrough ==
  ASSUME NEW c, NEW f, NEW a, NEW p, NEW slots, NEW root \in BOOLEAN, Republished(f, c, p, {}, FALSE),
         Republished(a, f, p, slots, root), DOMAIN a.nodes \subseteq DOMAIN f.nodes
  PROVE  Republished(EvictToBudget(a), c, p, slots, root)
<1> DEFINE b == EvictToBudget(a)
<1>1. /\ DOMAIN b.nodes \subseteq DOMAIN a.nodes
      /\ \A n \in DOMAIN b.nodes : b.nodes[n] = a.nodes[n]
  <2>1. \A S : RemoveNodes(a, S).nodes = [n \in DOMAIN a.nodes \ S |-> a.nodes[n]]
    BY DEF RemoveNodes, Impl
  <2>2. b.nodes = [n \in DOMAIN a.nodes \ Victims(a) |-> a.nodes[n]]
    BY <2>1 DEF EvictToBudget
  <2> HIDE DEF b
  <2> QED BY <2>2
<1> HIDE DEF b
<1>2. ASSUME NEW n \in DOMAIN b.nodes, b.nodes[n].identity = p
      PROVE  /\ n \in DOMAIN c.nodes =>
                  /\ c.nodes[n].identity = p
                  /\ b.nodes[n].slots = c.nodes[n].slots \cup slots
                  /\ b.nodes[n].root = (root \/ c.nodes[n].root)
             /\ n \notin DOMAIN c.nodes =>
                  /\ \A m \in DOMAIN c.nodes : c.nodes[m].identity # p
                  /\ b.nodes[n].slots = slots
                  /\ b.nodes[n].root = root
  <2>1. n \in DOMAIN f.nodes /\ f.nodes[n].identity = p
        /\ b.nodes[n].slots = f.nodes[n].slots \cup slots
        /\ b.nodes[n].root = (root \/ f.nodes[n].root)
    BY <1>1, <1>2 DEF Republished
  <2>2. /\ n \in DOMAIN c.nodes =>
             /\ c.nodes[n].identity = p
             /\ f.nodes[n].slots = c.nodes[n].slots \cup {}
             /\ f.nodes[n].root = (FALSE \/ c.nodes[n].root)
        /\ n \notin DOMAIN c.nodes =>
             /\ \A m \in DOMAIN c.nodes : c.nodes[m].identity # p
             /\ f.nodes[n].slots = {}
             /\ f.nodes[n].root = FALSE
    BY <2>1, Zenon DEF Republished
  <2>3. \A x : (root \/ (FALSE \/ x)) = (root \/ x)
    BY Zenon
  <2>4. (root \/ FALSE) = root
    BY Zenon
  <2>5. n \in DOMAIN c.nodes => b.nodes[n].root = (root \/ c.nodes[n].root)
    BY <2>1, <2>2, <2>3, Zenon
  <2>6. n \notin DOMAIN c.nodes => b.nodes[n].root = root
    <3>1. ASSUME f.nodes[n].root = FALSE PROVE b.nodes[n].root = root
      BY <2>1, <2>4, <3>1, Zenon
    <3> QED BY <2>2, <3>1
  <2> QED BY <2>1, <2>2, <2>5, <2>6
<1>3. ASSUME NEW n \in DOMAIN b.nodes, b.nodes[n].identity # p
      PROVE  /\ n \in DOMAIN c.nodes
             /\ b.nodes[n].identity = c.nodes[n].identity
             /\ b.nodes[n].state = c.nodes[n].state
             /\ b.nodes[n].root = c.nodes[n].root
             /\ b.nodes[n].slots = c.nodes[n].slots \ slots
  <2>1. n \in DOMAIN f.nodes
        /\ b.nodes[n].identity = f.nodes[n].identity
        /\ b.nodes[n].state = f.nodes[n].state
        /\ b.nodes[n].root = f.nodes[n].root
        /\ b.nodes[n].slots = f.nodes[n].slots \ slots
    BY <1>1, <1>3 DEF Republished
  <2> QED BY <1>3, <2>1 DEF Republished
<1>4. Republished(b, c, p, slots, root)
  BY <1>2, <1>3 DEF Republished
<1> QED BY <1>4 DEF b

\* A publication is refused, or does to the nodes what the contract allows.
LEMMA PublishedRepublishes ==
  ASSUME NEW c, Sound(c, {}, {}), NEW d \in DOMAIN computed
  PROVE  /\ \A slot \in Slots :
              \/ PublishedHead(c, slot, computed[d], d) = c
              \/ Republished(PublishedHead(c, slot, computed[d], d), c, computed[d], {slot}, FALSE)
         /\ \/ PublishedRoot(c, computed[d], d) = c
            \/ Republished(PublishedRoot(c, computed[d], d), c, computed[d], {}, TRUE)
<1> DEFINE p == computed[d]
           found == FindOrCreateNode(c, p, d)
           f == found[1]
           n == found[2]
<1>1. \/ n = 0
      \/ /\ n # 0 /\ n \in DOMAIN f.nodes /\ f.nodes[n].identity = p
         /\ Republished(f, c, p, {}, FALSE)
         /\ Sound(f, {n}, {})
  <2>1. \/ found = <<c, 0>>
        \/ /\ n # 0 /\ n \in DOMAIN f.nodes
           /\ Sound(f, {n}, {})
    BY FindOrCreateSound
  <2>2. found # <<c, 0>> => f.nodes[n].identity = p /\ Republished(f, c, p, {}, FALSE)
    BY FindOrCreateRepublishes, Zenon
  <2>3. CASE found = <<c, 0>>
    BY <2>3
  <2> HIDE DEF found
  <2>4. CASE found # <<c, 0>>
    BY <2>1, <2>2, <2>4, Zenon
  <2> QED BY <2>3, <2>4
<1>2. ASSUME NEW slot \in Slots
      PROVE  \/ PublishedHead(c, slot, p, d) = c
             \/ Republished(PublishedHead(c, slot, p, d), c, p, {slot}, FALSE)
  <2>1. PublishedHead(c, slot, p, d) =
          IF n = 0 THEN c ELSE EvictToBudget(AssignConversationHead(f, n, slot))
    BY DEF PublishedHead
  <2> HIDE DEF found
  <2>2. CASE n = 0
    BY <2>1, <2>2
  <2>3. CASE n # 0
    <3>1. /\ Republished(AssignConversationHead(f, n, slot), f, p, {slot}, FALSE)
          /\ DOMAIN AssignConversationHead(f, n, slot).nodes \subseteq DOMAIN f.nodes
      BY <1>1, <2>3, AssignHeadRepublishes
    <3>2. Republished(EvictToBudget(AssignConversationHead(f, n, slot)), c, p, {slot}, FALSE)
      BY <1>1, <2>3, <3>1, RepublishedThrough
    <3> QED BY <2>1, <2>3, <3>2
  <2> QED BY <2>2, <2>3
<1>3. \/ PublishedRoot(c, p, d) = c
      \/ Republished(PublishedRoot(c, p, d), c, p, {}, TRUE)
  <2>1. PublishedRoot(c, p, d) =
          IF n = 0 THEN c ELSE EvictToBudget(AssignGlobalRoot(f, n))
    BY DEF PublishedRoot
  <2> HIDE DEF found
  <2>2. CASE n = 0
    BY <2>1, <2>2
  <2>3. CASE n # 0
    <3>1. /\ Republished(AssignGlobalRoot(f, n), f, p, {}, TRUE)
          /\ DOMAIN AssignGlobalRoot(f, n).nodes = DOMAIN f.nodes
      BY <1>1, <2>3, AssignRootRepublishes
    <3>2. Republished(EvictToBudget(AssignGlobalRoot(f, n)), c, p, {}, TRUE)
      BY <1>1, <2>3, <3>1, RepublishedThrough
    <3> QED BY <2>1, <2>3, <3>2
  <2> QED BY <2>2, <2>3
<1> QED BY <1>2, <1>3

-----------------------------------------------------------------------------
(* The store of the contract *)

\* What the contract sees of an Impl value.
Entry(node) == [state |-> node.state, slots |-> node.slots, root |-> node.root]

StoreOf(c) ==
  [p \in {c.nodes[n].identity : n \in DOMAIN c.nodes} |->
     Entry(c.nodes[CHOOSE n \in DOMAIN c.nodes : c.nodes[n].identity = p])]

LEMMA StoreEntries ==
  ASSUME NEW c, Indexed(c)
  PROVE  /\ DOMAIN StoreOf(c) = {c.nodes[n].identity : n \in DOMAIN c.nodes}
         /\ \A n \in DOMAIN c.nodes : StoreOf(c)[c.nodes[n].identity] = Entry(c.nodes[n])
<1>1. ASSUME NEW n \in DOMAIN c.nodes
      PROVE  StoreOf(c)[c.nodes[n].identity] = Entry(c.nodes[n])
  <2> DEFINE p == c.nodes[n].identity
             m == CHOOSE m \in DOMAIN c.nodes : c.nodes[m].identity = p
  <2>1. m \in DOMAIN c.nodes /\ c.nodes[m].identity = p
    OBVIOUS
  <2>2. m = n
    BY <2>1 DEF Indexed
  <2>3. StoreOf(c)[p] = Entry(c.nodes[m])
    BY DEF StoreOf
  <2> QED BY <2>2, <2>3
<1> QED BY <1>1 DEF StoreOf

\* Node ids, the index, the clock, bytes and references do not show.
LEMMA StoreSame ==
  ASSUME NEW b, NEW c, Indexed(b), Indexed(c), DOMAIN b.nodes = DOMAIN c.nodes,
         \A n \in DOMAIN c.nodes : /\ b.nodes[n].identity = c.nodes[n].identity
                                   /\ Entry(b.nodes[n]) = Entry(c.nodes[n])
  PROVE  StoreOf(b) = StoreOf(c)
<1>1. /\ DOMAIN StoreOf(b) = {b.nodes[n].identity : n \in DOMAIN b.nodes}
      /\ DOMAIN StoreOf(c) = {c.nodes[n].identity : n \in DOMAIN c.nodes}
      /\ \A n \in DOMAIN b.nodes : StoreOf(b)[b.nodes[n].identity] = Entry(b.nodes[n])
      /\ \A n \in DOMAIN c.nodes : StoreOf(c)[c.nodes[n].identity] = Entry(c.nodes[n])
  BY StoreEntries
<1>2. /\ DOMAIN StoreOf(b) = DOMAIN StoreOf(c)
      /\ \A p \in DOMAIN StoreOf(c) : StoreOf(b)[p] = StoreOf(c)[p]
  BY <1>1
<1>3. StoreOf(b) = [p \in DOMAIN StoreOf(b) |-> StoreOf(b)[p]]
      /\ StoreOf(c) = [p \in DOMAIN StoreOf(c) |-> StoreOf(c)[p]]
  BY DEF StoreOf
<1> QED BY <1>2, <1>3

\* What happened to the nodes is what the contract says of the store.
LEMMA RepublishedStore ==
  ASSUME NEW b, NEW c, NEW p, NEW slots, NEW root \in BOOLEAN, Sound(c, {}, {}), Sound(b, {}, {}),
         Republished(b, c, p, slots, root)
  PROVE  /\ DOMAIN StoreOf(b) \subseteq DOMAIN StoreOf(c) \cup {p}
         /\ StoreOf(b) =
              [q \in DOMAIN StoreOf(b) |->
                 IF q = p
                 THEN [state |-> StoreOf(b)[q].state,
                       slots |-> (IF q \in DOMAIN StoreOf(c) THEN StoreOf(c)[q].slots ELSE {}) \cup slots,
                       root  |-> root \/ (q \in DOMAIN StoreOf(c) /\ StoreOf(c)[q].root)]
                 ELSE [StoreOf(c)[q] EXCEPT !.slots = @ \ slots]]
         /\ \A q \in DOMAIN StoreOf(b) : StoreOf(b)[q].root \/ StoreOf(b)[q].slots # {}
         /\ p \in DOMAIN StoreOf(b) => /\ StoreOf(b)[p].state \in DOMAIN computed
                                       /\ computed[StoreOf(b)[p].state] = p
<1>1. /\ DOMAIN StoreOf(b) = {b.nodes[n].identity : n \in DOMAIN b.nodes}
      /\ \A n \in DOMAIN b.nodes : StoreOf(b)[b.nodes[n].identity] = Entry(b.nodes[n])
      /\ DOMAIN StoreOf(c) = {c.nodes[n].identity : n \in DOMAIN c.nodes}
      /\ \A n \in DOMAIN c.nodes : StoreOf(c)[c.nodes[n].identity] = Entry(c.nodes[n])
  BY StoreEntries DEF Sound
<1>2. DOMAIN StoreOf(b) \subseteq DOMAIN StoreOf(c) \cup {p}
  BY <1>1 DEF Republished
<1> DEFINE After(q) ==
      IF q = p
      THEN [state |-> StoreOf(b)[q].state,
            slots |-> (IF q \in DOMAIN StoreOf(c) THEN StoreOf(c)[q].slots ELSE {}) \cup slots,
            root  |-> root \/ (q \in DOMAIN StoreOf(c) /\ StoreOf(c)[q].root)]
      ELSE [StoreOf(c)[q] EXCEPT !.slots = @ \ slots]
<1>3. ASSUME NEW n \in DOMAIN b.nodes PROVE StoreOf(b)[b.nodes[n].identity] = After(b.nodes[n].identity)
  <2> DEFINE q == b.nodes[n].identity
  <2>1. CASE q = p /\ n \in DOMAIN c.nodes
    <3>1. /\ c.nodes[n].identity = p
          /\ b.nodes[n].slots = c.nodes[n].slots \cup slots
          /\ b.nodes[n].root = (root \/ c.nodes[n].root)
      BY <2>1 DEF Republished
    <3>2. p \in DOMAIN StoreOf(c) /\ StoreOf(c)[p] = Entry(c.nodes[n])
      BY <1>1, <2>1, <3>1
    <3>5. StoreOf(c)[p].slots = c.nodes[n].slots /\ StoreOf(c)[p].root = c.nodes[n].root
      <4>1. /\ Entry(c.nodes[n]).slots = c.nodes[n].slots
            /\ Entry(c.nodes[n]).root = c.nodes[n].root
        BY DEF Entry
      <4> QED BY <3>2, <4>1, Zenon
    <3>3. b.nodes[n].root = (root \/ (p \in DOMAIN StoreOf(c) /\ StoreOf(c)[p].root))
      BY <3>1, <3>2, <3>5, Zenon
    <3>4. StoreOf(b)[q] = [state |-> b.nodes[n].state, slots |-> b.nodes[n].slots, root |-> b.nodes[n].root]
      BY <1>1 DEF Entry
    <3> QED BY <2>1, <3>1, <3>2, <3>3, <3>4, <3>5
  <2>2. CASE q = p /\ n \notin DOMAIN c.nodes
    <3>1. /\ \A m \in DOMAIN c.nodes : c.nodes[m].identity # p
          /\ b.nodes[n].slots = slots
          /\ b.nodes[n].root = root
      BY <2>2 DEF Republished
    <3>2. p \notin DOMAIN StoreOf(c)
      BY <1>1, <3>1
    <3>3. b.nodes[n].root = (root \/ (p \in DOMAIN StoreOf(c) /\ StoreOf(c)[p].root))
      BY <3>1, <3>2, Zenon
    <3>4. StoreOf(b)[q] = [state |-> b.nodes[n].state, slots |-> b.nodes[n].slots, root |-> b.nodes[n].root]
      BY <1>1 DEF Entry
    <3> QED BY <2>2, <3>1, <3>2, <3>3, <3>4
  <2>3. CASE q # p
    <3>1. /\ n \in DOMAIN c.nodes
          /\ b.nodes[n].identity = c.nodes[n].identity
          /\ b.nodes[n].state = c.nodes[n].state
          /\ b.nodes[n].root = c.nodes[n].root
          /\ b.nodes[n].slots = c.nodes[n].slots \ slots
      BY <2>3 DEF Republished
    <3>2. StoreOf(c)[q] = Entry(c.nodes[n]) /\ StoreOf(b)[q] = Entry(b.nodes[n])
      BY <1>1, <3>1
    <3> QED BY <2>3, <3>1, <3>2 DEF Entry
  <2> QED BY <2>1, <2>2, <2>3
<1>4. StoreOf(b) = [q \in DOMAIN StoreOf(b) |-> After(q)]
  <2>1. StoreOf(b) = [q \in DOMAIN StoreOf(b) |-> StoreOf(b)[q]]
    BY DEF StoreOf
  <2> HIDE DEF After
  <2>2. ASSUME NEW q \in DOMAIN StoreOf(b) PROVE StoreOf(b)[q] = After(q)
    <3>1. PICK n \in DOMAIN b.nodes : q = b.nodes[n].identity
      BY <1>1
    <3> QED BY <1>3, <3>1
  <2> QED BY <2>1, <2>2
<1>5. \A q \in DOMAIN StoreOf(b) : StoreOf(b)[q].root \/ StoreOf(b)[q].slots # {}
  <2>1. ASSUME NEW n \in DOMAIN b.nodes PROVE Entry(b.nodes[n]).root \/ Entry(b.nodes[n]).slots # {}
    BY DEF Sound, Linked, NoRoles, Entry
  <2> QED BY <1>1, <2>1
<1>6. p \in DOMAIN StoreOf(b) => /\ StoreOf(b)[p].state \in DOMAIN computed
                                 /\ computed[StoreOf(b)[p].state] = p
  <2>1. ASSUME NEW n \in DOMAIN b.nodes, b.nodes[n].identity = p
        PROVE  StoreOf(b)[p].state \in DOMAIN computed /\ computed[StoreOf(b)[p].state] = p
    <3>1. StoreOf(b)[p] = Entry(b.nodes[n])
      BY <1>1, <2>1
    <3> QED BY <2>1, <3>1 DEF Sound, Known, Entry
  <2> QED BY <1>1, <2>1
<1> QED BY <1>2, <1>4, <1>5, <1>6

LEMMA StoreIs == Store = StoreOf(Now)
BY DEF Store, StoreOf, Stored, NodeOf, Now, Impl, Entry

LEMMA BecomeStore ==
  ASSUME NEW c, Become(c)
  PROVE  Store' = StoreOf(c)
<1>1. nodes' = c.nodes
  BY DEF Become
<1> QED BY <1>1 DEF Store, StoreOf, Stored, NodeOf, Entry

\* What the contract calls the entries of the store are the nodes.
LEMMA StoreHolds ==
  ASSUME IInv
  PROVE  /\ DOMAIN Store = {nodes[n].identity : n \in DOMAIN nodes}
         /\ \A n \in DOMAIN nodes :
              /\ Store[nodes[n].identity].state = nodes[n].state
              /\ Store[nodes[n].identity].slots = nodes[n].slots
              /\ Store[nodes[n].identity].root = nodes[n].root
<1>1. Indexed(Now) /\ Now.nodes = nodes
  BY DEF IInv, Sound, Now, Impl
<1>2. /\ DOMAIN StoreOf(Now) = {Now.nodes[n].identity : n \in DOMAIN Now.nodes}
      /\ \A n \in DOMAIN Now.nodes : StoreOf(Now)[Now.nodes[n].identity] = Entry(Now.nodes[n])
  BY <1>1, StoreEntries
<1>3. \A n : /\ Entry(nodes[n]).state = nodes[n].state
            /\ Entry(nodes[n]).slots = nodes[n].slots
            /\ Entry(nodes[n]).root = nodes[n].root
  BY DEF Entry
<1>4. \A n \in DOMAIN nodes : Store[nodes[n].identity] = Entry(nodes[n])
  BY <1>1, <1>2, StoreIs
<1>5. DOMAIN Store = {nodes[n].identity : n \in DOMAIN nodes}
  BY <1>1, <1>2, StoreIs
<1> QED BY <1>3, <1>4, <1>5, Zenon

\* A call that leaves the entries of the nodes alone leaves the store alone.
LEMMA StoreKept ==
  ASSUME IInv, IInv', DOMAIN nodes' = DOMAIN nodes,
         \A n \in DOMAIN nodes : /\ nodes'[n].identity = nodes[n].identity
                                 /\ Entry(nodes'[n]) = Entry(nodes[n])
  PROVE  Store' = Store
<1>1. Indexed(Now) /\ Now.nodes = nodes
  BY DEF IInv, Sound, Now, Impl
<1>2. Indexed(Now') /\ Now'.nodes = nodes'
  BY DEF IInv, Sound, Indexed, Now, Impl
<1>3. Store' = StoreOf(Now')
  BY StoreIs, <1>2 DEF Store, StoreOf, Stored, NodeOf, Entry
<1>4. StoreOf(Now') = StoreOf(Now)
  BY <1>1, <1>2, StoreSame
<1> QED BY <1>3, <1>4, StoreIs

\* A publication is one of the contract, or changes nothing it can see.
LEMMA PublicationImplements ==
  ASSUME IInv, NEW c, NEW d \in DOMAIN computed, NEW slots, NEW root \in BOOLEAN,
         Become(c), UNCHANGED <<enabled, match, computed>>, Sound(c, {}, {}),
         c = Now \/ (enabled /\ Republished(c, Now, computed[d], slots, root))
  PROVE  UNCHANGED <<Store, enabled, LastAnswer, computed>>
         \/ Contract!Publish(computed[d], slots, root)
<1>1. UNCHANGED LastAnswer
  BY DEF LastAnswer
<1>2. Store' = StoreOf(c)
  BY BecomeStore
<1>3. CASE c = Now
  BY <1>1, <1>2, <1>3, StoreIs
<1>4. CASE enabled /\ Republished(c, Now, computed[d], slots, root)
  <2>1. Sound(Now, {}, {})
    BY DEF IInv
  <2> DEFINE p == computed[d]
             b == StoreOf(c)
             a == StoreOf(Now)
  <2>2. /\ DOMAIN b \subseteq DOMAIN a \cup {p}
        /\ b = [q \in DOMAIN b |->
                 IF q = p
                 THEN [state |-> b[q].state,
                       slots |-> (IF q \in DOMAIN a THEN a[q].slots ELSE {}) \cup slots,
                       root  |-> root \/ (q \in DOMAIN a /\ a[q].root)]
                 ELSE [a[q] EXCEPT !.slots = @ \ slots]]
        /\ \A q \in DOMAIN b : b[q].root \/ b[q].slots # {}
        /\ p \in DOMAIN b => b[p].state \in DOMAIN computed /\ computed[b[p].state] = p
    BY <1>4, <2>1, RepublishedStore
  <2>3. a = Store /\ b = Store'
    BY <1>2, StoreIs
  <2> HIDE DEF a, b, p
  <2>4. Contract!Publish(p, slots, root)
    BY <1>1, <1>4, <2>2, <2>3, ZenonT(60) DEF Contract!Publish, Contract!EntryAfter, Contract!StateFor
  <2> QED BY <2>4 DEF p
<1> QED BY <1>3, <1>4

LEMMA CoversIs == \A p, q : Contract!Covers(p, q) <=> PrefixMatches(p, q)
BY DEF Contract!Covers, PrefixMatches, IsPrefix, Contract!IsPrefix

\* The heads and roots the contract speaks of are the ones the cache finds.
LEMMA UsableHeadsAre ==
  ASSUME IInv, NEW kind \in Checkpoints, NEW p,
         NEW conversation \in Conversations \cup {NoConversation}
  PROVE  Contract!UsableHeads(kind, conversation, p) =
           IF HeadHit(kind, conversation, p)
           THEN {nodes[heads[<<kind, conversation>>]].identity} ELSE {}
<1> DEFINE slot == <<kind, conversation>>
           owner == heads[slot]
<1>1. Contract!UsableHeads(kind, conversation, p) =
        {q \in {r \in DOMAIN Store : slot \in Store[r].slots} : PrefixMatches(q, p)}
  BY CoversIs DEF Contract!UsableHeads, Contract!Heads
<1>2. {r \in DOMAIN Store : slot \in Store[r].slots}
        = {nodes[n].identity : n \in {n \in DOMAIN nodes : slot \in nodes[n].slots}}
  <2>1. \A n \in DOMAIN nodes : Store[nodes[n].identity].slots = nodes[n].slots
    BY StoreHolds
  <2> QED BY <2>1, StoreHolds
<1>3. \A n \in DOMAIN nodes : slot \in nodes[n].slots => slot \in Slots /\ owner = n /\ n # 0
  BY DEF IInv, Sound, Linked, Indexed, Now, Impl
<1>4. slot \in Slots <=> conversation \in Conversations
  BY DEF Slots
<1>5. slot \in Slots /\ owner # 0 => owner \in DOMAIN nodes /\ slot \in nodes[owner].slots
  BY DEF IInv, Sound, Linked, Now, Impl
<1> HIDE DEF slot
<1>6. CASE HeadHit(kind, conversation, p)
  <2>1. owner # 0 /\ PrefixMatches(nodes[owner].identity, p) /\ slot \in Slots
    BY <1>4, <1>6 DEF HeadHit, slot
  <2>2. {n \in DOMAIN nodes : slot \in nodes[n].slots} = {owner}
    BY <1>3, <1>5, <1>6, <2>1
  <2> QED BY <1>1, <1>2, <1>6, <2>1, <2>2 DEF slot
<1>7. CASE ~HeadHit(kind, conversation, p)
  <2>1. conversation # NoConversation /\ owner # 0 => ~PrefixMatches(nodes[owner].identity, p)
    BY <1>7 DEF HeadHit, slot
  <2>2. \A n \in DOMAIN nodes : slot \in nodes[n].slots => ~PrefixMatches(nodes[n].identity, p)
    BY <1>3, <1>4, <2>1, CacheAssumption
  <2> QED BY <1>1, <1>2, <1>7, <2>2
<1> QED BY <1>6, <1>7

LEMMA RootsAre ==
  ASSUME IInv, NEW p
  PROVE  Contract!Roots(p) = {nodes[n].identity : n \in RootHits(p)}
<1>1. Contract!Roots(p) =
        {q \in DOMAIN Store : Store[q].root /\ PrefixMatches(q, p) /\ Len(q.tokens) > 0}
  BY CoversIs DEF Contract!Roots
<1>2. \A n \in DOMAIN nodes : Store[nodes[n].identity].root <=> nodes[n].root
  BY StoreHolds
<1>3. ASSUME NEW q \in DOMAIN Store, Store[q].root, PrefixMatches(q, p), Len(q.tokens) > 0
      PROVE  q \in {nodes[n].identity : n \in RootHits(p)}
  <2>1. PICK n \in DOMAIN nodes : nodes[n].identity = q
    BY StoreHolds
  <2>2. n \in RootHits(p)
    BY <1>2, <1>3, <2>1 DEF RootHits
  <2> QED BY <2>1, <2>2
<1>4. ASSUME NEW n \in RootHits(p)
      PROVE  /\ nodes[n].identity \in DOMAIN Store /\ Store[nodes[n].identity].root
             /\ PrefixMatches(nodes[n].identity, p) /\ Len(nodes[n].identity.tokens) > 0
  BY <1>2, StoreHolds DEF RootHits
<1> QED BY <1>1, <1>3, <1>4

\* A hit shows only in the answer.
LEMMA HitAnswers ==
  ASSUME IInv, IInv', NEW source, source # "none", NEW p, NEW n \in DOMAIN nodes, Hit(source, n, p)
  PROVE  Store' = Store /\ Contract!Answer(source, nodes[n].identity, p)
<1>1. nodes' = Touch(Now, n).nodes
  BY DEF Hit, Become
<1>2. DOMAIN nodes' = DOMAIN nodes /\ \A m \in DOMAIN nodes :
        /\ nodes'[m].identity = nodes[m].identity
        /\ nodes'[m].state = nodes[m].state
        /\ nodes'[m].slots = nodes[m].slots
        /\ nodes'[m].root = nodes[m].root
  BY <1>1 DEF Touch, Impl, Put, PrefixNode, Now
<1>3. Store' = Store
  BY <1>2, StoreKept, Zenon DEF Entry
<1>4. match' = [source |-> source, node |-> n, request |-> p, state |-> nodes[n].state,
                length |-> Len(nodes[n].identity.tokens)]
  BY DEF Hit
<1>5. LastAnswer' = [source |-> source, state |-> nodes[n].state,
                     length |-> Len(nodes[n].identity.tokens), request |-> p]
  BY <1>4 DEF LastAnswer
<1>6. Store[nodes[n].identity].state = nodes[n].state
  BY StoreHolds
<1> QED BY <1>3, <1>5, <1>6 DEF Contract!Answer

LEMMA LookupImplements ==
  ASSUME IInv, IInv', NEW conversation \in Conversations \cup {NoConversation},
         NEW allowPrompt \in BOOLEAN, NEW p, Lookup(conversation, allowPrompt, p)
  PROVE  Contract!Lookup(conversation, allowPrompt, p)
<1> DEFINE head(kind) == heads[<<kind, conversation>>]
           prompt == IF allowPrompt THEN Contract!UsableHeads("prompt", conversation, p) ELSE {}
           committed == Contract!UsableHeads("committed", conversation, p)
           promptHit == allowPrompt /\ HeadHit("prompt", conversation, p)
           committedHit == HeadHit("committed", conversation, p)
<1>1. "prompt" \in Checkpoints /\ "committed" \in Checkpoints
  BY DEF Checkpoints
<1>2. /\ prompt = IF promptHit THEN {nodes[head("prompt")].identity} ELSE {}
      /\ committed = IF committedHit THEN {nodes[head("committed")].identity} ELSE {}
  BY <1>1, UsableHeadsAre
<1>3. ASSUME NEW kind \in Checkpoints, HeadHit(kind, conversation, p)
      PROVE  head(kind) \in DOMAIN nodes
  <2>1. <<kind, conversation>> \in Slots /\ head(kind) # 0
    BY <1>3 DEF HeadHit, Slots
  <2> QED BY <2>1 DEF IInv, Sound, Linked, Now, Impl
<1>4. UNCHANGED <<enabled, computed>>
  BY DEF Lookup, callers
<1> HIDE DEF prompt, committed
<1>5. ASSUME enabled, promptHit, Hit("prompt", head("prompt"), p)
      PROVE  Store' = Store /\ \E q \in prompt : Contract!Answer("prompt", q, p)
  <2>1. head("prompt") \in DOMAIN nodes
    BY <1>1, <1>3, <1>5
  <2>2. Store' = Store /\ Contract!Answer("prompt", nodes[head("prompt")].identity, p)
    BY <1>5, <2>1, HitAnswers
  <2> QED BY <1>2, <1>5, <2>2
<1>6. ASSUME enabled, ~promptHit, committedHit, Hit("committed", head("committed"), p)
      PROVE  Store' = Store /\ prompt = {} /\ \E q \in committed : Contract!Answer("committed", q, p)
  <2>1. head("committed") \in DOMAIN nodes
    BY <1>1, <1>3, <1>6
  <2>2. Store' = Store /\ Contract!Answer("committed", nodes[head("committed")].identity, p)
    BY <1>6, <2>1, HitAnswers
  <2> QED BY <1>2, <1>6, <2>2
<1>7. ASSUME enabled, ~promptHit, ~committedHit, NEW n \in LongestRootHits(p), Hit("root", n, p)
      PROVE  /\ Store' = Store /\ prompt = {} /\ committed = {}
             /\ \E r \in Contract!Roots(p) :
                  /\ \A q \in Contract!Roots(p) : Len(q.tokens) <= Len(r.tokens)
                  /\ Contract!Answer("root", r, p)
  <2>1. n \in RootHits(p) /\ n \in DOMAIN nodes
    BY DEF LongestRootHits, RootHits
  <2>2. Store' = Store /\ Contract!Answer("root", nodes[n].identity, p)
    BY <1>7, <2>1, HitAnswers
  <2>3. \A m \in RootHits(p) : Len(nodes[m].identity.tokens) <= Len(nodes[n].identity.tokens)
    BY DEF LongestRootHits
  <2>4. \A q \in Contract!Roots(p) : Len(q.tokens) <= Len(nodes[n].identity.tokens)
    BY <2>3, RootsAre
  <2>5. nodes[n].identity \in Contract!Roots(p)
    BY <2>1, RootsAre
  <2> QED BY <1>2, <1>7, <2>2, <2>4, <2>5
<1>8. ASSUME Miss(p) PROVE Store' = Store /\ LastAnswer' = Contract!NoMatch
  <2>1. nodes' = nodes /\ match' = NoMatch
    BY <1>8 DEF Miss, impl
  <2>2. Store' = Store
    BY <2>1 DEF Store, Stored, NodeOf
  <2> QED BY <2>1, <2>2 DEF LastAnswer, NoMatch, Contract!NoMatch
<1>9. \/ ~enabled /\ Miss(p)
      \/ enabled /\ promptHit /\ Hit("prompt", head("prompt"), p)
      \/ enabled /\ ~promptHit /\ committedHit /\ Hit("committed", head("committed"), p)
      \/ enabled /\ ~promptHit /\ ~committedHit /\ \E n \in LongestRootHits(p) : Hit("root", n, p)
      \/ enabled /\ ~promptHit /\ ~committedHit /\ RootHits(p) = {} /\ Miss(p)
  BY Zenon DEF Lookup
<1>10. Contract!Lookup(conversation, allowPrompt, p) <=>
         /\ \/ enabled /\ \E q \in prompt : Contract!Answer("prompt", q, p)
            \/ enabled /\ prompt = {} /\ \E q \in committed : Contract!Answer("committed", q, p)
            \/ /\ enabled /\ prompt = {} /\ committed = {}
               /\ \E r \in Contract!Roots(p) :
                    /\ \A q \in Contract!Roots(p) : Len(q.tokens) <= Len(r.tokens)
                    /\ Contract!Answer("root", r, p)
            \/ /\ enabled => prompt = {} /\ committed = {} /\ Contract!Roots(p) = {}
               /\ LastAnswer' = Contract!NoMatch
         /\ UNCHANGED <<Store, enabled, computed>>
  BY Zenon DEF Contract!Lookup, prompt, committed
<1>11. RootHits(p) = {} => Contract!Roots(p) = {}
  BY RootsAre
<1>12. CASE ~enabled /\ Miss(p)
  BY <1>4, <1>8, <1>10, <1>12
<1>13. CASE enabled /\ promptHit /\ Hit("prompt", head("prompt"), p)
  BY <1>4, <1>5, <1>10, <1>13
<1>14. CASE enabled /\ ~promptHit /\ committedHit /\ Hit("committed", head("committed"), p)
  BY <1>4, <1>6, <1>10, <1>14
<1>15. CASE enabled /\ ~promptHit /\ ~committedHit /\ \E n \in LongestRootHits(p) : Hit("root", n, p)
  BY <1>4, <1>7, <1>10, <1>15
<1>16. CASE enabled /\ ~promptHit /\ ~committedHit /\ RootHits(p) = {} /\ Miss(p)
  BY <1>2, <1>4, <1>8, <1>10, <1>11, <1>16
<1> QED BY <1>9, <1>12, <1>13, <1>14, <1>15, <1>16

\* Every call of the cache is one the contract allows, or does not show.
LEMMA StepImplements ==
  ASSUME IInv, IInv', CallersOK, CallersOK', [Next]_vars
  PROVE  [Contract!Next]_(Contract!vars)
<1>1. ASSUME NEW slot \in Slots, NEW d \in DOMAIN computed, PublishConversationHead(slot, d)
      PROVE  Contract!PublishHead \/ UNCHANGED Contract!vars
  <2> DEFINE c == IF enabled THEN PublishedHead(Now, slot, computed[d], d) ELSE Now
  <2>1. Become(c) /\ UNCHANGED <<enabled, match, computed>>
    BY <1>1 DEF PublishConversationHead, callers
  <2>2. Sound(c, {}, {})
    BY NowSound, PublishedSound
  <2>3. c = Now \/ (enabled /\ Republished(c, Now, computed[d], {slot}, FALSE))
    BY NowSound, PublishedRepublishes, Zenon
  <2> HIDE DEF c
  <2>4. UNCHANGED <<Store, enabled, LastAnswer, computed>>
        \/ Contract!Publish(computed[d], {slot}, FALSE)
    BY <2>1, <2>2, <2>3, PublicationImplements
  <2>5. computed[d] \in Identities /\ slot \in Contract!Slots
    BY DEF CallersOK, Slots, Checkpoints, Contract!Slots, Contract!Kinds
  <2> QED BY <2>4, <2>5, Zenon DEF Contract!PublishHead, Contract!vars
<1>2. ASSUME NEW d \in DOMAIN computed, PublishGlobalRoot(d)
      PROVE  Contract!PublishRoot \/ UNCHANGED Contract!vars
  <2> DEFINE c == IF enabled THEN PublishedRoot(Now, computed[d], d) ELSE Now
  <2>1. Become(c) /\ UNCHANGED <<enabled, match, computed>>
    BY <1>2 DEF PublishGlobalRoot, callers
  <2>2. Sound(c, {}, {})
    BY NowSound, PublishedSound
  <2>3. c = Now \/ (enabled /\ Republished(c, Now, computed[d], {}, TRUE))
    BY NowSound, PublishedRepublishes, Zenon
  <2> HIDE DEF c
  <2>4. UNCHANGED <<Store, enabled, LastAnswer, computed>>
        \/ Contract!Publish(computed[d], {}, TRUE)
    BY <2>1, <2>2, <2>3, PublicationImplements
  <2>5. computed[d] \in Identities
    BY DEF CallersOK
  <2> QED BY <2>4, <2>5, Zenon DEF Contract!PublishRoot, Contract!vars
<1>3. ASSUME NEW conversation \in Conversations \cup {NoConversation},
             NEW allowPrompt \in BOOLEAN, NEW p \in Identities,
             Lookup(conversation, allowPrompt, p)
      PROVE  Contract!LookupAny
  BY <1>3, LookupImplements, Zenon DEF Contract!LookupAny
<1>4. ASSUME NEW c, DOMAIN c.nodes = {}, Become(c) PROVE Store' = Contract!Empty
  <2>1. Store' = StoreOf(c)
    BY <1>4, BecomeStore
  <2> QED BY <1>4, <2>1 DEF StoreOf, Contract!Empty
<1>5. DOMAIN ResetImpl(Now).nodes = {}
  BY NowSound, ResetSound DEF Sound
<1>6. ASSUME NEW on \in BOOLEAN, SetEnabled(on) PROVE Contract!SetEnabled
  <2>1. enabled' = ~enabled /\ (on <=> ~enabled) /\ UNCHANGED <<match, computed>>
    BY <1>6 DEF SetEnabled, CallersOK, callers
  <2>2. Store' = IF enabled THEN Contract!Empty ELSE Store
    <3>1. CASE enabled
      <4>1. Become(ResetImpl(Now))
        BY <1>6, <2>1, <3>1 DEF SetEnabled
      <4> QED BY <1>4, <1>5, <3>1, <4>1
    <3>2. CASE ~enabled
      <4>1. Become(Now)
        BY <1>6, <2>1, <3>2 DEF SetEnabled
      <4> QED BY <3>2, <4>1, BecomeStore, StoreIs
    <3> QED BY <3>1, <3>2
  <2> QED BY <2>1, <2>2 DEF Contract!SetEnabled, LastAnswer
<1>7. ASSUME Clear PROVE Contract!Clear
  <2>1. Become(ResetImpl(Now)) /\ UNCHANGED <<enabled, match, computed>>
    BY <1>7 DEF Clear, callers
  <2> QED BY <1>4, <1>5, <2>1 DEF Contract!Clear, LastAnswer
<1>8. ASSUME UNCHANGED <<impl, enabled, match>> PROVE UNCHANGED <<Store, enabled, LastAnswer>>
  BY <1>8 DEF impl, Store, Stored, NodeOf, LastAnswer
<1>9. ASSUME NEW p \in Identities, ComputeState(p) PROVE Contract!Compute
  <2>1. UNCHANGED <<impl, enabled, match>>
    BY <1>9 DEF ComputeState
  <2>2. DOMAIN computed \subseteq DOMAIN computed'
        /\ \A d \in DOMAIN computed : computed'[d] = computed[d]
    <3> DEFINE r == AllocateDescriptor(arena, KvBytesPerToken * Len(p.tokens), MambaBytes)
               granted == {r[2]} \ {NoDescriptor}
    <3>1. r[2] # NoDescriptor => r[2].kv.id = arena.nextId
      BY AllocateDescriptorFresh DEF IInv, Issued
    <3>2. computed' = [d \in DOMAIN computed \cup granted |->
                         IF d \in granted THEN p ELSE computed[d]]
      BY <1>9 DEF ComputeState
    <3> HIDE DEF r
    <3>3. \A d \in DOMAIN computed : d \notin granted
      BY <3>1 DEF IInv, Issued
    <3> QED BY <3>2, <3>3
  <2>3. \A d \in DOMAIN computed' : computed'[d] \in Identities
    BY DEF CallersOK
  <2> QED BY <1>8, <2>1, <2>2, <2>3 DEF Contract!Compute
<1>10. ASSUME NEW d \in DOMAIN computed, DropState(d) PROVE UNCHANGED Contract!vars
  BY <1>8, <1>10 DEF DropState, Contract!vars
<1>11. CASE AdoptMatch
  BY <1>8, <1>11 DEF AdoptMatch, Contract!vars
<1>12. CASE UNCHANGED vars
  BY <1>8, <1>12 DEF vars, callers, Contract!vars
<1> QED BY <1>1, <1>2, <1>3, <1>6, <1>7, <1>9, <1>10, <1>11, <1>12, Zenon DEF Next, Contract!Next

\* Every behaviour of the cache is one the contract allows.
THEOREM ContractKept == Spec => ImplementsContract
<1>1. Init => Contract!Init
  BY DEF Init, NoMatch, Store, Stored, LastAnswer, Contract!Init, Contract!Empty, Contract!NoMatch
<1>2. Init => CallersOK
  BY DEF Init, CallersOK
<1>3. Spec => []CallersOK
  BY <1>2, CallersStep, PTL DEF Spec
<1> QED BY <1>1, <1>3, StepImplements, Invariance, PTL DEF Spec, ImplementsContract, Contract!Spec

-----------------------------------------------------------------------------
(* Bytes and the clock *)

\* The proofs of the arena, whose lemmas on sums of bytes are used here.
Arenas == INSTANCE ReusableStateArenaProofs
            WITH holds <- held, RequestSizes <- {}, ForeignHandles <- {},
                 MaxIds <- MaxStateIds, MaxHolds <- MaxHeld

Counted(entries, S) == IsFiniteSet(S) /\ \A i \in S : entries[i].bytes \in Nat

LEMMA SameOperators ==
  /\ \A entries, S : Arenas!BytesOf(entries, S) = BytesOf(entries, S)
  /\ \A entries, S : Arenas!Counted(entries, S) <=> Counted(entries, S)
<1>1. \A entries, S : Arenas!BytesOf(entries, S) = BytesOf(entries, S)
  BY DEF BytesOf, Arenas!BytesOf, MapThenSumSet, Arenas!MapThenSumSet, MapThenFoldSet, Arenas!MapThenFoldSet
<1>2. \A entries, S : Arenas!Counted(entries, S) <=> Counted(entries, S)
  BY DEF Counted, Arenas!Counted, IsFiniteSet, Arenas!IsFiniteSet
<1> QED BY <1>1, <1>2

LEMMA OneMore ==
  ASSUME NEW entries, NEW S, Counted(entries, S)
  PROVE  /\ BytesOf(entries, S) \in Nat
         /\ BytesOf(entries, {}) = 0
         /\ \A i \in S : BytesOf(entries, S) = entries[i].bytes + BytesOf(entries, S \ {i})
BY SameOperators, Arenas!BytesOfOneMore, CacheAssumption, ArenaAssumption DEF Arenas!Handle

LEMMA SameBytes ==
  ASSUME NEW entries, NEW others, NEW S, Counted(entries, S),
         \A i \in S : others[i].bytes = entries[i].bytes
  PROVE  BytesOf(others, S) = BytesOf(entries, S)
BY SameOperators, Arenas!BytesOfSame, CacheAssumption, ArenaAssumption DEF Arenas!Handle

LEMMA Parts ==
  ASSUME NEW entries, NEW S, Counted(entries, S), NEW T \in SUBSET S
  PROVE  /\ BytesOf(entries, T) \in Nat
         /\ BytesOf(entries, S) = BytesOf(entries, T) + BytesOf(entries, S \ T)
<1>1. Arenas!Counted(entries, S)
  BY SameOperators
<1>2. /\ Arenas!BytesOf(entries, T) \in Nat
      /\ Arenas!BytesOf(entries, S) = Arenas!BytesOf(entries, T) + Arenas!BytesOf(entries, S \ T)
  BY <1>1, Arenas!BytesOfParts, CacheAssumption, ArenaAssumption DEF Arenas!Handle
<1> QED BY <1>2, SameOperators

\* Every node was used at a time of its own, before now.
Clocked(c) ==
  /\ c.tick \in Nat
  /\ \A n \in DOMAIN c.nodes : c.nodes[n].tick \in Nat /\ c.nodes[n].tick < c.tick
  /\ \A m, n \in DOMAIN c.nodes : c.nodes[m].tick = c.nodes[n].tick => m = n

\* The byte count is the sum over the nodes, of what each is for and keeps.
Weighed(c) ==
  /\ Counted(c.nodes, DOMAIN c.nodes)
  /\ \A n \in DOMAIN c.nodes :
       c.nodes[n].bytes = NodeBytes(c.nodes[n].identity, c.nodes[n].state)
  /\ c.bytes = BytesOf(c.nodes, DOMAIN c.nodes)

Kept(c) == Clocked(c) /\ Weighed(c)

\* What callers compute has a size.
StatesSized == \A d \in DOMAIN computed : NodeBytes(computed[d], d) \in Nat

\* Whatever else becomes of the nodes, the bytes stay.
LEMMA SameWeights ==
  ASSUME NEW c, NEW b, Weighed(c), DOMAIN b.nodes = DOMAIN c.nodes, b.bytes = c.bytes,
         \A n \in DOMAIN c.nodes : /\ b.nodes[n].identity = c.nodes[n].identity
                                   /\ b.nodes[n].state = c.nodes[n].state
                                   /\ b.nodes[n].bytes = c.nodes[n].bytes
  PROVE  Weighed(b)
<1>1. Counted(c.nodes, DOMAIN c.nodes)
  BY DEF Weighed
<1>2. BytesOf(b.nodes, DOMAIN c.nodes) = BytesOf(c.nodes, DOMAIN c.nodes)
  BY <1>1, SameBytes
<1>3. Counted(b.nodes, DOMAIN b.nodes)
  BY <1>1 DEF Counted
<1> QED BY <1>2, <1>3 DEF Weighed

\* A touched node is the one used last.
LEMMA TouchKeeps ==
  ASSUME NEW c, NEW n \in DOMAIN c.nodes, Weighed(c), c.tick \in Nat,
         \A m \in DOMAIN c.nodes \ {n} : c.nodes[m].tick \in Nat /\ c.nodes[m].tick < c.tick,
         \A l, m \in DOMAIN c.nodes \ {n} : c.nodes[l].tick = c.nodes[m].tick => l = m
  PROVE  LET b == Touch(c, n) IN
         /\ Kept(b)
         /\ DOMAIN b.nodes = DOMAIN c.nodes
         /\ b.bytes = c.bytes
         /\ \A m \in DOMAIN c.nodes \ {n} : b.nodes[m] = c.nodes[m] /\ b.nodes[m].tick < b.nodes[n].tick
<1> DEFINE b == Touch(c, n)
<1>1. /\ DOMAIN b.nodes = DOMAIN c.nodes
      /\ b.bytes = c.bytes /\ b.tick = c.tick + 1
      /\ \A m \in DOMAIN c.nodes : m # n => b.nodes[m] = c.nodes[m]
      /\ b.nodes[n].identity = c.nodes[n].identity
      /\ b.nodes[n].state = c.nodes[n].state
      /\ b.nodes[n].bytes = c.nodes[n].bytes
      /\ b.nodes[n].tick = c.tick
  BY DEF Touch, Impl, Put, PrefixNode
<1> HIDE DEF b
<1>2. Weighed(b)
  BY <1>1, SameWeights
<1>3. Clocked(b)
  BY <1>1 DEF Clocked
<1> QED BY <1>1, <1>2, <1>3 DEF Kept, b

\* Removed nodes take their bytes along.
LEMMA RemoveNodesKeeps ==
  ASSUME NEW c, Weighed(c), NEW S \in SUBSET DOMAIN c.nodes
  PROVE  /\ Weighed(RemoveNodes(c, S))
         /\ RemoveNodes(c, S).bytes = c.bytes - BytesOf(c.nodes, S)
         /\ RemoveNodes(c, S).nodes = [n \in DOMAIN c.nodes \ S |-> c.nodes[n]]
         /\ RemoveNodes(c, S).tick = c.tick
         /\ Clocked(c) => Clocked(RemoveNodes(c, S))
<1> DEFINE b == RemoveNodes(c, S)
           rest == DOMAIN c.nodes \ S
<1>1. /\ b.nodes = [n \in rest |-> c.nodes[n]]
      /\ b.bytes = c.bytes - BytesOf(c.nodes, S)
      /\ b.tick = c.tick
  BY DEF RemoveNodes, Impl
<1> HIDE DEF b
<1>2. /\ DOMAIN b.nodes = rest
      /\ \A n \in rest : b.nodes[n] = c.nodes[n]
  BY <1>1
<1>3. Counted(c.nodes, DOMAIN c.nodes) /\ c.bytes = BytesOf(c.nodes, DOMAIN c.nodes)
  BY DEF Weighed
<1>4. Counted(c.nodes, rest)
  BY <1>3, FS_Subset DEF Counted
<1>5. /\ BytesOf(c.nodes, S) \in Nat
      /\ BytesOf(c.nodes, DOMAIN c.nodes) = BytesOf(c.nodes, S) + BytesOf(c.nodes, rest)
  <2> DEFINE all == DOMAIN c.nodes
  <2>1. Counted(c.nodes, all) /\ S \in SUBSET all
    BY <1>3
  <2> HIDE DEF all
  <2>2. BytesOf(c.nodes, S) \in Nat /\ BytesOf(c.nodes, all) = BytesOf(c.nodes, S) + BytesOf(c.nodes, all \ S)
    BY <2>1, Parts
  <2> QED BY <2>2 DEF all
<1>6. BytesOf(c.nodes, rest) \in Nat
  BY <1>4, OneMore
<1>7. BytesOf(b.nodes, rest) = BytesOf(c.nodes, rest)
  BY <1>2, <1>4, SameBytes
<1>8. b.bytes = BytesOf(b.nodes, rest)
  BY <1>1, <1>3, <1>5, <1>6, <1>7
<1>9. Counted(b.nodes, rest)
  BY <1>2, <1>4 DEF Counted
<1>10. Weighed(b)
  BY <1>2, <1>8, <1>9 DEF Weighed
<1>11. Clocked(c) => Clocked(b)
  BY <1>1, <1>2 DEF Clocked
<1> QED BY <1>1, <1>10, <1>11 DEF b

\* Eviction stops at the budget: the victims are the least recently used nodes
\* up to some time, and without them the rest fits.
LEMMA VictimsAre ==
  ASSUME NEW c, Kept(c)
  PROVE  /\ Victims(c) \in SUBSET DOMAIN c.nodes
         /\ c.bytes - BytesOf(c.nodes, Victims(c)) <= MaxBytes
         /\ \A m \in DOMAIN c.nodes, n \in Victims(c) :
              c.nodes[m].tick < c.nodes[n].tick => m \in Victims(c)
<1> DEFINE all == DOMAIN c.nodes
           older(n) == {m \in all : c.nodes[m].tick < c.nodes[n].tick}
           V == Victims(c)
<1>1. V = {n \in all : c.bytes - BytesOf(c.nodes, older(n)) > MaxBytes}
  BY DEF Victims
<1>2. Counted(c.nodes, all) /\ c.bytes = BytesOf(c.nodes, all) /\ \A n \in all : c.nodes[n].tick \in Nat
  BY DEF Kept, Weighed, Clocked
<1>3. \A n \in all : older(n) \in SUBSET all
  OBVIOUS
<1>4. \A m, n \in all : m \in older(n) => older(m) \subseteq older(n) /\ m \notin older(m)
  BY <1>2
<1>5. \A m, n \in all : m \in older(n) <=> c.nodes[m].tick < c.nodes[n].tick
  OBVIOUS
<1> HIDE DEF V, older, all
<1>6. V \in SUBSET all
  BY <1>1
<1>7. ASSUME NEW S \in SUBSET all, NEW T \in SUBSET S
      PROVE  /\ BytesOf(c.nodes, T) \in Nat /\ BytesOf(c.nodes, S) \in Nat
             /\ BytesOf(c.nodes, T) <= BytesOf(c.nodes, S)
  <2>1. Counted(c.nodes, S)
    BY <1>2, FS_Subset DEF Counted
  <2>2. BytesOf(c.nodes, T) \in Nat /\ BytesOf(c.nodes, S) = BytesOf(c.nodes, T) + BytesOf(c.nodes, S \ T)
    BY <2>1, Parts
  <2>3. S \ T \in SUBSET S
    OBVIOUS
  <2>4. BytesOf(c.nodes, S \ T) \in Nat
    BY <2>1, <2>3, Parts
  <2> QED BY <2>2, <2>4
<1>8. c.bytes \in Nat
  BY <1>2, OneMore
<1>9. ASSUME NEW m \in all, NEW n \in V, c.nodes[m].tick < c.nodes[n].tick PROVE m \in V
  <2>1. n \in all /\ older(m) \in SUBSET older(n) /\ older(n) \in SUBSET all
    BY <1>3, <1>4, <1>5, <1>6, <1>9
  <2>2. /\ BytesOf(c.nodes, older(m)) \in Nat /\ BytesOf(c.nodes, older(n)) \in Nat
        /\ BytesOf(c.nodes, older(m)) <= BytesOf(c.nodes, older(n))
    BY <1>7, <2>1
  <2> QED BY <1>1, <1>8, <2>1, <2>2, CacheAssumption
<1>10. c.bytes - BytesOf(c.nodes, V) <= MaxBytes
  <2>1. CASE V = all
    BY <1>2, <1>8, <2>1, CacheAssumption
  <2>2. ASSUME V # all PROVE c.bytes - BytesOf(c.nodes, V) <= MaxBytes
    <3> DEFINE X == {older(n) : n \in all \ V}
    <3>1. X \in SUBSET SUBSET all /\ X # {}
      BY <1>3, <1>6, <2>2
    <3> HIDE DEF X
    <3>2. PICK T \in X : \A U \in X : U \subseteq T => U = T
      <4>1. IsFiniteSet(all)
        BY <1>2 DEF Counted
      <4>2. Arenas!IsFiniteSet(all)
        BY <4>1 DEF IsFiniteSet, Arenas!IsFiniteSet
      <4> QED BY <3>1, <4>2, Arenas!SmallestSet, CacheAssumption, ArenaAssumption DEF Arenas!Handle
    <3>3. PICK n \in all \ V : T = older(n)
      BY <3>2 DEF X
    <3>4. older(n) \in SUBSET V
      <4>1. ASSUME NEW m \in older(n), m \notin V PROVE FALSE
        <5>1. m \in all
          BY <1>3, <3>3
        <5>2. older(m) \in X
          BY <4>1, <5>1 DEF X
        <5>3. older(m) \subseteq older(n) /\ m \notin older(m)
          BY <1>4, <3>3, <5>1
        <5> QED BY <3>2, <3>3, <5>2, <5>3
      <4> QED BY <4>1
    <3>5. BytesOf(c.nodes, older(n)) \in Nat /\ BytesOf(c.nodes, V) \in Nat
          /\ BytesOf(c.nodes, older(n)) <= BytesOf(c.nodes, V)
      BY <1>6, <1>7, <3>4
    <3>6. ~(c.bytes - BytesOf(c.nodes, older(n)) > MaxBytes)
      BY <1>1, <3>3
    <3> QED BY <1>8, <3>5, <3>6, CacheAssumption
  <2> QED BY <2>1, <2>2
<1> QED BY <1>6, <1>9, <1>10 DEF V, all

LEMMA EvictToBudgetKeeps ==
  ASSUME NEW c, Kept(c)
  PROVE  Kept(EvictToBudget(c)) /\ EvictToBudget(c).bytes <= MaxBytes
<1> DEFINE V == Victims(c)
<1>1. V \in SUBSET DOMAIN c.nodes /\ c.bytes - BytesOf(c.nodes, V) <= MaxBytes
  BY VictimsAre
<1> HIDE DEF V
<1>2. /\ Weighed(RemoveNodes(c, V)) /\ Clocked(RemoveNodes(c, V))
      /\ RemoveNodes(c, V).bytes = c.bytes - BytesOf(c.nodes, V)
  BY <1>1, RemoveNodesKeeps DEF Kept
<1> QED BY <1>1, <1>2 DEF EvictToBudget, V, Kept

\* A new node, or a twin's new state, comes with its bytes; a node that was not
\* touched otherwise is as it was.
LEMMA FindOrCreateKeeps ==
  ASSUME NEW c, Sound(c, {}, {}), Kept(c), StatesSized, NEW d \in DOMAIN computed
  PROVE  LET found == FindOrCreateNode(c, computed[d], d) IN
         \/ found = <<c, 0>>
         \/ /\ found[2] # 0
            /\ Kept(found[1])
            /\ DOMAIN found[1].nodes = DOMAIN c.nodes \cup {found[2]}
            /\ \A m \in DOMAIN c.nodes \ {found[2]} : found[1].nodes[m] = c.nodes[m]
            /\ found[1].nodes[found[2]].state = d
<1> DEFINE p == computed[d]
           all == DOMAIN c.nodes
           found == FindOrCreateNode(c, p, d)
           b == found[1]
<1>1. /\ c.tick \in Nat
      /\ \A n \in all : c.nodes[n].tick \in Nat /\ c.nodes[n].tick < c.tick
      /\ \A m, n \in all : c.nodes[m].tick = c.nodes[n].tick => m = n
      /\ Counted(c.nodes, all) /\ c.bytes = BytesOf(c.nodes, all)
      /\ \A n \in all : c.nodes[n].bytes = NodeBytes(c.nodes[n].identity, c.nodes[n].state)
  BY DEF Kept, Clocked, Weighed
<1>2. NodeBytes(p, d) \in Nat
  BY DEF StatesSized
<1>3. c.bytes \in Nat
  BY <1>1, OneMore
<1>4. CASE Twins(c, p) = {}
  <2> DEFINE node == PrefixNode(p, d, FALSE, {}, c.tick, NodeBytes(p, d))
             n == c.next
  <2>1. CASE ~RetainState(c.arena, d)[2]
    BY <1>4, <2>1 DEF FindOrCreateNode, Create
  <2>2. CASE RetainState(c.arena, d)[2]
    <3>1. /\ found[2] = n /\ b.nodes = Put(c.nodes, n, node)
          /\ b.bytes = c.bytes + node.bytes /\ b.tick = c.tick + 1
      BY <1>4, <2>2 DEF FindOrCreateNode, Create, Impl
    <3>2. /\ node.identity = p /\ node.state = d /\ node.tick = c.tick
          /\ node.bytes = NodeBytes(p, d)
      BY DEF PrefixNode
    <3>3. n # 0 /\ n \notin all
      BY DEF Sound, Indexed
    <3> HIDE DEF found, node, n, p
    <3>4. /\ DOMAIN b.nodes = all \cup {n}
          /\ b.nodes[n] = node
          /\ \A m \in all : b.nodes[m] = c.nodes[m]
      BY <3>1, <3>3 DEF Put
    <3> HIDE DEF all
    <3>5. Counted(b.nodes, all \cup {n})
      <4>1. IsFiniteSet(all \cup {n})
        BY <1>1, FS_AddElement DEF Counted
      <4> QED BY <1>1, <1>2, <3>2, <3>4, <4>1 DEF Counted
    <3>6. BytesOf(b.nodes, all \cup {n}) = node.bytes + BytesOf(b.nodes, all)
      <4>1. (all \cup {n}) \ {n} = all
        BY <3>3
      <4> QED BY <3>4, <3>5, <4>1, OneMore
    <3>7. BytesOf(b.nodes, all) = c.bytes
      BY <1>1, <3>4, SameBytes
    <3>8. b.bytes = BytesOf(b.nodes, all \cup {n})
      BY <1>2, <1>3, <3>1, <3>2, <3>6, <3>7
    <3>9. Weighed(b)
      BY <1>1, <3>2, <3>4, <3>5, <3>8 DEF Weighed
    <3>10. Clocked(b)
      BY <1>1, <3>1, <3>2, <3>4 DEF Clocked
    <3> QED BY <3>1, <3>2, <3>3, <3>4, <3>9, <3>10 DEF Kept, found, p, all
  <2> QED BY <2>1, <2>2
<1>5. CASE Twins(c, p) # {}
  <2> DEFINE n == CHOOSE n \in Twins(c, p) : TRUE
             old == c.nodes[n]
             bytes == NodeBytes(old.identity, d)
             retained == RetainState(c.arena, d)
             r == Impl(Put(c.nodes, n, PrefixNode(old.identity, d, old.root, old.slots, old.tick, bytes)),
                       c.index, c.heads, c.bytes - old.bytes + bytes, c.tick, c.next,
                       ReleaseStates(retained[1], [i \in {n} |-> old.state]))
  <2>1. n \in Twins(c, p)
    BY <1>5
  <2>2. n \in all /\ old.identity = p /\ n # 0
    BY <2>1 DEF Twins, Sound, Indexed
  <2>3. found = IF old.state = d THEN <<Touch(c, n), n>>
                ELSE IF retained[2] THEN <<Touch(r, n), n>> ELSE <<c, 0>>
    BY <1>5 DEF FindOrCreateNode, Refresh
  <2> HIDE DEF n, found
  <2>4. /\ DOMAIN r.nodes = all
        /\ r.tick = c.tick /\ r.bytes = c.bytes - old.bytes + bytes
        /\ \A m \in all : m # n => r.nodes[m] = c.nodes[m]
        /\ r.nodes[n].identity = p /\ r.nodes[n].state = d
        /\ r.nodes[n].bytes = NodeBytes(p, d)
        /\ r.nodes[n].tick = old.tick
        /\ bytes = NodeBytes(p, d)
    BY <2>2 DEF Impl, Put, PrefixNode
  <2> HIDE DEF r, retained, p, bytes
  <2>5. Weighed(r)
    <3> HIDE DEF all
    <3>1. Counted(r.nodes, all)
      BY <1>1, <1>2, <2>4 DEF Counted
    <3>2. /\ BytesOf(c.nodes, all) = old.bytes + BytesOf(c.nodes, all \ {n})
          /\ BytesOf(r.nodes, all) = r.nodes[n].bytes + BytesOf(r.nodes, all \ {n})
      BY <1>1, <2>2, <3>1, OneMore
    <3>3. Counted(c.nodes, all \ {n})
      BY <1>1, FS_RemoveElement DEF Counted
    <3>4. BytesOf(r.nodes, all \ {n}) = BytesOf(c.nodes, all \ {n}) /\ BytesOf(c.nodes, all \ {n}) \in Nat
      BY <2>4, <3>3, SameBytes, OneMore
    <3>5. old.bytes \in Nat
      BY <1>1, <2>2 DEF Counted
    <3>6. r.bytes = BytesOf(r.nodes, all)
      BY <1>1, <1>2, <2>4, <3>2, <3>4, <3>5
    <3> QED BY <1>1, <2>2, <2>4, <3>1, <3>6 DEF Weighed
  <2>6. /\ Kept(Touch(r, n)) /\ DOMAIN Touch(r, n).nodes = all
        /\ \A m \in all \ {n} : Touch(r, n).nodes[m] = c.nodes[m]
        /\ Touch(r, n).nodes[n].state = d
    <3>1. Touch(r, n).nodes[n].state = r.nodes[n].state
      BY DEF Touch, Impl, Put, PrefixNode
    <3>2. /\ n \in DOMAIN r.nodes /\ r.tick \in Nat
          /\ \A m \in DOMAIN r.nodes \ {n} : r.nodes[m].tick \in Nat /\ r.nodes[m].tick < r.tick
          /\ \A l, m \in DOMAIN r.nodes \ {n} : r.nodes[l].tick = r.nodes[m].tick => l = m
      BY <1>1, <2>2, <2>4
    <3> HIDE DEF all
    <3>3. /\ Kept(Touch(r, n)) /\ DOMAIN Touch(r, n).nodes = DOMAIN r.nodes
          /\ \A m \in DOMAIN r.nodes \ {n} : Touch(r, n).nodes[m] = r.nodes[m]
      BY <2>5, <3>2, TouchKeeps
    <3> QED BY <2>4, <3>1, <3>3
  <2>7. /\ Kept(Touch(c, n)) /\ DOMAIN Touch(c, n).nodes = all
        /\ \A m \in all \ {n} : Touch(c, n).nodes[m] = c.nodes[m]
        /\ Touch(c, n).nodes[n].state = old.state
    <3>1. Touch(c, n).nodes[n].state = c.nodes[n].state
      BY DEF Touch, Impl, Put, PrefixNode
    <3> QED BY <1>1, <2>2, <3>1, TouchKeeps DEF Kept
  <2>8. all = all \cup {n}
    BY <2>2
  <2> HIDE DEF all
  <2>9. CASE old.state = d
    BY <2>2, <2>3, <2>7, <2>8, <2>9 DEF found, p, all
  <2>10. CASE old.state # d /\ retained[2]
    BY <2>2, <2>3, <2>6, <2>8, <2>10 DEF found, p, all
  <2>11. CASE old.state # d /\ ~retained[2]
    BY <2>3, <2>11 DEF found, p
  <2> QED BY <2>9, <2>10, <2>11
<1> QED BY <1>4, <1>5

\* What giving node n of f a role leaves: n is the node used last, the others
\* stay as they were but for their roles, or went without any.
Newest(a, f, n) ==
  /\ Kept(a)
  /\ n \in DOMAIN a.nodes /\ DOMAIN a.nodes \subseteq DOMAIN f.nodes
  /\ a.nodes[n].identity = f.nodes[n].identity /\ a.nodes[n].state = f.nodes[n].state
  /\ \A m \in DOMAIN a.nodes \ {n} :
       /\ a.nodes[m].tick = f.nodes[m].tick
       /\ a.nodes[m].bytes = f.nodes[m].bytes
       /\ a.nodes[m].tick < a.nodes[n].tick

LEMMA AssignHeadKeeps ==
  ASSUME NEW c, NEW n \in DOMAIN c.nodes, Sound(c, {n}, {}), Kept(c), NEW slot \in Slots
  PROVE  LET a == AssignConversationHead(c, n, slot) IN
         /\ Newest(a, c, n)
         /\ a.heads[slot] = n
         /\ \A m \in DOMAIN c.nodes \ DOMAIN a.nodes :
              ~c.nodes[m].root /\ c.nodes[m].slots \subseteq {slot}
<1> DEFINE old == c.heads[slot]
           freed == IF old \in {0, n} THEN c ELSE RemoveConversationRole(c, old, slot)
           node == WithRoles(freed.nodes[n], freed.nodes[n].root,
                             freed.nodes[n].slots \cup {slot})
           e == Impl(Put(freed.nodes, n, node), freed.index,
                     [freed.heads EXCEPT ![slot] = n],
                     freed.bytes, freed.tick, freed.next, freed.arena)
           a == Touch(e, n)
<1>1. a = AssignConversationHead(c, n, slot)
  BY DEF AssignConversationHead
<1>2. /\ Kept(freed) /\ DOMAIN freed.nodes \subseteq DOMAIN c.nodes /\ n \in DOMAIN freed.nodes
      /\ \A m \in DOMAIN freed.nodes :
           /\ freed.nodes[m].identity = c.nodes[m].identity
           /\ freed.nodes[m].state = c.nodes[m].state
           /\ freed.nodes[m].tick = c.nodes[m].tick
           /\ freed.nodes[m].bytes = c.nodes[m].bytes
      /\ \A m \in DOMAIN c.nodes \ DOMAIN freed.nodes :
           ~c.nodes[m].root /\ c.nodes[m].slots \subseteq {slot}
      /\ slot \in DOMAIN freed.heads
  <2>1. CASE old \in {0, n}
    <3>1. freed = c
      BY <2>1
    <3>2. slot \in DOMAIN c.heads
      BY DEF Sound, Linked
    <3> HIDE DEF freed
    <3> QED BY <3>1, <3>2
  <2>2. CASE old \notin {0, n}
    <3> DEFINE bare == WithRoles(c.nodes[old], c.nodes[old].root,
                                 c.nodes[old].slots \ {slot})
               stripped == Impl(Put(c.nodes, old, bare), c.index, c.heads, c.bytes,
                                c.tick, c.next, c.arena)
    <3>1. old \in DOMAIN c.nodes /\ old # n
      BY <2>2 DEF Sound, Linked
    <3>2. freed = IF NoRoles(bare) THEN RemoveNodes(stripped, {old}) ELSE stripped
      BY <2>2, <3>1 DEF RemoveConversationRole
    <3>3. /\ DOMAIN stripped.nodes = DOMAIN c.nodes
          /\ stripped.bytes = c.bytes /\ stripped.tick = c.tick /\ stripped.heads = c.heads
          /\ \A m \in DOMAIN c.nodes : m # old => stripped.nodes[m] = c.nodes[m]
          /\ stripped.nodes[old] = bare
          /\ bare.identity = c.nodes[old].identity
          /\ bare.state = c.nodes[old].state
          /\ bare.tick = c.nodes[old].tick
          /\ bare.bytes = c.nodes[old].bytes
          /\ bare.slots = c.nodes[old].slots \ {slot}
          /\ bare.root = c.nodes[old].root
      BY <3>1 DEF Impl, Put, WithRoles, PrefixNode
    <3> HIDE DEF stripped, bare, freed, old
    <3>4. \A m \in DOMAIN c.nodes :
            /\ stripped.nodes[m].identity = c.nodes[m].identity
            /\ stripped.nodes[m].state = c.nodes[m].state
            /\ stripped.nodes[m].tick = c.nodes[m].tick
            /\ stripped.nodes[m].bytes = c.nodes[m].bytes
      BY <3>3
    <3>5. Weighed(stripped)
      BY <3>3, <3>4, SameWeights DEF Kept
    <3>6. Clocked(stripped)
      BY <3>3, <3>4 DEF Kept, Clocked
    <3>7. slot \in DOMAIN c.heads
      BY DEF Sound, Linked
    <3>8. CASE NoRoles(bare)
      <4>1. {old} \in SUBSET DOMAIN stripped.nodes
        BY <3>1, <3>3
      <4>2. /\ Weighed(RemoveNodes(stripped, {old})) /\ Clocked(RemoveNodes(stripped, {old}))
            /\ RemoveNodes(stripped, {old}).nodes =
                 [m \in DOMAIN stripped.nodes \ {old} |-> stripped.nodes[m]]
        BY <3>5, <3>6, <4>1, RemoveNodesKeeps
      <4>3. DOMAIN RemoveNodes(stripped, {old}).heads = Slots
        BY DEF RemoveNodes, Impl
      <4>4. freed = RemoveNodes(stripped, {old})
        BY <3>2, <3>8
      <4>5. /\ DOMAIN freed.nodes = DOMAIN c.nodes \ {old}
            /\ \A m \in DOMAIN freed.nodes : freed.nodes[m] = stripped.nodes[m]
        BY <3>3, <4>2, <4>4
      <4>6. ~c.nodes[old].root /\ c.nodes[old].slots \subseteq {slot}
        BY <3>3, <3>8 DEF NoRoles
      <4>7. Kept(freed) /\ slot \in DOMAIN freed.heads
        BY <4>2, <4>3, <4>4 DEF Kept
      <4>8. \A m \in DOMAIN freed.nodes :
              /\ freed.nodes[m].identity = c.nodes[m].identity
              /\ freed.nodes[m].state = c.nodes[m].state
              /\ freed.nodes[m].tick = c.nodes[m].tick
              /\ freed.nodes[m].bytes = c.nodes[m].bytes
        BY <3>4, <4>5
      <4>9. \A m \in DOMAIN c.nodes \ DOMAIN freed.nodes :
              ~c.nodes[m].root /\ c.nodes[m].slots \subseteq {slot}
        <5>1. \A m \in DOMAIN c.nodes \ DOMAIN freed.nodes : m = old
          BY <4>5
        <5> QED BY <4>6, <5>1
      <4> QED BY <3>1, <4>5, <4>7, <4>8, <4>9
    <3>9. CASE ~NoRoles(bare)
      <4>1. freed = stripped
        BY <3>2, <3>9
      <4> QED BY <3>3, <3>4, <3>5, <3>6, <3>7, <4>1 DEF Kept
    <3> QED BY <3>8, <3>9
  <2> QED BY <2>1, <2>2
<1> HIDE DEF freed
<1>3. /\ DOMAIN e.nodes = DOMAIN freed.nodes /\ e.bytes = freed.bytes /\ e.tick = freed.tick
      /\ \A m \in DOMAIN freed.nodes : /\ e.nodes[m].identity = freed.nodes[m].identity
                                       /\ e.nodes[m].state = freed.nodes[m].state
                                       /\ e.nodes[m].tick = freed.nodes[m].tick
                                       /\ e.nodes[m].bytes = freed.nodes[m].bytes
      /\ e.heads = [freed.heads EXCEPT ![slot] = n]
  BY <1>2 DEF Impl, Put, WithRoles, PrefixNode
<1> HIDE DEF e
<1>4. Weighed(e)
  BY <1>2, <1>3, SameWeights DEF Kept
<1>5. Clocked(e)
  BY <1>2, <1>3 DEF Kept, Clocked
<1>6. /\ Kept(a) /\ DOMAIN a.nodes = DOMAIN e.nodes
      /\ \A m \in DOMAIN e.nodes \ {n} : a.nodes[m] = e.nodes[m] /\ a.nodes[m].tick < a.nodes[n].tick
  <2>1. n \in DOMAIN e.nodes
    BY <1>2, <1>3
  <2> QED BY <1>4, <1>5, <2>1, TouchKeeps DEF Clocked
<1>7. a.heads[slot] = n
  BY <1>2, <1>3 DEF Touch, Impl
<1>8. a.nodes[n].identity = e.nodes[n].identity /\ a.nodes[n].state = e.nodes[n].state
  BY DEF Touch, Impl, Put, PrefixNode
<1> HIDE DEF a
<1>9. Newest(a, c, n)
  BY <1>2, <1>3, <1>6, <1>8 DEF Newest
<1> QED BY <1>1, <1>2, <1>3, <1>6, <1>7, <1>9

LEMMA AssignRootKeeps ==
  ASSUME NEW c, NEW n \in DOMAIN c.nodes, Kept(c)
  PROVE  Newest(AssignGlobalRoot(c, n), c, n)
         /\ DOMAIN AssignGlobalRoot(c, n).nodes = DOMAIN c.nodes
<1> DEFINE e == Impl(Put(c.nodes, n, WithRoles(c.nodes[n], TRUE, c.nodes[n].slots)),
                     c.index, c.heads, c.bytes, c.tick, c.next, c.arena)
           a == Touch(e, n)
<1>1. a = AssignGlobalRoot(c, n)
  BY DEF AssignGlobalRoot
<1>2. /\ DOMAIN e.nodes = DOMAIN c.nodes /\ e.bytes = c.bytes /\ e.tick = c.tick
      /\ \A m \in DOMAIN c.nodes : /\ e.nodes[m].identity = c.nodes[m].identity
                                   /\ e.nodes[m].state = c.nodes[m].state
                                   /\ e.nodes[m].tick = c.nodes[m].tick
                                   /\ e.nodes[m].bytes = c.nodes[m].bytes
  BY DEF Impl, Put, WithRoles, PrefixNode
<1> HIDE DEF e
<1>3. Weighed(e)
  BY <1>2, SameWeights DEF Kept
<1>4. Clocked(e)
  BY <1>2 DEF Kept, Clocked
<1>5. /\ Kept(a) /\ DOMAIN a.nodes = DOMAIN e.nodes
      /\ \A m \in DOMAIN e.nodes \ {n} : a.nodes[m] = e.nodes[m] /\ a.nodes[m].tick < a.nodes[n].tick
  BY <1>2, <1>3, <1>4, TouchKeeps DEF Clocked
<1>6. a.nodes[n].identity = e.nodes[n].identity /\ a.nodes[n].state = e.nodes[n].state
  BY DEF Touch, Impl, Put, PrefixNode
<1> HIDE DEF a
<1>7. Newest(a, c, n)
  BY <1>2, <1>5, <1>6 DEF Newest
<1> QED BY <1>1, <1>2, <1>5, <1>7

\* A publication that takes effect: the node found, the roles given, the
\* eviction that follows.
LEMMA PublishedKeeps ==
  ASSUME NEW c, Sound(c, {}, {}), Kept(c), c.bytes <= MaxBytes, StatesSized, NEW d \in DOMAIN computed
  PROVE  /\ \A slot \in Slots :
              LET b == PublishedHead(c, slot, computed[d], d) IN Kept(b) /\ b.bytes <= MaxBytes
         /\ LET b == PublishedRoot(c, computed[d], d) IN Kept(b) /\ b.bytes <= MaxBytes
<1> DEFINE found == FindOrCreateNode(c, computed[d], d)
<1>1. found[2] = 0 \/ (found[2] \in DOMAIN found[1].nodes /\ Sound(found[1], {found[2]}, {}))
  BY FindOrCreateSound
<1>2. found[2] = 0 \/ Kept(found[1])
  BY FindOrCreateKeeps
<1>3. ASSUME NEW slot \in Slots
      PROVE  LET b == PublishedHead(c, slot, computed[d], d) IN Kept(b) /\ b.bytes <= MaxBytes
  <2>1. PublishedHead(c, slot, computed[d], d) =
          IF found[2] = 0 THEN c
          ELSE EvictToBudget(AssignConversationHead(found[1], found[2], slot))
    BY DEF PublishedHead
  <2> HIDE DEF found
  <2>2. found[2] # 0 => Kept(AssignConversationHead(found[1], found[2], slot))
    BY <1>1, <1>2, AssignHeadKeeps DEF Newest
  <2> QED BY <2>1, <2>2, EvictToBudgetKeeps
<1>4. LET b == PublishedRoot(c, computed[d], d) IN Kept(b) /\ b.bytes <= MaxBytes
  <2>1. PublishedRoot(c, computed[d], d) =
          IF found[2] = 0 THEN c
          ELSE EvictToBudget(AssignGlobalRoot(found[1], found[2]))
    BY DEF PublishedRoot
  <2> HIDE DEF found
  <2>2. found[2] # 0 => Kept(AssignGlobalRoot(found[1], found[2]))
    BY <1>1, <1>2, AssignRootKeeps DEF Newest
  <2> QED BY <2>1, <2>2, EvictToBudgetKeeps
<1> QED BY <1>3, <1>4

\* The second inductive invariant, on top of the first: what eviction needs.
BudgetInv ==
  /\ Kept(Now)
  /\ currentBytes <= MaxBytes
  /\ StatesSized

LEMMA BecomeKept ==
  ASSUME NEW c, Kept(c), c.bytes <= MaxBytes, Become(c), UNCHANGED computed, StatesSized
  PROVE  BudgetInv'
<1>1. nodes' = c.nodes /\ tick' = c.tick /\ currentBytes' = c.bytes
  BY DEF Become
<1>2. Clocked(Now)'
  BY <1>1 DEF Kept, Clocked, Now, Impl
<1>3. Weighed(Now)'
  BY <1>1 DEF Kept, Weighed, Now, Impl, Counted, NodeBytes, TotalBytes
<1>4. StatesSized'
  BY DEF StatesSized, NodeBytes, TotalBytes
<1> QED BY <1>1, <1>2, <1>3, <1>4 DEF BudgetInv, Kept

LEMMA ResetKeeps ==
  ASSUME NEW c, c.tick \in Nat
  PROVE  Kept(ResetImpl(c)) /\ ResetImpl(c).bytes <= MaxBytes
<1> DEFINE b == ResetImpl(c)
<1>1. DOMAIN b.nodes = {} /\ b.bytes = 0 /\ b.tick = c.tick
  BY DEF ResetImpl, Impl
<1> HIDE DEF b
<1>2. Counted(b.nodes, {})
  BY FS_EmptySet DEF Counted
<1>3. BytesOf(b.nodes, {}) = 0
  BY <1>2, OneMore
<1> QED BY <1>1, <1>2, <1>3, CacheAssumption DEF Kept, Clocked, Weighed, b

\* A descriptor the arena grants is of the sizes asked for.
LEMMA GrantedSize ==
  ASSUME NEW a, NEW kvBytes \in Nat, NEW mambaBytes \in Nat
  PROVE  LET r == AllocateDescriptor(a, kvBytes, mambaBytes) IN
         r[2] # NoDescriptor => TotalBytes(r[2]) = kvBytes + mambaBytes
<1> DEFINE kv == Allocate(a, "kv", kvBytes)
           mamba == Allocate(kv[1], "mamba", mambaBytes)
           r == AllocateDescriptor(a, kvBytes, mambaBytes)
<1>1. HandleValid(kv[2]) => kv[2].bytes = kvBytes
  BY DEF Allocate, NoHandle, HandleValid
<1>2. HandleValid(mamba[2]) => mamba[2].bytes = mambaBytes
  <2> HIDE DEF kv
  <2> QED BY DEF Allocate, NoHandle, HandleValid
<1>3. r[2] = IF HandleValid(kv[2]) /\ HandleValid(mamba[2])
             THEN [kv |-> kv[2], mamba |-> mamba[2]] ELSE NoDescriptor
  BY DEF AllocateDescriptor
<1> HIDE DEF kv, mamba, r
<1> QED BY <1>1, <1>2, <1>3 DEF TotalBytes, r

LEMMA InitBudgetInv == Init => BudgetInv
<1> SUFFICES ASSUME Init PROVE BudgetInv
  OBVIOUS
<1>1. DOMAIN Now.nodes = {} /\ Now.bytes = 0 /\ Now.tick = 1 /\ currentBytes = 0 /\ DOMAIN computed = {}
  BY DEF Init, Now, Impl
<1>2. Counted(Now.nodes, {})
  BY FS_EmptySet DEF Counted
<1>3. BytesOf(Now.nodes, {}) = 0
  BY <1>2, OneMore
<1> QED BY <1>1, <1>2, <1>3, CacheAssumption DEF BudgetInv, Kept, Clocked, Weighed, StatesSized

\* A lookup misses or hits a node.
LEMMA LookupHits ==
  ASSUME Sound(Now, {}, {}), NEW conversation \in Conversations \cup {NoConversation},
         NEW allowPrompt, NEW p, Lookup(conversation, allowPrompt, p)
  PROVE  Miss(p) \/ \E source : \E n \in DOMAIN nodes : Hit(source, n, p)
<1>1. ASSUME NEW kind \in Checkpoints, HeadHit(kind, conversation, p)
      PROVE  heads[<<kind, conversation>>] \in DOMAIN nodes
  <2>1. heads[<<kind, conversation>>] # 0 /\ heads \in [Slots -> Nat]
        /\ \A s \in Slots : heads[s] # 0 => heads[s] \in DOMAIN nodes
    BY <1>1 DEF HeadHit, Sound, Linked, Now, Impl
  <2>2. <<kind, conversation>> \in Slots
    BY <1>1 DEF HeadHit, Slots
  <2> QED BY <2>1, <2>2
<1>2. \A n \in LongestRootHits(p) : n \in DOMAIN nodes
  BY DEF LongestRootHits, RootHits
<1>3. \/ Miss(p)
      \/ HeadHit("prompt", conversation, p) /\ Hit("prompt", heads[<<"prompt", conversation>>], p)
      \/ HeadHit("committed", conversation, p)
         /\ Hit("committed", heads[<<"committed", conversation>>], p)
      \/ \E n \in LongestRootHits(p) : Hit("root", n, p)
  BY Zenon DEF Lookup
<1>4. "prompt" \in Checkpoints /\ "committed" \in Checkpoints
  BY DEF Checkpoints
<1> QED BY <1>1, <1>2, <1>3, <1>4

\* Every call keeps the count and the budget.
LEMMA NextBudgetInv == IInv /\ CallersOK /\ BudgetInv /\ [Next]_vars => BudgetInv'
<1> SUFFICES ASSUME IInv, CallersOK, BudgetInv, [Next]_vars PROVE BudgetInv'
  OBVIOUS
<1>1. /\ Sound(Now, {}, {}) /\ Kept(Now) /\ Now.bytes <= MaxBytes /\ StatesSized
      /\ Now.nodes = nodes /\ Now.tick = tick /\ tick \in Nat
  BY NowSound DEF BudgetInv, Now, Impl, Kept, Clocked
<1>2. ASSUME NEW slot \in Slots, NEW d \in DOMAIN computed, PublishConversationHead(slot, d)
      PROVE  BudgetInv'
  <2> DEFINE c == IF enabled THEN PublishedHead(Now, slot, computed[d], d) ELSE Now
  <2>1. Kept(c) /\ c.bytes <= MaxBytes
    BY <1>1, PublishedKeeps
  <2>2. Become(c) /\ UNCHANGED computed
    BY <1>2 DEF PublishConversationHead, callers
  <2> HIDE DEF c
  <2> QED BY <1>1, <2>1, <2>2, BecomeKept
<1>3. ASSUME NEW d \in DOMAIN computed, PublishGlobalRoot(d) PROVE BudgetInv'
  <2> DEFINE c == IF enabled THEN PublishedRoot(Now, computed[d], d) ELSE Now
  <2>1. Kept(c) /\ c.bytes <= MaxBytes
    BY <1>1, PublishedKeeps
  <2>2. Become(c) /\ UNCHANGED computed
    BY <1>3 DEF PublishGlobalRoot, callers
  <2> HIDE DEF c
  <2> QED BY <1>1, <2>1, <2>2, BecomeKept
<1>4. ASSUME UNCHANGED <<impl, computed>> PROVE BudgetInv'
  <2>1. UNCHANGED <<nodes, tick, currentBytes, computed>>
    BY <1>4 DEF impl
  <2>2. Clocked(Now)'
    BY <1>1, <2>1 DEF Kept, Clocked, Now, Impl
  <2>3. Weighed(Now)'
    BY <1>1, <2>1 DEF Kept, Weighed, Now, Impl, Counted, NodeBytes, TotalBytes
  <2>4. StatesSized'
    BY <1>1, <2>1 DEF StatesSized, NodeBytes, TotalBytes
  <2> QED BY <2>1, <2>2, <2>3, <2>4 DEF BudgetInv, Kept
<1>5. ASSUME NEW source, NEW n \in DOMAIN nodes, NEW p, Hit(source, n, p), UNCHANGED callers
      PROVE  BudgetInv'
  <2>1. Become(Touch(Now, n)) /\ UNCHANGED computed
    BY <1>5 DEF Hit, callers
  <2>2. Kept(Touch(Now, n)) /\ Touch(Now, n).bytes = Now.bytes
    BY <1>1, TouchKeeps DEF Kept, Clocked
  <2> QED BY <1>1, <2>1, <2>2, BecomeKept
<1>6. ASSUME NEW conversation \in Conversations \cup {NoConversation},
             NEW allowPrompt \in BOOLEAN, NEW p \in Identities,
             Lookup(conversation, allowPrompt, p)
      PROVE  BudgetInv'
  <2>1. UNCHANGED callers
    BY <1>6 DEF Lookup
  <2>4. Miss(p) => BudgetInv'
    BY <1>4, <2>1 DEF Miss, callers
  <2>5. Miss(p) \/ \E source : \E n \in DOMAIN nodes : Hit(source, n, p)
    BY <1>1, <1>6, LookupHits
  <2> QED BY <1>5, <2>1, <2>4, <2>5
<1>7. ASSUME NEW on \in BOOLEAN, SetEnabled(on) PROVE BudgetInv'
  <2>1. Become(Now) \/ Become(ResetImpl(Now))
    BY <1>7, Zenon DEF SetEnabled
  <2>2. UNCHANGED computed
    BY <1>7 DEF SetEnabled, callers
  <2> QED BY <1>1, <2>1, <2>2, BecomeKept, ResetKeeps
<1>8. ASSUME Clear PROVE BudgetInv'
  BY <1>1, <1>8, BecomeKept, ResetKeeps DEF Clear, callers
<1>9. ASSUME NEW p \in Identities, ComputeState(p) PROVE BudgetInv'
  <2> DEFINE kvBytes == KvBytesPerToken * Len(p.tokens)
             r == AllocateDescriptor(arena, kvBytes, MambaBytes)
             granted == {r[2]} \ {NoDescriptor}
  <2>1. /\ UNCHANGED impl
        /\ computed' = [d \in DOMAIN computed \cup granted |->
                          IF d \in granted THEN p ELSE computed[d]]
    BY <1>9 DEF ComputeState
  <2>2. Len(p.tokens) \in Nat /\ ContextBytes[p.context] \in Nat
    BY CacheAssumption
  <2>3. \A x \in Nat, y \in Nat : x * y \in Nat
    OBVIOUS
  <2>4. kvBytes \in Nat /\ MambaBytes \in Nat /\ TokenBytes * Len(p.tokens) \in Nat
    BY <2>2, <2>3, CacheAssumption
  <2>5. r[2] # NoDescriptor => TotalBytes(r[2]) = kvBytes + MambaBytes
    BY <2>4, GrantedSize
  <2>6. r[2] # NoDescriptor => r[2].kv.id = arena.nextId
    BY AllocateDescriptorFresh DEF IInv, Issued
  <2> HIDE DEF r, kvBytes
  <2>7. \A d \in DOMAIN computed : d \notin granted
    BY <2>6 DEF IInv, Issued
  <2>16. \A a \in Nat, b \in Nat, c \in Nat, m \in Nat : a + b + (c + m) \in Nat
    OBVIOUS
  <2>17. \A d \in granted : NodeBytes(p, d)
             = TokenBytes * Len(p.tokens) + ContextBytes[p.context]
                 + (kvBytes + MambaBytes)
    BY <2>5 DEF NodeBytes
  <2>8. \A d \in granted : NodeBytes(p, d) \in Nat
    BY ONLY <2>2, <2>4, <2>16, <2>17
  <2> HIDE DEF granted
  <2>9. /\ DOMAIN computed' = DOMAIN computed \cup granted
        /\ \A d \in granted : computed'[d] = p
        /\ \A d \in DOMAIN computed : computed'[d] = computed[d]
    BY <2>1, <2>7
  <2>10. \A d \in DOMAIN computed' : NodeBytes(computed'[d], d) \in Nat
    BY <1>1, <2>8, <2>9 DEF StatesSized
  <2>11. StatesSized'
    BY <2>10 DEF StatesSized, NodeBytes, TotalBytes
  <2>12. UNCHANGED <<nodes, tick, currentBytes>>
    BY <2>1 DEF impl
  <2>13. Clocked(Now)'
    BY <1>1, <2>12 DEF Kept, Clocked, Now, Impl
  <2>14. Weighed(Now)'
    BY <1>1, <2>12 DEF Kept, Weighed, Now, Impl, Counted, NodeBytes, TotalBytes
  <2>15. currentBytes' <= MaxBytes
    BY <2>12 DEF BudgetInv
  <2> QED BY <2>11, <2>13, <2>14, <2>15 DEF BudgetInv, Kept
<1>10. ASSUME NEW d \in DOMAIN computed, DropState(d) PROVE BudgetInv'
  BY <1>4, <1>10 DEF DropState
<1>11. CASE AdoptMatch
  BY <1>4, <1>11 DEF AdoptMatch
<1>12. CASE UNCHANGED vars
  BY <1>4, <1>12 DEF vars, callers
<1> QED BY <1>2, <1>3, <1>6, <1>7, <1>8, <1>9, <1>10, <1>11, <1>12 DEF Next

\* What holds of callers and bytes in every state.
LEMMA BudgetInvariance == Spec => [](IInv /\ CallersOK /\ BudgetInv)
<1>1. Init => CallersOK
  BY DEF Init, CallersOK
<1> QED BY <1>1, InitBudgetInv, NextBudgetInv, CallersStep, Invariance, PTL DEF Spec

\* The cache's byte count is the sum over its nodes and no call returns with it
\* over the budget.
THEOREM BudgetAlwaysKept == Spec => []BudgetKept
<1>1. IInv /\ CallersOK /\ BudgetInv => BudgetKept
  BY DEF BudgetInv, Kept, Weighed, Now, Impl, BudgetKept
<1> QED BY <1>1, BudgetInvariance, PTL

-----------------------------------------------------------------------------
(* What eviction takes *)

\* What eviction leaves behind, and what it takes: when anything is left the
\* node used last is, and when that node goes it did not fit alone.
LEMMA EvictionLeaves ==
  ASSUME NEW a, NEW n \in DOMAIN a.nodes, Kept(a),
         \A m \in DOMAIN a.nodes \ {n} : a.nodes[m].tick < a.nodes[n].tick
  PROVE  LET b == EvictToBudget(a)
             V == Victims(a)
         IN  /\ V \in SUBSET DOMAIN a.nodes
             /\ b.nodes = [m \in DOMAIN a.nodes \ V |-> a.nodes[m]]
             /\ b.bytes = a.bytes - BytesOf(a.nodes, V)
             /\ \A s \in Slots : a.heads[s] \notin V => b.heads[s] = a.heads[s]
             /\ \A s \in Slots : a.heads[s] \in V /\ s \in a.nodes[a.heads[s]].slots => b.heads[s] = 0
             /\ n \in V => V = DOMAIN a.nodes /\ a.nodes[n].bytes > MaxBytes
<1> DEFINE all == DOMAIN a.nodes
           V == Victims(a)
           b == EvictToBudget(a)
           older == {m \in all : a.nodes[m].tick < a.nodes[n].tick}
<1>1. /\ V \in SUBSET all
      /\ \A l \in all, m \in V : a.nodes[l].tick < a.nodes[m].tick => l \in V
  BY VictimsAre
<1>2. n \in V => a.bytes - BytesOf(a.nodes, older) > MaxBytes
  BY DEF Victims
<1> HIDE DEF V, b
<1>3. b = RemoveNodes(a, V)
  BY DEF b, V, EvictToBudget
<1>4. b.bytes = a.bytes - BytesOf(a.nodes, V) /\ b.nodes = [m \in all \ V |-> a.nodes[m]]
  BY <1>1, <1>3, RemoveNodesKeeps DEF Kept
<1>5. b.heads = [s \in Slots |-> IF a.heads[s] \in V /\ s \in a.nodes[a.heads[s]].slots
                                 THEN 0 ELSE a.heads[s]]
  BY <1>3 DEF RemoveNodes, Impl
<1>6. ASSUME n \in V PROVE V = all /\ a.nodes[n].bytes > MaxBytes
  <2>1. V = all
    BY <1>1, <1>6
  <2>2. Counted(a.nodes, all) /\ a.bytes = BytesOf(a.nodes, all) /\ \A m \in all : a.nodes[m].tick \in Nat
    BY DEF Kept, Weighed, Clocked
  <2>3. older = all \ {n}
    BY <2>2
  <2> HIDE DEF older, all
  <2>4. BytesOf(a.nodes, all) = a.nodes[n].bytes + BytesOf(a.nodes, older)
    BY <2>2, <2>3, OneMore DEF all
  <2>5. a.nodes[n].bytes \in Nat
    BY <2>2 DEF Counted, all
  <2>6. BytesOf(a.nodes, older) \in Nat
    <3>1. Counted(a.nodes, older)
      BY <2>2, <2>3, FS_RemoveElement DEF Counted
    <3> QED BY <3>1, OneMore
  <2> QED BY <1>2, <1>6, <2>1, <2>2, <2>4, <2>5, <2>6, CacheAssumption
<1> QED BY <1>1, <1>4, <1>5, <1>6 DEF V, b

\* The nodes of c that are gone from b although they still had a role, and what
\* EvictsOldestAndOnlyIfNeeded says of them.
Taken(c, b) ==
  {m \in DOMAIN c.nodes \ DOMAIN b.nodes :
     ~(~c.nodes[m].root /\ \A s \in c.nodes[m].slots : b.heads[s] \notin {0, m})}

InOrder(c, b) ==
  DOMAIN b.nodes # {} =>
    \A m \in Taken(c, b) :
      /\ \A l \in DOMAIN b.nodes : c.nodes[m].tick < b.nodes[l].tick
      /\ (\A l \in Taken(c, b) : c.nodes[l].tick <= c.nodes[m].tick)
           => b.bytes + c.nodes[m].bytes > MaxBytes

\* After a publication: the nodes gone with a role left are the victims, each
\* used before every node that stays, and the last of them had to go.
LEMMA EvictionInOrder ==
  ASSUME NEW c, NEW f, NEW a, NEW n, Sound(a, {}, {}), Newest(a, f, n),
         DOMAIN f.nodes = DOMAIN c.nodes \cup {n},
         \A m \in DOMAIN c.nodes \ {n} : f.nodes[m] = c.nodes[m],
         \A m \in DOMAIN f.nodes \ DOMAIN a.nodes :
           ~f.nodes[m].root /\ \A s \in f.nodes[m].slots : s \in Slots /\ a.heads[s] = n,
         \A m \in DOMAIN a.nodes \ {n} :
           (a.nodes[m].root => f.nodes[m].root) /\ a.nodes[m].slots \subseteq f.nodes[m].slots
  PROVE  InOrder(c, EvictToBudget(a))
<1>0. SUFFICES ASSUME NEW b, b = EvictToBudget(a), DOMAIN b.nodes # {},
                      NEW E, E = Taken(c, b)
               PROVE  \A m \in E :
                        /\ \A l \in DOMAIN b.nodes : c.nodes[m].tick < b.nodes[l].tick
                        /\ (\A l \in E : c.nodes[l].tick <= c.nodes[m].tick)
                             => b.bytes + c.nodes[m].bytes > MaxBytes
  BY DEF InOrder
<1> DEFINE all == DOMAIN a.nodes
           V == Victims(a)
           older(m) == {l \in all : a.nodes[l].tick < a.nodes[m].tick}
<1>1. /\ Kept(a) /\ n \in all /\ n # 0
      /\ all \subseteq DOMAIN c.nodes \cup {n}
      /\ \A m \in all \ {n} : /\ a.nodes[m].tick = c.nodes[m].tick
                              /\ a.nodes[m].bytes = c.nodes[m].bytes
                              /\ a.nodes[m].tick < a.nodes[n].tick
                              /\ a.nodes[m].root => c.nodes[m].root
                              /\ a.nodes[m].slots \subseteq c.nodes[m].slots
  BY DEF Newest, Sound, Indexed
<1>2. /\ V \in SUBSET all
      /\ \A l \in all, m \in V : a.nodes[l].tick < a.nodes[m].tick => l \in V
  BY <1>1, VictimsAre
<1>3. \A m \in V : a.bytes - BytesOf(a.nodes, older(m)) > MaxBytes
  BY DEF Victims
<1>4. /\ b.nodes = [m \in all \ V |-> a.nodes[m]]
      /\ b.bytes = a.bytes - BytesOf(a.nodes, V)
      /\ \A s \in Slots : a.heads[s] \notin V => b.heads[s] = a.heads[s]
      /\ \A s \in Slots : a.heads[s] \in V /\ s \in a.nodes[a.heads[s]].slots => b.heads[s] = 0
      /\ n \in V => V = all
  <2> DEFINE e == EvictToBudget(a)
  <2>1. \A m \in all \ {n} : a.nodes[m].tick < a.nodes[n].tick
    BY <1>1
  <2>2. /\ e.nodes = [m \in all \ V |-> a.nodes[m]]
        /\ e.bytes = a.bytes - BytesOf(a.nodes, V)
        /\ \A s \in Slots : a.heads[s] \notin V => e.heads[s] = a.heads[s]
        /\ \A s \in Slots : a.heads[s] \in V /\ s \in a.nodes[a.heads[s]].slots => e.heads[s] = 0
        /\ n \in V => V = all
    BY <1>1, <2>1, EvictionLeaves
  <2> QED BY <1>0, <2>2
<1> HIDE DEF V
<1>5. DOMAIN b.nodes = all \ V /\ \A m \in all \ V : b.nodes[m] = a.nodes[m]
  BY <1>4
<1>6. n \notin V
  BY <1>0, <1>4, <1>5
<1>7. ASSUME NEW m \in E PROVE m \in V
  <2>1. m \in DOMAIN c.nodes \ DOMAIN b.nodes
        /\ ~(~c.nodes[m].root /\ \A s \in c.nodes[m].slots : b.heads[s] \notin {0, m})
    BY <1>0, <1>7 DEF Taken
  <2>2. ASSUME m \notin V PROVE FALSE
    <3>1. m \in DOMAIN f.nodes \ all /\ m # n /\ f.nodes[m] = c.nodes[m]
      BY <1>1, <1>5, <1>6, <2>1, <2>2
    <3>2. ~c.nodes[m].root /\ \A s \in c.nodes[m].slots : s \in Slots /\ a.heads[s] = n
      BY <3>1
    <3>3. \A s \in c.nodes[m].slots : b.heads[s] = n
      BY <1>4, <1>6, <3>2
    <3> QED BY <1>1, <2>1, <3>1, <3>2, <3>3
  <2> QED BY <2>2
<1>8. ASSUME NEW m \in V PROVE m \in E
  <2>1. m \in all /\ m # n /\ m \in DOMAIN c.nodes \ DOMAIN b.nodes
    BY <1>1, <1>2, <1>5, <1>6
  <2>2. a.nodes[m].root \/ a.nodes[m].slots # {}
    BY <2>1 DEF Sound, Linked, NoRoles
  <2>3. \A s \in a.nodes[m].slots : s \in Slots /\ a.heads[s] = m /\ s \in c.nodes[m].slots
    BY <1>1, <2>1 DEF Sound, Linked
  <2>4. \A s \in a.nodes[m].slots : b.heads[s] = 0
    BY <1>4, <1>8, <2>3
  <2>5. ~(~c.nodes[m].root /\ \A s \in c.nodes[m].slots : b.heads[s] \notin {0, m})
    BY <1>1, <2>1, <2>2, <2>3, <2>4
  <2> QED BY <1>0, <2>1, <2>5 DEF Taken
<1>9. /\ Counted(a.nodes, all) /\ a.bytes = BytesOf(a.nodes, all)
      /\ \A m \in all : a.nodes[m].tick \in Nat /\ a.nodes[m].bytes \in Nat
      /\ \A l, m \in all : a.nodes[l].tick = a.nodes[m].tick => l = m
  BY <1>1 DEF Kept, Weighed, Clocked, Counted
<1>10. ASSUME NEW m \in E, NEW l \in DOMAIN b.nodes PROVE c.nodes[m].tick < b.nodes[l].tick
  <2>1. m \in V /\ m \in all /\ m # n /\ l \in all /\ l \notin V
    BY <1>2, <1>5, <1>6, <1>7
  <2>2. b.nodes[l].tick = a.nodes[l].tick /\ c.nodes[m].tick = a.nodes[m].tick
    BY <1>1, <1>5, <2>1
  <2> QED BY <1>2, <1>9, <2>1, <2>2
<1>11. ASSUME NEW m \in E, \A l \in E : c.nodes[l].tick <= c.nodes[m].tick
       PROVE  b.bytes + c.nodes[m].bytes > MaxBytes
  <2>1. m \in V /\ m \in all /\ m # n
    BY <1>2, <1>6, <1>7
  <2>2. \A l \in V : a.nodes[l].tick <= a.nodes[m].tick
    BY <1>1, <1>2, <1>6, <1>8, <1>11, <2>1
  <2>3. older(m) = V \ {m}
    BY <1>2, <1>9, <2>1, <2>2
  <2>4. Counted(a.nodes, V)
    <3>1. IsFiniteSet(V)
      BY <1>2, <1>9, FS_Subset DEF Counted
    <3> QED BY <1>2, <1>9, <3>1 DEF Counted
  <2> HIDE DEF older, all
  <2>5. BytesOf(a.nodes, V) = a.nodes[m].bytes + BytesOf(a.nodes, older(m))
    BY <2>1, <2>3, <2>4, OneMore
  <2>6. BytesOf(a.nodes, older(m)) \in Nat /\ a.bytes \in Nat /\ a.nodes[m].bytes \in Nat
    <3>1. Counted(a.nodes, V \ {m})
      BY <2>4, FS_RemoveElement DEF Counted
    <3>2. BytesOf(a.nodes, V \ {m}) \in Nat
      BY <3>1, OneMore
    <3> QED BY <1>9, <2>1, <2>3, <3>2, OneMore
  <2>7. a.nodes[m].bytes = c.nodes[m].bytes
    BY <1>1, <2>1 DEF all
  <2>8. a.bytes - BytesOf(a.nodes, older(m)) > MaxBytes
    BY <1>3, <2>1
  <2> QED BY <1>4, <2>5, <2>6, <2>7, <2>8, CacheAssumption
<1> QED BY <1>10, <1>11

LEMMA FindOrCreateNames ==
  ASSUME NEW c, Sound(c, {}, {}), NEW p, NEW d
  PROVE  \/ FindOrCreateNode(c, p, d)[2] = 0
         \/ FindOrCreateNode(c, p, d)[1].nodes[FindOrCreateNode(c, p, d)[2]].identity = p
<1>1. FindOrCreateNode(c, p, d) # <<c, 0>> =>
        FindOrCreateNode(c, p, d)[1].nodes[FindOrCreateNode(c, p, d)[2]].identity = p
  BY FindOrCreateRepublishes, Zenon
<1>2. FindOrCreateNode(c, p, d) = <<c, 0>> => FindOrCreateNode(c, p, d)[2] = 0
  OBVIOUS
<1> QED BY <1>1, <1>2, Zenon

LEMMA PublishedInOrder ==
  ASSUME NEW c, Sound(c, {}, {}), Kept(c), StatesSized, NEW d \in DOMAIN computed
  PROVE  /\ \A slot \in Slots : InOrder(c, PublishedHead(c, slot, computed[d], d))
         /\ InOrder(c, PublishedRoot(c, computed[d], d))
<1> DEFINE p == computed[d]
           found == FindOrCreateNode(c, p, d)
           f == found[1]
           n == found[2]
<1>1. n = 0 \/ (n \in DOMAIN f.nodes /\ Sound(f, {n}, {}))
  BY FindOrCreateSound
<1>2. n = 0 \/ f.nodes[n].identity = p
  BY FindOrCreateNames, Zenon
<1>3. n = 0 \/ (/\ Kept(f) /\ DOMAIN f.nodes = DOMAIN c.nodes \cup {n}
                /\ \A m \in DOMAIN c.nodes \ {n} : f.nodes[m] = c.nodes[m])
  BY FindOrCreateKeeps
<1>4. InOrder(c, c)
  BY DEF InOrder, Taken
<1> HIDE DEF found
<1>5. ASSUME NEW a, NEW slots, n # 0, Newest(a, f, n), Sound(a, {}, {}),
             \E root : Republished(a, f, p, slots, root),
             \A m \in DOMAIN f.nodes \ DOMAIN a.nodes :
               ~f.nodes[m].root /\ \A s \in f.nodes[m].slots : s \in Slots /\ a.heads[s] = n
      PROVE  InOrder(c, EvictToBudget(a))
  <2>1. \A m \in DOMAIN a.nodes \ {n} : a.nodes[m].identity # p
    BY <1>2, <1>5 DEF Newest, Sound, Indexed
  <2>2. \A m \in DOMAIN a.nodes \ {n} :
          (a.nodes[m].root => f.nodes[m].root) /\ a.nodes[m].slots \subseteq f.nodes[m].slots
    BY <1>5, <2>1 DEF Republished
  <2> HIDE DEF p
  <2> QED BY <1>3, <1>5, <2>2, EvictionInOrder
<1>6. ASSUME NEW slot \in Slots PROVE InOrder(c, PublishedHead(c, slot, p, d))
  <2> DEFINE a == AssignConversationHead(f, n, slot)
  <2>1. PublishedHead(c, slot, p, d) = IF n = 0 THEN c ELSE EvictToBudget(a)
    BY DEF PublishedHead, found
  <2>2. CASE n = 0
    BY <1>4, <2>1, <2>2
  <2>3. CASE n # 0
    <3>1. /\ Newest(a, f, n) /\ a.heads[slot] = n
          /\ \A m \in DOMAIN f.nodes \ DOMAIN a.nodes : ~f.nodes[m].root /\ f.nodes[m].slots \subseteq {slot}
      <4>1. n \in DOMAIN f.nodes /\ Sound(f, {n}, {}) /\ Kept(f)
        BY <1>1, <1>3, <2>3
      <4> HIDE DEF f, n
      <4> QED BY <4>1, AssignHeadKeeps
    <3>2. Sound(a, {}, {})
      BY <1>1, <2>3, AssignConversationHeadSound
    <3>3. Republished(a, f, p, {slot}, FALSE)
      BY <1>1, <1>2, <2>3, AssignHeadRepublishes
    <3> HIDE DEF a
    <3>4. \A m \in DOMAIN f.nodes \ DOMAIN a.nodes :
            ~f.nodes[m].root /\ \A s \in f.nodes[m].slots : s \in Slots /\ a.heads[s] = n
      BY <3>1
    <3>5. InOrder(c, EvictToBudget(a))
      BY <1>5, <2>3, <3>1, <3>2, <3>3, <3>4
    <3> QED BY <2>1, <2>3, <3>5
  <2> QED BY <2>2, <2>3
<1>7. InOrder(c, PublishedRoot(c, p, d))
  <2> DEFINE a == AssignGlobalRoot(f, n)
  <2>1. PublishedRoot(c, p, d) = IF n = 0 THEN c ELSE EvictToBudget(a)
    BY DEF PublishedRoot, found
  <2>2. CASE n = 0
    BY <1>4, <2>1, <2>2
  <2>3. CASE n # 0
    <3>1. Newest(a, f, n) /\ DOMAIN a.nodes = DOMAIN f.nodes
      BY <1>1, <1>3, <2>3, AssignRootKeeps
    <3>2. Sound(a, {}, {})
      BY <1>1, <2>3, AssignGlobalRootSound
    <3>3. Republished(a, f, p, {}, TRUE)
      BY <1>1, <1>2, <2>3, AssignRootRepublishes
    <3> HIDE DEF a
    <3>4. InOrder(c, EvictToBudget(a))
      BY <1>5, <2>3, <3>1, <3>2, <3>3
    <3> QED BY <2>1, <2>3, <3>4
  <2> QED BY <2>2, <2>3
<1> QED BY <1>6, <1>7

\* A step that removes no node evicts none; a reset leaves none.
LEMMA CallInOrder ==
  ASSUME NEW c, Become(c), InOrder(Now, c)
  PROVE  DOMAIN nodes' # {} =>
           \A n \in Evicted :
             /\ \A m \in DOMAIN nodes' : nodes[n].tick < nodes'[m].tick
             /\ (\A m \in Evicted : nodes[m].tick <= nodes[n].tick)
                  => currentBytes' + nodes[n].bytes > MaxBytes
<1>1. nodes' = c.nodes /\ heads' = c.heads /\ currentBytes' = c.bytes /\ Now.nodes = nodes
  BY DEF Become, Now, Impl
<1>2. Evicted = Taken(Now, c)
  BY <1>1 DEF Evicted, Displaced, Taken
<1> QED BY <1>1, <1>2 DEF InOrder

\* Whatever is evicted with a role was used before all that stays, and only as
\* much is evicted as the budget asks for.
THEOREM EvictionIsMinimal == Spec => EvictsOldestAndOnlyIfNeeded
<1> DEFINE Ordered ==
      DOMAIN nodes' # {} =>
        \A n \in Evicted :
          /\ \A m \in DOMAIN nodes' : nodes[n].tick < nodes'[m].tick
          /\ (\A m \in Evicted : nodes[m].tick <= nodes[n].tick)
               => currentBytes' + nodes[n].bytes > MaxBytes
<1>1. ASSUME IInv, CallersOK, BudgetInv, [Next]_vars PROVE [Ordered]_vars
  <2>1. Sound(Now, {}, {}) /\ Kept(Now) /\ StatesSized
    BY <1>1, NowSound DEF BudgetInv
  <2>2. InOrder(Now, Now)
    BY DEF InOrder, Taken
  <2>3. ASSUME NEW slot \in Slots, NEW d \in DOMAIN computed, PublishConversationHead(slot, d)
        PROVE  Ordered
    <3> DEFINE c == IF enabled THEN PublishedHead(Now, slot, computed[d], d) ELSE Now
    <3>1. InOrder(Now, c) /\ Become(c)
      BY <2>1, <2>2, <2>3, PublishedInOrder DEF PublishConversationHead
    <3> HIDE DEF c
    <3> QED BY <3>1, CallInOrder
  <2>4. ASSUME NEW d \in DOMAIN computed, PublishGlobalRoot(d) PROVE Ordered
    <3> DEFINE c == IF enabled THEN PublishedRoot(Now, computed[d], d) ELSE Now
    <3>1. InOrder(Now, c) /\ Become(c)
      BY <2>1, <2>2, <2>4, PublishedInOrder DEF PublishGlobalRoot
    <3> HIDE DEF c
    <3> QED BY <3>1, CallInOrder
  <2>5. ASSUME DOMAIN nodes' = DOMAIN nodes PROVE Ordered
    BY <2>5 DEF Evicted
  <2>6. UNCHANGED impl => DOMAIN nodes' = DOMAIN nodes
    BY DEF impl
  <2>7. ASSUME NEW conversation \in Conversations \cup {NoConversation}, NEW allowPrompt, NEW p,
               Lookup(conversation, allowPrompt, p)
        PROVE  DOMAIN nodes' = DOMAIN nodes
    <3>1. Miss(p) \/ \E source : \E n \in DOMAIN nodes : Hit(source, n, p)
      BY <2>1, <2>7, LookupHits
    <3>2. Miss(p) => DOMAIN nodes' = DOMAIN nodes
      BY <2>6 DEF Miss
    <3>3. ASSUME NEW source, NEW n \in DOMAIN nodes, Hit(source, n, p)
          PROVE  DOMAIN nodes' = DOMAIN nodes
      BY <3>3 DEF Hit, Become, Touch, Put, Now, Impl
    <3> QED BY <3>1, <3>2, <3>3
  <2>8. ASSUME DOMAIN nodes' = {} PROVE Ordered
    BY <2>8
  <2>9. Become(ResetImpl(Now)) => DOMAIN nodes' = {}
    BY DEF Become, ResetImpl, Impl
  <2>10. Become(Now) => DOMAIN nodes' = DOMAIN nodes
    BY DEF Become, Now, Impl
  <2>11. ASSUME NEW on, SetEnabled(on) PROVE DOMAIN nodes' = {} \/ DOMAIN nodes' = DOMAIN nodes
    <3>1. Become(Now) \/ Become(ResetImpl(Now))
      BY <2>11, Zenon DEF SetEnabled
    <3> QED BY <2>9, <2>10, <3>1
  <2>12. Clear => DOMAIN nodes' = {}
    BY <2>9 DEF Clear
  <2>13. ASSUME NEW p, ComputeState(p) PROVE DOMAIN nodes' = DOMAIN nodes
    BY <2>6, <2>13 DEF ComputeState
  <2>14. ASSUME NEW d, DropState(d) PROVE DOMAIN nodes' = DOMAIN nodes
    BY <2>6, <2>14 DEF DropState
  <2>15. AdoptMatch => DOMAIN nodes' = DOMAIN nodes
    BY <2>6 DEF AdoptMatch
  <2> HIDE DEF Ordered
  <2>16. Next => Ordered
    BY <2>3, <2>4, <2>5, <2>7, <2>8, <2>11, <2>12, <2>13, <2>14, <2>15 DEF Next
  <2> QED BY <1>1, <2>16
<1>2. IInv /\ CallersOK /\ BudgetInv /\ [Next]_vars => [Ordered]_vars
  BY <1>1
<1> QED BY <1>2, BudgetInvariance, PTL DEF Spec, EvictsOldestAndOnlyIfNeeded

-----------------------------------------------------------------------------
(* Publications take effect *)

\* A publication is refused only where the arena does not know the state.
LEMMA RefusalMeansUnknown ==
  ASSUME NEW c, Sound(c, {}, {}), NEW p, NEW d, FindOrCreateNode(c, p, d)[2] = 0
  PROVE  FindOrCreateNode(c, p, d) = <<c, 0>> /\ ~NamesBoth(c.arena, d)
<1> DEFINE found == FindOrCreateNode(c, p, d)
           retained == RetainState(c.arena, d)
<1>1. found = <<c, 0>> /\ ~retained[2]
  <2>1. CASE Twins(c, p) = {}
    <3>1. c.next # 0
      BY DEF Sound, Indexed
    <3> HIDE DEF retained
    <3>2. found = Create(c, p, d)
      BY <2>1 DEF FindOrCreateNode
    <3>3. IF ~retained[2] THEN found = <<c, 0>> ELSE found[2] = c.next
      BY <3>2 DEF Create, retained
    <3> QED BY <3>1, <3>3
  <2>2. CASE Twins(c, p) # {}
    <3> DEFINE n == CHOOSE n \in Twins(c, p) : TRUE
    <3>1. n \in DOMAIN c.nodes /\ n # 0
      BY <2>2 DEF Twins, Sound, Indexed
    <3>2. found = Refresh(c, n, d)
      BY <2>2 DEF FindOrCreateNode
    <3> HIDE DEF n, retained, found
    <3>3. \/ found[2] = n
          \/ ~retained[2] /\ found = <<c, 0>>
      BY <3>2 DEF Refresh, retained
    <3> QED BY <3>1, <3>3 DEF found
  <2> QED BY <2>1, <2>2
<1>2. HasArena /\ ~RetainDescriptor(c.arena, d)[2]
  BY <1>1 DEF RetainState
<1>3. ASSUME NamesBoth(c.arena, d) PROVE FALSE
  <2> DEFINE kv == Retain(c.arena, d.kv)
             mamba == Retain(kv[1], d.mamba)
  <2>1. Names(c.arena, d.kv) /\ Names(c.arena, d.mamba)
    BY <1>3 DEF NamesBoth
  <2>2. DescriptorValid(d) /\ kv[2]
    BY <2>1 DEF Retain, Names, DescriptorValid
  <2>3. Names(kv[1], d.mamba)
    BY <2>1 DEF Retain, WithRefs, Arena, Names
  <2>4. mamba[2]
    BY <2>3 DEF Retain
  <2>5. RetainDescriptor(c.arena, d) = mamba
    BY <2>2, <2>4 DEF RetainDescriptor
  <2> QED BY <1>2, <2>4, <2>5
<1> QED BY <1>1, <1>3

\* A publication takes effect, is refused for a state the arena does not know,
\* or was of a node that does not fit alone.
LEMMA PublishedTakesEffect ==
  ASSUME NEW c, Sound(c, {}, {}), Kept(c), StatesSized, NEW d \in DOMAIN computed,
         NEW slot \in Slots, NEW b, b = PublishedHead(c, slot, computed[d], d)
  PROVE  \/ /\ b.heads[slot] \in DOMAIN b.nodes
            /\ b.nodes[b.heads[slot]].identity = computed[d]
            /\ b.nodes[b.heads[slot]].state = d
         \/ ~NamesBoth(c.arena, d) /\ b = c
         \/ NodeBytes(computed[d], d) > MaxBytes /\ b.nodes = << >>
<1> DEFINE p == computed[d]
           found == FindOrCreateNode(c, p, d)
           f == found[1]
           n == found[2]
           a == AssignConversationHead(f, n, slot)
<1>1. b = IF n = 0 THEN c ELSE EvictToBudget(a)
  BY DEF PublishedHead
<1>2. CASE n = 0
  BY <1>1, <1>2, RefusalMeansUnknown
<1>3. CASE n # 0
  <2>1. n \in DOMAIN f.nodes /\ Sound(f, {n}, {}) /\ Kept(f) /\ f.nodes[n].state = d
    <3>1. found # <<c, 0>>
      BY <1>3
    <3> QED BY <3>1, FindOrCreateSound, FindOrCreateKeeps
  <2>2. f.nodes[n].identity = p
    BY <1>3, FindOrCreateNames, Zenon
  <2> HIDE DEF found, f, n, p
  <2>3. Newest(a, f, n) /\ a.heads[slot] = n
    BY <2>1, AssignHeadKeeps
  <2> HIDE DEF a
  <2>4. /\ n \in DOMAIN a.nodes /\ Kept(a)
        /\ a.nodes[n].identity = p /\ a.nodes[n].state = d
        /\ \A m \in DOMAIN a.nodes \ {n} : a.nodes[m].tick < a.nodes[n].tick
    BY <2>1, <2>2, <2>3 DEF Newest
  <2> DEFINE V == Victims(a)
  <2>5. /\ EvictToBudget(a).nodes = [m \in DOMAIN a.nodes \ V |-> a.nodes[m]]
        /\ a.heads[slot] \notin V => EvictToBudget(a).heads[slot] = a.heads[slot]
        /\ n \in V => V = DOMAIN a.nodes /\ a.nodes[n].bytes > MaxBytes
    BY <2>4, EvictionLeaves
  <2> HIDE DEF V
  <2>6. b.nodes = [m \in DOMAIN a.nodes \ V |-> a.nodes[m]]
        /\ (a.heads[slot] \notin V => b.heads[slot] = a.heads[slot])
    BY <1>1, <1>3, <2>5
  <2>7. CASE n \notin V
    BY <2>3, <2>4, <2>6, <2>7 DEF p
  <2>8. CASE n \in V
    <3>1. a.nodes[n].bytes = NodeBytes(p, d)
      BY <2>4 DEF Kept, Weighed
    <3>2. b.nodes = << >>
      <4>1. DOMAIN a.nodes \ V = {}
        BY <2>5, <2>8
      <4>2. b.nodes = [m \in {} |-> a.nodes[m]]
        BY <2>6, <4>1
      <4> QED BY <4>2
    <3> QED BY <2>5, <2>8, <3>1, <3>2 DEF p
  <2> QED BY <2>7, <2>8
<1> QED BY <1>2, <1>3

\* In every state, a publication takes effect entirely or is refused for one of
\* two reasons.
THEOREM PublicationsTakeEffect == Spec => []PublicationTakesEffect
<1>1. IInv /\ CallersOK /\ BudgetInv => PublicationTakesEffect
  <2> SUFFICES ASSUME IInv, BudgetInv, NEW slot \in Slots, NEW d \in DOMAIN computed
               PROVE  LET c == PublishedHead(Now, slot, computed[d], d)
                          head == c.heads[slot]
                      IN  \/ /\ head \in DOMAIN c.nodes
                             /\ c.nodes[head].identity = computed[d]
                             /\ c.nodes[head].state = d
                          \/ ~NamesBoth(arena, d) /\ c = Now
                          \/ NodeBytes(computed[d], d) > MaxBytes /\ c.nodes = << >>
    BY DEF PublicationTakesEffect
  <2>1. Sound(Now, {}, {}) /\ Kept(Now) /\ StatesSized /\ Now.arena = arena
    BY NowSound DEF BudgetInv
  <2>2. PICK b : b = PublishedHead(Now, slot, computed[d], d)
    OBVIOUS
  <2>3. \/ /\ b.heads[slot] \in DOMAIN b.nodes
           /\ b.nodes[b.heads[slot]].identity = computed[d]
           /\ b.nodes[b.heads[slot]].state = d
        \/ ~NamesBoth(Now.arena, d) /\ b = Now
        \/ NodeBytes(computed[d], d) > MaxBytes /\ b.nodes = << >>
    BY <2>1, <2>2, PublishedTakesEffect
  <2> QED BY <2>1, <2>2, <2>3
<1> QED BY <1>1, BudgetInvariance, PTL

-----------------------------------------------------------------------------
(* References *)

\* Arena a keeps exactly k references on the allocation of h.
Half(a, h, k) ==
  IF k = 0 THEN h.id \notin DOMAIN a.allocations
  ELSE /\ h.id \in DOMAIN a.allocations
       /\ a.allocations[h.id] = [kind |-> h.kind, bytes |-> h.bytes, refs |-> k]

\* Outside the ids S, b keeps what a kept.
Elsewhere(a, b, S) ==
  /\ DOMAIN b.allocations \ S = DOMAIN a.allocations \ S
  /\ \A i \in DOMAIN a.allocations \ S : b.allocations[i] = a.allocations[i]

\* The descriptors D are valid and no two halves of them share an id.
Apart(D) ==
  /\ \A d \in D : DescriptorValid(d) /\ d.kv.id # d.mamba.id
  /\ \A d, e \in D : d # e => {d.kv.id, d.mamba.id} \cap {e.kv.id, e.mamba.id} = {}

\* Arena a keeps, on both halves of every descriptor of D, its uses.
Backed(a, D, uses) ==
  /\ uses \in [D -> Nat]
  /\ \A d \in D : Half(a, d.kv, uses[d]) /\ Half(a, d.mamba, uses[d])

LEMMA HalfElsewhere ==
  ASSUME NEW a, NEW b, NEW S, Elsewhere(a, b, S), NEW h, h.id \notin S, NEW k, Half(a, h, k)
  PROVE  Half(b, h, k)
BY DEF Elsewhere, Half

LEMMA RetainHalf ==
  ASSUME NEW a, NEW h, HandleValid(h), NEW k \in Nat, Half(a, h, k)
  PROVE  /\ k = 0 => Retain(a, h) = <<a, FALSE>>
         /\ k # 0 => LET r == Retain(a, h) IN
              r[2] = TRUE /\ Half(r[1], h, k + 1) /\ Elsewhere(a, r[1], {h.id})
<1>1. CASE k = 0
  BY <1>1 DEF Half, Retain, Names
<1>2. CASE k # 0
  <2>1. Names(a, h) /\ a.allocations[h.id].refs = k
    BY <1>2 DEF Half, Names
  <2>2. Retain(a, h) = <<WithRefs(a, h, k + 1), TRUE>>
    BY <2>1 DEF Retain
  <2>3. k + 1 # 0
    OBVIOUS
  <2>4. Half(WithRefs(a, h, k + 1), h, k + 1)
    BY <1>2, <2>3 DEF WithRefs, Arena, Half
  <2>5. Elsewhere(a, WithRefs(a, h, k + 1), {h.id})
    BY DEF WithRefs, Arena, Elsewhere
  <2> QED BY <1>2, <2>2, <2>4, <2>5
<1> QED BY <1>1, <1>2

LEMMA ReleaseHalf ==
  ASSUME NEW a, NEW h, HandleValid(h), NEW k \in Nat \ {0}, Half(a, h, k)
  PROVE  Half(Release(a, h), h, k - 1) /\ Elsewhere(a, Release(a, h), {h.id})
<1>1. Names(a, h) /\ a.allocations[h.id].refs = k
  BY DEF Half, Names
<1>2. CASE k = 1
  <2>1. Release(a, h) = Arena(a.nextId, (a.currentBytes - h.bytes) % SizeModulus,
                              [i \in DOMAIN a.allocations \ {h.id} |-> a.allocations[i]])
    BY <1>1, <1>2 DEF Release
  <2> QED BY <1>2, <2>1 DEF Arena, Half, Elsewhere
<1>3. CASE k # 1
  <2>1. Release(a, h) = WithRefs(a, h, k - 1)
    BY <1>1, <1>3 DEF Release
  <2>2. k - 1 # 0 /\ h.id \in DOMAIN a.allocations
    BY <1>1, <1>3 DEF Names
  <2>3. Half(WithRefs(a, h, k - 1), h, k - 1)
    BY <2>2 DEF WithRefs, Arena, Half
  <2>4. Elsewhere(a, WithRefs(a, h, k - 1), {h.id})
    BY DEF WithRefs, Arena, Elsewhere
  <2> QED BY <2>1, <2>3, <2>4
<1> QED BY <1>2, <1>3

LEMMA ElsewhereTwice ==
  ASSUME NEW a, NEW b, NEW c, NEW i, NEW j, Elsewhere(a, b, {i}), Elsewhere(b, c, {j})
  PROVE  Elsewhere(a, c, {i, j})
BY DEF Elsewhere

\* Both halves are retained, or, when neither is referenced, none.
LEMMA RetainBothHalves ==
  ASSUME NEW a, NEW d, DescriptorValid(d), d.kv.id # d.mamba.id, NEW k \in Nat,
         Half(a, d.kv, k), Half(a, d.mamba, k)
  PROVE  /\ k = 0 => RetainDescriptor(a, d) = <<a, FALSE>>
         /\ k # 0 => LET r == RetainDescriptor(a, d) IN
              /\ r[2] = TRUE
              /\ Half(r[1], d.kv, k + 1) /\ Half(r[1], d.mamba, k + 1)
              /\ Elsewhere(a, r[1], {d.kv.id, d.mamba.id})
<1> DEFINE kv == Retain(a, d.kv)
           mamba == Retain(kv[1], d.mamba)
<1>1. HandleValid(d.kv) /\ HandleValid(d.mamba)
  BY DEF DescriptorValid
<1>2. RetainDescriptor(a, d) = IF ~kv[2] THEN <<a, FALSE>>
                               ELSE IF ~mamba[2] THEN <<Release(mamba[1], d.kv), FALSE>>
                               ELSE mamba
  BY DEF RetainDescriptor
<1>3. k = 0 => kv = <<a, FALSE>>
  BY <1>1, RetainHalf
<1>4. k # 0 => kv[2] = TRUE /\ Half(kv[1], d.kv, k + 1) /\ Elsewhere(a, kv[1], {d.kv.id})
  BY <1>1, RetainHalf
<1> HIDE DEF kv
<1>5. k # 0 => Half(kv[1], d.mamba, k)
  BY <1>4, HalfElsewhere
<1>6. k # 0 => mamba[2] = TRUE /\ Half(mamba[1], d.mamba, k + 1)
               /\ Elsewhere(kv[1], mamba[1], {d.mamba.id})
  BY <1>1, <1>5, RetainHalf
<1> HIDE DEF mamba
<1>7. k # 0 => Half(mamba[1], d.kv, k + 1)
  BY <1>4, <1>6, HalfElsewhere
<1>8. k # 0 => Elsewhere(a, mamba[1], {d.kv.id, d.mamba.id})
  BY <1>4, <1>6, ElsewhereTwice
<1>9. k = 0 => RetainDescriptor(a, d) = <<a, FALSE>>
  <2>1. k = 0 => ~Names(a, d.kv)
    BY DEF Half, Names
  <2> QED BY <2>1 DEF RetainDescriptor, Retain
<1>10. k # 0 => RetainDescriptor(a, d) = mamba
  BY <1>2, <1>4, <1>6
<1> QED BY <1>6, <1>7, <1>8, <1>9, <1>10

LEMMA ReleaseBothHalves ==
  ASSUME NEW a, NEW d, DescriptorValid(d), d.kv.id # d.mamba.id, NEW k \in Nat \ {0},
         Half(a, d.kv, k), Half(a, d.mamba, k)
  PROVE  LET b == ReleaseDescriptor(a, d) IN
         /\ Half(b, d.kv, k - 1) /\ Half(b, d.mamba, k - 1)
         /\ Elsewhere(a, b, {d.kv.id, d.mamba.id})
<1> DEFINE kv == Release(a, d.kv)
           mamba == Release(kv, d.mamba)
<1>1. HandleValid(d.kv) /\ HandleValid(d.mamba)
  BY DEF DescriptorValid
<1>2. ReleaseDescriptor(a, d) = mamba
  BY DEF ReleaseDescriptor
<1>3. Half(kv, d.kv, k - 1) /\ Elsewhere(a, kv, {d.kv.id})
  BY <1>1, ReleaseHalf
<1> HIDE DEF kv
<1>4. Half(kv, d.mamba, k)
  BY <1>3, HalfElsewhere
<1>5. Half(mamba, d.mamba, k - 1) /\ Elsewhere(kv, mamba, {d.mamba.id})
  BY <1>1, <1>4, ReleaseHalf
<1> HIDE DEF mamba
<1>6. Half(mamba, d.kv, k - 1)
  BY <1>3, <1>5, HalfElsewhere
<1>7. Elsewhere(a, mamba, {d.kv.id, d.mamba.id})
  BY <1>3, <1>5, ElsewhereTwice
<1> QED BY <1>2, <1>5, <1>6, <1>7

\* An update of both halves of one descriptor leaves the others backed.
LEMMA OthersBacked ==
  ASSUME NEW a, NEW b, NEW D, Apart(D), NEW uses, Backed(a, D, uses), NEW d \in D, NEW k \in Nat,
         Half(b, d.kv, k), Half(b, d.mamba, k), Elsewhere(a, b, {d.kv.id, d.mamba.id})
  PROVE  Backed(b, D, [uses EXCEPT ![d] = k])
<1> DEFINE now == [uses EXCEPT ![d] = k]
<1>1. now \in [D -> Nat] /\ now[d] = k /\ \A e \in D : e # d => now[e] = uses[e]
  BY DEF Backed
<1>2. ASSUME NEW e \in D PROVE Half(b, e.kv, now[e]) /\ Half(b, e.mamba, now[e])
  <2>1. CASE e = d
    BY <1>1, <2>1
  <2>2. CASE e # d
    <3>1. e.kv.id \notin {d.kv.id, d.mamba.id} /\ e.mamba.id \notin {d.kv.id, d.mamba.id}
      BY <2>2 DEF Apart
    <3>2. Half(a, e.kv, uses[e]) /\ Half(a, e.mamba, uses[e])
      BY DEF Backed
    <3>3. Half(b, e.kv, uses[e]) /\ Half(b, e.mamba, uses[e])
      BY <3>1, <3>2, HalfElsewhere
    <3> QED BY <1>1, <2>2, <3>3
  <2> QED BY <2>1, <2>2
<1> HIDE DEF now
<1>3. Backed(b, D, now)
  BY <1>1, <1>2 DEF Backed
<1> QED BY <1>3 DEF now

LEMMA RetainBacked ==
  ASSUME NEW a, NEW D, Apart(D), NEW uses, Backed(a, D, uses), NEW d \in D
  PROVE  /\ uses[d] = 0 => RetainDescriptor(a, d) = <<a, FALSE>>
         /\ uses[d] # 0 => LET r == RetainDescriptor(a, d) IN
              r[2] = TRUE /\ Backed(r[1], D, [uses EXCEPT ![d] = uses[d] + 1])
<1>1. /\ DescriptorValid(d) /\ d.kv.id # d.mamba.id
      /\ uses[d] \in Nat /\ Half(a, d.kv, uses[d]) /\ Half(a, d.mamba, uses[d])
  BY DEF Apart, Backed
<1>2. /\ uses[d] = 0 => RetainDescriptor(a, d) = <<a, FALSE>>
      /\ uses[d] # 0 => LET r == RetainDescriptor(a, d) IN
           /\ r[2] = TRUE
           /\ Half(r[1], d.kv, uses[d] + 1) /\ Half(r[1], d.mamba, uses[d] + 1)
           /\ Elsewhere(a, r[1], {d.kv.id, d.mamba.id})
  BY <1>1, RetainBothHalves
<1>3. uses[d] + 1 \in Nat
  BY <1>1
<1> QED BY <1>2, <1>3, OthersBacked

LEMMA ReleaseBacked ==
  ASSUME NEW a, NEW D, Apart(D), NEW uses, Backed(a, D, uses), NEW d \in D, uses[d] # 0
  PROVE  Backed(ReleaseDescriptor(a, d), D, [uses EXCEPT ![d] = uses[d] - 1])
<1>1. /\ DescriptorValid(d) /\ d.kv.id # d.mamba.id
      /\ uses[d] \in Nat \ {0} /\ Half(a, d.kv, uses[d]) /\ Half(a, d.mamba, uses[d])
  BY DEF Apart, Backed
<1>2. LET b == ReleaseDescriptor(a, d) IN
         /\ Half(b, d.kv, uses[d] - 1) /\ Half(b, d.mamba, uses[d] - 1)
         /\ Elsewhere(a, b, {d.kv.id, d.mamba.id})
  BY <1>1, ReleaseBothHalves
<1>3. uses[d] - 1 \in Nat
  BY <1>1
<1> QED BY <1>2, <1>3, OthersBacked


\* Releasing each of several states takes one reference per state.
LEMMA ReleaseEachBacked ==
  ASSUME NEW a, NEW D, Apart(D), NEW uses, Backed(a, D, uses), NEW S, IsFiniteSet(S),
         NEW states \in [S -> D],
         \A d \in D : Cardinality({i \in S : states[i] = d}) <= uses[d]
  PROVE  Backed(ReleaseEach(a, states), D,
                [d \in D |-> uses[d] - Cardinality({i \in S : states[i] = d})])
<1> DEFINE of(d) == {i \in S : states[i] = d}
           kvs(id) == {i \in S : states[i].kv.id = id /\ Names(a, states[i].kv)}
           mambas(id) == {i \in S : states[i].mamba.id = id /\ Names(a, states[i].mamba)}
           drops(id) == Cardinality(kvs(id)) + Cardinality(mambas(id))
           kept == {id \in DOMAIN a.allocations : a.allocations[id].refs > drops(id)}
           b == ReleaseEach(a, states)
           now == [d \in D |-> uses[d] - Cardinality(of(d))]
<1>1. DOMAIN states = S /\ \A i \in S : states[i] \in D
  OBVIOUS
<1>2. b.allocations = [id \in kept |-> [kind  |-> a.allocations[id].kind,
                                        bytes |-> a.allocations[id].bytes,
                                        refs  |-> a.allocations[id].refs - drops(id)]]
  BY <1>1 DEF ReleaseEach, Arena
<1>3. ASSUME NEW d \in D PROVE Cardinality(of(d)) \in Nat
  BY FS_Subset, FS_CardinalityType, of(d) \in SUBSET S
<1>4. ASSUME NEW d \in D PROVE now[d] = uses[d] - Cardinality(of(d)) /\ now[d] \in Nat
  BY <1>3 DEF Backed
<1>5. ASSUME NEW d \in D, NEW h \in {d.kv, d.mamba}, uses[d] # 0
      PROVE  drops(h.id) = Cardinality(of(d))
  <2>1. /\ HandleValid(d.kv) /\ HandleValid(d.mamba) /\ d.kv.id # d.mamba.id
        /\ \A e \in D : e # d => /\ d.kv.id # e.kv.id /\ d.kv.id # e.mamba.id
                                 /\ d.mamba.id # e.kv.id /\ d.mamba.id # e.mamba.id
    BY DEF Apart, DescriptorValid
  <2>2. Names(a, d.kv) /\ Names(a, d.mamba)
    <3>1. Half(a, d.kv, uses[d]) /\ Half(a, d.mamba, uses[d])
      BY DEF Backed
    <3> QED BY ONLY <1>5, <2>1, <3>1 DEF Half, Names
  <2>3. CASE h = d.kv
    <3>1. kvs(h.id) = of(d)
      BY <1>1, <2>1, <2>2, <2>3
    <3>2. mambas(h.id) = {}
      BY <1>1, <2>1, <2>3
    <3>3. Cardinality({}) = 0
      BY FS_EmptySet
    <3> HIDE DEF of, kvs, mambas
    <3> QED BY <1>3, <3>1, <3>2, <3>3
  <2>4. CASE h = d.mamba
    <3>1. mambas(h.id) = of(d)
      BY <1>1, <2>1, <2>2, <2>4
    <3>2. kvs(h.id) = {}
      BY <1>1, <2>1, <2>4
    <3>3. Cardinality({}) = 0
      BY FS_EmptySet
    <3> HIDE DEF of, kvs, mambas
    <3> QED BY <1>3, <3>1, <3>2, <3>3
  <2> QED BY <2>3, <2>4
<1>6. ASSUME NEW d \in D, NEW h \in {d.kv, d.mamba} PROVE Half(b, h, now[d])
  <2>1. Half(a, h, uses[d]) /\ uses[d] \in Nat
    BY DEF Backed
  <2>2. CASE uses[d] = 0
    <3>1. h.id \notin DOMAIN a.allocations /\ now[d] = 0
      BY <1>3, <1>4, <2>1, <2>2 DEF Half
    <3> HIDE DEF drops, b
    <3>2. h.id \notin DOMAIN b.allocations
      BY <1>2, <3>1
    <3> QED BY <3>1, <3>2 DEF Half
  <2>3. CASE uses[d] # 0
    <3>1. drops(h.id) = Cardinality(of(d))
      BY <1>5, <2>3
    <3>2. /\ h.id \in DOMAIN a.allocations
          /\ a.allocations[h.id] = [kind |-> h.kind, bytes |-> h.bytes, refs |-> uses[d]]
      BY <2>1, <2>3 DEF Half
    <3>3. now[d] = uses[d] - Cardinality(of(d)) /\ now[d] \in Nat /\ Cardinality(of(d)) \in Nat
      BY <1>3, <1>4
    <3> HIDE DEF drops, of, now, b
    <3>4. h.id \in kept <=> now[d] # 0
      BY <2>1, <3>1, <3>2, <3>3
    <3>5. h.id \in kept => b.allocations[h.id] = [kind |-> h.kind, bytes |-> h.bytes, refs |-> now[d]]
      BY <1>2, <3>1, <3>2, <3>3
    <3>6. DOMAIN b.allocations = kept
      BY <1>2
    <3> QED BY <3>4, <3>5, <3>6 DEF Half
  <2> QED BY <2>1, <2>2, <2>3
<1>7. now \in [D -> Nat]
  BY <1>4
<1> HIDE DEF b, now
<1>8. Backed(b, D, now)
  BY <1>6, <1>7 DEF Backed
<1> QED BY <1>8 DEF b, now


\* The nodes that keep d, and the references its callers and its nodes own.
Keepers(c, d) == {n \in DOMAIN c.nodes : c.nodes[n].state = d}
Uses(c) == [d \in DOMAIN computed |-> held[d] + (IF HasArena THEN Cardinality(Keepers(c, d)) ELSE 0)]

\* The inductive statement: what each node and each caller owns is all the
\* arena keeps on what was computed.
Referenced(c) == Backed(c.arena, DOMAIN computed, Uses(c))

Callers == Apart(DOMAIN computed) /\ held \in [DOMAIN computed -> Nat]
Keeping(c) == IsFiniteSet(DOMAIN c.nodes) /\ Known(c)

LEMMA KeepersCounted ==
  ASSUME NEW c, Keeping(c), NEW d
  PROVE  IsFiniteSet(Keepers(c, d)) /\ Cardinality(Keepers(c, d)) \in Nat
<1>1. Keepers(c, d) \in SUBSET DOMAIN c.nodes /\ IsFiniteSet(DOMAIN c.nodes)
  BY DEF Keepers, Keeping
<1> QED BY <1>1, FS_Subset, FS_CardinalityType

\* Only the states the nodes keep and the arena matter.
LEMMA SameReferences ==
  ASSUME NEW c, NEW b, Keeping(c), Referenced(c), DOMAIN b.nodes = DOMAIN c.nodes,
         b.arena = c.arena, \A n \in DOMAIN c.nodes : b.nodes[n].state = c.nodes[n].state
  PROVE  Referenced(b) /\ IsFiniteSet(DOMAIN b.nodes)
<1>1. \A d : Keepers(b, d) = Keepers(c, d)
  BY DEF Keepers
<1>2. Uses(b) = Uses(c)
  BY <1>1 DEF Uses
<1> QED BY <1>2 DEF Referenced, Keeping

LEMMA RemoveNodesReferenced ==
  ASSUME Callers, NEW c, Keeping(c), Referenced(c), NEW S \in SUBSET DOMAIN c.nodes
  PROVE  /\ Referenced(RemoveNodes(c, S))
         /\ Keeping(RemoveNodes(c, S))
<1> DEFINE b == RemoveNodes(c, S)
           states == [n \in S |-> c.nodes[n].state]
           of(d) == {i \in S : states[i] = d}
           now == [d \in DOMAIN computed |-> Uses(c)[d] - Cardinality(of(d))]
<1>1. b.nodes = [n \in DOMAIN c.nodes \ S |-> c.nodes[n]]
      /\ b.arena = ReleaseStates(c.arena, states)
  BY DEF RemoveNodes, Impl
<1> HIDE DEF b
<1>2. Keeping(b)
  <2>1. IsFiniteSet(DOMAIN c.nodes \ S)
    BY FS_Subset DEF Keeping
  <2> QED BY <1>1, <2>1 DEF Keeping, Known
<1>3. ASSUME NEW d
      PROVE  /\ of(d) = Keepers(c, d) \cap S
             /\ Keepers(b, d) = Keepers(c, d) \ S
  BY <1>1 DEF Keepers
<1>4. ASSUME NEW d
      PROVE  /\ Cardinality(of(d)) \in Nat /\ Cardinality(of(d)) <= Cardinality(Keepers(c, d))
             /\ Cardinality(Keepers(b, d)) = Cardinality(Keepers(c, d)) - Cardinality(of(d))
  <2>1. IsFiniteSet(Keepers(c, d)) /\ Cardinality(Keepers(c, d)) \in Nat
    BY KeepersCounted
  <2>2. of(d) = Keepers(c, d) \cap S /\ Keepers(b, d) = Keepers(c, d) \ S
    BY <1>3
  <2> HIDE DEF of
  <2>3. of(d) \in SUBSET Keepers(c, d)
    BY <2>2
  <2>4. Cardinality(of(d)) \in Nat /\ Cardinality(of(d)) <= Cardinality(Keepers(c, d))
    BY <2>1, <2>3, FS_Subset, FS_CardinalityType
  <2>5. Cardinality(Keepers(c, d) \ S) = Cardinality(Keepers(c, d)) - Cardinality(Keepers(c, d) \cap S)
    BY <2>1, FS_Difference
  <2> QED BY <2>2, <2>4, <2>5
<1>5. CASE HasArena
  <2>1. states \in [S -> DOMAIN computed]
    BY DEF Keeping, Known
  <2>2. IsFiniteSet(S)
    BY FS_Subset DEF Keeping
  <2>3. \A d \in DOMAIN computed : Cardinality(of(d)) <= Uses(c)[d]
    <3> SUFFICES ASSUME NEW d \in DOMAIN computed PROVE Cardinality(of(d)) <= Uses(c)[d]
      OBVIOUS
    <3>1. Uses(c)[d] = held[d] + Cardinality(Keepers(c, d)) /\ held[d] \in Nat
      BY <1>5 DEF Uses, Callers
    <3>2. Cardinality(Keepers(c, d)) \in Nat
      BY KeepersCounted
    <3> HIDE DEF of
    <3> QED BY <1>4, <3>1, <3>2
  <2>4. /\ Apart(DOMAIN computed) /\ Backed(c.arena, DOMAIN computed, Uses(c))
    BY DEF Callers, Referenced
  <2> HIDE DEF states
  <2>5. Backed(ReleaseEach(c.arena, states), DOMAIN computed, now)
    <3> DEFINE D == DOMAIN computed
               u == Uses(c)
               ar == c.arena
               T == S
    <3>1. /\ Apart(D) /\ Backed(ar, D, u) /\ IsFiniteSet(T) /\ states \in [T -> D]
          /\ \A d \in D : Cardinality({i \in T : states[i] = d}) <= u[d]
      BY <2>1, <2>2, <2>3, <2>4
    <3> HIDE DEF D, u, ar, T
    <3>2. Backed(ReleaseEach(ar, states), D,
                 [d \in D |-> u[d] - Cardinality({i \in T : states[i] = d})])
      BY ONLY <3>1, ReleaseEachBacked
    <3> QED BY <3>2 DEF D, u, ar, T
  <2>6. now = Uses(b)
    <3>1. ASSUME NEW d \in DOMAIN computed
          PROVE  Uses(c)[d] - Cardinality(of(d)) = held[d] + Cardinality(Keepers(b, d))
      <4>1. Uses(c)[d] = held[d] + Cardinality(Keepers(c, d)) /\ held[d] \in Nat
        BY <1>5 DEF Uses, Callers
      <4>2. Cardinality(Keepers(c, d)) \in Nat
        BY KeepersCounted
      <4> HIDE DEF of
      <4> QED BY <1>4, <4>1, <4>2
    <3> HIDE DEF of
    <3> QED BY <1>5, <3>1 DEF Uses
  <2>7. ReleaseStates(c.arena, states) = ReleaseEach(c.arena, states)
    BY <1>5 DEF ReleaseStates
  <2> HIDE DEF now
  <2> QED BY <1>1, <1>2, <2>5, <2>6, <2>7 DEF Referenced, b
<1>6. CASE ~HasArena
  <2>1. Uses(b) = Uses(c)
    BY <1>6 DEF Uses
  <2>2. b.arena = c.arena
    BY <1>1, <1>6 DEF ReleaseStates
  <2> QED BY <1>2, <2>1, <2>2 DEF Referenced, b
<1> QED BY <1>5, <1>6

LEMMA TouchReferenced ==
  ASSUME NEW c, Keeping(c), Referenced(c), NEW n \in DOMAIN c.nodes
  PROVE  Referenced(Touch(c, n)) /\ Keeping(Touch(c, n))
<1> DEFINE b == Touch(c, n)
<1>1. /\ DOMAIN b.nodes = DOMAIN c.nodes /\ b.arena = c.arena
      /\ \A m \in DOMAIN c.nodes : /\ b.nodes[m].state = c.nodes[m].state
                                   /\ b.nodes[m].identity = c.nodes[m].identity
  BY DEF Touch, Impl, Put, PrefixNode
<1> HIDE DEF b
<1>2. Referenced(b) /\ IsFiniteSet(DOMAIN b.nodes)
  BY <1>1, SameReferences
<1>3. Known(b)
  BY <1>1 DEF Keeping, Known
<1> QED BY <1>2, <1>3 DEF Keeping, b

LEMMA ResetReferenced ==
  ASSUME Callers, NEW c, Keeping(c), Referenced(c)
  PROVE  Referenced(ResetImpl(c))
<1> DEFINE all == DOMAIN c.nodes
           r == RemoveNodes(c, all)
           b == ResetImpl(c)
<1>1. all \in SUBSET DOMAIN c.nodes
  OBVIOUS
<1>2. DOMAIN r.nodes = {} /\ DOMAIN b.nodes = {} /\ b.arena = r.arena
  BY DEF RemoveNodes, ResetImpl, Impl
<1> HIDE DEF all
<1>3. Referenced(r) /\ Keeping(r)
  BY <1>1, RemoveNodesReferenced
<1> HIDE DEF r, b
<1> QED BY <1>2, <1>3, SameReferences DEF b


LEMMA RefusedIsFalse ==
  ASSUME NEW a, NEW D, Apart(D), NEW uses, Backed(a, D, uses), NEW d \in D, uses[d] = 0
  PROVE  ~RetainDescriptor(a, d)[2]
<1>1. RetainDescriptor(a, d) = <<a, FALSE>>
  BY RetainBacked
<1>2. <<a, FALSE>>[2] = FALSE
  OBVIOUS
<1>3. RetainDescriptor(a, d)[2] = FALSE
  BY <1>1, <1>2, Zenon
<1> QED BY <1>3, Zenon

\* One more node that keeps d.
LEMMA OneMoreKeeper ==
  ASSUME Callers, NEW c, Keeping(c), NEW b, NEW d \in DOMAIN computed, NEW n,
         n \notin DOMAIN c.nodes, DOMAIN b.nodes = DOMAIN c.nodes \cup {n}, b.nodes[n].state = d,
         \A m \in DOMAIN c.nodes : b.nodes[m].state = c.nodes[m].state
  PROVE  /\ HasArena => Uses(b) = [Uses(c) EXCEPT ![d] = Uses(c)[d] + 1]
         /\ ~HasArena => Uses(b) = Uses(c)
<1>1. /\ Keepers(b, d) = Keepers(c, d) \cup {n} /\ n \notin Keepers(c, d)
      /\ \A e : e # d => Keepers(b, e) = Keepers(c, e)
  BY DEF Keepers
<1>2. Cardinality(Keepers(c, d)) \in Nat /\ Cardinality(Keepers(b, d)) = Cardinality(Keepers(c, d)) + 1
  <2>1. IsFiniteSet(Keepers(c, d)) /\ Cardinality(Keepers(c, d)) \in Nat
    BY KeepersCounted
  <2>2. Cardinality(Keepers(c, d) \cup {n}) = Cardinality(Keepers(c, d)) + 1
    BY ONLY <1>1, <2>1, FS_AddElement
  <2> QED BY <1>1, <2>1, <2>2
<1>3. held[d] \in Nat
  BY DEF Callers
<1>4. ASSUME HasArena PROVE Uses(b) = [Uses(c) EXCEPT ![d] = Uses(c)[d] + 1]
  <2>1. Uses(b)[d] = Uses(c)[d] + 1
    BY <1>2, <1>3, <1>4 DEF Uses
  <2>2. \A e \in DOMAIN computed : e # d => Uses(b)[e] = Uses(c)[e]
    BY <1>1 DEF Uses
  <2>3. /\ Uses(b) = [e \in DOMAIN computed |-> Uses(b)[e]]
        /\ Uses(c) = [e \in DOMAIN computed |-> Uses(c)[e]]
    BY DEF Uses
  <2> QED BY <2>1, <2>2, <2>3
<1>5. ~HasArena => Uses(b) = Uses(c)
  BY DEF Uses
<1> QED BY <1>4, <1>5

LEMMA CreateReferenced ==
  ASSUME Callers, NEW c, Sound(c, {}, {}), Keeping(c), Referenced(c), NEW d \in DOMAIN computed, NEW p
  PROVE  LET found == Create(c, p, d) IN found = <<c, 0>> \/ Referenced(found[1])
<1> DEFINE retained == RetainState(c.arena, d)
           node == PrefixNode(p, d, FALSE, {}, c.tick, NodeBytes(p, d))
           b == Impl(Put(c.nodes, c.next, node), c.index \cup {<<Fingerprint(p), c.next>>}, c.heads,
                     c.bytes + node.bytes, c.tick + 1, c.next + 1, retained[1])
<1>1. Create(c, p, d) = IF ~retained[2] THEN <<c, 0>> ELSE <<b, c.next>>
  BY DEF Create
<1>2. /\ DOMAIN b.nodes = DOMAIN c.nodes \cup {c.next} /\ b.nodes[c.next].state = d
      /\ \A m \in DOMAIN c.nodes : m # c.next => b.nodes[m].state = c.nodes[m].state
      /\ b.arena = retained[1]
  BY DEF Impl, Put, PrefixNode
<1>3. c.next \notin DOMAIN c.nodes
  BY DEF Sound, Indexed
<1> HIDE DEF b
<1>4. /\ HasArena => Uses(b) = [Uses(c) EXCEPT ![d] = Uses(c)[d] + 1]
      /\ ~HasArena => Uses(b) = Uses(c)
  BY <1>2, <1>3, OneMoreKeeper
<1>5. Apart(DOMAIN computed) /\ Backed(c.arena, DOMAIN computed, Uses(c))
  BY DEF Callers, Referenced
<1>6. CASE HasArena /\ Uses(c)[d] = 0
  <2>1. ~RetainDescriptor(c.arena, d)[2]
    BY <1>5, <1>6, RefusedIsFalse
  <2>2. Create(c, p, d) = <<c, 0>>
    BY <1>1, <1>6, <2>1 DEF RetainState
  <2> QED BY <2>2
<1>7. CASE HasArena /\ Uses(c)[d] # 0
  <2>1. Backed(RetainDescriptor(c.arena, d)[1], DOMAIN computed, [Uses(c) EXCEPT ![d] = Uses(c)[d] + 1])
    BY <1>5, <1>7, RetainBacked
  <2>2. b.arena = RetainDescriptor(c.arena, d)[1]
    BY <1>2, <1>7 DEF RetainState
  <2>3. Referenced(b)
    BY <1>4, <1>7, <2>1, <2>2 DEF Referenced
  <2> QED BY <1>1, <2>3
<1>8. CASE ~HasArena
  <2>1. b.arena = c.arena
    BY <1>2, <1>8 DEF RetainState
  <2>2. Referenced(b)
    BY <1>4, <1>8, <2>1 DEF Referenced
  <2> QED BY <1>1, <2>2
<1> QED BY <1>6, <1>7, <1>8

\* A node that keeps d in place of o.
LEMMA ReplacedKeeper ==
  ASSUME Callers, NEW c, Keeping(c), NEW b, NEW d \in DOMAIN computed, NEW n \in DOMAIN c.nodes,
         NEW o \in DOMAIN computed, c.nodes[n].state = o, o # d, DOMAIN b.nodes = DOMAIN c.nodes,
         b.nodes[n].state = d, \A m \in DOMAIN c.nodes \ {n} : b.nodes[m].state = c.nodes[m].state
  PROVE  /\ HasArena => /\ Uses(c)[o] # 0
                        /\ Uses(b) = [e \in DOMAIN computed |->
                                        IF e = d THEN Uses(c)[e] + 1
                                        ELSE IF e = o THEN Uses(c)[e] - 1 ELSE Uses(c)[e]]
         /\ ~HasArena => Uses(b) = Uses(c)
<1>1. /\ Keepers(b, d) = Keepers(c, d) \cup {n} /\ n \notin Keepers(c, d)
      /\ Keepers(b, o) = Keepers(c, o) \ {n} /\ n \in Keepers(c, o)
      /\ \A e : e # d /\ e # o => Keepers(b, e) = Keepers(c, e)
  BY DEF Keepers
<1>2. Cardinality(Keepers(c, d)) \in Nat /\ Cardinality(Keepers(b, d)) = Cardinality(Keepers(c, d)) + 1
  <2>1. IsFiniteSet(Keepers(c, d)) /\ Cardinality(Keepers(c, d)) \in Nat
    BY KeepersCounted
  <2>2. Cardinality(Keepers(c, d) \cup {n}) = Cardinality(Keepers(c, d)) + 1
    BY ONLY <1>1, <2>1, FS_AddElement
  <2> QED BY <1>1, <2>1, <2>2
<1>3. IsFiniteSet(Keepers(c, o)) /\ Cardinality(Keepers(c, o)) \in Nat
  BY KeepersCounted
<1>4. Cardinality(Keepers(b, o)) = Cardinality(Keepers(c, o)) - 1 /\ Cardinality(Keepers(c, o)) # 0
  <2>1. Cardinality(Keepers(c, o) \ {n}) = Cardinality(Keepers(c, o)) - 1
    BY ONLY <1>1, <1>3, FS_RemoveElement
  <2>2. Cardinality(Keepers(c, o)) # 0
    BY ONLY <1>1, <1>3, FS_EmptySet
  <2> QED BY <1>1, <2>1, <2>2
<1>5. held[d] \in Nat /\ held[o] \in Nat
  BY DEF Callers
<1>6. ASSUME HasArena
      PROVE  /\ Uses(c)[o] # 0
             /\ \A e \in DOMAIN computed :
                  Uses(b)[e] = IF e = d THEN Uses(c)[e] + 1
                               ELSE IF e = o THEN Uses(c)[e] - 1 ELSE Uses(c)[e]
  <2>1. Uses(b)[d] = Uses(c)[d] + 1
    BY <1>2, <1>5, <1>6 DEF Uses
  <2>2. Uses(b)[o] = Uses(c)[o] - 1 /\ Uses(c)[o] # 0
    BY <1>3, <1>4, <1>5, <1>6 DEF Uses
  <2>3. \A e \in DOMAIN computed : e # d /\ e # o => Uses(b)[e] = Uses(c)[e]
    BY <1>1 DEF Uses
  <2> QED BY <2>1, <2>2, <2>3
<1>7. ~HasArena => Uses(b) = Uses(c)
  BY DEF Uses
<1>8. Uses(b) = [e \in DOMAIN computed |-> Uses(b)[e]]
  BY DEF Uses
<1> QED BY <1>6, <1>7, <1>8

LEMMA RefreshReferenced ==
  ASSUME Callers, NEW c, Keeping(c), Referenced(c), NEW d \in DOMAIN computed,
         NEW n \in DOMAIN c.nodes
  PROVE  LET found == Refresh(c, n, d) IN found = <<c, 0>> \/ Referenced(found[1])
<1> DEFINE old == c.nodes[n]
           o == old.state
           retained == RetainState(c.arena, d)
           bytes == NodeBytes(old.identity, d)
           b == Impl(Put(c.nodes, n, PrefixNode(old.identity, d, old.root, old.slots, old.tick, bytes)),
                     c.index, c.heads, c.bytes - old.bytes + bytes, c.tick, c.next,
                     ReleaseStates(retained[1], [i \in {n} |-> o]))
<1>1. Refresh(c, n, d) = IF o = d THEN <<Touch(c, n), n>>
                         ELSE IF retained[2] THEN <<Touch(b, n), n>> ELSE <<c, 0>>
  BY DEF Refresh
<1>2. CASE o = d
  <2>1. Referenced(Touch(c, n))
    BY TouchReferenced
  <2> QED BY <1>1, <1>2, <2>1
<1>3. CASE o # d
  <2>1. /\ DOMAIN b.nodes = DOMAIN c.nodes /\ b.nodes[n].state = d
        /\ \A m \in DOMAIN c.nodes \ {n} : b.nodes[m] = c.nodes[m]
        /\ b.arena = ReleaseStates(retained[1], [i \in {n} |-> o])
    BY DEF Impl, Put, PrefixNode
  <2>2. Touch(b, n).arena = b.arena /\ DOMAIN Touch(b, n).nodes = DOMAIN b.nodes
        /\ \A m \in DOMAIN b.nodes : Touch(b, n).nodes[m].state = b.nodes[m].state
    BY <2>1 DEF Touch, Impl, Put, PrefixNode
  <2> HIDE DEF b
  <2>3. o \in DOMAIN computed
    BY DEF Keeping, Known
  <2>4. c.nodes[n].state = o
    OBVIOUS
  <2> HIDE DEF o
  <2>5. /\ HasArena => /\ Uses(c)[o] # 0
                       /\ Uses(b) = [e \in DOMAIN computed |->
                                       IF e = d THEN Uses(c)[e] + 1
                                       ELSE IF e = o THEN Uses(c)[e] - 1 ELSE Uses(c)[e]]
        /\ ~HasArena => Uses(b) = Uses(c)
    BY <1>3, <2>1, <2>3, <2>4, ReplacedKeeper
  <2>6. Uses(Touch(b, n)) = Uses(b)
    <3>1. \A e : Keepers(Touch(b, n), e) = Keepers(b, e)
      BY <2>2 DEF Keepers
    <3> QED BY <3>1 DEF Uses
  <2>7. Apart(DOMAIN computed) /\ Backed(c.arena, DOMAIN computed, Uses(c))
    BY DEF Callers, Referenced
  <2>8. CASE HasArena /\ Uses(c)[d] = 0
    <3>1. ~RetainDescriptor(c.arena, d)[2]
      BY <2>7, <2>8, RefusedIsFalse
    <3>2. Refresh(c, n, d) = <<c, 0>>
      BY <1>1, <1>3, <2>8, <3>1 DEF RetainState
    <3> QED BY <3>2
  <2>9. CASE HasArena /\ Uses(c)[d] # 0
    <3> DEFINE a == RetainDescriptor(c.arena, d)[1]
               more == [Uses(c) EXCEPT ![d] = Uses(c)[d] + 1]
               one == {n}
               states == [i \in one |-> o]
               of(e) == {i \in one : states[i] = e}
    <3>1. Backed(a, DOMAIN computed, more)
      BY <2>7, <2>9, RetainBacked
    <3>2. IsFiniteSet(one) /\ states \in [one -> DOMAIN computed]
      BY <2>3, FS_Singleton
    <3>3. \A e : of(e) = IF e = o THEN {n} ELSE {}
      OBVIOUS
    <3>4. \A e : Cardinality(of(e)) = IF e = o THEN 1 ELSE 0
      <4>1. Cardinality({n}) = 1 /\ Cardinality({}) = 0
        BY FS_Singleton, FS_EmptySet
      <4> HIDE DEF of
      <4> QED BY <3>3, <4>1
    <3>5. /\ Uses(c) \in [DOMAIN computed -> Nat]
          /\ more[o] = Uses(c)[o] /\ more[d] = Uses(c)[d] + 1
          /\ \A e \in DOMAIN computed : more[e] \in Nat /\ (e # d => more[e] = Uses(c)[e])
      BY <1>3, <2>3, <2>7 DEF Backed
    <3>6. \A e \in DOMAIN computed : Cardinality(of(e)) <= more[e]
      <4> HIDE DEF of, more
      <4> QED BY <2>5, <2>9, <3>4, <3>5
    <3> HIDE DEF more, states, one, a
    <3>7. Backed(ReleaseEach(a, states), DOMAIN computed,
                 [e \in DOMAIN computed |-> more[e] - Cardinality(of(e))])
      <4> DEFINE D == DOMAIN computed
      <4>1. /\ Apart(D) /\ Backed(a, D, more) /\ IsFiniteSet(one) /\ states \in [one -> D]
            /\ \A e \in D : Cardinality({i \in one : states[i] = e}) <= more[e]
        BY <2>7, <3>1, <3>2, <3>6
      <4> HIDE DEF D
      <4>2. Backed(ReleaseEach(a, states), D,
                   [e \in D |-> more[e] - Cardinality({i \in one : states[i] = e})])
        BY ONLY <4>1, ReleaseEachBacked
      <4> QED BY <4>2 DEF D
    <3>8. [e \in DOMAIN computed |-> more[e] - Cardinality(of(e))] = Uses(b)
      <4> HIDE DEF of
      <4>1. \A e \in DOMAIN computed :
              more[e] - Cardinality(of(e)) = IF e = d THEN Uses(c)[e] + 1
                                             ELSE IF e = o THEN Uses(c)[e] - 1 ELSE Uses(c)[e]
        BY <1>3, <3>4, <3>5
      <4> QED BY <2>5, <2>9, <4>1
    <3>9. b.arena = ReleaseEach(a, states)
      BY <2>1, <2>9 DEF RetainState, ReleaseStates, a, states, one
    <3>10. Referenced(Touch(b, n))
      BY <2>2, <2>6, <3>7, <3>8, <3>9 DEF Referenced
    <3> QED BY <1>1, <1>3, <3>10
  <2>10. CASE ~HasArena
    <3>1. b.arena = c.arena
      BY <2>1, <2>10 DEF RetainState, ReleaseStates
    <3>2. Referenced(Touch(b, n))
      BY <2>2, <2>5, <2>6, <2>10, <3>1 DEF Referenced
    <3> QED BY <1>1, <1>3, <3>2
  <2> QED BY <2>8, <2>9, <2>10
<1> QED BY <1>2, <1>3


LEMMA KeptKeeping ==
  ASSUME NEW c, NEW loose, NEW open, Sound(c, loose, open), Kept(c)
  PROVE  Keeping(c)
BY DEF Sound, Kept, Weighed, Counted, Keeping

LEMMA FindOrCreateReferenced ==
  ASSUME Callers, NEW c, Sound(c, {}, {}), Kept(c), StatesSized, Referenced(c), NEW d \in DOMAIN computed
  PROVE  LET found == FindOrCreateNode(c, computed[d], d) IN
         \/ found[2] = 0
         \/ Referenced(found[1]) /\ Keeping(found[1])
<1> DEFINE p == computed[d]
           found == FindOrCreateNode(c, p, d)
           twin == CHOOSE n \in Twins(c, p) : TRUE
<1>1. Keeping(c)
  BY KeptKeeping
<1>2. found = <<c, 0>> \/ Referenced(found[1])
  <2>1. CASE Twins(c, p) = {}
    <3>1. found = Create(c, p, d)
      BY <2>1 DEF FindOrCreateNode
    <3>2. Create(c, p, d) = <<c, 0>> \/ Referenced(Create(c, p, d)[1])
      BY <1>1, CreateReferenced
    <3> HIDE DEF found
    <3> QED BY <3>1, <3>2
  <2>2. CASE Twins(c, p) # {}
    <3>1. found = Refresh(c, twin, d)
      BY <2>2 DEF FindOrCreateNode
    <3>2. twin \in DOMAIN c.nodes
      BY <2>2 DEF Twins
    <3> HIDE DEF twin
    <3>3. Refresh(c, twin, d) = <<c, 0>> \/ Referenced(Refresh(c, twin, d)[1])
      BY <1>1, <3>2, RefreshReferenced
    <3> HIDE DEF found
    <3> QED BY <3>1, <3>3
  <2> QED BY <2>1, <2>2
<1>3. found[2] = 0 \/ Sound(found[1], {found[2]}, {})
  BY FindOrCreateSound
<1>4. found[2] = 0 \/ Kept(found[1])
  BY FindOrCreateKeeps
<1> HIDE DEF found
<1>5. found = <<c, 0>> => found[2] = 0
  OBVIOUS
<1> QED BY <1>2, <1>3, <1>4, <1>5, KeptKeeping DEF found

LEMMA AssignHeadReferenced ==
  ASSUME Callers, NEW c, NEW n \in DOMAIN c.nodes, Sound(c, {n}, {}), Keeping(c), Referenced(c),
         NEW slot \in Slots
  PROVE  Referenced(AssignConversationHead(c, n, slot))
<1> DEFINE old == c.heads[slot]
           freed == IF old \in {0, n} THEN c ELSE RemoveConversationRole(c, old, slot)
           node == WithRoles(freed.nodes[n], freed.nodes[n].root,
                             freed.nodes[n].slots \cup {slot})
           e == Impl(Put(freed.nodes, n, node), freed.index,
                     [freed.heads EXCEPT ![slot] = n],
                     freed.bytes, freed.tick, freed.next, freed.arena)
<1>1. AssignConversationHead(c, n, slot) = Touch(e, n)
  BY DEF AssignConversationHead
<1>2. Referenced(freed) /\ Keeping(freed) /\ n \in DOMAIN freed.nodes
  <2>1. CASE old \in {0, n}
    <3>1. freed = c
      BY <2>1
    <3> HIDE DEF freed
    <3> QED BY <3>1
  <2>2. CASE old \notin {0, n}
    <3> DEFINE bare == WithRoles(c.nodes[old], c.nodes[old].root,
                                 c.nodes[old].slots \ {slot})
               stripped == Impl(Put(c.nodes, old, bare), c.index, c.heads, c.bytes,
                                c.tick, c.next, c.arena)
               without == RemoveNodes(stripped, {old})
    <3>1. old \in DOMAIN c.nodes /\ old # n
      BY <2>2 DEF Sound, Linked
    <3>2. freed = stripped \/ freed = without
      BY <2>2, <3>1 DEF RemoveConversationRole
    <3>3. /\ DOMAIN stripped.nodes = DOMAIN c.nodes /\ stripped.arena = c.arena
          /\ \A m \in DOMAIN c.nodes : /\ stripped.nodes[m].state = c.nodes[m].state
                                       /\ stripped.nodes[m].identity = c.nodes[m].identity
      BY <3>1 DEF Impl, Put, WithRoles, PrefixNode
    <3>4. DOMAIN without.nodes = DOMAIN stripped.nodes \ {old}
      BY DEF RemoveNodes, Impl
    <3> HIDE DEF stripped, freed
    <3>5. Referenced(stripped) /\ Keeping(stripped)
      <4>1. Referenced(stripped) /\ IsFiniteSet(DOMAIN stripped.nodes)
        BY <3>3, SameReferences
      <4> QED BY <3>3, <4>1 DEF Keeping, Known
    <3>6. {old} \in SUBSET DOMAIN stripped.nodes
      BY <3>1, <3>3
    <3> HIDE DEF old
    <3>7. Referenced(without) /\ Keeping(without)
      BY <3>5, <3>6, RemoveNodesReferenced
    <3> HIDE DEF without
    <3> QED BY <3>1, <3>2, <3>3, <3>4, <3>5, <3>7
  <2> QED BY <2>1, <2>2
<1> HIDE DEF freed
<1>3. /\ DOMAIN e.nodes = DOMAIN freed.nodes /\ e.arena = freed.arena
      /\ \A m \in DOMAIN freed.nodes : /\ e.nodes[m].state = freed.nodes[m].state
                                       /\ e.nodes[m].identity = freed.nodes[m].identity
  BY <1>2 DEF Impl, Put, WithRoles, PrefixNode
<1> HIDE DEF e
<1>4. Referenced(e) /\ IsFiniteSet(DOMAIN e.nodes)
  BY <1>2, <1>3, SameReferences
<1>5. Keeping(e) /\ n \in DOMAIN e.nodes
  BY <1>2, <1>3, <1>4 DEF Keeping, Known
<1> QED BY <1>1, <1>4, <1>5, TouchReferenced

LEMMA AssignRootReferenced ==
  ASSUME NEW c, NEW n \in DOMAIN c.nodes, Keeping(c), Referenced(c)
  PROVE  Referenced(AssignGlobalRoot(c, n))
<1> DEFINE e == Impl(Put(c.nodes, n, WithRoles(c.nodes[n], TRUE, c.nodes[n].slots)),
                     c.index, c.heads, c.bytes, c.tick, c.next, c.arena)
<1>1. AssignGlobalRoot(c, n) = Touch(e, n)
  BY DEF AssignGlobalRoot
<1>2. /\ DOMAIN e.nodes = DOMAIN c.nodes /\ e.arena = c.arena
      /\ \A m \in DOMAIN c.nodes : /\ e.nodes[m].state = c.nodes[m].state
                                   /\ e.nodes[m].identity = c.nodes[m].identity
  BY DEF Impl, Put, WithRoles, PrefixNode
<1> HIDE DEF e
<1>3. Referenced(e) /\ IsFiniteSet(DOMAIN e.nodes)
  BY <1>2, SameReferences
<1>4. Keeping(e) /\ n \in DOMAIN e.nodes
  BY <1>2, <1>3 DEF Keeping, Known
<1> QED BY <1>1, <1>3, <1>4, TouchReferenced

LEMMA EvictToBudgetReferenced ==
  ASSUME Callers, NEW c, Keeping(c), Referenced(c)
  PROVE  Referenced(EvictToBudget(c))
<1> DEFINE gone == Victims(c)
<1>1. gone \in SUBSET DOMAIN c.nodes
  BY DEF Victims
<1> HIDE DEF gone
<1>2. Referenced(RemoveNodes(c, gone))
  BY <1>1, RemoveNodesReferenced
<1> QED BY <1>2 DEF EvictToBudget, gone

LEMMA PublishedReferenced ==
  ASSUME Callers, NEW c, Sound(c, {}, {}), Kept(c), StatesSized, Referenced(c), NEW d \in DOMAIN computed
  PROVE  /\ \A slot \in Slots : Referenced(PublishedHead(c, slot, computed[d], d))
         /\ Referenced(PublishedRoot(c, computed[d], d))
<1> DEFINE found == FindOrCreateNode(c, computed[d], d)
           f == found[1]
           n == found[2]
<1>1. n = 0 \/ (n \in DOMAIN f.nodes /\ Sound(f, {n}, {}))
  BY FindOrCreateSound
<1>2. n = 0 \/ Kept(f)
  BY FindOrCreateKeeps
<1>3. n = 0 \/ (Referenced(f) /\ Keeping(f))
  BY FindOrCreateReferenced
<1>4. ASSUME NEW slot \in Slots PROVE Referenced(PublishedHead(c, slot, computed[d], d))
  <2> DEFINE a == AssignConversationHead(f, n, slot)
  <2>1. PublishedHead(c, slot, computed[d], d) = IF n = 0 THEN c ELSE EvictToBudget(a)
    BY DEF PublishedHead
  <2> HIDE DEF found, f, n
  <2>2. n # 0 => Referenced(a) /\ Sound(a, {}, {}) /\ Kept(a)
    BY <1>1, <1>2, <1>3, AssignHeadReferenced, AssignConversationHeadSound, AssignHeadKeeps DEF Newest
  <2> HIDE DEF a
  <2>3. n # 0 => Referenced(EvictToBudget(a))
    BY <2>2, KeptKeeping, EvictToBudgetReferenced
  <2> QED BY <2>1, <2>3
<1>5. Referenced(PublishedRoot(c, computed[d], d))
  <2> DEFINE a == AssignGlobalRoot(f, n)
  <2>1. PublishedRoot(c, computed[d], d) = IF n = 0 THEN c ELSE EvictToBudget(a)
    BY DEF PublishedRoot
  <2> HIDE DEF found, f, n
  <2>2. n # 0 => Referenced(a) /\ Sound(a, {}, {}) /\ Kept(a)
    BY <1>1, <1>2, <1>3, AssignRootReferenced, AssignGlobalRootSound, AssignRootKeeps DEF Newest
  <2> HIDE DEF a
  <2>3. n # 0 => Referenced(EvictToBudget(a))
    BY <2>2, KeptKeeping, EvictToBudgetReferenced
  <2> QED BY <2>1, <2>3
<1> QED BY <1>4, <1>5


\* The third inductive invariant: ids are issued once to both halves, and what
\* the arena keeps on a computed state is what callers and nodes own.
RefInv ==
  /\ arena.nextId \in Nat \ {0}
  /\ \A d \in DOMAIN computed : /\ d.kv.id \in Nat /\ d.kv.id < arena.nextId
                                /\ d.mamba.id \in Nat /\ d.mamba.id < arena.nextId
  /\ Apart(DOMAIN computed)
  /\ Referenced(Now)

\* An allocation issues one id, or none.
LEMMA AllocateHalf ==
  ASSUME NEW a, a.nextId \in Nat \ {0}, NEW kind, NEW bytes
  PROVE  LET r == Allocate(a, kind, bytes) IN
         \/ r = <<a, NoHandle>> /\ ~HandleValid(r[2])
         \/ /\ HandleValid(r[2]) /\ r[2].id = a.nextId /\ r[1].nextId = a.nextId + 1
            /\ Half(r[1], r[2], 1) /\ Elsewhere(a, r[1], {a.nextId})
<1> DEFINE b == Arena(a.nextId + 1, (a.currentBytes + bytes) % SizeModulus,
                      [i \in DOMAIN a.allocations \cup {a.nextId} |->
                         IF i = a.nextId THEN [kind |-> kind, bytes |-> bytes, refs |-> 1]
                                         ELSE a.allocations[i]])
           h == [id |-> a.nextId, kind |-> kind, bytes |-> bytes]
<1>1. CASE ~Admits(a, bytes)
  <2>1. Allocate(a, kind, bytes) = <<a, NoHandle>>
    BY <1>1 DEF Allocate
  <2>2. ~HandleValid(NoHandle)
    BY DEF HandleValid, NoHandle
  <2> QED BY <2>1, <2>2
<1>2. CASE Admits(a, bytes)
  <2>1. Allocate(a, kind, bytes) = <<b, h>>
    BY <1>2 DEF Allocate
  <2>2. HandleValid(h) /\ h.id = a.nextId
    BY <1>2 DEF HandleValid, Admits
  <2>3. b.nextId = a.nextId + 1 /\ Half(b, h, 1) /\ Elsewhere(a, b, {a.nextId})
    BY DEF Half, Elsewhere, Arena
  <2> HIDE DEF b, h
  <2> QED BY <2>1, <2>2, <2>3
<1> QED BY <1>1, <1>2

\* A granted descriptor has one reference on each half; a refused one leaves
\* everything issued before as it was.
LEMMA AllocateBothHalves ==
  ASSUME NEW a, a.nextId \in Nat \ {0}, NEW kvBytes, NEW mambaBytes
  PROVE  LET r == AllocateDescriptor(a, kvBytes, mambaBytes) IN
         /\ Elsewhere(a, r[1], {a.nextId, a.nextId + 1})
         /\ r[2] # NoDescriptor =>
              /\ DescriptorValid(r[2])
              /\ r[2].kv.id = a.nextId /\ r[2].mamba.id = a.nextId + 1
              /\ r[1].nextId = a.nextId + 2
              /\ Half(r[1], r[2].kv, 1) /\ Half(r[1], r[2].mamba, 1)
<1> DEFINE kv == Allocate(a, "kv", kvBytes)
           mamba == Allocate(kv[1], "mamba", mambaBytes)
           back == Release(mamba[1], kv[2])
           r == AllocateDescriptor(a, kvBytes, mambaBytes)
<1>1. r = IF ~HandleValid(kv[2]) THEN <<kv[1], NoDescriptor>>
          ELSE IF ~HandleValid(mamba[2]) THEN <<back, NoDescriptor>>
          ELSE <<mamba[1], [kv |-> kv[2], mamba |-> mamba[2]]>>
  BY DEF AllocateDescriptor
<1>2. \/ kv = <<a, NoHandle>> /\ ~HandleValid(kv[2])
      \/ /\ HandleValid(kv[2]) /\ kv[2].id = a.nextId /\ kv[1].nextId = a.nextId + 1
         /\ Half(kv[1], kv[2], 1) /\ Elsewhere(a, kv[1], {a.nextId})
  BY AllocateHalf
<1> HIDE DEF r
<1>3. CASE ~HandleValid(kv[2])
  <2>1. r = <<a, NoDescriptor>>
    BY <1>1, <1>2, <1>3
  <2>2. Elsewhere(a, a, {a.nextId, a.nextId + 1})
    BY DEF Elsewhere
  <2> QED BY <2>1, <2>2 DEF r
<1>4. CASE HandleValid(kv[2])
  <2> HIDE DEF kv
  <2>1. kv[1].nextId \in Nat \ {0} /\ kv[1].nextId = a.nextId + 1
    BY <1>2, <1>4
  <2>2. \/ mamba = <<kv[1], NoHandle>> /\ ~HandleValid(mamba[2])
        \/ /\ HandleValid(mamba[2]) /\ mamba[2].id = kv[1].nextId
           /\ mamba[1].nextId = kv[1].nextId + 1
           /\ Half(mamba[1], mamba[2], 1) /\ Elsewhere(kv[1], mamba[1], {kv[1].nextId})
    BY ONLY <2>1, AllocateHalf
  <2> HIDE DEF mamba
  <2>3. CASE ~HandleValid(mamba[2])
    <3>1. r = <<back, NoDescriptor>> /\ mamba[1] = kv[1]
      BY <1>1, <1>4, <2>2, <2>3
    <3>2. Half(kv[1], kv[2], 1) /\ Elsewhere(a, kv[1], {a.nextId}) /\ kv[2].id = a.nextId
      BY <1>2, <1>4
    <3>3. Elsewhere(kv[1], Release(kv[1], kv[2]), {kv[2].id})
      BY <1>4, <3>2, ReleaseHalf
    <3>4. Elsewhere(a, back, {a.nextId, a.nextId + 1})
      BY <3>1, <3>2, <3>3 DEF Elsewhere
    <3> HIDE DEF back
    <3> QED BY <3>1, <3>4 DEF r
  <2>4. CASE HandleValid(mamba[2])
    <3>1. r = <<mamba[1], [kv |-> kv[2], mamba |-> mamba[2]]>>
      BY <1>1, <1>4, <2>4
    <3>2. Half(mamba[1], kv[2], 1)
      BY <1>2, <1>4, <2>1, <2>2, <2>4, HalfElsewhere
    <3>3. Elsewhere(a, mamba[1], {a.nextId, a.nextId + 1})
      BY <1>2, <1>4, <2>1, <2>2, <2>4, ElsewhereTwice
    <3>4. DescriptorValid([kv |-> kv[2], mamba |-> mamba[2]])
      BY <1>4, <2>4 DEF DescriptorValid
    <3> QED BY <1>2, <1>4, <2>1, <2>2, <2>4, <3>1, <3>2, <3>3, <3>4 DEF r
  <2> QED BY <2>3, <2>4
<1> QED BY <1>3, <1>4

LEMMA InitRefInv == Init => RefInv
<1> SUFFICES ASSUME Init PROVE RefInv
  OBVIOUS
<1>1. DOMAIN computed = {} /\ arena.nextId = 1
  BY DEF Init, EmptyArena, Arena
<1>2. Apart(DOMAIN computed)
  BY <1>1 DEF Apart
<1>3. Uses(Now) \in [DOMAIN computed -> Nat]
  BY <1>1 DEF Uses
<1> QED BY <1>1, <1>2, <1>3 DEF RefInv, Referenced, Backed


\* The references owned after a step.
UsesNext == [d \in DOMAIN computed' |->
               held'[d] + (IF HasArena THEN Cardinality({n \in DOMAIN nodes' : nodes'[n].state = d})
                           ELSE 0)]

LEMMA ReferencedNext == Referenced(Now)' <=> Backed(arena', DOMAIN computed', UsesNext)
<1>1. Now.arena' = arena' /\ Now.nodes' = nodes'
  BY DEF Now, Impl
<1>2. Uses(Now)' = UsesNext
  BY <1>1 DEF Uses, Keepers, UsesNext
<1>3. Referenced(Now)' <=> /\ Uses(Now)' \in [DOMAIN computed' -> Nat]
                           /\ \A d \in DOMAIN computed' : Half(arena', d.kv, Uses(Now)'[d])
                                                          /\ Half(arena', d.mamba, Uses(Now)'[d])
  BY <1>1 DEF Referenced, Backed, Half
<1> QED BY <1>2, <1>3 DEF Backed

\* A call that becomes a cache whose references are owned, and issues no id.
LEMMA BecomeReferenced ==
  ASSUME RefInv, NEW c, Referenced(c), Become(c), c.arena.nextId = arena.nextId,
         UNCHANGED <<computed, held>>
  PROVE  RefInv'
<1>1. nodes' = c.nodes /\ arena' = c.arena /\ computed' = computed /\ held' = held
  BY DEF Become
<1>2. arena'.nextId = arena.nextId
  BY <1>1
<1>3. \A d : {n \in DOMAIN nodes' : nodes'[n].state = d} = Keepers(c, d)
  BY <1>1 DEF Keepers
<1>4. UsesNext = Uses(c)
  BY <1>1, <1>3 DEF UsesNext, Uses
<1>5. Backed(arena', DOMAIN computed', UsesNext)
  BY <1>1, <1>4 DEF Referenced
<1>6. Referenced(Now)'
  BY <1>5, ReferencedNext
<1>7. Apart(DOMAIN computed)'
  BY <1>1 DEF RefInv, Apart, DescriptorValid, HandleValid
<1> QED BY <1>1, <1>2, <1>6, <1>7 DEF RefInv

\* A caller's call: only the arena and the callers' own references change.
LEMMA CallerReferenced ==
  ASSUME RefInv, UNCHANGED <<impl, computed>>, arena'.nextId = arena.nextId,
         Keeping(Now), NEW d \in DOMAIN computed, NEW k \in Nat,
         held \in [DOMAIN computed -> Nat], held' = [held EXCEPT ![d] = k],
         NEW uses, uses = [e \in DOMAIN computed |->
                             IF e = d THEN k + (Uses(Now)[d] - held[d]) ELSE Uses(Now)[e]],
         Backed(arena', DOMAIN computed, uses)
  PROVE  RefInv'
<1>1. nodes' = nodes /\ computed' = computed
  BY DEF impl
<1>2. ASSUME NEW e \in DOMAIN computed
      PROVE  held'[e] + (IF HasArena THEN Cardinality(Keepers(Now, e)) ELSE 0) = uses[e]
  <2>1. Uses(Now)[e] = held[e] + (IF HasArena THEN Cardinality(Keepers(Now, e)) ELSE 0)
    BY DEF Uses
  <2>2. Uses(Now)[e] \in Nat /\ held[e] \in Nat
    BY DEF RefInv, Referenced, Backed
  <2>3. (IF HasArena THEN Cardinality(Keepers(Now, e)) ELSE 0) = Uses(Now)[e] - held[e]
    <3>1. CASE HasArena
      <4>1. Cardinality(Keepers(Now, e)) \in Nat
        BY KeepersCounted
      <4> QED BY <2>1, <2>2, <3>1, <4>1
    <3>2. CASE ~HasArena
      BY <2>1, <2>2, <3>2
    <3> QED BY <3>1, <3>2
  <2> QED BY <2>2, <2>3
<1>3. \A e : {n \in DOMAIN nodes' : nodes'[n].state = e} = Keepers(Now, e)
  BY <1>1 DEF Keepers, Now, Impl
<1>4. UsesNext = uses
  BY <1>1, <1>2, <1>3 DEF UsesNext
<1>5. Backed(arena', DOMAIN computed', UsesNext)
  BY <1>1, <1>4
<1>6. Referenced(Now)'
  BY <1>5, ReferencedNext
<1>7. Apart(DOMAIN computed)'
  BY <1>1 DEF RefInv, Apart, DescriptorValid, HandleValid
<1> QED BY <1>1, <1>6, <1>7 DEF RefInv


LEMMA DropReferenced ==
  ASSUME RefInv, Callers, Keeping(Now), NEW d \in DOMAIN computed, DropState(d)
  PROVE  RefInv'
<1> DEFINE u == Uses(Now)
           less == [u EXCEPT ![d] = u[d] - 1]
<1>1. /\ UNCHANGED <<impl, computed>> /\ held[d] # 0
      /\ arena' = ReleaseDescriptor(arena, d) /\ held' = [held EXCEPT ![d] = held[d] - 1]
  BY DEF DropState, Callers
<1>2. held \in [DOMAIN computed -> Nat] /\ held[d] - 1 \in Nat
  BY <1>1 DEF Callers
<1>3. u[d] # 0 /\ u \in [DOMAIN computed -> Nat]
  <2>1. u[d] = held[d] + (IF HasArena THEN Cardinality(Keepers(Now, d)) ELSE 0)
    BY DEF Uses
  <2>2. Cardinality(Keepers(Now, d)) \in Nat
    BY KeepersCounted
  <2>3. u \in [DOMAIN computed -> Nat]
    BY DEF RefInv, Referenced, Backed
  <2> QED BY <1>1, <1>2, <2>1, <2>2, <2>3
<1>4. Apart(DOMAIN computed) /\ Backed(arena, DOMAIN computed, u)
  BY DEF RefInv, Referenced, Now, Impl
<1> HIDE DEF u
<1>5. Backed(arena', DOMAIN computed, less)
  BY <1>1, <1>3, <1>4, ReleaseBacked
<1>6. arena'.nextId = arena.nextId
  <2>1. \A a, h : Release(a, h).nextId = a.nextId
    BY DEF Release, WithRefs, Arena
  <2> QED BY <1>1, <2>1 DEF ReleaseDescriptor
<1>7. less = [e \in DOMAIN computed |-> IF e = d THEN (held[d] - 1) + (u[d] - held[d]) ELSE u[e]]
  <2>1. u[d] \in Nat /\ held[d] \in Nat
    BY <1>2, <1>3
  <2>2. (held[d] - 1) + (u[d] - held[d]) = u[d] - 1
    BY <2>1
  <2> QED BY <1>3, <2>2
<1> HIDE DEF less
<1> QED BY <1>1, <1>2, <1>5, <1>6, <1>7, CallerReferenced DEF u

LEMMA AdoptReferenced ==
  ASSUME RefInv, Callers, Keeping(Now), MatchIsForRequest, AdoptMatch
  PROVE  RefInv'
<1> DEFINE u == Uses(Now)
           d == match.state
           r == RetainDescriptor(arena, d)
           more == [u EXCEPT ![d] = u[d] + 1]
<1>1. /\ UNCHANGED <<impl, computed>> /\ arena' = r[1]
      /\ held' = IF r[2] THEN [held EXCEPT ![d] = held[d] + 1] ELSE held
      /\ d \in DOMAIN computed
  BY DEF AdoptMatch, MatchIsForRequest
<1>2. held \in [DOMAIN computed -> Nat] /\ held[d] \in Nat /\ held[d] + 1 \in Nat
  BY <1>1 DEF Callers
<1>3. u \in [DOMAIN computed -> Nat]
  BY DEF RefInv, Referenced, Backed
<1>4. Apart(DOMAIN computed) /\ Backed(arena, DOMAIN computed, u)
  BY DEF RefInv, Referenced, Now, Impl
<1>5. arena'.nextId = arena.nextId
  <2>1. \A a, h : Release(a, h).nextId = a.nextId /\ Retain(a, h)[1].nextId = a.nextId
    BY DEF Release, Retain, WithRefs, Arena
  <2> QED BY <1>1, <2>1 DEF RetainDescriptor
<1> HIDE DEF u, d
<1>6. CASE u[d] = 0
  <2>1. r = <<arena, FALSE>> /\ ~r[2]
    BY <1>1, <1>4, <1>6, RetainBacked, RefusedIsFalse
  <2> HIDE DEF r
  <2>2. arena' = arena /\ held' = held
    BY <1>1, <2>1
  <2>3. held' = [held EXCEPT ![d] = held[d]]
    BY <1>2, <2>2
  <2>4. Backed(arena', DOMAIN computed, u)
    BY <1>4, <2>2
  <2>5. u = [e \in DOMAIN computed |-> IF e = d THEN held[d] + (u[d] - held[d]) ELSE u[e]]
    BY <1>2, <1>3
  <2> QED BY <1>1, <1>2, <1>5, <2>3, <2>4, <2>5, CallerReferenced DEF u
<1>7. CASE u[d] # 0
  <2>1. r[2] = TRUE /\ Backed(r[1], DOMAIN computed, more)
    BY <1>1, <1>4, <1>7, RetainBacked
  <2>2. more = [e \in DOMAIN computed |-> IF e = d THEN (held[d] + 1) + (u[d] - held[d]) ELSE u[e]]
    <3>1. u[d] \in Nat /\ held[d] \in Nat
      BY <1>1, <1>2, <1>3
    <3>2. (held[d] + 1) + (u[d] - held[d]) = u[d] + 1
      BY <3>1
    <3> QED BY <1>3, <3>2
  <2> HIDE DEF r, more
  <2>3. held' = [held EXCEPT ![d] = held[d] + 1] /\ Backed(arena', DOMAIN computed, more)
    BY <1>1, <2>1
  <2> QED BY <1>1, <1>2, <1>5, <2>2, <2>3, CallerReferenced DEF u
<1> QED BY <1>6, <1>7


LEMMA ComputeReferenced ==
  ASSUME RefInv, Callers, Keeping(Now), NEW p \in Identities, ComputeState(p)
  PROVE  RefInv'
<1> DEFINE D == DOMAIN computed
           u == Uses(Now)
           kvBytes == KvBytesPerToken * Len(p.tokens)
           r == AllocateDescriptor(arena, kvBytes, MambaBytes)
           g == r[2]
           granted == {g} \ {NoDescriptor}
           i == arena.nextId
<1>1. /\ UNCHANGED impl /\ arena' = r[1]
      /\ computed' = [d \in D \cup granted |-> IF d \in granted THEN p ELSE computed[d]]
      /\ held' = [d \in DOMAIN held \cup granted |-> IF d \in granted THEN 1 ELSE held[d]]
  BY DEF ComputeState
<1>2. /\ i \in Nat \ {0} /\ Apart(D)
      /\ \A d \in D : /\ d.kv.id \in Nat /\ d.kv.id < i /\ d.mamba.id \in Nat /\ d.mamba.id < i
  BY DEF RefInv
<1>3. /\ Elsewhere(arena, r[1], {i, i + 1})
      /\ g # NoDescriptor => /\ DescriptorValid(g) /\ g.kv.id = i /\ g.mamba.id = i + 1
                             /\ r[1].nextId = i + 2
                             /\ Half(r[1], g.kv, 1) /\ Half(r[1], g.mamba, 1)
  <2> DEFINE a == arena
             kb == kvBytes
  <2>1. a.nextId \in Nat \ {0}
    BY <1>2
  <2> HIDE DEF a, kb
  <2>2. LET q == AllocateDescriptor(a, kb, MambaBytes) IN
        /\ Elsewhere(a, q[1], {a.nextId, a.nextId + 1})
        /\ q[2] # NoDescriptor =>
             /\ DescriptorValid(q[2])
             /\ q[2].kv.id = a.nextId /\ q[2].mamba.id = a.nextId + 1
             /\ q[1].nextId = a.nextId + 2
             /\ Half(q[1], q[2].kv, 1) /\ Half(q[1], q[2].mamba, 1)
    BY ONLY <2>1, AllocateBothHalves
  <2> QED BY <2>2 DEF a, kb
<1>4. r[1].nextId \in Nat /\ r[1].nextId >= i
  BY <1>2, AllocateDescriptorFresh
<1>5. held \in [D -> Nat]
  BY DEF Callers
<1>6. Backed(arena, D, u)
  BY DEF RefInv, Referenced, Now, Impl
<1> HIDE DEF r, u
<1>7. /\ DOMAIN computed' = D \cup granted
      /\ \A d \in granted : d = g /\ g # NoDescriptor /\ held'[d] = 1
      /\ \A d \in D : d \notin granted /\ held'[d] = held[d]
  <2>1. \A d \in D : d \notin granted
    BY <1>2, <1>3
  <2> QED BY <1>1, <1>5, <2>1
<1> HIDE DEF granted
<1>8. Apart(D \cup granted)
  <2>1. \A d \in granted : DescriptorValid(d) /\ d.kv.id # d.mamba.id
    BY <1>2, <1>3, <1>7
  <2>2. ASSUME NEW d \in D, NEW e \in granted
        PROVE  {d.kv.id, d.mamba.id} \cap {e.kv.id, e.mamba.id} = {}
    <3>1. d.kv.id # i /\ d.kv.id # i + 1 /\ d.mamba.id # i /\ d.mamba.id # i + 1
      BY <1>2
    <3>2. e.kv.id = i /\ e.mamba.id = i + 1
      BY <1>3, <1>7
    <3> QED BY <3>1, <3>2
  <2>3. \A d, e \in granted : d = e
    BY <1>7
  <2> QED BY <1>2, <2>1, <2>2, <2>3 DEF Apart
<1>9. /\ \A d \in D : UsesNext[d] = u[d]
      /\ \A d \in granted : UsesNext[d] = 1
      /\ UsesNext \in [D \cup granted -> Nat]
  <2>1. nodes' = nodes
    BY <1>1 DEF impl
  <2>2. \A d : {n \in DOMAIN nodes' : nodes'[n].state = d} = Keepers(Now, d)
    BY <2>1 DEF Keepers, Now, Impl
  <2>3. ASSUME NEW d \in D PROVE UsesNext[d] = u[d]
    BY <1>7, <2>2 DEF UsesNext, Uses, u
  <2>4. ASSUME NEW d \in granted PROVE UsesNext[d] = 1
    <3>1. \A n \in DOMAIN nodes : nodes[n].state \in D
      BY DEF Keeping, Known, Now, Impl
    <3>2. Keepers(Now, d) = {}
      BY <1>7, <3>1 DEF Keepers, Now, Impl
    <3>3. Cardinality({}) = 0
      BY FS_EmptySet
    <3>4. {n \in DOMAIN nodes' : nodes'[n].state = d} = {}
      BY <2>2, <3>2
    <3>5. UsesNext[d] =
            held'[d] + (IF HasArena THEN Cardinality({n \in DOMAIN nodes' : nodes'[n].state = d}) ELSE 0)
      BY <1>7 DEF UsesNext
    <3>6. UsesNext[d] = 1 + (IF HasArena THEN 0 ELSE 0)
      BY <1>7, <3>3, <3>4, <3>5
    <3> QED BY <3>6
  <2>5. UsesNext = [d \in D \cup granted |-> UsesNext[d]]
    BY <1>7 DEF UsesNext
  <2>6. \A d \in D : u[d] \in Nat
    BY <1>6 DEF Backed
  <2> QED BY <2>3, <2>4, <2>5, <2>6
<1>10. ASSUME NEW d \in D PROVE Half(r[1], d.kv, UsesNext[d]) /\ Half(r[1], d.mamba, UsesNext[d])
  <2>1. Half(arena, d.kv, u[d]) /\ Half(arena, d.mamba, u[d])
    BY <1>6 DEF Backed
  <2>2. d.kv.id \notin {i, i + 1} /\ d.mamba.id \notin {i, i + 1}
    BY <1>2
  <2> QED BY <1>3, <1>9, <2>1, <2>2, HalfElsewhere
<1>11. ASSUME NEW d \in granted PROVE Half(r[1], d.kv, UsesNext[d]) /\ Half(r[1], d.mamba, UsesNext[d])
  BY <1>3, <1>7, <1>9
<1>12. Backed(arena', DOMAIN computed', UsesNext)
  BY <1>1, <1>7, <1>9, <1>10, <1>11 DEF Backed
<1>13. Referenced(Now)'
  BY <1>12, ReferencedNext
<1>14. Apart(DOMAIN computed)'
  BY <1>7, <1>8 DEF Apart, DescriptorValid, HandleValid
<1>15. /\ arena'.nextId \in Nat \ {0}
       /\ \A d \in D \cup granted : /\ d.kv.id \in Nat /\ d.kv.id < arena'.nextId
                                    /\ d.mamba.id \in Nat /\ d.mamba.id < arena'.nextId
  <2>1. arena'.nextId \in Nat /\ arena'.nextId >= i
    BY <1>1, <1>4
  <2>2. \A d \in D : /\ d.kv.id \in Nat /\ d.kv.id < arena'.nextId
                     /\ d.mamba.id \in Nat /\ d.mamba.id < arena'.nextId
    BY <1>2, <2>1
  <2>3. \A d \in granted : /\ d.kv.id \in Nat /\ d.kv.id < arena'.nextId
                           /\ d.mamba.id \in Nat /\ d.mamba.id < arena'.nextId
    BY <1>1, <1>2, <1>3, <1>7
  <2> QED BY <1>2, <2>1, <2>2, <2>3
<1> QED BY <1>7, <1>13, <1>14, <1>15 DEF RefInv

LEMMA NextRefInv == IInv /\ CallersOK /\ BudgetInv /\ RefInv /\ [Next]_vars => RefInv'
<1> SUFFICES ASSUME IInv, CallersOK, BudgetInv, RefInv, [Next]_vars PROVE RefInv'
  OBVIOUS
<1>1. /\ Sound(Now, {}, {}) /\ Kept(Now) /\ StatesSized /\ Now.nodes = nodes /\ Now.arena = arena
      /\ MatchIsForRequest
  BY NowSound DEF BudgetInv, Now, Impl, IInv
<1>2. Keeping(Now) /\ Callers /\ Referenced(Now)
  BY <1>1, KeptKeeping DEF RefInv, CallersOK, Callers
<1>3. ASSUME NEW c, Referenced(c), Become(c), c.arena.nextId = arena.nextId, UNCHANGED callers
      PROVE  RefInv'
  BY <1>3, BecomeReferenced DEF callers
<1>4. ASSUME NEW slot \in Slots, NEW d \in DOMAIN computed, PublishConversationHead(slot, d)
      PROVE  RefInv'
  <2> DEFINE c == IF enabled THEN PublishedHead(Now, slot, computed[d], d) ELSE Now
  <2>1. Referenced(c)
    BY <1>1, <1>2, PublishedReferenced
  <2>2. c.arena.nextId = arena.nextId
    BY NowSound, PublishedSound, CacheIssuesNoId
  <2>3. Become(c) /\ UNCHANGED callers
    BY <1>4 DEF PublishConversationHead
  <2> HIDE DEF c
  <2> QED BY <1>3, <2>1, <2>2, <2>3
<1>5. ASSUME NEW d \in DOMAIN computed, PublishGlobalRoot(d) PROVE RefInv'
  <2> DEFINE c == IF enabled THEN PublishedRoot(Now, computed[d], d) ELSE Now
  <2>1. Referenced(c)
    BY <1>1, <1>2, PublishedReferenced
  <2>2. c.arena.nextId = arena.nextId
    BY NowSound, PublishedSound, CacheIssuesNoId
  <2>3. Become(c) /\ UNCHANGED callers
    BY <1>5 DEF PublishGlobalRoot
  <2> HIDE DEF c
  <2> QED BY <1>3, <2>1, <2>2, <2>3
<1>6. ASSUME UNCHANGED <<nodes, arena, callers>> PROVE RefInv'
  <2>1. nodes' = nodes /\ arena' = arena /\ computed' = computed /\ held' = held
    BY <1>6 DEF callers
  <2>2. \A d : {n \in DOMAIN nodes' : nodes'[n].state = d} = Keepers(Now, d)
    BY <1>1, <2>1 DEF Keepers
  <2>3. UsesNext = Uses(Now)
    BY <2>1, <2>2 DEF UsesNext, Uses
  <2>4. Backed(arena', DOMAIN computed', UsesNext)
    BY <1>1, <1>2, <2>1, <2>3 DEF Referenced
  <2>5. Referenced(Now)'
    BY <2>4, ReferencedNext
  <2>6. Apart(DOMAIN computed)'
    BY <2>1 DEF RefInv, Apart, DescriptorValid, HandleValid
  <2> QED BY <2>1, <2>5, <2>6 DEF RefInv
<1>7. ASSUME NEW conversation \in Conversations \cup {NoConversation},
             NEW allowPrompt \in BOOLEAN, NEW p \in Identities,
             Lookup(conversation, allowPrompt, p)
      PROVE  RefInv'
  <2>1. UNCHANGED callers
    BY <1>7 DEF Lookup
  <2>2. ASSUME NEW source, NEW n \in DOMAIN nodes, Hit(source, n, p) PROVE RefInv'
    <3>1. Become(Touch(Now, n))
      BY <2>2 DEF Hit
    <3>2. Referenced(Touch(Now, n))
      BY <1>1, <1>2, TouchReferenced
    <3>3. Touch(Now, n).arena = arena
      BY <1>1 DEF Touch, Impl
    <3> QED BY <1>3, <2>1, <3>1, <3>2, <3>3
  <2>3. Miss(p) => RefInv'
    BY <1>6, <2>1 DEF Miss, impl
  <2>4. Miss(p) \/ \E source : \E n \in DOMAIN nodes : Hit(source, n, p)
    BY <1>1, <1>7, LookupHits
  <2> QED BY <2>2, <2>3, <2>4
<1>8. Referenced(ResetImpl(Now)) /\ ResetImpl(Now).arena.nextId = arena.nextId
  BY <1>1, <1>2, ResetReferenced, CacheIssuesNoId
<1>9. ASSUME NEW on \in BOOLEAN, SetEnabled(on) PROVE RefInv'
  <2>1. Become(Now) \/ Become(ResetImpl(Now))
    BY <1>9, Zenon DEF SetEnabled
  <2>2. UNCHANGED callers
    BY <1>9 DEF SetEnabled
  <2> QED BY <1>1, <1>2, <1>3, <1>8, <2>1, <2>2
<1>10. ASSUME Clear PROVE RefInv'
  BY <1>3, <1>8, <1>10 DEF Clear
<1>11. ASSUME NEW p \in Identities, ComputeState(p) PROVE RefInv'
  BY <1>2, <1>11, ComputeReferenced
<1>12. ASSUME NEW d \in DOMAIN computed, DropState(d) PROVE RefInv'
  BY <1>2, <1>12, DropReferenced
<1>13. CASE AdoptMatch
  BY <1>1, <1>2, <1>13, AdoptReferenced
<1>14. CASE UNCHANGED vars
  BY <1>6, <1>14 DEF vars, impl
<1> QED BY <1>4, <1>5, <1>7, <1>9, <1>10, <1>11, <1>12, <1>13, <1>14 DEF Next


LEMMA RefInvariance == Spec => [](IInv /\ CallersOK /\ BudgetInv /\ RefInv)
<1>1. Init => CallersOK
  BY DEF Init, CallersOK
<1> QED BY <1>1, InitBudgetInv, NextBudgetInv, InitRefInv, NextRefInv, CallersStep, Invariance, PTL DEF Spec

\* A sum over a set of one.
LEMMA SumOfOne ==
  ASSUME NEW f, NEW x, f[x] \in Nat
  PROVE  MapThenSumSet(LAMBDA i : f[i], {x}) = f[x]
<1> DEFINE Steps(iter) == iter = [s \in SUBSET {x} |->
                            IF s = {} THEN 0
                            ELSE f[CHOOSE i \in s : TRUE] + iter[s \ {CHOOSE i \in s : TRUE}]]
           one == [s \in SUBSET {x} |-> IF s = {} THEN 0 ELSE f[x]]
           sum == CHOOSE iter : Steps(iter)
<1>1. MapThenSumSet(LAMBDA i : f[i], {x}) = sum[{x}]
  BY DEF MapThenSumSet, MapThenFoldSet
<1>2. SUBSET {x} = {{}, {x}} /\ (CHOOSE i \in {x} : TRUE) = x
  OBVIOUS
<1>3. {x} \ {x} = {} /\ {x} # {}
  OBVIOUS
<1>4. Steps(one)
  BY <1>2, <1>3
<1> HIDE DEF Steps, one
<1>5. Steps(sum)
  BY <1>4
<1> HIDE DEF sum
<1>6. sum[{}] = 0 /\ sum[{x}] = f[x] + sum[{}]
  BY <1>2, <1>3, <1>5 DEF Steps
<1> QED BY <1>1, <1>6

\* Whatever is published, replaced, displaced, evicted, reset, computed, dropped
\* or adopted, the references on an allocation are those its callers and its
\* nodes own: PrefixCache's Retain and Release calls are balanced.
THEOREM ReferencesBalanced == Spec => []ReferencesOwned
<1>1. ASSUME IInv, CallersOK, BudgetInv, RefInv PROVE ReferencesOwned
  <2> SUFFICES ASSUME NEW d \in DOMAIN computed, NEW h \in {d.kv, d.mamba}
               PROVE  Owners(h.id) = IF Names(arena, h) THEN arena.allocations[h.id].refs ELSE 0
    BY DEF ReferencesOwned
  <2>1. DOMAIN held = DOMAIN computed /\ held[d] \in Nat
    BY <1>1 DEF CallersOK
  <2>2. \A e \in DOMAIN computed : h.id \in {e.kv.id, e.mamba.id} <=> e = d
    BY <1>1 DEF RefInv, Apart
  <2>3. {e \in DOMAIN held : h.id \in {e.kv.id, e.mamba.id}} = {d}
    BY <2>1, <2>2
  <2>4. MapThenSumSet(LAMBDA e : held[e], {d}) = held[d]
    BY <2>1, SumOfOne
  <2>5. {n \in DOMAIN nodes : h.id \in {nodes[n].state.kv.id, nodes[n].state.mamba.id}} = Keepers(Now, d)
    <3>1. \A n \in DOMAIN nodes : nodes[n].state \in DOMAIN computed
      BY <1>1, NowSound DEF Sound, Known, Now, Impl
    <3> QED BY <2>2, <3>1 DEF Keepers, Now, Impl
  <2>6. Owners(h.id) = Uses(Now)[d]
    <3>1. Owners(h.id) = held[d] + (IF HasArena THEN Cardinality(Keepers(Now, d)) ELSE 0)
      BY <2>3, <2>4, <2>5 DEF Owners
    <3> QED BY <3>1 DEF Uses
  <2>7. Half(arena, h, Uses(Now)[d]) /\ Uses(Now)[d] \in Nat
    BY <1>1 DEF RefInv, Referenced, Backed, Now, Impl
  <2>8. HandleValid(h)
    BY <1>1 DEF RefInv, Apart, DescriptorValid
  <2> QED BY <2>6, <2>7, <2>8 DEF Half, Names
<1> QED BY <1>1, RefInvariance, PTL
==============================================================================
