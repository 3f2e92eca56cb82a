------------------------ MODULE PrefixCacheContract ------------------------
(***************************************************************************)
(* What the prefix cache promises its callers, without node ids, the       *)
(* fingerprint index, the access clock, byte counts or reference counts.   *)
(*                                                                         *)
(* The store maps a prompt to the state last published for it and the      *)
(* roles it has: global root, and head of conversation slots.  A slot      *)
(* belongs to one prompt at most; a prompt without a role is forgotten; a  *)
(* publication may evict anything; nothing else may change the store       *)
(* except emptying it.  A lookup changes nothing, and returns a head of    *)
(* the conversation asked about before any root, and the longest root      *)
(* before a miss.                                                          *)
(***************************************************************************)
EXTENDS Integers, SequencesExt

CONSTANTS Identities, Conversations, NoConversation

VARIABLES
  store,      \* prompt -> its state, its slots, whether it is a root
  enabled,
  match,      \* the last answer given to a caller
  computed    \* state -> the prompt callers computed it for

vars == <<store, enabled, match, computed>>

Kinds == {"committed", "prompt"}
Slots == Kinds \X Conversations

NoMatch == [source |-> "none"]

Covers(cached, request) ==
  cached.context = request.context /\ IsPrefix(cached.tokens, request.tokens)

Empty == [p \in {} |-> 0]

Heads(slot) == {p \in DOMAIN store : slot \in store[p].slots}
Roots(request) ==
  {p \in DOMAIN store : store[p].root /\ Covers(p, request) /\ Len(p.tokens) > 0}

StateFor(state, p) == state \in DOMAIN computed /\ computed[state] = p

Init ==
  /\ store = Empty
  /\ computed = Empty
  /\ enabled = TRUE
  /\ match = NoMatch

\* What a publication to prompt "to" makes of prompt p: "to" gains the roles
\* and the published state, every other prompt loses the slots that moved.
EntryAfter(p, to, slots, root) ==
  IF p = to
  THEN [state |-> store'[p].state,
        slots |-> (IF p \in DOMAIN store THEN store[p].slots ELSE {}) \cup slots,
        root  |-> root \/ (p \in DOMAIN store /\ store[p].root)]
  ELSE [store[p] EXCEPT !.slots = @ \ slots]

Publish(to, slots, root) ==
  /\ enabled
  /\ DOMAIN store' \subseteq DOMAIN store \cup {to}
  /\ store' = [p \in DOMAIN store' |-> EntryAfter(p, to, slots, root)]
  /\ \A p \in DOMAIN store' : store'[p].root \/ store'[p].slots # {}
  /\ to \in DOMAIN store' => StateFor(store'[to].state, to)
  /\ UNCHANGED <<enabled, match, computed>>

PublishHead == \E to \in Identities, slot \in Slots : Publish(to, {slot}, FALSE)
PublishRoot == \E to \in Identities : Publish(to, {}, TRUE)

Answer(source, p, request) ==
  match' = [source |-> source, state |-> store[p].state,
            length |-> Len(p.tokens), request |-> request]

UsableHeads(kind, conversation, request) ==
  {p \in Heads(<<kind, conversation>>) : Covers(p, request)}

Lookup(conversation, allowPrompt, request) ==
  LET prompt == IF allowPrompt THEN UsableHeads("prompt", conversation, request) ELSE {}
      committed == UsableHeads("committed", conversation, request)
  IN
  /\ \/ enabled /\ \E p \in prompt : Answer("prompt", p, request)
     \/ enabled /\ prompt = {} /\ \E p \in committed : Answer("committed", p, request)
     \/ /\ enabled /\ prompt = {} /\ committed = {}
        /\ \E p \in Roots(request) :
             /\ \A q \in Roots(request) : Len(q.tokens) <= Len(p.tokens)
             /\ Answer("root", p, request)
     \/ /\ enabled => prompt = {} /\ committed = {} /\ Roots(request) = {}
        /\ match' = NoMatch
  /\ UNCHANGED <<store, enabled, computed>>

LookupAny ==
  \E conversation \in Conversations \cup {NoConversation},
     allowPrompt \in BOOLEAN, request \in Identities :
    Lookup(conversation, allowPrompt, request)

SetEnabled ==
  /\ enabled' = ~enabled
  /\ store' = IF enabled THEN Empty ELSE store
  /\ UNCHANGED <<match, computed>>

Clear ==
  /\ store' = Empty
  /\ UNCHANGED <<enabled, match, computed>>

\* A caller computes the state of one more prompt.
Compute ==
  /\ DOMAIN computed \subseteq DOMAIN computed'
  /\ \A state \in DOMAIN computed : computed'[state] = computed[state]
  /\ \A state \in DOMAIN computed' : computed'[state] \in Identities
  /\ UNCHANGED <<store, enabled, match>>

Next ==
  \/ PublishHead
  \/ PublishRoot
  \/ LookupAny
  \/ SetEnabled
  \/ Clear
  \/ Compute

Spec == Init /\ [][Next]_vars
=============================================================================
