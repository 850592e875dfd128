-------------------------- MODULE ReferenceDecoding --------------------------
(***************************************************************************)
(* GLM5XDecoderModelReference: a caller extends texts by chunks of tokens, *)
(* keeps the immutable state each forward pass returns, may go on from an  *)
(* older one, and may let the model generate.  A pass takes the layers one *)
(* after the other, out of core: a layer object, its trunk tensors and the *)
(* experts its tokens are routed to are loaded when they are needed, and a *)
(* read that fails ends the pass with the caches as they are by then.      *)
(*                                                                         *)
(* A hidden value is the record of what it was computed from, so two equal *)
(* values came from the same tokens, positions, weights and attended keys. *)
(***************************************************************************)
EXTENDS ReferenceExperts

CONSTANTS
    Slots, Tokens,
    Depth,          \* layer_count; Layers are 1..Depth
    DenseLayers,    \* mlp_layer_types: the layers without experts
    FullIndexers,   \* indexer_types: the layers with an indexer of their own
    AttentionTensors, IndexerTensors, MlpTensors,  \* the trunk tensors of a layer
    IndexTopK,      \* index_topk
    Score, Route, Argmax,  \* scores of keys, experts and prediction by token
    TrunkCapacity,  \* trunk_cache_capacity_bytes, 0 for no cache
    Uses,           \* the option sets of from_bundle that are explored
    MaxText, MaxChunk, MaxCalls, MaxFaults   \* bounds of a run

ASSUME ReferenceDecodingAssumption ==
    /\ Depth \in Nat \ {0} /\ Layers = 1..Depth /\ 1 \in FullIndexers
    /\ IndexTopK \in Nat \ {0} /\ TrunkCapacity \in Nat
    /\ Score \in [Tokens -> [Tokens -> Nat]] /\ Argmax \in [Tokens -> Tokens]
    /\ Route \in [Tokens -> SUBSET Experts \ {{}}]
    /\ FullIndexers \subseteq Layers
    /\ Layers \X {AttentionTensors, IndexerTensors, MlpTensors} \subseteq Names
    /\ Uses \subseteq [device : Policies, packed : BOOLEAN, batched : BOOLEAN,
                       cacheExperts : BOOLEAN, layerCache : 0..Depth, sparse : BOOLEAN]

VARIABLES
    use,     \* the options of the model
    tiers,   \* the expert caches
    trunk,   \* GLM5XTrunkTensorCache
    kept,    \* _layer_cache: layer numbers, the oldest first
    own,     \* _expert_cache of the layer objects in kept
    slot,    \* the text and state the caller holds in each slot
    run,     \* the forward pass on its way, or None
    calls,   \* calls of the caller so far
    faults   \* reads that failed so far

vars == <<use, tiers, trunk, kept, own, slot, run, calls, faults>>

\* empty_state; a layer's state are its attention keys and its indexer keys.
EmptyState == [l \in Layers |-> [attention |-> <<>>, dsa |-> <<>>]]

NoExperts == [e \in Experts |-> None]

Init ==
    /\ use \in Uses
    /\ tiers = EmptyTiers /\ trunk = EmptyCache
    /\ kept = <<>> /\ own = [l \in Layers |-> NoExperts]
    /\ slot = [s \in Slots |-> [text |-> <<>>, state |-> EmptyState]]
    /\ run = None /\ calls = 0 /\ faults = 0

----------------------------------------------------------------------------
\* Layers.

\* _bundle_indexer_sources: a shared indexer takes the weights of the last full one.
IndexerSource(l) == Max({m \in FullIndexers : m <= l})

\* The names from_open_bundle reads for a layer, before its experts.
TensorNames(l) ==
    << <<l, AttentionTensors>>, <<IndexerSource(l), IndexerTensors>>, <<l, MlpTensors>> >>

\* _read_tensors: cached names first, then the rest, cached as they are decoded.
\* The artifacts of the first n names that miss can be read.
ReadTensors(names, n) ==
    LET misses  == {i \in 1..3 : ~Holds(trunk, names[i])}
        good    == {i \in misses : Cardinality({j \in misses : j <= i}) <= n}
        Read(cache, i) == IF i \in good
                          THEN LruPut(cache, names[i], Stored(names[i]), TrunkCapacity) ELSE cache
    IN  [cache  |-> Read(Read(Read(Get(Get(Get(trunk, names[1]), names[2]), names[3]), 1), 2), 3),
         values |-> {IF i \in misses THEN Stored(names[i]) ELSE trunk.value[names[i]] : i \in 1..3},
         failed |-> misses # good]

\* _load_layer: the layer becomes the youngest of the cache, if there is one.
KeepLayer(l) ==
    LET order == Append(SelectSeq(kept, LAMBDA m : m # l), l)
    IN  IF Len(order) > use.layerCache THEN Tail(order) ELSE order

----------------------------------------------------------------------------
\* Attention over the keys kept so far and those of the chunk.

\* select_topk_incremental: the first min(index_topk, keys) by score, where a
\* key behind the query has minus infinity; equal scores are ranked in order.
TopKeys(keys, token, at) ==
    LET value(i) == IF keys[i].at > at THEN 0 ELSE 1 + Score[token][keys[i].of.token]
        ahead(i, j) == value(i) > value(j) \/ (value(i) = value(j) /\ i < j)
    IN  {i \in DOMAIN keys : Cardinality({j \in DOMAIN keys : ahead(j, i)}) < IndexTopK}

\* _sparse_topk_attention gathers the selected keys and masks those behind.
Gathered(keys, chosen, at) == {keys[i] : i \in {j \in chosen : keys[j].at <= at}}

\* The dense form masks all keys: those behind, then those not selected.
Masked(keys, chosen, at) == {k \in ToSet(keys) : k.at <= at /\ \E i \in chosen : keys[i] = k}

Attended(keys, chosen, at) ==
    IF use.sparse THEN Gathered(keys, chosen, at) ELSE Masked(keys, chosen, at)

\* The keys of a chunk, with their rotary positions.
ChunkKeys(hidden, start) == [i \in DOMAIN hidden |-> [of |-> hidden[i], at |-> start + i]]

\* The output of a layer for one token.
Output(l, input, at, saw, tensors, experts) ==
    [token |-> input.token, layer |-> l, at |-> at, from |-> input, saw |-> saw,
     tensors |-> tensors, experts |-> experts]

\* The experts of a token in a layer.
Routed(l, token) == IF l \in DenseLayers THEN {} ELSE Route[token]

----------------------------------------------------------------------------
\* The caller.

Embedding(token) == [token |-> token, layer |-> 0]

\* Mutant: a pass that continues a text starts its positions one too early.
LateStart(state) == IF state[1].attention = <<>> THEN 0 ELSE Len(state[1].attention) - 1

\* forward_tokens: the position of the first token of the chunk.
PositionStart(state) == Len(state[1].attention)

Pass(s, text, state, tokens, more) ==
    [slot |-> s, tokens |-> tokens, text |-> text, layer |-> 1, more |-> more,
     start |-> PositionStart(state), hidden |-> [i \in DOMAIN tokens |-> Embedding(tokens[i])],
     given |-> state, next |-> EmptyState]

Chunks == UNION {[1..n -> Tokens] : n \in 1..MaxChunk}

\* forward_tokens on the state of a slot.
Forward(s) ==
    /\ run = None /\ calls < MaxCalls /\ calls' = calls + 1
    /\ \E tokens \in Chunks :
          /\ Len(slot[s].text) + Len(tokens) <= MaxText
          /\ run' = Pass(s, slot[s].text, slot[s].state, tokens, 0)
    /\ UNCHANGED <<use, tiers, trunk, kept, own, slot, faults>>

\* generate: the prompt, then as many tokens as the bound allows, each run through the model again.
Generate(s) ==
    /\ run = None /\ calls < MaxCalls /\ calls' = calls + 1
    /\ \E prompt \in Chunks :
          /\ Len(prompt) < MaxText
          /\ run' = Pass(s, <<>>, EmptyState, prompt, MaxText - Len(prompt))
    /\ UNCHANGED <<use, tiers, trunk, kept, own, slot, faults>>

\* The caller keeps a state in a second place, to go on from it later.
Branch(s, t) ==
    /\ run = None /\ slot' = [slot EXCEPT ![t] = slot[s]]
    /\ UNCHANGED <<use, tiers, trunk, kept, own, run, calls, faults>>

\* The layer object, once its trunk tensors and experts are asked for: if all
\* were read, its output.
Compute(tensors, loads) ==
    LET l       == run.layer
        cached  == l \in ToSet(kept)
        new     == ChunkKeys(run.hidden, run.start)
        keys    == run.given[l].attention \o new
        index   == run.given[l].dsa \o new
        out(i)  == LET at == run.start + i  h == run.hidden[i] IN
                   Output(l, h, at, Attended(keys, TopKeys(index, h.token, at), at),
                          IF cached THEN ToSet(TensorNames(l)) ELSE tensors.values,
                          {loads.weights[e] : e \in Routed(l, h.token)})
    IN
    IF ~cached /\ tensors.failed
    THEN run' = None /\ trunk' = tensors.cache /\ UNCHANGED <<tiers, kept, own>>
    ELSE /\ trunk' = IF cached THEN trunk ELSE tensors.cache
         /\ kept' = KeepLayer(l)
         /\ own' = [m \in Layers |-> IF m \notin ToSet(kept') THEN NoExperts
                                     ELSE IF m = l /\ use.cacheExperts THEN loads.weights
                                     ELSE own[m]]
         /\ tiers' = loads.tiers
         /\ run' = IF loads.failed THEN None
                   ELSE [run EXCEPT !.layer = l + 1, !.hidden = [i \in DOMAIN @ |-> out(i)],
                                    !.next[l] = [attention |-> keys, dsa |-> index]]

\* Of the trunk tensors of the layer n can be read, of its experts all but broken.
Layer(n, broken) ==
    LET l       == run.layer
        ids     == UNION {Routed(l, run.tokens[i]) : i \in DOMAIN run.tokens}
        mine    == IF l \in ToSet(kept) THEN own[l] ELSE NoExperts
    IN  Compute(ReadTensors(TensorNames(l), n), LoadExperts(use, tiers, mine, l, ids, broken))

RunLayer ==
    /\ run # None /\ run.layer <= Depth
    /\ Layer(3, None)
    /\ UNCHANGED <<use, slot, calls, faults>>

\* A read of the pass fails and raises through it: nothing is returned.
ReadFails ==
    /\ run # None /\ run.layer <= Depth /\ faults < MaxFaults
    /\ faults' = faults + 1
    /\ \/ (\E n \in 0..2 : Layer(n, None)) \/ \E e \in Experts : Layer(3, e)
    /\ run' = None
    /\ UNCHANGED <<use, slot, calls>>

\* The pass returns its state; generate goes on with the predicted token.
Finish ==
    /\ run # None /\ run.layer > Depth
    /\ slot' = [slot EXCEPT ![run.slot] = [text |-> run.text \o run.tokens, state |-> run.next]]
    /\ run' = IF run.more = 0 THEN None
              ELSE Pass(run.slot, run.text \o run.tokens, run.next,
                        <<Argmax[Last(run.hidden).token]>>, run.more - 1)
    /\ UNCHANGED <<use, tiers, trunk, kept, own, calls, faults>>

Next ==
    \/ \E s \in Slots : Forward(s) \/ Generate(s) \/ \E t \in Slots \ {s} : Branch(s, t)
    \/ RunLayer \/ ReadFails \/ Finish

Spec == Init /\ [][Next]_vars

----------------------------------------------------------------------------
\* The model computed once over a whole text, one token after the other, from
\* the artifacts: what every way of reaching the text must agree with.

TopEarlier(text, i) ==
    LET ahead(j, k) == LET a == Score[text[i]][text[j]]  b == Score[text[i]][text[k]]
                       IN  a > b \/ (a = b /\ j < k)
    IN  {j \in 1..i : Cardinality({k \in 1..i : ahead(k, j)}) < IndexTopK}

\* A layer over what the layer under it made of the text.
Above(text, l, under) ==
    [i \in DOMAIN text |->
        Output(l, under[i], i, {[of |-> under[j], at |-> j] : j \in TopEarlier(text, i)},
               ToSet(TensorNames(l)), {<<l, e>> : e \in Routed(l, text[i])})]

Whole(text) ==
    LET value[l \in 0..Depth] ==
          IF l = 0 THEN [i \in DOMAIN text |-> Embedding(text[i])]
          ELSE Above(text, l, value[l - 1])
    IN  value

WholeState(text) ==
    LET value == Whole(text) IN
    [l \in Layers |-> [attention |-> ChunkKeys(value[l - 1], 0), dsa |-> ChunkKeys(value[l - 1], 0)]]

\* Every state the caller holds, and every hidden value of a pass on its way,
\* is that of its text computed at once: however the text was cut into chunks,
\* whatever was generated, from whichever older state it went on, whichever
\* cache an expert or a tensor came from, and though passes in between failed
\* half way.
StatesAreRecomputed ==
    /\ \A s \in Slots : slot[s].state = WholeState(slot[s].text)
    /\ run # None => LET text == run.text \o run.tokens IN
          run.hidden = [i \in DOMAIN run.tokens |->
                           Whole(text)[run.layer - 1][Len(run.text) + i]]

\* A cache counts the bytes of its entries, stays within its capacity, and
\* has them all in one order of use.
IsExact(cache, capacity) ==
    LET Before(x, y) == <<x, y>> \in cache.older IN
    /\ cache.bytes = Charged(Kept(cache)) /\ cache.bytes <= capacity
    /\ cache.older \subseteq Kept(cache) \X Kept(cache)
    /\ \A x, y \in Kept(cache) : x # y <=> Before(x, y) \/ Before(y, x)
    /\ \A x, y, z \in Kept(cache) : Before(x, y) /\ Before(y, z) => Before(x, z)

\* The caches are exact through failures and refused puts; what is protected
\* is in the cache, and no layer protects more than its share.
CachesAreExact ==
    /\ IsExact(tiers.device, DeviceCapacity)
    /\ IsExact(tiers.payloads, PayloadCapacity) /\ IsExact(trunk, TrunkCapacity)
    /\ \A l \in Layers : LET guard == tiers.device.protected[l] IN
          Cardinality(guard) <= Protected /\ guard \subseteq OfLayer(tiers.device, l)

\* Under layer_balanced a layer never loses its protected experts, and never
\* drops below its share because of the puts of other layers.
SharesAreKept ==
    [][use.device = "layer_balanced" => \A l \in Layers :
          /\ tiers.device.protected[l] \subseteq tiers'.device.protected[l]
          /\ Cardinality(OfLayer(tiers.device, l)) >= Protected =>
                Cardinality(OfLayer(tiers'.device, l)) >= Protected]_vars
=============================================================================
