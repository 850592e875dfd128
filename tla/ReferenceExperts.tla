--------------------------- MODULE ReferenceExperts ---------------------------
(***************************************************************************)
(* How the Python reference model gets the weights of its experts: a cache *)
(* in each layer object, decoded experts shared by all layers (the device  *)
(* cache), packed sidecars, raw payloads of the bundle, and the artifacts. *)
(*                                                                         *)
(* A cache is an OrderedDict with the bytes it counts: a value for each of *)
(* its keys, and the pairs <<x, y>> of them in which x was used before y.  *)
(* What is stored under a key is kept, so that a lookup under a wrong key  *)
(* would hand out the weights of another expert.                           *)
(***************************************************************************)
EXTENDS Naturals, Sequences, FiniteSetsExt, SequencesExt

CONSTANTS Layers, Experts, None,
    ExpertCount,     \* num_experts; they are numbered from one here
    Names,           \* what is cached: experts and trunk tensors
    Size, MaxSize,   \* bytes of each name, and the largest of them
    DeviceCapacity,  \* expert_device_cache_capacity_bytes
    PayloadCapacity, \* expert_cache_capacity_bytes, 0 for no cache
    Protected        \* protected_entries_per_layer

INSTANCE ExpertBytes WITH Keys <- Names, Bytes <- Size, MaxBytes <- MaxSize

Keys == Layers \X Experts

ASSUME ReferenceExpertsAssumption ==
    /\ ExpertCount \in Nat /\ Experts = 1..ExpertCount
    /\ IsFiniteSet(Names) /\ Keys \subseteq Names /\ None \notin Names
    /\ MaxSize \in Nat /\ Size \in [Names -> 1..MaxSize]
    /\ DeviceCapacity \in Nat \ {0} /\ PayloadCapacity \in Nat
    /\ Protected \in Nat \ {0}

\* expert_device_cache_policy; no cache is made when its capacity is zero.
Policies == {"none", "lru", "layer_balanced"}

EmptyCache == [value |-> [k \in {} |-> None], older |-> {}, bytes |-> 0,
               protected |-> [l \in Layers |-> {}]]

Kept(cache) == DOMAIN cache.value

Holds(cache, k) == k \in Kept(cache)

\* The key of S that was used longest ago.
Oldest(cache, S) == CHOOSE x \in S : \A y \in S \ {x} : <<x, y>> \in cache.older

Pop(cache, k) ==
    [value |-> Restrict(cache.value, Kept(cache) \ {k}),
     older |-> {p \in cache.older : p[1] # k /\ p[2] # k},
     bytes |-> IF Holds(cache, k) THEN cache.bytes - Size[k] ELSE cache.bytes,
     protected |-> cache.protected]

Add(cache, k, v) ==
    [value |-> [x \in Kept(cache) \cup {k} |-> IF x = k THEN v ELSE cache.value[x]],
     older |-> cache.older \cup (Kept(cache) \X {k}),
     bytes |-> cache.bytes + Size[k],
     protected |-> cache.protected]

\* A hit makes the entry the youngest.
Get(cache, k) ==
    IF Holds(cache, k) THEN Add(Pop(cache, k), k, cache.value[k]) ELSE cache

OfLayer(cache, l) == {k \in Kept(cache) : k[1] = l}

\* Mutant: only the count of the layer is asked, as before decision D-0090.
CountOnly(cache) == {k \in Kept(cache) : Cardinality(OfLayer(cache, k[1])) > Protected}

\* Entries that layer_balanced may evict: of a layer that has more than its
\* share, and not protected there.
Evictable(cache) ==
    {k \in Kept(cache) : /\ Cardinality(OfLayer(cache, k[1])) > Protected
                         /\ k \notin cache.protected[k[1]]}

Victims(cache, balanced) == IF balanced THEN Evictable(cache) ELSE Kept(cache)

EvictOne(cache, k) == [Pop(cache, k) EXCEPT !.protected[k[1]] = @ \ {k}]

\* One round of the loop of put: has it room, or nothing that may go?
MakeRoom(cache, size, capacity, balanced) ==
    IF cache.bytes + size <= capacity \/ Victims(cache, balanced) = {} THEN cache
    ELSE EvictOne(cache, Oldest(cache, Victims(cache, balanced)))

\* The oldest entries go until size more bytes fit.
Room(cache, size, capacity, balanced) ==
    LET round[n \in 0..Cardinality(Kept(cache))] ==
          IF n = 0 THEN cache ELSE MakeRoom(round[n - 1], size, capacity, balanced)
    IN  round[Cardinality(Kept(cache))]

\* Mutant: only one entry goes, whatever the new one needs.
LruPutOnce(cache, k, v, capacity) ==
    IF Size[k] > capacity THEN cache
    ELSE Add(MakeRoom(Pop(cache, k), Size[k], capacity, FALSE), k, v)

LruPut(cache, k, v, capacity) ==
    IF Size[k] > capacity THEN cache
    ELSE Add(Room(Pop(cache, k), Size[k], capacity, FALSE), k, v)

\* The first entries of a layer become its protected ones.  A put that finds
\* no more room is refused: what it has evicted by then stays evicted, and the
\* entry it would have replaced is put back as the youngest.
BalancedPut(cache, k, v) ==
    LET room  == Room(Pop(cache, k), Size[k], DeviceCapacity, TRUE)
        guard == cache.protected[k[1]]
    IN  IF Size[k] > DeviceCapacity THEN cache
        ELSE IF room.bytes + Size[k] <= DeviceCapacity
        THEN [Add(room, k, v) EXCEPT !.protected[k[1]] =
                 IF k \in guard \/ Cardinality(guard) < Protected THEN @ \cup {k} ELSE @]
        ELSE IF Holds(cache, k) THEN Add(room, k, cache.value[k]) ELSE room

----------------------------------------------------------------------------
\* tiers: [device, payloads, packed]; packed has the sidecars that exist.

EmptyTiers == [device |-> EmptyCache, payloads |-> EmptyCache, packed |-> [k \in Keys |-> None]]

\* What the artifacts hold under a name.
Stored(k) == k

DeviceHolds(use, tiers, k) == use.device # "none" /\ Holds(tiers.device, k)

DevicePut(use, tiers, k, v) ==
    CASE use.device = "lru" -> [tiers EXCEPT !.device = LruPut(@, k, v, DeviceCapacity)]
      [] use.device = "layer_balanced" -> [tiers EXCEPT !.device = BalancedPut(@, k, v)]
      [] OTHER -> tiers

PackedHolds(use, tiers, k) == use.packed /\ tiers.packed[k] # None

\* A decoded expert is packed beside the bundle, then kept on the device.
Decode(use, tiers, k, payload) ==
    DevicePut(use, [tiers EXCEPT !.packed[k] = IF use.packed THEN payload ELSE @], k, payload)

\* What each stage of a loading does with the caches for one expert.
Stage(name, use, tiers, k, v) ==
    CASE name = "on device"  -> [tiers EXCEPT !.device = Get(@, k)]
      [] name = "in sidecar" -> DevicePut(use, tiers, k, v)
      [] name = "in payload" -> [tiers EXCEPT !.payloads = Get(@, k)]
      [] name = "was read"   -> [tiers EXCEPT !.payloads = LruPut(@, k, v, PayloadCapacity)]
      [] name = "decode"     -> Decode(use, tiers, k, v)

\* A stage takes its experts in increasing order.
Each(name, use, tiers, l, ids, value) ==
    LET upTo[n \in 0..ExpertCount] ==
          IF n = 0 THEN tiers
          ELSE IF n \in ids THEN Stage(name, use, upTo[n - 1], <<l, n>>, value[n])
          ELSE upTo[n - 1]
    IN  upTo[ExpertCount]

\* The key under which the loader caches the decoded expert.
CacheKey(l, e) == <<l, e>>

\* load_experts, and load_expert for a single one: device, sidecars and bundle
\* are each asked for all the experts still missing, and of the bundle every
\* extent is read before a payload is cached.  A loading is [tiers, weights,
\* failed]; the artifact of the expert broken cannot be read.
Load(use, l, so, ids, broken) ==
    LET key(e)   == CacheKey(l, e)
        tiers    == so.tiers
        onDevice == {e \in ids : DeviceHolds(use, tiers, key(e))}
        sidecar  == {e \in ids \ onDevice : PackedHolds(use, tiers, key(e))}
        rest     == ids \ (onDevice \cup sidecar)
        payload  == {e \in rest : Holds(tiers.payloads, key(e))}
        found    == [e \in Experts |->
                       CASE e \in onDevice -> tiers.device.value[key(e)]
                         [] e \in sidecar  -> tiers.packed[key(e)]
                         [] e \in payload  -> tiers.payloads.value[key(e)]
                         [] OTHER          -> Stored(key(e))]
        After(name, t, some) == Each(name, use, t, l, some, found)
        asked    == After("in payload", After("in sidecar", After("on device", tiers, onDevice),
                                              sidecar), payload)
    IN  IF broken \in rest \ payload
        THEN [tiers |-> asked, weights |-> so.weights, failed |-> TRUE]
        ELSE [tiers |-> After("decode", After("was read", asked, rest \ payload), rest),
              weights |-> [e \in Experts |-> IF e \in ids THEN found[e] ELSE so.weights[e]],
              failed |-> FALSE]

\* The experts of ids that the layer object has not cached in own.
Missing(own, ids) == {e \in ids : own[e] = None}

\* One of the experts of missing, unless a read before it failed.
LoadNext(use, l, so, missing, broken, e) ==
    IF e \in missing /\ ~so.failed THEN Load(use, l, so, {e}, broken) ELSE so

\* _load_experts: what the layer object has not is loaded as a batch when
\* expert_load_workers is above one, else one by one until a read fails.
LoadExperts(use, tiers, own, l, ids, broken) ==
    LET missing == Missing(own, ids)
        none    == [tiers |-> tiers, weights |-> own, failed |-> FALSE]
        upTo[n \in 0..ExpertCount] ==
          IF n = 0 THEN none ELSE LoadNext(use, l, upTo[n - 1], missing, broken, n)
    IN  IF use.batched THEN Load(use, l, none, missing, broken) ELSE upTo[ExpertCount]
=============================================================================
