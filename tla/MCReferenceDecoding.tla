------------------------- MODULE MCReferenceDecoding -------------------------
(***************************************************************************)
(* Three layers: one dense, one with an indexer of its own, one that       *)
(* shares it.  Two experts and two tokens, of which the first is routed to *)
(* both experts; one expert of the last layer is twice as large as the     *)
(* others, so that no cache holds everything and a put may be refused.     *)
(* Attention keeps two keys of up to three, and the second token scores    *)
(* higher than the first.  Each option set takes other branches of the     *)
(* loader: balanced with a layer cache, lru with sidecars, and batched.    *)
(***************************************************************************)
EXTENDS ReferenceDecoding, TLC

CONSTANTS s1, s2

MCSlots == {s1, s2}
Symmetry == Permutations(MCSlots)

MCScore == [t \in 1..2 |-> [k \in 1..2 |-> k - 1]]
MCRoute == [t \in 1..2 |-> IF t = 1 THEN {1, 2} ELSE {2}]
MCArgmax == [t \in 1..2 |-> 3 - t]

MCNames == ((1..3) \X (1..2)) \cup ((1..3) \X {AttentionTensors, IndexerTensors, MlpTensors})
MCSize == [name \in MCNames |-> IF name = <<3, 2>> THEN 2 ELSE 1]

Use(device, packed, batched, cacheExperts, layerCache, sparse) ==
    [device |-> device, packed |-> packed, batched |-> batched,
     cacheExperts |-> cacheExperts, layerCache |-> layerCache, sparse |-> sparse]

MCUses == {Use("layer_balanced", FALSE, FALSE, TRUE, 2, FALSE),
           Use("lru", TRUE, FALSE, FALSE, 0, TRUE),
           Use("layer_balanced", TRUE, TRUE, TRUE, 1, TRUE)}
=============================================================================
