-------------------------- MODULE MCHostExpertStore --------------------------
(***************************************************************************)
(* A small instance of the host expert store: four experts on two layers,  *)
(* of which a and b fill the cache, so that c takes one victim or both,    *)
(* and o is larger than the whole cache.                                   *)
(* Two threads call an LRU store, whose steps include those of a           *)
(* static one and evictions; one thread calls the static store and those   *)
(* whose policies look at more than the order of the accesses.             *)
(***************************************************************************)
EXTENDS HostExpertStore, TLC

CONSTANTS a, b, c, o, t1, t2

MCKeys == {a, b, c, o}
MCBytes == [k \in Keys |-> IF k = a THEN 1 ELSE IF k = c THEN 2 ELSE IF k = b THEN 3 ELSE 5]
MCLayer == [k \in Keys |-> IF k \in {a, o} THEN 1 ELSE 0]
MCThreads == {t1, t2}
MCCallers == [m \in Modes |-> IF m = "lru" THEN {t1, t2} ELSE {t1}]
MCMaxCalls == [m \in Modes |-> IF m \in {"lfu", "least_stale"} THEN 4 ELSE 3]
MCMaxAccessSets == [m \in Modes |-> IF m = "profiled" THEN 0 ELSE 1]
=============================================================================
